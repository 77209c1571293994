---------------------------- MODULE StoreProofs ----------------------------
(***************************************************************************)
(* Proofs about the store, for any number of prompts, branches, contents,  *)
(* callers and commits.  The inductive invariant StoreInv adds to the      *)
(* properties of Store.tla what ties the three tables and the frames of    *)
(* calls in progress to the history variable dag: a hash that a ref, a     *)
(* parent or a frame of prompt u holds is one that a write to u returned.  *)
(***************************************************************************)
EXTENDS Store, Induction, SequenceTheorems, TLAPS

\* Parents are rows stored before their children.
ParentsOlder ==
  \A i \in DOMAIN commits : commits[i].parent < i /\ commits[i].parent2 < i

\* A prompt's history is stored, closed under parents, and holds every row
\* stored under the prompt's URI and the tip of every branch of it.
HistoryOwned ==
  /\ \A u \in Uri : dag[u] \subseteq DOMAIN commits
  /\ \A u \in Uri : \A i \in dag[u] :
       /\ commits[i].parent \in dag[u] \cup {NoHash}
       /\ commits[i].parent2 \in dag[u] \cup {NoHash}
  /\ \A i \in DOMAIN commits : i \in dag[commits[i].uri]
  /\ \A u \in Uri, b \in Branch : refs[u][b] \in dag[u] \cup {NoHash}

\* What a call in progress has read is in the history of its prompt.
FrameOwned(f) ==
  /\ f.op = "commit" =>
       /\ f.parent \in dag[f.uri] \cup {NoHash}
       /\ f.parent2 \in dag[f.uri] \cup {NoHash}
       /\ f.parent2 # NoHash => /\ f.parent # NoHash
                                /\ f.content = commits[f.parent2].content
  /\ f.op = "merge" => f.parent \in dag[f.uri]
  /\ f.op \in {"branch", "set"} => f.hash \in dag[f.uri]

FramesOwned == \A p \in Proc : FrameOwned(call[p])

\* No two rows describe the same node.
OneRowPerNode ==
  \A i, j \in DOMAIN commits :
    SameNode(commits[i], commits[j].content, commits[j].parent,
             commits[j].parent2, commits[j].meta) => i = j

StoreInv ==
  /\ TypeOK
  /\ ParentsOlder
  /\ HistoryOwned
  /\ FramesOwned
  /\ OneRowPerNode
  /\ MergeTakesTheirs
  /\ HeadIsMainTip

-----------------------------------------------------------------------------
\* A frame is of the kind its op names.
LEMMA FrameKind ==
  ASSUME NEW f \in Frame
  PROVE  /\ f.op = "commit" => f \in CommitFrame
         /\ f.op = "merge" => f \in MergeFrame
         /\ f.op \in {"branch", "set"} => f \in RefFrame
  BY DEF Frame, Idle, CommitFrame, MergeFrame, RefFrame

\* A step that only replaces the frame of one caller, by one that holds
\* hashes of its own prompt, keeps the invariant.
LEMMA FrameStep ==
  ASSUME StoreInv, NEW p \in Proc, NEW f \in Frame, FrameOwned(f),
         call' = [call EXCEPT ![p] = f], UNCHANGED Tables
  PROVE  StoreInv'
<1>1. TypeOK'
  BY DEF StoreInv, TypeOK, Tables
<1>2. FramesOwned'
  <2> SUFFICES ASSUME NEW q \in Proc PROVE FrameOwned(call[q])'
    BY DEF FramesOwned
  <2>1. call'[q] = IF q = p THEN f ELSE call[q]
    BY DEF StoreInv, TypeOK
  <2>2. FrameOwned(call[q])
    BY DEF StoreInv, FramesOwned
  <2> QED BY <2>1, <2>2 DEF FrameOwned, Tables
<1>3. (ParentsOlder /\ HistoryOwned /\ OneRowPerNode)'
  BY DEF StoreInv, Tables, ParentsOlder, HistoryOwned, OneRowPerNode, SameNode
<1>4. (MergeTakesTheirs /\ HeadIsMainTip)'
  BY DEF StoreInv, Tables, MergeTakesTheirs, HeadIsMainTip, Tip
<1> QED BY <1>1, <1>2, <1>3, <1>4 DEF StoreInv

\* Returning to the caller drops the frame.
LEMMA IdleFrame == Idle \in Frame /\ FrameOwned(Idle)
  BY DEF Frame, Idle, FrameOwned

\* A tip that exists is a stored row of the prompt's history.
LEMMA TipOwned ==
  ASSUME StoreInv, NEW u \in Uri, NEW b \in Branch
  PROVE  /\ Tip(u, b) \in dag[u] \cup {NoHash}
         /\ Tip(u, b) # NoHash =>
              /\ Tip(u, b) \in Hash
              /\ Tip(u, b) \in DOMAIN commits
              /\ commits[Tip(u, b)] \in Row
<1>1. refs[u][b] \in Hash \cup {NoHash}
  BY DEF StoreInv, TypeOK
<1>2. refs[u][b] \in dag[u] \cup {NoHash} /\ dag[u] \subseteq DOMAIN commits
  BY DEF StoreInv, HistoryOwned
<1>3. \A i \in DOMAIN commits : commits[i] \in Row
  BY DEF StoreInv, TypeOK
<1> QED BY <1>1, <1>2, <1>3 DEF Tip

-----------------------------------------------------------------------------
\* The calls' reads: each leaves a frame that holds only what it found.
LEMMA ReadSteps ==
  ASSUME StoreInv, NEW p \in Proc,
         \/ \E u \in Uri, b \in Branch, c \in Content, m \in Meta :
              Commit(p, u, b, c, m)
         \/ \E u \in Uri, into, from \in Branch, m \in Meta :
              Merge(p, u, into, from, m)
         \/ MergeFrom(p)
         \/ \E u \in Uri, name, from \in Branch : CreateBranch(p, u, name, from)
         \/ \E u \in Uri, b \in Branch, h \in Hash : SetBranch(p, u, b, h)
         \/ Abort(p)
  PROVE  StoreInv'
<1>0. call[p] \in Frame /\ FrameOwned(call[p])
  BY DEF StoreInv, TypeOK, FramesOwned
<1>1. ASSUME NEW u \in Uri, NEW b \in Branch, NEW c \in Content, NEW m \in Meta,
             Commit(p, u, b, c, m)
      PROVE  StoreInv'
  <2> DEFINE f == [op |-> "commit", uri |-> u, branch |-> b, content |-> c,
                   parent |-> Tip(u, b), parent2 |-> NoHash, meta |-> m]
  <2>1. f \in Frame
    BY TipOwned DEF Frame, CommitFrame
  <2>2. FrameOwned(f)
    BY TipOwned DEF FrameOwned
  <2> QED BY <1>1, <2>1, <2>2, FrameStep DEF Commit
<1>2. ASSUME NEW u \in Uri, NEW into \in Branch, NEW from \in Branch,
             NEW m \in Meta, Merge(p, u, into, from, m)
      PROVE  StoreInv'
  <2> DEFINE f == [op |-> "merge", uri |-> u, branch |-> into, from |-> from,
                   parent |-> Tip(u, into), meta |-> m]
  <2>1. f \in Frame
    BY <1>2, TipOwned DEF Frame, MergeFrame, Merge
  <2>2. FrameOwned(f)
    BY <1>2, TipOwned DEF FrameOwned, Merge
  <2> QED BY <1>2, <2>1, <2>2, FrameStep DEF Merge
<1>3. CASE MergeFrom(p)
  <2> DEFINE g == call[p]
             src == Tip(g.uri, g.from)
             f == [op |-> "commit", uri |-> g.uri, branch |-> g.branch,
                   content |-> commits[src].content, parent |-> g.parent,
                   parent2 |-> src, meta |-> g.meta]
  <2>1. g \in MergeFrame /\ g.parent \in dag[g.uri] /\ g.op = "merge"
    BY <1>0, <1>3, FrameKind DEF MergeFrom, FrameOwned
  <2>2. g.uri \in Uri /\ g.from \in Branch /\ src # NoHash
    BY <1>3, <2>1 DEF MergeFrom, MergeFrame
  <2>3. /\ src \in Hash /\ src \in dag[g.uri]
        /\ commits[src].content \in Content
    BY <2>2, TipOwned DEF Row
  <2>4. f \in Frame
    BY <2>1, <2>2, <2>3 DEF Frame, CommitFrame, MergeFrame
  <2>5. g.parent # NoHash
    BY <2>1 DEF MergeFrame, Hash, NoHash
  <2>6. FrameOwned(f)
    BY <2>1, <2>3, <2>5 DEF FrameOwned
  <2>7. call' = [call EXCEPT ![p] = f] /\ UNCHANGED Tables
    BY <1>3 DEF MergeFrom
  <2> QED BY <2>4, <2>6, <2>7, FrameStep
<1>4. ASSUME NEW u \in Uri, NEW name \in Branch, NEW from \in Branch,
             CreateBranch(p, u, name, from)
      PROVE  StoreInv'
  <2> DEFINE f == [op |-> "branch", uri |-> u, branch |-> name,
                   hash |-> Tip(u, from)]
  <2>1. f \in Frame
    BY <1>4, TipOwned DEF Frame, RefFrame, CreateBranch
  <2>2. FrameOwned(f)
    BY <1>4, TipOwned DEF FrameOwned, CreateBranch
  <2> QED BY <1>4, <2>1, <2>2, FrameStep DEF CreateBranch
<1>5. ASSUME NEW u \in Uri, NEW b \in Branch, NEW h \in Hash,
             SetBranch(p, u, b, h)
      PROVE  StoreInv'
  <2> DEFINE f == [op |-> "set", uri |-> u, branch |-> b, hash |-> h]
  <2>1. f \in Frame
    BY DEF Frame, RefFrame
  <2>2. FrameOwned(f)
    BY <1>5 DEF FrameOwned, SetBranch, StoreInv, HistoryOwned
  <2> QED BY <1>5, <2>1, <2>2, FrameStep DEF SetBranch
<1>6. CASE Abort(p)
  BY <1>6, IdleFrame, FrameStep DEF Abort, Return
<1> QED BY <1>1, <1>2, <1>3, <1>4, <1>5, <1>6

-----------------------------------------------------------------------------
\* The transactions that only move a branch: to a commit of the prompt, and
\* with the served HEAD if the branch is main and was, or is, served.
LEMMA MoveStep ==
  ASSUME StoreInv, NEW p \in Proc, NEW u \in Uri, NEW b \in Branch, NEW h \in dag[u],
         refs' = [refs EXCEPT ![u][b] = h],
         \/ Materialize(u, b, commits[h].content)
         \/ refs[u][b] = NoHash /\ UNCHANGED prompts,
         Return(p), UNCHANGED <<commits, dag>>
  PROVE  StoreInv'
<1>1. h \in Hash /\ h \in DOMAIN commits /\ h # NoHash
  BY DEF StoreInv, TypeOK, HistoryOwned, Hash, NoHash
<1>2. commits[h].content \in Content
  <2>1. commits[h] \in Row
    BY <1>1 DEF StoreInv, TypeOK
  <2> QED BY <2>1 DEF Row
<1>3. /\ refs' \in [Uri -> [Branch -> Hash \cup {NoHash}]]
      /\ \A v \in Uri, d \in Branch :
           refs'[v][d] = IF v = u /\ d = b THEN h ELSE refs[v][d]
  BY <1>1 DEF StoreInv, TypeOK
<1>4. /\ prompts' \in [Uri -> Content \cup {None}]
      /\ \A v \in Uri : v # u => prompts'[v] = prompts[v]
      /\ b # Main => prompts' = prompts
  BY <1>2 DEF StoreInv, TypeOK, Materialize
<1>5. TypeOK'
  BY <1>3, <1>4, IdleFrame DEF StoreInv, TypeOK, Return
<1>6. HistoryOwned'
  BY <1>3 DEF StoreInv, HistoryOwned
<1>7. FramesOwned'
  <2> SUFFICES ASSUME NEW q \in Proc PROVE FrameOwned(call[q])'
    BY DEF FramesOwned
  <2>1. call'[q] = IF q = p THEN Idle ELSE call[q]
    BY DEF StoreInv, TypeOK, Return
  <2>2. FrameOwned(call[q]) /\ FrameOwned(Idle)
    BY IdleFrame DEF StoreInv, FramesOwned
  <2> QED BY <2>1, <2>2 DEF FrameOwned
<1>8. (ParentsOlder /\ OneRowPerNode /\ MergeTakesTheirs)'
  BY DEF StoreInv, ParentsOlder, OneRowPerNode, MergeTakesTheirs, SameNode
<1>9. HeadIsMainTip'
  <2> SUFFICES ASSUME NEW v \in Uri \ PutUri, prompts'[v] # None
               PROVE  /\ refs'[v][Main] # NoHash
                      /\ prompts'[v] = commits[refs'[v][Main]].content
    BY DEF HeadIsMainTip, Tip
  <2>1. prompts[v] # None => /\ refs[v][Main] # NoHash
                             /\ prompts[v] = commits[refs[v][Main]].content
    BY DEF StoreInv, HeadIsMainTip, Tip
  <2>2. CASE v # u \/ b # Main
    BY <2>1, <2>2, <1>3, <1>4, MainAssumption
  <2>3. CASE v = u /\ b = Main
    <3>1. CASE Materialize(u, b, commits[h].content)
      BY <2>3, <3>1, <1>1, <1>3 DEF Materialize, StoreInv, TypeOK
    <3>2. CASE refs[u][b] = NoHash /\ UNCHANGED prompts
      BY <2>1, <2>3, <3>2
    <3> QED BY <3>1, <3>2
  <2> QED BY <2>2, <2>3
<1> QED BY <1>5, <1>6, <1>7, <1>8, <1>9 DEF StoreInv

LEMMA RefSteps ==
  ASSUME StoreInv, NEW p \in Proc, BranchInsert(p) \/ SetBranchTx(p)
  PROVE  StoreInv'
<1> DEFINE f == call[p]
<1>1. f \in RefFrame /\ f.hash \in dag[f.uri]
  BY FrameKind DEF StoreInv, TypeOK, FramesOwned, FrameOwned, BranchInsert, SetBranchTx
<1>2. f.uri \in Uri /\ f.branch \in Branch
  BY <1>1 DEF RefFrame
<1>3. CASE BranchInsert(p)
  BY <1>1, <1>2, <1>3, MoveStep DEF BranchInsert, Tip
<1>4. CASE SetBranchTx(p)
  BY <1>1, <1>2, <1>4, MoveStep DEF SetBranchTx
<1> QED BY <1>3, <1>4

LEMMA PutStep ==
  ASSUME StoreInv, NEW u \in Uri, NEW c \in Content, Put(u, c)
  PROVE  StoreInv'
<1>1. TypeOK'
  BY DEF StoreInv, TypeOK, Put
<1>2. HeadIsMainTip'
  BY DEF StoreInv, TypeOK, HeadIsMainTip, Tip, Put
<1>3. FramesOwned'
  BY DEF StoreInv, FramesOwned, FrameOwned, Put
<1>4. (ParentsOlder /\ HistoryOwned /\ OneRowPerNode /\ MergeTakesTheirs)'
  BY DEF StoreInv, ParentsOlder, HistoryOwned, OneRowPerNode,
         MergeTakesTheirs, SameNode, Put
<1> QED BY <1>1, <1>2, <1>3, <1>4 DEF StoreInv

-----------------------------------------------------------------------------
\* What commit's transaction does to the commits table: the node's row is
\* stored, once, and every other row is as it was.
LEMMA InsertFacts ==
  ASSUME StoreInv, NEW f \in CommitFrame, NEW h,
         h = CommitHash(f.content, f.parent, f.parent2, f.meta),
         InsertCommit(h, f)
  PROVE  /\ commits' \in Seq(Row)
         /\ DOMAIN commits' = DOMAIN commits \cup {h}
         /\ \A i \in DOMAIN commits : commits'[i] = commits[i]
         /\ SameNode(commits'[h], f.content, f.parent, f.parent2, f.meta)
         /\ h \notin DOMAIN commits =>
              /\ h = Len(commits) + 1
              /\ commits'[h].uri = f.uri
              /\ \A i \in DOMAIN commits :
                   ~ SameNode(commits[i], f.content, f.parent, f.parent2, f.meta)
         /\ h \in Nat \ {0}
         /\ Len(commits') = IF h \in DOMAIN commits THEN Len(commits) ELSE h
<1>0. commits \in Seq(Row)
  BY DEF StoreInv, TypeOK
<1>1. /\ NewRow(f) \in Row
      /\ SameNode(NewRow(f), f.content, f.parent, f.parent2, f.meta)
      /\ NewRow(f).uri = f.uri
  BY DEF NewRow, CommitFrame, Row, SameNode
<1>2. CASE \E i \in DOMAIN commits :
             SameNode(commits[i], f.content, f.parent, f.parent2, f.meta)
  <2>1. h \in DOMAIN commits
        /\ SameNode(commits[h], f.content, f.parent, f.parent2, f.meta)
    BY <1>2 DEF CommitHash
  <2>2. commits' = commits
    BY <2>1 DEF InsertCommit
  <2>3. h \in Nat \ {0}
    BY <1>0, <2>1
  <2> QED BY <1>0, <2>1, <2>2, <2>3
<1>3. CASE \A i \in DOMAIN commits :
             ~ SameNode(commits[i], f.content, f.parent, f.parent2, f.meta)
  <2>1. h = Len(commits) + 1
    BY <1>3 DEF CommitHash
  <2>2. h \notin DOMAIN commits
    BY <1>0, <2>1
  <2>3. commits' = Append(commits, NewRow(f))
    BY <2>2 DEF InsertCommit
  <2>4. /\ commits' \in Seq(Row)
        /\ Len(commits') = h
        /\ \A i \in 1 .. Len(commits) : commits'[i] = commits[i]
        /\ commits'[h] = NewRow(f)
    BY <1>0, <1>1, <2>1, <2>3
  <2>5. DOMAIN commits = 1 .. Len(commits) /\ DOMAIN commits' = 1 .. h
    BY <1>0, <2>4
  <2>6. DOMAIN commits' = DOMAIN commits \cup {h} /\ h \in Nat \ {0}
    BY <1>0, <2>1, <2>5
  <2> QED BY <1>1, <1>3, <2>1, <2>2, <2>4, <2>5, <2>6
<1> QED BY <1>2, <1>3

LEMMA CommitTxStep ==
  ASSUME StoreInv, NEW p \in Proc, CommitTx(p)
  PROVE  StoreInv'
<1> DEFINE f == call[p]
           h == CommitHash(f.content, f.parent, f.parent2, f.meta)
<1>1. f \in CommitFrame /\ FrameOwned(f) /\ f.op = "commit"
  BY FrameKind DEF StoreInv, TypeOK, FramesOwned, CommitTx
<1>2. /\ h <= MaxCommits
      /\ InsertCommit(h, f)
      /\ refs' = [refs EXCEPT ![f.uri][f.branch] = h]
      /\ Materialize(f.uri, f.branch, f.content)
      /\ dag' = [dag EXCEPT ![f.uri] = @ \cup {h}]
      /\ call' = [call EXCEPT ![p] = Idle]
  BY DEF CommitTx, Return
<1> HIDE DEF h, f
<1>3. /\ commits' \in Seq(Row)
      /\ DOMAIN commits' = DOMAIN commits \cup {h}
      /\ \A i \in DOMAIN commits : commits'[i] = commits[i]
      /\ SameNode(commits'[h], f.content, f.parent, f.parent2, f.meta)
      /\ h \notin DOMAIN commits =>
           /\ h = Len(commits) + 1
           /\ commits'[h].uri = f.uri
           /\ \A i \in DOMAIN commits :
                ~ SameNode(commits[i], f.content, f.parent, f.parent2, f.meta)
      /\ h \in Nat \ {0}
      /\ Len(commits') = IF h \in DOMAIN commits THEN Len(commits) ELSE h
  BY <1>1, <1>2, InsertFacts DEF h
<1>4. /\ f.uri \in Uri /\ f.branch \in Branch /\ f.content \in Content
      /\ f.parent \in dag[f.uri] \cup {NoHash}
      /\ f.parent2 \in dag[f.uri] \cup {NoHash}
      /\ f.parent2 # NoHash =>
           f.parent # NoHash /\ f.content = commits[f.parent2].content
  BY <1>1 DEF CommitFrame, FrameOwned
<1>5. h \in Hash /\ h # NoHash
  BY <1>2, <1>3, MaxCommitsAssumption DEF Hash, NoHash
<1>6. \A v \in Uri : /\ dag[v] \subseteq DOMAIN commits
                     /\ dag'[v] = IF v = f.uri THEN dag[v] \cup {h} ELSE dag[v]
                     /\ dag[v] \subseteq dag'[v]
  BY <1>2 DEF StoreInv, TypeOK, HistoryOwned
<1>7. \A v \in Uri, d \in Branch :
        refs'[v][d] = IF v = f.uri /\ d = f.branch THEN h ELSE refs[v][d]
  BY <1>2, <1>4 DEF StoreInv, TypeOK
<1>8. TypeOK'
  <2>1. Len(commits') <= MaxCommits
    BY <1>2, <1>3 DEF StoreInv, TypeOK
  <2>2. refs' \in [Uri -> [Branch -> Hash \cup {NoHash}]]
    BY <1>2, <1>4, <1>5 DEF StoreInv, TypeOK
  <2>3. prompts' \in [Uri -> Content \cup {None}]
    BY <1>2, <1>4 DEF StoreInv, TypeOK, Materialize
  <2>4. call' \in [Proc -> Frame]
    BY <1>2, IdleFrame DEF StoreInv, TypeOK
  <2>5. dag' \in [Uri -> SUBSET Hash]
    BY <1>2, <1>5 DEF StoreInv, TypeOK
  <2> QED BY <1>3, <2>1, <2>2, <2>3, <2>4, <2>5 DEF TypeOK
<1>9. ParentsOlder'
  <2>1. \A i \in DOMAIN commits : commits[i].parent < i /\ commits[i].parent2 < i
    BY DEF StoreInv, ParentsOlder
  <2>2. CASE h \in DOMAIN commits
    BY <1>3, <2>1, <2>2 DEF ParentsOlder
  <2>3. CASE h \notin DOMAIN commits
    <3>1. DOMAIN commits = 1 .. Len(commits) /\ Len(commits) \in Nat
      BY DEF StoreInv, TypeOK
    <3>2. commits'[h].parent = f.parent /\ commits'[h].parent2 = f.parent2
      BY <1>3 DEF SameNode
    <3>3. f.parent \in 0 .. Len(commits) /\ f.parent2 \in 0 .. Len(commits)
      <4>1. /\ f.parent \in DOMAIN commits \cup {NoHash}
            /\ f.parent2 \in DOMAIN commits \cup {NoHash}
        BY <1>4, <1>6
      <4> QED BY <3>1, <4>1 DEF NoHash
    <3>4. commits'[h].parent < h /\ commits'[h].parent2 < h
      BY <1>3, <2>3, <3>1, <3>2, <3>3
    <3> QED BY <1>3, <2>1, <3>4 DEF ParentsOlder
  <2> QED BY <2>2, <2>3
<1>10. HistoryOwned'
  <2>1. \A v \in Uri : dag'[v] \subseteq DOMAIN commits'
    BY <1>3, <1>6
  <2>2. ASSUME NEW v \in Uri, NEW i \in dag'[v]
        PROVE  /\ commits'[i].parent \in dag'[v] \cup {NoHash}
               /\ commits'[i].parent2 \in dag'[v] \cup {NoHash}
    <3>1. CASE i \in dag[v]
      BY <1>3, <1>6, <3>1 DEF StoreInv, HistoryOwned
    <3>2. CASE i \notin dag[v]
      <4>1. v = f.uri /\ i = h
        <5>1. v # f.uri => dag'[v] = dag[v]
          BY <1>6
        <5>2. v = f.uri => dag'[v] = dag[v] \cup {h}
          BY <1>6
        <5> QED BY <2>2, <3>2, <5>1, <5>2
      <4>2. commits'[i].parent = f.parent /\ commits'[i].parent2 = f.parent2
        BY <1>3, <4>1 DEF SameNode
      <4> QED BY <1>4, <1>6, <4>1, <4>2
    <3> QED BY <3>1, <3>2
  <2>3. ASSUME NEW i \in DOMAIN commits' PROVE i \in dag'[commits'[i].uri]
    <3>1. CASE i \in DOMAIN commits
      <4>1. commits[i] \in Row
        BY <3>1 DEF StoreInv, TypeOK
      <4>2. commits[i].uri \in Uri /\ i \in dag[commits[i].uri]
        BY <3>1, <4>1 DEF StoreInv, HistoryOwned, Row
      <4> QED BY <1>3, <1>6, <3>1, <4>2
    <3>2. CASE i \notin DOMAIN commits
      <4>1. i = h /\ commits'[i].uri = f.uri
        BY <1>3, <2>3, <3>2
      <4> QED BY <1>4, <1>6, <4>1
    <3> QED BY <3>1, <3>2
  <2>4. \A v \in Uri, d \in Branch : refs'[v][d] \in dag'[v] \cup {NoHash}
    <3> SUFFICES ASSUME NEW v \in Uri, NEW d \in Branch
                 PROVE  refs'[v][d] \in dag'[v] \cup {NoHash}
      OBVIOUS
    <3>1. CASE v = f.uri /\ d = f.branch
      <4>1. refs'[v][d] = h
        BY <1>7, <3>1
      <4>2. dag'[v] = dag[v] \cup {h}
        BY <1>6, <3>1
      <4> QED BY <4>1, <4>2
    <3>2. CASE ~ (v = f.uri /\ d = f.branch)
      <4>1. refs'[v][d] = refs[v][d]
        BY <1>7, <3>2
      <4>2. refs[v][d] \in dag[v] \cup {NoHash}
        BY DEF StoreInv, HistoryOwned
      <4>3. dag[v] \subseteq dag'[v]
        BY <1>6
      <4> QED BY <4>1, <4>2, <4>3
    <3> QED BY <3>1, <3>2
  <2> QED BY <2>1, <2>2, <2>3, <2>4 DEF HistoryOwned
<1>11. FramesOwned'
  <2> SUFFICES ASSUME NEW q \in Proc PROVE FrameOwned(call[q])'
    BY DEF FramesOwned
  <2>1. CASE q = p
    BY <1>2, <2>1 DEF StoreInv, TypeOK, FrameOwned, Idle
  <2>2. CASE q # p
    <3>1. call'[q] = call[q] /\ call[q] \in Frame /\ FrameOwned(call[q])
      BY <1>2, <2>2 DEF StoreInv, TypeOK, FramesOwned
    <3>2. call[q].op \in {"commit", "merge", "branch", "set"} => call[q].uri \in Uri
      BY <3>1, FrameKind DEF CommitFrame, MergeFrame, RefFrame
    <3>3. CASE call[q].op = "commit"
      <4>1. dag[call[q].uri] \subseteq dag'[call[q].uri]
        BY <1>6, <3>2, <3>3
      <4>2. call[q].parent2 # NoHash =>
              commits'[call[q].parent2] = commits[call[q].parent2]
        BY <1>3, <1>6, <3>1, <3>2, <3>3 DEF FrameOwned
      <4> QED BY <3>1, <3>3, <4>1, <4>2 DEF FrameOwned
    <3>4. CASE call[q].op # "commit"
      BY <1>6, <3>1, <3>2, <3>4 DEF FrameOwned
    <3> QED BY <3>3, <3>4
  <2> QED BY <2>1, <2>2
<1>12. OneRowPerNode'
  <2> SUFFICES ASSUME NEW i \in DOMAIN commits', NEW j \in DOMAIN commits',
                      SameNode(commits'[i], commits'[j].content, commits'[j].parent,
                               commits'[j].parent2, commits'[j].meta)
               PROVE  i = j
    BY DEF OneRowPerNode, SameNode
  <2>1. CASE i \in DOMAIN commits /\ j \in DOMAIN commits
    BY <1>3, <2>1 DEF StoreInv, OneRowPerNode, SameNode
  <2>2. CASE i \notin DOMAIN commits \/ j \notin DOMAIN commits
    BY <1>3, <2>2 DEF SameNode
  <2> QED BY <2>1, <2>2
<1>13. MergeTakesTheirs'
  <2> SUFFICES ASSUME NEW i \in DOMAIN commits', commits'[i].parent2 # NoHash
               PROVE  /\ commits'[i].parent # NoHash
                      /\ commits'[i].content = commits'[commits'[i].parent2].content
    BY DEF MergeTakesTheirs
  <2>1. CASE i \in DOMAIN commits
    <3>1. commits[i].uri \in Uri /\ commits[i] \in Row
      <4>1. commits[i] \in Row
        BY <2>1 DEF StoreInv, TypeOK
      <4> QED BY <4>1 DEF Row
    <3>2. commits[i].parent2 \in DOMAIN commits
      BY <1>3, <1>6, <2>1, <3>1 DEF StoreInv, HistoryOwned
    <3> QED BY <1>3, <2>1, <3>2 DEF StoreInv, MergeTakesTheirs
  <2>2. CASE i \notin DOMAIN commits
    <3>1. i = h
      BY <1>3, <2>2
    <3>2. f.parent2 # NoHash /\ f.parent2 \in DOMAIN commits
      BY <1>3, <1>4, <1>6, <3>1 DEF SameNode
    <3> QED BY <1>3, <1>4, <3>1, <3>2 DEF SameNode
  <2> QED BY <2>1, <2>2
<1>14. HeadIsMainTip'
  <2> SUFFICES ASSUME NEW v \in Uri \ PutUri, prompts'[v] # None
               PROVE  /\ refs'[v][Main] # NoHash
                      /\ prompts'[v] = commits'[refs'[v][Main]].content
    BY DEF HeadIsMainTip, Tip
  <2>1. CASE v = f.uri /\ f.branch = Main
    <3>1. prompts'[v] = f.content
      BY <1>2, <2>1 DEF Materialize, StoreInv, TypeOK
    <3>2. refs'[v][Main] = h
      BY <1>7, <2>1, MainAssumption
    <3> QED BY <1>3, <1>5, <3>1, <3>2 DEF SameNode
  <2>2. CASE ~ (v = f.uri /\ f.branch = Main)
    <3>1. prompts'[v] = prompts[v]
      BY <1>2, <2>2 DEF Materialize, StoreInv, TypeOK
    <3>2. refs'[v][Main] = refs[v][Main]
      BY <1>7, <2>2, MainAssumption
    <3>3. /\ refs[v][Main] # NoHash
          /\ prompts[v] = commits[refs[v][Main]].content
      BY <3>1 DEF StoreInv, HeadIsMainTip, Tip
    <3>4. refs[v][Main] \in DOMAIN commits
      BY <1>6, <3>3, MainAssumption DEF StoreInv, HistoryOwned
    <3> QED BY <1>3, <3>1, <3>2, <3>3, <3>4
  <2> QED BY <2>1, <2>2
<1> QED BY <1>8, <1>9, <1>10, <1>11, <1>12, <1>13, <1>14 DEF StoreInv

-----------------------------------------------------------------------------
\* The empty database satisfies the invariant.
LEMMA InitInv == StoreInit => StoreInv
<1> SUFFICES ASSUME StoreInit PROVE StoreInv
  OBVIOUS
<1>1. commits = <<>> /\ DOMAIN commits = {} /\ Len(commits) = 0 /\ commits \in Seq(Row)
  BY DEF StoreInit
<1>2. TypeOK
  BY <1>1, IdleFrame, MaxCommitsAssumption DEF StoreInit, TypeOK
<1>3. FramesOwned
  BY DEF StoreInit, FramesOwned, FrameOwned, Idle
<1>4. HistoryOwned /\ HeadIsMainTip
  BY <1>1 DEF StoreInit, HistoryOwned, HeadIsMainTip
<1>5. ParentsOlder /\ OneRowPerNode /\ MergeTakesTheirs
  BY <1>1 DEF ParentsOlder, OneRowPerNode, MergeTakesTheirs
<1> QED BY <1>2, <1>3, <1>4, <1>5 DEF StoreInv

\* Every step of every caller, and put, keep it.
LEMMA NextInv == StoreInv /\ [StoreNext]_storeVars => StoreInv'
<1> SUFFICES ASSUME StoreInv, [StoreNext]_storeVars PROVE StoreInv'
  OBVIOUS
<1>1. ASSUME NEW p \in Proc, StoreStep(p) PROVE StoreInv'
  BY <1>1, ReadSteps, RefSteps, CommitTxStep DEF StoreStep
<1>2. ASSUME NEW u \in Uri, NEW c \in Content, Put(u, c) PROVE StoreInv'
  BY <1>2, PutStep
<1>3. CASE UNCHANGED storeVars
  <2>1. (TypeOK /\ FramesOwned)'
    BY <1>3 DEF storeVars, StoreInv, TypeOK, FramesOwned, FrameOwned
  <2>2. (ParentsOlder /\ HistoryOwned /\ OneRowPerNode)'
    BY <1>3 DEF storeVars, StoreInv, ParentsOlder, HistoryOwned, OneRowPerNode, SameNode
  <2>3. (MergeTakesTheirs /\ HeadIsMainTip)'
    BY <1>3 DEF storeVars, StoreInv, MergeTakesTheirs, HeadIsMainTip, Tip
  <2> QED BY <2>1, <2>2, <2>3 DEF StoreInv
<1> QED BY <1>1, <1>2, <1>3 DEF StoreNext

\* The inductive invariant holds throughout.
THEOREM StoreInvariant == StoreSpec => []StoreInv
  BY InitInv, NextInv, PTL DEF StoreSpec

\* Tables and frames keep their types: no call goes on with a hash it did not
\* find.
THEOREM StoreTypes == StoreSpec => []TypeOK
<1>1. StoreInv => TypeOK
  BY DEF StoreInv
<1> QED BY <1>1, StoreInvariant, PTL

\* The served HEAD of a prompt that put and restore leave alone is the content
\* at the tip of its main branch, whatever publishes, merges, rollbacks and
\* forks interleave, and however many of them fail.
THEOREM HeadServesMain == StoreSpec => []HeadIsMainTip
<1>1. StoreInv => HeadIsMainTip
  BY DEF StoreInv
<1> QED BY <1>1, StoreInvariant, PTL

\* Merge commits carry the content of their second parent.
THEOREM MergesTakeTheirs == StoreSpec => []MergeTakesTheirs
<1>1. StoreInv => MergeTakesTheirs
  BY DEF StoreInv
<1> QED BY <1>1, StoreInvariant, PTL

\* A publish or a merge of the change that is already the branch's tip, because
\* another caller read the same tip and committed it first, adds no row and leaves
\* the branch where it is.
THEOREM RecommitsAreIdempotent == StoreSpec => RecommitIsIdempotent
<1>1. StoreInv /\ [StoreNext]_storeVars => [RecommitStep]_storeVars
  <2> SUFFICES ASSUME StoreInv, StoreNext, NEW p \in Proc,
                      call[p].op = "commit", call'[p] = Idle,
                      Tip(call[p].uri, call[p].branch) # NoHash,
                      SameNode(commits[Tip(call[p].uri, call[p].branch)], call[p].content,
                               call[p].parent, call[p].parent2, call[p].meta)
               PROVE  UNCHANGED <<commits, refs>>
    BY DEF RecommitStep
  <2> DEFINE f == call[p]
             t == Tip(f.uri, f.branch)
             h == CommitHash(f.content, f.parent, f.parent2, f.meta)
  <2>1. CommitTx(p) \/ Abort(p)
    <3>1. call'[p] # call[p]
      BY DEF Idle
    <3>2. PICK q \in Proc : StoreStep(q)
      BY <3>1 DEF StoreNext, Put
    <3>3. PICK g : call' = [call EXCEPT ![q] = g]
      BY <3>2 DEF StoreStep, Commit, CommitTx, Merge, MergeFrom, CreateBranch, BranchInsert,
                  SetBranch, SetBranchTx, Abort, Return
    <3>4. q = p
      BY <3>1, <3>3 DEF StoreInv, TypeOK
    <3> QED BY <3>2, <3>4 DEF StoreStep, Commit, Merge, MergeFrom, CreateBranch,
                  BranchInsert, SetBranch, SetBranchTx, Idle
  <2>2. CASE Abort(p)
    BY <2>2 DEF Abort, Tables
  <2>3. CASE CommitTx(p)
    <3>1. f \in CommitFrame /\ f.uri \in Uri /\ f.branch \in Branch
      BY FrameKind DEF StoreInv, TypeOK, CommitFrame
    <3>2. InsertCommit(h, f) /\ refs' = [refs EXCEPT ![f.uri][f.branch] = h]
      BY <2>3 DEF CommitTx
    <3>3. t \in DOMAIN commits
      BY <3>1 DEF StoreInv, HistoryOwned, Tip
    <3>4. h \in DOMAIN commits /\ SameNode(commits[h], f.content, f.parent, f.parent2, f.meta)
      BY <3>3 DEF CommitHash
    <3>5. h = t
      BY <3>3, <3>4 DEF StoreInv, OneRowPerNode, SameNode
    <3>6. commits' = commits
      BY <3>2, <3>4 DEF InsertCommit
    <3>7. refs' = refs
      BY <3>1, <3>2, <3>5 DEF StoreInv, TypeOK, Tip
    <3> QED BY <3>6, <3>7
  <2> QED BY <2>1, <2>2, <2>3
<1> QED BY <1>1, StoreInvariant, PTL DEF StoreSpec, RecommitIsIdempotent

\* Pinning never hands out another prompt's commit, and fails on a prompt's
\* own commit only if another prompt obtained the same hash.
THEOREM PinsAreOwn == StoreSpec => []PinsStayWithinPrompt
<1>1. ASSUME StoreInv, NEW u \in Uri, NEW h \in Hash
      PROVE  /\ ResolveHash(u, h) # NoHash => h \in dag[u]
             /\ (h \in dag[u] /\ \A v \in Uri \ {u} : h \notin dag[v])
                  => ResolveHash(u, h) = h
  <2>1. ASSUME h \in DOMAIN commits
        PROVE  commits[h].uri \in Uri /\ h \in dag[commits[h].uri]
    <3>1. commits[h] \in Row
      BY <1>1, <2>1 DEF StoreInv, TypeOK
    <3> QED BY <1>1, <2>1, <3>1 DEF StoreInv, HistoryOwned, Row
  <2>2. dag[u] \subseteq DOMAIN commits
    BY <1>1 DEF StoreInv, HistoryOwned
  <2> QED BY <2>1, <2>2 DEF ResolveHash
<1>2. StoreInv => PinsStayWithinPrompt
  BY <1>1 DEF PinsStayWithinPrompt
<1> QED BY <1>2, StoreInvariant, PTL

\* A step of the store keeps every row it finds.
LEMMA RowsKept ==
  ASSUME StoreInv, [StoreNext]_storeVars
  PROVE  AppendOnlyStep
<1>0. Len(commits) \in Nat /\ DOMAIN commits = 1 .. Len(commits)
  BY DEF StoreInv, TypeOK
<1>1. ASSUME UNCHANGED commits PROVE AppendOnlyStep
  BY <1>0, <1>1 DEF AppendOnlyStep
<1>2. ASSUME NEW p \in Proc, CommitTx(p) PROVE AppendOnlyStep
  <2> DEFINE f == call[p]
             h == CommitHash(f.content, f.parent, f.parent2, f.meta)
  <2>1. f \in CommitFrame /\ InsertCommit(h, f)
    BY <1>2, FrameKind DEF StoreInv, TypeOK, CommitTx
  <2>2. /\ \A i \in DOMAIN commits : commits'[i] = commits[i]
        /\ h \notin DOMAIN commits => h = Len(commits) + 1
        /\ Len(commits') = IF h \in DOMAIN commits THEN Len(commits) ELSE h
    <3> HIDE DEF f
    <3> QED BY <2>1, InsertFacts
  <2> HIDE DEF h
  <2>3. Len(commits') >= Len(commits)
    BY <1>0, <2>2
  <2> QED BY <2>2, <2>3 DEF AppendOnlyStep
<1>3. ASSUME NEW p \in Proc, StoreStep(p), ~ CommitTx(p) PROVE UNCHANGED commits
  BY <1>3 DEF StoreStep, Commit, Merge, MergeFrom, CreateBranch, BranchInsert,
              SetBranch, SetBranchTx, Abort, Tables
<1>4. ASSUME NEW u \in Uri, NEW c \in Content, Put(u, c) PROVE UNCHANGED commits
  BY <1>4 DEF Put
<1>5. UNCHANGED storeVars => UNCHANGED commits
  BY DEF storeVars
<1> QED BY <1>1, <1>2, <1>3, <1>4, <1>5 DEF StoreNext

\* No step changes or removes a stored commit.
THEOREM HistoryIsAppendOnly == StoreSpec => AppendOnly
<1>1. StoreInv /\ [StoreNext]_storeVars => [AppendOnlyStep]_storeVars
  BY RowsKept
<1> QED BY <1>1, StoreInvariant, PTL DEF StoreSpec, AppendOnly

-----------------------------------------------------------------------------
\* One step of the walk that Log makes: the commit, then the walk from its
\* first parent.
Walk(f, h) == IF h = NoHash THEN <<>> ELSE <<h>> \o f[commits[h].parent]

\* The parent of a stored commit is an older commit or none.
LEMMA ParentBelow ==
  ASSUME StoreInv, NEW h \in 1 .. Len(commits)
  PROVE  commits[h].parent \in 0 .. h - 1
<1>1. h \in DOMAIN commits /\ commits[h] \in Row
  BY DEF StoreInv, TypeOK
<1>2. commits[h].parent \in Hash \cup {NoHash} /\ commits[h].parent < h
  BY <1>1 DEF StoreInv, ParentsOlder, Row
<1> QED BY <1>2, MaxCommitsAssumption DEF Hash, NoHash

\* The walk is defined from every commit: parents are older, so the walks from
\* the first n commits determine that from the next.
LEMMA WalkExists ==
  ASSUME StoreInv
  PROVE  \E f : f = [h \in 0 .. Len(commits) |-> Walk(f, h)]
<1> DEFINE Upto(n) == \E f : f = [h \in 0 .. n |-> Walk(f, h)]
           S == {n \in Nat : n <= Len(commits) => Upto(n)}
<1>0. Len(commits) \in Nat
  BY DEF StoreInv, TypeOK
<1>1. 0 \in S
  <2> DEFINE f == [h \in 0 .. 0 |-> <<>>]
  <2>1. f = [h \in 0 .. 0 |-> Walk(f, h)]
    BY DEF Walk, NoHash
  <2>2. Upto(0)
    BY <2>1
  <2> QED BY <2>2
<1>2. ASSUME NEW n \in Nat, n \in S PROVE n + 1 \in S
  <2> SUFFICES ASSUME n + 1 <= Len(commits) PROVE Upto(n + 1)
    OBVIOUS
  <2>1. PICK f : f = [h \in 0 .. n |-> Walk(f, h)]
    BY <1>0, <1>2
  <2> DEFINE g == [h \in 0 .. n + 1 |-> Walk(f, h)]
  <2>2. \A h \in 0 .. n : g[h] = f[h]
    BY <2>1
  <2>3. ASSUME NEW h \in 0 .. n + 1 PROVE Walk(f, h) = Walk(g, h)
    <3>1. CASE h = 0
      BY <3>1 DEF Walk, NoHash
    <3>2. CASE h # 0
      <4>1. commits[h].parent \in 0 .. h - 1
        BY <1>0, <3>2, ParentBelow
      <4>2. commits[h].parent \in 0 .. n
        BY <4>1
      <4>3. g[commits[h].parent] = f[commits[h].parent]
        BY <2>2, <4>2
      <4> HIDE DEF g
      <4> QED BY <4>3 DEF Walk
    <3> QED BY <3>1, <3>2
  <2>4. g = [h \in 0 .. n + 1 |-> Walk(g, h)]
    BY <2>3
  <2> HIDE DEF g
  <2> QED BY <2>4
<1>3. \A n \in Nat : n \in S
  <2> HIDE DEF S
  <2> QED BY <1>1, <1>2, SimpleInduction
<1> QED BY <1>0, <1>3

\* So the recursive definition of the walk is met.
LEMMA WalkEquation ==
  ASSUME StoreInv
  PROVE  FirstParents = [h \in 0 .. Len(commits) |-> Walk(FirstParents, h)]
<1>1. FirstParents = CHOOSE f : f = [h \in 0 .. Len(commits) |-> Walk(f, h)]
  BY DEF FirstParents, Walk
<1> QED BY <1>1, WalkExists, Zenon

\* What the walk from one commit is: strictly older and older commits, the
\* last of them a root, and all in the history that the first is in.
Lineage(h, log) ==
  /\ log \in Seq(Nat)
  /\ \A i \in DOMAIN log : log[i] \in 1 .. h
  /\ h # NoHash => log # <<>> /\ commits[log[Len(log)]].parent = NoHash
  /\ \A i, j \in DOMAIN log : i < j => log[j] < log[i]
  /\ \A u \in Uri : h \in dag[u] => \A i \in DOMAIN log : log[i] \in dag[u]

\* Putting a commit before the walk from its parent.
LEMMA LineageStep ==
  ASSUME StoreInv, NEW h \in 1 .. Len(commits), NEW log,
         Lineage(commits[h].parent, log),
         commits[h].parent = NoHash => log = <<>>
  PROVE  Lineage(h, <<h>> \o log)
<1> DEFINE q == commits[h].parent
           t == <<h>> \o log
<1>0. q \in 0 .. h - 1 /\ h \in Nat /\ h # NoHash
  BY ParentBelow DEF NoHash
<1>1. /\ log \in Seq(Nat) /\ Len(log) \in Nat
      /\ \A i \in 1 .. Len(log) : log[i] \in 1 .. q
  <2>1. log \in Seq(Nat)
    BY DEF Lineage
  <2> QED BY <2>1 DEF Lineage
<1>2. /\ t \in Seq(Nat) /\ Len(t) = Len(log) + 1 /\ t[1] = h
      /\ \A i \in 1 .. Len(log) : t[i + 1] = log[i]
      /\ DOMAIN t = 1 .. Len(log) + 1 /\ DOMAIN log = 1 .. Len(log)
  <2>1. <<h>> \in Seq(Nat) /\ Len(<<h>>) = 1 /\ <<h>>[1] = h
    BY <1>0
  <2> QED BY <1>0, <1>1, <2>1
<1>3. \A i \in 2 .. Len(t) : i - 1 \in 1 .. Len(log) /\ t[i] = log[i - 1] /\ log[i - 1] \in 1 .. q
  <2> SUFFICES ASSUME NEW i \in 2 .. Len(t)
               PROVE  i - 1 \in 1 .. Len(log) /\ t[i] = log[i - 1] /\ log[i - 1] \in 1 .. q
    OBVIOUS
  <2>1. i - 1 \in 1 .. Len(log) /\ (i - 1) + 1 = i
    BY <1>1, <1>2
  <2>2. t[(i - 1) + 1] = log[i - 1]
    BY <1>2, <2>1
  <2>3. log[i - 1] \in 1 .. q
    BY <1>1, <2>1
  <2> QED BY <2>1, <2>2, <2>3
<1> HIDE DEF t
<1>4. t # <<>> /\ commits[t[Len(t)]].parent = NoHash
  <2>1. CASE q = NoHash
    <3>1. log = <<>>
      BY <2>1
    <3>2. Len(log) = 0
      BY <3>1
    <3>3. Len(t) = 1
      BY <1>2, <3>2
    <3>4. t # <<>>
      BY <3>3
    <3>5. t[Len(t)] = h
      BY <1>2, <3>3, Zenon
    <3> QED BY <2>1, <3>4, <3>5
  <2>2. CASE q # NoHash
    <3>1. log # <<>> /\ commits[log[Len(log)]].parent = NoHash
      BY <2>2 DEF Lineage
    <3>2. Len(log) >= 1
      BY <1>1, <3>1
    <3>3. Len(t) \in 2 .. Len(t) /\ Len(t) - 1 = Len(log)
      BY <1>1, <1>2, <3>2
    <3>4. t[Len(t)] = log[Len(log)]
      BY <1>3, <3>3
    <3> QED BY <1>2, <3>1, <3>3, <3>4
  <2> QED BY <2>1, <2>2
<1>5. ASSUME NEW i \in DOMAIN t, NEW j \in DOMAIN t, i < j PROVE t[j] < t[i]
  <2>1. j \in 2 .. Len(t) /\ i \in 1 .. Len(t)
    BY <1>1, <1>2, <1>5
  <2>2. j - 1 \in DOMAIN log /\ t[j] = log[j - 1] /\ log[j - 1] \in 1 .. q
    BY <1>2, <1>3, <2>1
  <2>3. CASE i = 1
    <3>1. t[i] = h
      BY <1>2, <2>3
    <3>2. q \in Int /\ h \in Int /\ q < h
      BY <1>0
    <3> HIDE DEF q
    <3>3. log[j - 1] \in Int /\ log[j - 1] <= q
      BY <2>2, <3>2
    <3>4. log[j - 1] < h
      BY <3>2, <3>3
    <3> QED BY <2>2, <3>1, <3>4, Zenon
  <2>4. CASE i # 1
    <3>1. i \in 2 .. Len(t)
      BY <1>1, <1>2, <2>1, <2>4
    <3>2. i - 1 \in DOMAIN log /\ t[i] = log[i - 1]
      BY <1>2, <1>3, <3>1
    <3>3. i - 1 < j - 1
      BY <1>5, <2>1
    <3>4. log[j - 1] < log[i - 1]
      BY <2>2, <3>2, <3>3 DEF Lineage
    <3> QED BY <2>2, <3>2, <3>4
  <2> QED BY <2>3, <2>4
<1>6. ASSUME NEW u \in Uri, h \in dag[u], NEW i \in DOMAIN t PROVE t[i] \in dag[u]
  <2>1. CASE i = 1
    BY <1>2, <1>6, <2>1
  <2>2. CASE i # 1
    <3>1. i \in 2 .. Len(t)
      BY <1>1, <1>2, <2>2
    <3>2. i - 1 \in DOMAIN log /\ t[i] = log[i - 1] /\ log[i - 1] \in 1 .. q
      BY <1>2, <1>3, <3>1
    <3>3. q # NoHash
      BY <1>0, <3>2 DEF NoHash
    <3>4. q \in dag[u]
      BY <1>6, <3>3 DEF StoreInv, HistoryOwned
    <3> QED BY <3>2, <3>4 DEF Lineage
  <2> QED BY <2>1, <2>2
<1>7. \A i \in DOMAIN t : t[i] \in 1 .. h
  <2> SUFFICES ASSUME NEW i \in DOMAIN t, i # 1 PROVE t[i] \in 1 .. h
    BY <1>0, <1>2
  <2>1. i \in 2 .. Len(t)
    BY <1>1, <1>2
  <2> QED BY <1>0, <1>3, <2>1
<1>8. Lineage(h, t)
  BY <1>2, <1>4, <1>5, <1>6, <1>7 DEF Lineage
<1> QED BY <1>8 DEF t

LEMMA WalkIsLineage ==
  ASSUME StoreInv
  PROVE  /\ FirstParents[NoHash] = <<>>
         /\ \A h \in 0 .. Len(commits) : Lineage(h, FirstParents[h])
<1> DEFINE S == {n \in Nat : n <= Len(commits) => Lineage(n, FirstParents[n])}
<1>0. Len(commits) \in Nat /\ NoHash = 0
  BY DEF StoreInv, TypeOK, NoHash
<1>1. \A h \in 0 .. Len(commits) : FirstParents[h] = Walk(FirstParents, h)
  BY WalkEquation
<1>2. FirstParents[NoHash] = <<>>
  <2>1. FirstParents[NoHash] = Walk(FirstParents, NoHash)
    BY <1>0, <1>1
  <2> QED BY <2>1 DEF Walk
<1>3. ASSUME NEW n \in Nat, \A m \in 0 .. n - 1 : m \in S PROVE n \in S
  <2> SUFFICES ASSUME n <= Len(commits) PROVE Lineage(n, FirstParents[n])
    OBVIOUS
  <2>1. CASE n = 0
    <3>1. FirstParents[n] = <<>>
      BY <1>0, <1>2, <2>1
    <3> QED BY <1>0, <2>1, <3>1 DEF Lineage
  <2>2. CASE n # 0
    <3> DEFINE q == commits[n].parent
    <3>1. n \in 1 .. Len(commits)
      BY <1>0, <2>2
    <3>2. q \in 0 .. n - 1
      BY <3>1, ParentBelow
    <3>3. q <= Len(commits)
      BY <1>0, <3>2
    <3>4. Lineage(q, FirstParents[q])
      BY <1>3, <3>2, <3>3
    <3>5. FirstParents[n] = <<n>> \o FirstParents[q]
      <4>1. FirstParents[n] = Walk(FirstParents, n)
        BY <1>0, <1>1
      <4> QED BY <1>0, <2>2, <4>1 DEF Walk
    <3>6. q = NoHash => FirstParents[q] = <<>>
      BY <1>2
    <3> QED BY <3>1, <3>4, <3>5, <3>6, LineageStep
  <2> QED BY <2>1, <2>2
<1>4. \A n \in Nat : n \in S
  <2> HIDE DEF S
  <2> QED BY <1>3, StrongInduction
<1> QED BY <1>0, <1>2, <1>4

\* Log ends and never leaves the prompt, whichever prompts, branches and
\* callers there are and however their calls interleave.
THEOREM LogsAreLineages == StoreSpec => []LogIsLineage
<1>1. StoreInv => LogIsLineage
  <2> SUFFICES ASSUME StoreInv, NEW u \in Uri, NEW b \in Branch
               PROVE  LET log == Log(u, b)
                      IN /\ \A i \in DOMAIN log : log[i] \in dag[u]
                         /\ \A i, j \in DOMAIN log : i < j => log[j] < log[i]
                         /\ log # <<>> => commits[log[Len(log)]].parent = NoHash
    BY DEF LogIsLineage
  <2> DEFINE h == Tip(u, b)
  <2>1. CASE h = NoHash
    <3>1. Log(u, b) = <<>>
      BY <2>1, WalkIsLineage DEF Log
    <3> QED BY <3>1
  <2>2. CASE h # NoHash
    <3>1. h \in dag[u] /\ h \in DOMAIN commits
      BY <2>2, TipOwned
    <3>2. h \in 0 .. Len(commits)
      BY <3>1 DEF StoreInv, TypeOK
    <3>3. Lineage(h, Log(u, b))
      BY <3>2, WalkIsLineage DEF Log
    <3> QED BY <2>2, <3>1, <3>3 DEF Lineage
  <2> QED BY <2>1, <2>2
<1> QED BY <1>1, StoreInvariant, PTL

-----------------------------------------------------------------------------
\* The tip that a publish or a merge has read is still its branch's tip.
TipStillRead ==
  \A p \in Proc : call[p].op \in {"commit", "merge"} =>
                    call[p].parent = Tip(call[p].uri, call[p].branch)

\* With one caller at a time nothing moves a branch between the read and the
\* transaction.
LEMMA TipStepAlone ==
  ASSUME NEW p, Proc = {p}, StoreInv, TipStillRead, [StoreNext]_storeVars
  PROVE  TipStillRead'
<1>1. /\ p \in Proc /\ call[p] \in Frame
      /\ \A f : call' = [call EXCEPT ![p] = f] => call'[p] = f
  BY DEF StoreInv, TypeOK
<1> SUFFICES ASSUME call'[p].op \in {"commit", "merge"}
             PROVE  call'[p].parent = refs'[call'[p].uri][call'[p].branch]
  BY DEF TipStillRead, Tip
<1>2. CASE UNCHANGED <<refs, call>>
  BY <1>1, <1>2 DEF TipStillRead, Tip
<1>3. ASSUME NEW u \in Uri, NEW b \in Branch, NEW c \in Content, NEW m \in Meta,
             Commit(p, u, b, c, m)
      PROVE  call'[p].parent = refs'[call'[p].uri][call'[p].branch]
  <2>1. call'[p] = [op |-> "commit", uri |-> u, branch |-> b, content |-> c,
                    parent |-> Tip(u, b), parent2 |-> NoHash, meta |-> m]
    BY <1>1, <1>3 DEF Commit
  <2> QED BY <1>3, <2>1 DEF Commit, Tables, Tip
<1>4. ASSUME NEW u \in Uri, NEW into \in Branch, NEW from \in Branch, NEW m \in Meta,
             Merge(p, u, into, from, m)
      PROVE  call'[p].parent = refs'[call'[p].uri][call'[p].branch]
  <2>1. call'[p] = [op |-> "merge", uri |-> u, branch |-> into, from |-> from,
                    parent |-> Tip(u, into), meta |-> m]
    BY <1>1, <1>4 DEF Merge
  <2> QED BY <1>4, <2>1 DEF Merge, Tables, Tip
<1>5. CASE MergeFrom(p)
  <2> DEFINE f == call[p]
  <2>1. f.op = "merge" /\ UNCHANGED refs
    BY <1>5 DEF MergeFrom, Tables
  <2>2. /\ call'[p].parent = f.parent /\ call'[p].uri = f.uri
        /\ call'[p].branch = f.branch
    <3> DEFINE g == [op |-> "commit", uri |-> f.uri, branch |-> f.branch,
                     content |-> commits[Tip(f.uri, f.from)].content, parent |-> f.parent,
                     parent2 |-> Tip(f.uri, f.from), meta |-> f.meta]
    <3>1. call' = [call EXCEPT ![p] = g]
      BY <1>5 DEF MergeFrom
    <3>2. call'[p] = g
      BY <1>1, <3>1
    <3> QED BY <3>2
  <2>3. f.parent = Tip(f.uri, f.branch)
    BY <1>1, <2>1 DEF TipStillRead
  <2> HIDE DEF f
  <2> QED BY <2>1, <2>2, <2>3 DEF Tip
<1>6. ASSUME NEW u \in Uri, NEW name \in Branch, NEW from \in Branch,
             CreateBranch(p, u, name, from)
      PROVE  FALSE
  <2>1. call'[p] = [op |-> "branch", uri |-> u, branch |-> name, hash |-> Tip(u, from)]
    BY <1>1, <1>6 DEF CreateBranch
  <2> QED BY <2>1
<1>7. ASSUME NEW u \in Uri, NEW b \in Branch, NEW h \in Hash, SetBranch(p, u, b, h)
      PROVE  FALSE
  <2>1. call'[p] = [op |-> "set", uri |-> u, branch |-> b, hash |-> h]
    BY <1>1, <1>7 DEF SetBranch
  <2> QED BY <2>1
<1>8. CASE CommitTx(p) \/ BranchInsert(p) \/ SetBranchTx(p) \/ Abort(p)
  <2>1. call' = [call EXCEPT ![p] = Idle]
    BY <1>8 DEF CommitTx, BranchInsert, SetBranchTx, Abort, Return
  <2>2. call'[p] = Idle
    BY <1>1, <2>1
  <2> QED BY <2>2 DEF Idle
<1>9. ASSUME StoreStep(p) PROVE call'[p].parent = refs'[call'[p].uri][call'[p].branch]
  BY <1>3, <1>4, <1>5, <1>6, <1>7, <1>8, <1>9 DEF StoreStep
<1>10. ASSUME NEW u \in Uri, NEW c \in Content, Put(u, c) PROVE UNCHANGED <<refs, call>>
  BY <1>10 DEF Put
<1>11. UNCHANGED storeVars => UNCHANGED <<refs, call>>
  BY DEF storeVars
<1> QED BY <1>2, <1>9, <1>10, <1>11 DEF StoreNext

\* With one caller at a time a publish or a merge extends the branch: the commit
\* that a branch is moved to has the tip it replaces as its first parent, also
\* when the commit was stored before.  Two callers break this, which the run
\* store_lost_update shows.
THEOREM CommitsExtendTips ==
  ASSUME NEW p, Proc = {p}
  PROVE  StoreSpec => CommitExtendsTip
<1>1. StoreInit => TipStillRead
  BY DEF StoreInit, TipStillRead, Idle
<1>2. StoreInv /\ TipStillRead /\ [StoreNext]_storeVars => TipStillRead'
  BY TipStepAlone
<1>3. StoreInv /\ TipStillRead /\ [StoreNext]_storeVars => [ExtendsTipStep]_storeVars
  <2> SUFFICES ASSUME StoreInv, TipStillRead, StoreNext, call[p].op = "commit", refs' # refs
               PROVE  commits'[refs'[call[p].uri][call[p].branch]].parent
                        = Tip(call[p].uri, call[p].branch)
    BY DEF ExtendsTipStep
  <2>1. CommitTx(p)
    BY DEF StoreNext, StoreStep, Commit, Merge, MergeFrom, CreateBranch, BranchInsert,
           SetBranch, SetBranchTx, Abort, Put, Tables
  <2> DEFINE f == call[p]
             h == CommitHash(f.content, f.parent, f.parent2, f.meta)
  <2>2. f \in CommitFrame /\ f.uri \in Uri /\ f.branch \in Branch
    BY FrameKind DEF StoreInv, TypeOK, CommitFrame
  <2>3. InsertCommit(h, f) /\ refs' = [refs EXCEPT ![f.uri][f.branch] = h]
    BY <2>1 DEF CommitTx
  <2>4. f.parent = Tip(f.uri, f.branch)
    BY DEF TipStillRead
  <2>5. SameNode(commits'[h], f.content, f.parent, f.parent2, f.meta)
    <3> HIDE DEF f
    <3> QED BY <2>2, <2>3, InsertFacts
  <2> HIDE DEF f, h
  <2>6. refs'[f.uri][f.branch] = h
    BY <2>2, <2>3 DEF StoreInv, TypeOK
  <2>7. commits'[h].parent = f.parent
    BY <2>5 DEF SameNode
  <2> QED BY <2>4, <2>6, <2>7 DEF f
<1> QED BY <1>1, <1>2, <1>3, StoreInvariant, PTL DEF StoreSpec, CommitExtendsTip

-----------------------------------------------------------------------------
\* The contents of all branches change at one branch of one prompt.
LEMMA OneTipMoves ==
  ASSUME NEW u \in Uri, NEW b \in Branch, NEW c,
         \A v \in Uri, d \in Branch :
           ContentAt(refs[v][d])' = IF v = u /\ d = b THEN c ELSE ContentAt(refs[v][d])
  PROVE  tipContent' = [tipContent EXCEPT ![u][b] = c]
<1> DEFINE row(v) == [d \in Branch |-> ContentAt(refs[v][d])]
           rowNext(v) == [d \in Branch |-> ContentAt(refs[v][d])']
<1>1. rowNext(u) = [row(u) EXCEPT ![b] = c]
  OBVIOUS
<1>2. \A v \in Uri : v # u => rowNext(v) = row(v)
  OBVIOUS
<1>3. tipContent = [v \in Uri |-> row(v)] /\ tipContent' = [v \in Uri |-> rowNext(v)]
  BY DEF tipContent
<1> HIDE DEF row, rowNext
<1> QED BY <1>1, <1>2, <1>3

\* Every transaction of the store is one step of the registry; a read, and an
\* error return, is none.
LEMMA StepSimulation ==
  ASSUME StoreInv, [StoreNext]_storeVars
  PROVE  [R!Next]_(R!registryVars)
<1>1. ASSUME UNCHANGED Tables PROVE UNCHANGED R!registryVars
  BY <1>1 DEF Tables, R!registryVars, tipContent, seenContent, ContentAt
<1>2. ASSUME NEW p \in Proc, CommitTx(p) PROVE R!Next
  <2> DEFINE f == call[p]
             h == CommitHash(f.content, f.parent, f.parent2, f.meta)
  <2>1. f \in CommitFrame
    BY <1>2, FrameKind DEF StoreInv, TypeOK, CommitTx
  <2>2. /\ InsertCommit(h, f)
        /\ refs' = [refs EXCEPT ![f.uri][f.branch] = h]
        /\ Materialize(f.uri, f.branch, f.content)
        /\ dag' = [dag EXCEPT ![f.uri] = @ \cup {h}]
    BY <1>2 DEF CommitTx
  <2> HIDE DEF f
  <2>3. /\ DOMAIN commits' = DOMAIN commits \cup {h}
        /\ \A i \in DOMAIN commits : commits'[i] = commits[i]
        /\ commits'[h].content = f.content
        /\ h # NoHash
    BY <2>1, <2>2, InsertFacts DEF SameNode, NoHash
  <2> HIDE DEF h
  <2>4. f.uri \in Uri /\ f.branch \in Branch /\ f.content \in Content
    BY <2>1 DEF CommitFrame
  <2>5. tipContent' = [tipContent EXCEPT ![f.uri][f.branch] = f.content]
    <3>1. \A v \in Uri, d \in Branch :
            refs'[v][d] = IF v = f.uri /\ d = f.branch THEN h ELSE refs[v][d]
      BY <2>2, <2>4 DEF StoreInv, TypeOK
    <3>2. \A v \in Uri, d \in Branch :
            ContentAt(refs[v][d])' = IF v = f.uri /\ d = f.branch THEN f.content
                                     ELSE ContentAt(refs[v][d])
      <4> SUFFICES ASSUME NEW v \in Uri, NEW d \in Branch
                   PROVE  ContentAt(refs[v][d])' =
                            IF v = f.uri /\ d = f.branch THEN f.content
                            ELSE ContentAt(refs[v][d])
        OBVIOUS
      <4>1. CASE v = f.uri /\ d = f.branch
        <5>1. refs'[v][d] = h
          BY <3>1, <4>1
        <5> QED BY <2>3, <4>1, <5>1 DEF ContentAt
      <4>2. CASE ~ (v = f.uri /\ d = f.branch)
        <5>1. refs'[v][d] = refs[v][d]
          BY <3>1, <4>2
        <5>2. refs[v][d] # NoHash => refs[v][d] \in DOMAIN commits
          BY DEF StoreInv, HistoryOwned
        <5> QED BY <2>3, <4>2, <5>1, <5>2 DEF ContentAt
      <4> QED BY <4>1, <4>2
    <3> QED BY <2>4, <3>2, OneTipMoves
  <2>6. seenContent' = [seenContent EXCEPT ![f.uri] = @ \cup {f.content}]
    <3>1. \A v \in Uri : /\ dag[v] \subseteq DOMAIN commits
                         /\ dag'[v] = IF v = f.uri THEN dag[v] \cup {h} ELSE dag[v]
      BY <2>2 DEF StoreInv, TypeOK, HistoryOwned
    <3>2. \A v \in Uri : {commits'[i].content : i \in dag'[v]} =
            IF v = f.uri THEN {commits[i].content : i \in dag[v]} \cup {f.content}
            ELSE {commits[i].content : i \in dag[v]}
      <4> SUFFICES ASSUME NEW v \in Uri
                   PROVE  {commits'[i].content : i \in dag'[v]} =
                            IF v = f.uri
                            THEN {commits[i].content : i \in dag[v]} \cup {f.content}
                            ELSE {commits[i].content : i \in dag[v]}
        OBVIOUS
      <4>1. \A i \in dag[v] : commits'[i].content = commits[i].content
        BY <2>3, <3>1
      <4>2. CASE v = f.uri
        <5>1. dag'[v] = dag[v] \cup {h}
          BY <3>1, <4>2
        <5> QED BY <2>3, <4>1, <4>2, <5>1
      <4>3. CASE v # f.uri
        <5>1. dag'[v] = dag[v]
          BY <3>1, <4>3
        <5> QED BY <4>1, <4>3, <5>1
      <4> QED BY <4>2, <4>3
    <3> QED BY <2>4, <3>2 DEF seenContent
  <2>7. prompts' = IF f.branch = Main THEN [prompts EXCEPT ![f.uri] = f.content]
                   ELSE prompts
    BY <2>2 DEF Materialize
  <2>8. R!Publish(f.uri, f.branch, f.content)
    BY <2>5, <2>6, <2>7 DEF R!Publish, R!Move
  <2> QED BY <2>4, <2>8 DEF R!Next
<1>3. ASSUME NEW p \in Proc, BranchInsert(p) \/ SetBranchTx(p) PROVE R!Next
  <2> DEFINE f == call[p]
             c == commits[f.hash].content
  <2>1. f \in RefFrame /\ f.hash \in dag[f.uri]
    BY <1>3, FrameKind
    DEF StoreInv, TypeOK, FramesOwned, FrameOwned, BranchInsert, SetBranchTx
  <2>2. f.uri \in Uri /\ f.branch \in Branch
    BY <2>1 DEF RefFrame
  <2>3. f.hash \in DOMAIN commits /\ f.hash # NoHash
    BY <2>1, <2>2 DEF StoreInv, HistoryOwned, TypeOK, Hash, NoHash
  <2>4. c \in Content /\ c \in seenContent[f.uri]
    <3>1. commits[f.hash] \in Row
      BY <2>3 DEF StoreInv, TypeOK
    <3> QED BY <2>1, <2>2, <3>1 DEF Row, seenContent
  <2>5. /\ refs' = [refs EXCEPT ![f.uri][f.branch] = f.hash]
        /\ UNCHANGED <<commits, dag>>
    BY <1>3 DEF BranchInsert, SetBranchTx
  <2>6. tipContent' = [tipContent EXCEPT ![f.uri][f.branch] = c]
    <3>1. \A v \in Uri, d \in Branch :
            refs'[v][d] = IF v = f.uri /\ d = f.branch THEN f.hash ELSE refs[v][d]
      BY <2>2, <2>5 DEF StoreInv, TypeOK
    <3>2. \A v \in Uri, d \in Branch :
            ContentAt(refs[v][d])' = IF v = f.uri /\ d = f.branch THEN c
                                     ELSE ContentAt(refs[v][d])
      BY <2>3, <2>5, <3>1 DEF ContentAt
    <3> HIDE DEF f, c
    <3> QED BY <2>2, <3>2, OneTipMoves
  <2>7. seenContent' = seenContent
    BY <2>5 DEF seenContent
  <2>8. CASE BranchInsert(p)
    <3>1. refs[f.uri][f.branch] = NoHash /\ UNCHANGED prompts
      BY <2>8 DEF BranchInsert, Tip
    <3>2. tipContent[f.uri][f.branch] = None
      BY <2>2, <3>1 DEF tipContent, ContentAt
    <3>3. R!Fork(f.uri, f.branch, c)
      BY <2>4, <2>6, <2>7, <3>1, <3>2 DEF R!Fork
    <3> QED BY <2>2, <2>4, <3>3 DEF R!Next
  <2>9. CASE SetBranchTx(p)
    <3>1. prompts' = IF f.branch = Main THEN [prompts EXCEPT ![f.uri] = c] ELSE prompts
      BY <2>9 DEF SetBranchTx, Materialize
    <3>2. R!Reuse(f.uri, f.branch, c)
      BY <2>4, <2>6, <2>7, <3>1 DEF R!Reuse, R!Move
    <3> QED BY <2>2, <2>4, <3>2 DEF R!Next
  <2> QED BY <1>3, <2>8, <2>9
<1>4. ASSUME NEW u \in Uri, NEW c \in Content, Put(u, c) PROVE R!Next
  <2>1. R!Overwrite(u, c)
    BY <1>4 DEF Put, R!Overwrite, tipContent, seenContent, ContentAt
  <2> QED BY <2>1 DEF R!Next
<1>5. ASSUME NEW p \in Proc, StoreStep(p), ~ CommitTx(p),
             ~ BranchInsert(p), ~ SetBranchTx(p)
      PROVE  UNCHANGED Tables
  BY <1>5 DEF StoreStep, Commit, Merge, MergeFrom, CreateBranch, SetBranch, Abort
<1>6. UNCHANGED storeVars => UNCHANGED Tables
  BY DEF storeVars, Tables
<1> QED BY <1>1, <1>2, <1>3, <1>4, <1>5, <1>6 DEF StoreNext

\* The store implements the registry.
THEOREM StoreImplementsRegistry == StoreSpec => ImplementsRegistry
<1>1. StoreInit => R!Init
  BY DEF StoreInit, R!Init, tipContent, seenContent, ContentAt
<1>2. StoreInv /\ [StoreNext]_storeVars => [R!Next]_(R!registryVars)
  BY StepSimulation
<1> QED BY <1>1, <1>2, StoreInvariant, PTL DEF StoreSpec, ImplementsRegistry, R!Spec

=============================================================================
