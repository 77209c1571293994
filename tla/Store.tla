------------------------------- MODULE Store -------------------------------
(***************************************************************************)
(* The versioned prompt store, internal/store/store.go: three tables, and  *)
(* the calls that read and write them.  A call is split where the code     *)
(* leaves the database: a tip read is one statement, the transaction that  *)
(* follows is another, and other callers run in between.  What a call has  *)
(* read so far is its frame, call[p].                                      *)
(*                                                                         *)
(* A content stands for a template with its slots, and for its version     *)
(* hash.  A commit hash is the number of the row it names: the row's       *)
(* preimage determines it, and a preimage not stored yet is given the next *)
(* number.  A meta is an author with a message.                            *)
(***************************************************************************)
EXTENDS Integers, Sequences, FiniteSets

CONSTANTS
  Uri,         \* prompts
  Branch,      \* branch names
  Main,        \* DefaultBranch: the trunk, whose tip is served
  Content,     \* templates with their slots
  None,        \* no row in the prompts table
  Meta,        \* author and message of a commit
  Proc,        \* concurrent callers: handlers of one or of several servers
  PutUri,      \* prompts also written by `promptnet put` and `restore`
  MaxCommits   \* bound on the commits table

ASSUME MainAssumption == Main \in Branch
ASSUME NoneAssumption == None \notin Content
ASSUME PutUriAssumption == PutUri \subseteq Uri
ASSUME MaxCommitsAssumption == MaxCommits \in Nat

VARIABLES
  commits,     \* the commits table, in order of insertion
  refs,        \* the refs table: the commit each branch of a prompt points at
  prompts,     \* the prompts table: the served HEAD
  call,        \* frame of the store call each process is in
  dag          \* history: the hashes the writes to each prompt returned

storeVars == <<commits, refs, prompts, call, dag>>

Tables == <<commits, refs, prompts, dag>>

-----------------------------------------------------------------------------
\* No row: the "" parent of a root commit, the ref of a branch not created.
NoHash == 0

Hash == 1 .. MaxCommits

Row == [uri : Uri, content : Content, parent : Hash \cup {NoHash},
        parent2 : Hash \cup {NoHash}, meta : Meta]

Idle == [op |-> "idle"]

\* Inside commit, before its transaction: the explicit parents are fixed.
CommitFrame == [op : {"commit"}, uri : Uri, branch : Branch, content : Content,
                parent : Hash \cup {NoHash}, parent2 : Hash \cup {NoHash},
                meta : Meta]

\* Inside Merge, between the two tip reads.
MergeFrame == [op : {"merge"}, uri : Uri, branch : Branch, from : Branch,
               parent : Hash, meta : Meta]

\* Inside Branch after its tip read, inside SetBranch after its commit read.
RefFrame == [op : {"branch", "set"}, uri : Uri, branch : Branch, hash : Hash]

Frame == {Idle} \cup CommitFrame \cup MergeFrame \cup RefFrame

-----------------------------------------------------------------------------
\* tip: NoHash is ErrBranchNotFound.
Tip(u, b) == refs[u][b]

\* The preimage of CommitHash.  The prompt's URI is not a part of it.
SameNode(r, c, p1, p2, m) ==
  /\ r.content = c
  /\ r.parent = p1
  /\ r.parent2 = p2
  /\ r.meta = m

\* Mutant: the creation time is hashed too.
CommitHashTimed(c, p1, p2, m) == Len(commits) + 1

CommitHash(c, p1, p2, m) ==
  IF \E i \in DOMAIN commits : SameNode(commits[i], c, p1, p2, m)
  THEN CHOOSE i \in DOMAIN commits : SameNode(commits[i], c, p1, p2, m)
  ELSE Len(commits) + 1

\* Mutant: every branch is served.
MaterializeAlways(u, b, c) == prompts' = [prompts EXCEPT ![u] = c]

\* Writing prompts is part of the transaction that moves main.
Materialize(u, b, c) ==
  prompts' = IF b = Main THEN [prompts EXCEPT ![u] = c] ELSE prompts

\* The row of a commit about to be stored.
NewRow(f) == [uri |-> f.uri, content |-> f.content, parent |-> f.parent,
              parent2 |-> f.parent2, meta |-> f.meta]

\* Mutant: ON CONFLICT(hash) DO UPDATE.
UpsertCommit(h, f) ==
  commits' = IF h \in DOMAIN commits THEN [commits EXCEPT ![h] = NewRow(f)]
             ELSE Append(commits, NewRow(f))

\* INSERT ... ON CONFLICT(hash) DO NOTHING.
InsertCommit(h, f) ==
  commits' = IF h \in DOMAIN commits THEN commits
             ELSE Append(commits, NewRow(f))

Return(p) == call' = [call EXCEPT ![p] = Idle]

-----------------------------------------------------------------------------
\* Mutant: the parent is always the trunk's tip.
CommitOnMain(p, u, b, c, m) ==
  /\ call[p] = Idle
  /\ call' = [call EXCEPT ![p] =
       [op |-> "commit", uri |-> u, branch |-> b, content |-> c,
        parent |-> Tip(u, Main), parent2 |-> NoHash, meta |-> m]]
  /\ UNCHANGED Tables

\* Commit reads the tip outside the transaction; a missing branch roots it.
Commit(p, u, b, c, m) ==
  /\ call[p] = Idle
  /\ call' = [call EXCEPT ![p] =
       [op |-> "commit", uri |-> u, branch |-> b, content |-> c,
        parent |-> Tip(u, b), parent2 |-> NoHash, meta |-> m]]
  /\ UNCHANGED Tables

\* commit's transaction: the row, the branch pointer, and the served HEAD when
\* the branch is main.
CommitTx(p) ==
  /\ call[p].op = "commit"
  /\ LET f == call[p]
         h == CommitHash(f.content, f.parent, f.parent2, f.meta)
     IN /\ h <= MaxCommits
        /\ InsertCommit(h, f)
        /\ refs' = [refs EXCEPT ![f.uri][f.branch] = h]
        /\ Materialize(f.uri, f.branch, f.content)
        /\ dag' = [dag EXCEPT ![f.uri] = @ \cup {h}]
  /\ Return(p)

\* Mutant: a missing branch is no error, as in Commit.
MergeUnchecked(p, u, into, from, m) ==
  /\ call[p] = Idle
  /\ call' = [call EXCEPT ![p] =
       [op |-> "merge", uri |-> u, branch |-> into, from |-> from,
        parent |-> Tip(u, into), meta |-> m]]
  /\ UNCHANGED Tables

\* Merge, up to the read of into's tip.
Merge(p, u, into, from, m) ==
  /\ call[p] = Idle
  /\ Tip(u, into) # NoHash
  /\ call' = [call EXCEPT ![p] =
       [op |-> "merge", uri |-> u, branch |-> into, from |-> from,
        parent |-> Tip(u, into), meta |-> m]]
  /\ UNCHANGED Tables

\* Mutant: the content merged is the one already there.
MergeFromOurs(p) ==
  /\ call[p].op = "merge"
  /\ LET f == call[p]
         src == Tip(f.uri, f.from)
     IN /\ src # NoHash
        /\ call' = [call EXCEPT ![p] =
             [op |-> "commit", uri |-> f.uri, branch |-> f.branch,
              content |-> commits[f.parent].content, parent |-> f.parent,
              parent2 |-> src, meta |-> f.meta]]
  /\ UNCHANGED Tables

\* Merge reads from's tip and that commit, and takes its content verbatim.
MergeFrom(p) ==
  /\ call[p].op = "merge"
  /\ LET f == call[p]
         src == Tip(f.uri, f.from)
     IN /\ src # NoHash
        /\ call' = [call EXCEPT ![p] =
             [op |-> "commit", uri |-> f.uri, branch |-> f.branch,
              content |-> commits[src].content, parent |-> f.parent,
              parent2 |-> src, meta |-> f.meta]]
  /\ UNCHANGED Tables

\* Branch reads the tip it forks from ...
CreateBranch(p, u, name, from) ==
  /\ call[p] = Idle
  /\ Tip(u, from) # NoHash
  /\ call' = [call EXCEPT ![p] =
       [op |-> "branch", uri |-> u, branch |-> name, hash |-> Tip(u, from)]]
  /\ UNCHANGED Tables

\* ... and inserts the new ref.  The primary key refuses an existing branch.
\* The prompts table is left alone, whatever the branch is called.
BranchInsert(p) ==
  /\ call[p].op = "branch"
  /\ Tip(call[p].uri, call[p].branch) = NoHash
  /\ refs' = [refs EXCEPT ![call[p].uri][call[p].branch] = call[p].hash]
  /\ Return(p)
  /\ UNCHANGED <<commits, prompts, dag>>

\* Mutant: any stored commit will do.
SetBranchUnchecked(p, u, b, h) ==
  /\ call[p] = Idle
  /\ h \in DOMAIN commits
  /\ call' = [call EXCEPT ![p] =
       [op |-> "set", uri |-> u, branch |-> b, hash |-> h]]
  /\ UNCHANGED Tables

\* SetBranch reads the commit and refuses one stored for another prompt ...
SetBranch(p, u, b, h) ==
  /\ call[p] = Idle
  /\ h \in DOMAIN commits
  /\ commits[h].uri = u
  /\ call' = [call EXCEPT ![p] =
       [op |-> "set", uri |-> u, branch |-> b, hash |-> h]]
  /\ UNCHANGED Tables

\* Mutant: the served HEAD is not materialized again.
SetBranchRefOnly(p) ==
  /\ call[p].op = "set"
  /\ refs' = [refs EXCEPT ![call[p].uri][call[p].branch] = call[p].hash]
  /\ Return(p)
  /\ UNCHANGED <<commits, prompts, dag>>

\* ... and in a transaction moves the branch, and the HEAD with main.
SetBranchTx(p) ==
  /\ call[p].op = "set"
  /\ LET f == call[p]
     IN /\ refs' = [refs EXCEPT ![f.uri][f.branch] = f.hash]
        /\ Materialize(f.uri, f.branch, commits[f.hash].content)
  /\ Return(p)
  /\ UNCHANGED <<commits, dag>>

\* Any error return after a call's first read: the other branch of Merge is
\* missing, the new branch exists, a statement fails or the context is
\* cancelled and the deferred Rollback undoes the transaction.
Abort(p) ==
  /\ call[p] # Idle
  /\ Return(p)
  /\ UNCHANGED Tables

\* Put upserts the served HEAD alone.
Put(u, c) ==
  /\ u \in PutUri
  /\ prompts' = [prompts EXCEPT ![u] = c]
  /\ UNCHANGED <<commits, refs, call, dag>>

-----------------------------------------------------------------------------
StoreInit ==
  /\ commits = <<>>
  /\ refs = [u \in Uri |-> [b \in Branch |-> NoHash]]
  /\ prompts = [u \in Uri |-> None]
  /\ call = [p \in Proc |-> Idle]
  /\ dag = [u \in Uri |-> {}]

StoreStep(p) ==
  \/ \E u \in Uri, b \in Branch, c \in Content, m \in Meta : Commit(p, u, b, c, m)
  \/ CommitTx(p)
  \/ \E u \in Uri, into, from \in Branch, m \in Meta : Merge(p, u, into, from, m)
  \/ MergeFrom(p)
  \/ \E u \in Uri, name, from \in Branch : CreateBranch(p, u, name, from)
  \/ BranchInsert(p)
  \/ \E u \in Uri, b \in Branch, h \in Hash : SetBranch(p, u, b, h)
  \/ SetBranchTx(p)
  \/ Abort(p)

StoreNext ==
  \/ \E p \in Proc : StoreStep(p)
  \/ \E u \in Uri, c \in Content : Put(u, c)

StoreSpec == StoreInit /\ [][StoreNext]_storeVars

-----------------------------------------------------------------------------
\* Log: the first-parent chain from a branch tip to the root, newest first.
\* Rows never change, so the walk is determined by the tip it starts from.
FirstParents[h \in 0 .. Len(commits)] ==
  IF h = NoHash THEN <<>> ELSE <<h>> \o FirstParents[commits[h].parent]

Log(u, b) == FirstParents[Tip(u, b)]

\* Mutant: no check that the commit belongs to the prompt.
ResolveAnyHash(u, h) == IF h \in DOMAIN commits THEN h ELSE NoHash

\* Resolve of a commit hash (a branch name resolves to Tip): NoHash is
\* ErrNotFound.
ResolveHash(u, h) ==
  IF h \in DOMAIN commits /\ commits[h].uri = u THEN h ELSE NoHash

-----------------------------------------------------------------------------
(***************************************************************************)
(* Properties.                                                             *)
(***************************************************************************)

\* Every table and every frame has its type: no call ever carries the hash of
\* a branch it did not find into a merge, a fork or a rollback.
TypeOK ==
  /\ commits \in Seq(Row)
  /\ Len(commits) <= MaxCommits
  /\ refs \in [Uri -> [Branch -> Hash \cup {NoHash}]]
  /\ prompts \in [Uri -> Content \cup {None}]
  /\ call \in [Proc -> Frame]
  /\ dag \in [Uri -> SUBSET Hash]

\* Log terminates and never leaves the prompt: from every branch tip, the
\* first-parent walk meets strictly older rows, down to a root commit, and
\* only rows that writes to this prompt returned.
LogIsLineage ==
  \A u \in Uri, b \in Branch :
    LET log == Log(u, b)
    IN /\ \A i \in DOMAIN log : log[i] \in dag[u]
       /\ \A i, j \in DOMAIN log : i < j => log[j] < log[i]
       /\ log # <<>> => commits[log[Len(log)]].parent = NoHash

\* A merge commit is "take theirs": its content is that of its second parent,
\* whatever moved on either branch while Merge was reading.
MergeTakesTheirs ==
  \A i \in DOMAIN commits :
    commits[i].parent2 # NoHash =>
      /\ commits[i].parent # NoHash
      /\ commits[i].content = commits[commits[i].parent2].content

\* The served HEAD is the materialized tip of main, for every prompt that
\* only the versioned operations write, whichever calls interleave.
HeadIsMainTip ==
  \A u \in Uri \ PutUri :
    prompts[u] # None =>
      /\ Tip(u, Main) # NoHash
      /\ prompts[u] = commits[Tip(u, Main)].content

\* Pinning by hash never crosses prompts, and it finds every commit of a
\* prompt whose hash no other prompt has obtained too.
PinsStayWithinPrompt ==
  \A u \in Uri, h \in Hash :
    /\ ResolveHash(u, h) # NoHash => h \in dag[u]
    /\ (h \in dag[u] /\ \A v \in Uri \ {u} : h \notin dag[v])
         => ResolveHash(u, h) = h

\* History is append-only: no step changes or removes a stored commit.
AppendOnlyStep ==
  /\ Len(commits') >= Len(commits)
  /\ \A i \in DOMAIN commits : commits'[i] = commits[i]

AppendOnly == [][AppendOnlyStep]_storeVars

ExtendsTipStep ==
  \A p \in Proc : call[p].op = "commit" /\ refs' # refs /\ call'[p] = Idle =>
    LET t == Tip(call[p].uri, call[p].branch)
        h == refs'[call[p].uri][call[p].branch]
    IN commits'[h].parent = t

\* "Commit appends a new version onto branch": the commit that a branch is
\* advanced to by a publish or a merge has the previous tip as its parent.
CommitExtendsTip == [][ExtendsTipStep]_storeVars

RecommitStep ==
  \A p \in Proc :
    LET f == call[p]
        t == Tip(f.uri, f.branch)
    IN /\ f.op = "commit" /\ call'[p] = Idle
       /\ t # NoHash /\ SameNode(commits[t], f.content, f.parent, f.parent2, f.meta)
       => UNCHANGED <<commits, refs>>

\* "Committing identical content+meta onto the same tip is idempotent (same hash,
\* pointer unchanged)": of two publishes or merges of the same change that read the
\* same tip, the later one adds no row and leaves the branch at the earlier one's.
RecommitIsIdempotent == [][RecommitStep]_storeVars

\* The store implements the registry: a branch carries the content of its
\* tip, and what a prompt has seen is the content of its history.
ContentAt(h) == IF h = NoHash THEN None ELSE commits[h].content

tipContent == [u \in Uri |-> [b \in Branch |-> ContentAt(refs[u][b])]]

seenContent == [u \in Uri |-> {commits[h].content : h \in dag[u]}]

R == INSTANCE Registry WITH tip <- tipContent, head <- prompts, seen <- seenContent

\* Every transaction of the store is one atomic step of the registry, or none.
ImplementsRegistry == R!Spec

=============================================================================
