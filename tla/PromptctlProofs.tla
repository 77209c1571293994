--------------------------- MODULE PromptctlProofs -------------------------
(***************************************************************************)
(* Proofs about the authoring tool, for any files, contents, branches and  *)
(* number of commits, wherever a command fails.                            *)
(***************************************************************************)
EXTENDS Promptctl, TLAPS

\* The running command is of the kind its stage and its name say.
LEMMA FrameKind ==
  ASSUME NEW f \in Frame
  PROVE  /\ f.stage = "addall" => f \in CommitFrame
         /\ f.stage = "commit" /\ f.op = "promote" => f \in PromoteFrame
         /\ f.stage = "commit" => f \in CommitFrame \cup PromoteFrame
         /\ f.stage \in {"checkout", "write", "add"} => f \in PromoteFrame
         /\ f.stage = "push" => f \in PushFrame
         /\ f.stage = "publish" => f \in PublishFrame
<1>1. Idle.stage = "idle"
  BY DEF Idle
<1>2. \A g \in CommitFrame : g.stage \in {"addall", "commit"} /\ g.op = "commit"
  BY DEF CommitFrame
<1>3. \A g \in PromoteFrame : g.stage \in {"checkout", "write", "add", "commit"}
  BY DEF PromoteFrame
<1>4. \A g \in PushFrame : g.stage = "push"
  BY DEF PushFrame
<1>5. \A g \in PublishFrame : g.stage = "publish"
  BY DEF PublishFrame
<1> QED BY <1>1, <1>2, <1>3, <1>4, <1>5 DEF Frame

\* The last commit of a branch, and a branch with one commit more.
LEMMA LastCommit ==
  ASSUME NEW s \in Seq(Commit) \ {<<>>}
  PROVE  /\ Len(s) \in DOMAIN s /\ s[Len(s)] \in Commit /\ s[Len(s)].tree \in Tree
<1>1. Len(s) \in Nat /\ Len(s) # 0
  OBVIOUS
<1>2. Len(s) \in DOMAIN s /\ s[Len(s)] \in Commit
  BY <1>1
<1> QED BY <1>2 DEF Commit

LEMMA OneMore ==
  ASSUME NEW s \in Seq(Commit) \ {<<>>}, NEW c \in Commit
  PROVE  /\ Append(s, c) \in Seq(Commit) \ {<<>>}
         /\ \A i \in DOMAIN Append(s, c) : Append(s, c)[i] = c \/ (i \in DOMAIN s /\ Append(s, c)[i] = s[i])
         /\ Append(s, c)[Len(Append(s, c))] = c
         /\ \A r \in Seq(Commit) : IsPrefixOf(r, s) => IsPrefixOf(r, Append(s, c))
<1>1. /\ Append(s, c) \in Seq(Commit) /\ Len(Append(s, c)) = Len(s) + 1
      /\ \A i \in 1 .. Len(s) : Append(s, c)[i] = s[i]
      /\ Append(s, c)[Len(s) + 1] = c
  OBVIOUS
<1>2. Len(s) \in Nat /\ DOMAIN s = 1 .. Len(s) /\ DOMAIN Append(s, c) = 1 .. (Len(s) + 1)
  BY <1>1
<1>3. Append(s, c) # <<>>
  BY <1>1, <1>2
<1>4. ASSUME NEW r \in Seq(Commit), IsPrefixOf(r, s)
      PROVE  IsPrefixOf(r, Append(s, c))
  <2>1. Len(r) <= Len(s) /\ Len(r) \in Nat /\ DOMAIN r = 1 .. Len(r)
    BY <1>4 DEF IsPrefixOf
  <2>2. \A i \in DOMAIN r : i \in 1 .. Len(s) /\ r[i] = s[i]
    BY <1>2, <1>4, <2>1 DEF IsPrefixOf
  <2> QED BY <1>1, <1>2, <2>1, <2>2 DEF IsPrefixOf
<1> QED BY <1>1, <1>2, <1>3, <1>4

\* A tree that a reset leaves in the working tree.
LEMMA ResetType ==
  ASSUME CtlTypeOK, NEW tree \in Tree, ResetTo(tree)
  PROVE  disk' \in Tree
  BY DEF CtlTypeOK, ResetTo, Tree

LEMMA InitTypes == Init => CtlTypeOK
<1> SUFFICES ASSUME Init
             PROVE  CtlTypeOK
  OBVIOUS
<1>1. NoFiles \in Tree
  BY DEF NoFiles, Tree
<1>2. [tree |-> NoFiles, id |-> 0] \in Commit
  BY <1>1, BoundAssumption DEF Commit
<1>3. << [tree |-> NoFiles, id |-> 0] >> \in Seq(Commit) \ {<<>>}
  BY <1>2
<1> QED BY <1>1, <1>3, BranchAssumption, BoundAssumption DEF Init, CtlTypeOK, Frame

LEMMA TypeStep == CtlTypeOK /\ [Next]_vars => CtlTypeOK'
<1> SUFFICES ASSUME CtlTypeOK, [Next]_vars
             PROVE  CtlTypeOK'
  OBVIOUS
<1> USE DEF CtlTypeOK, At
<1>1. CASE UNCHANGED vars
  BY <1>1 DEF vars
<1>2. ASSUME NEW p \in Path, NEW c \in Content \cup {None}, Edit(p, c)
      PROVE  CtlTypeOK'
  BY <1>2 DEF Edit, Tree
<1>3. CASE CommitCmd
  BY <1>3 DEF CommitCmd, Frame, CommitFrame
<1>4. CASE AddAll
  <2>1. cmd \in CommitFrame
    BY <1>4, FrameKind DEF AddAll
  <2>2. cmd' \in CommitFrame
    BY <1>4, <2>1 DEF AddAll, CommitFrame
  <2> QED BY <1>4, <2>2 DEF AddAll, Frame
<1>5. CASE CommitIndex
  <2>1. [tree |-> index, id |-> made + 1] \in Commit
    BY <1>5, BoundAssumption DEF CommitIndex, Commit
  <2>2. refs' \in [Branch -> Seq(Commit) \ {<<>>}]
    BY <1>5, <2>1, OneMore DEF CommitIndex
  <2> QED BY <1>5, <2>2, BoundAssumption DEF CommitIndex, Frame
<1>6. ASSUME NEW p \in Path, NEW from \in Branch, NEW to \in Branch, Promote(p, from, to)
      PROVE  CtlTypeOK'
  <2>1. cmd' \in PromoteFrame
    BY <1>6, ContentAssumption DEF Promote, PromoteFrame
  <2> QED BY <1>6, <2>1 DEF Promote, Frame
<1>7. CASE Checkout
  <2>1. cmd \in PromoteFrame
    BY <1>7, FrameKind DEF Checkout
  <2>2. cmd.to \in Branch /\ cmd' \in PromoteFrame
    BY <1>7, <2>1 DEF Checkout, PromoteFrame
  <2>3. TreeAt(cmd.to) \in Tree
    BY <2>2, LastCommit DEF TreeAt
  <2>4. disk' \in Tree
    BY <1>7, <2>3, ResetType DEF Checkout
  <2> QED BY <1>7, <2>2, <2>3, <2>4 DEF Checkout, Frame
<1>8. CASE CheckoutFails
  <2>1. cmd \in PromoteFrame
    BY <1>8, FrameKind DEF CheckoutFails
  <2>2. cmd.to \in Branch
    BY <2>1 DEF PromoteFrame
  <2> QED BY <1>8, <2>2 DEF CheckoutFails, Frame
<1>9. CASE WriteFile
  <2>1. cmd \in PromoteFrame
    BY <1>9, FrameKind DEF WriteFile
  <2>2. cmd.content \in Content /\ cmd' \in PromoteFrame
    BY <1>9, <2>1 DEF WriteFile, PromoteFrame
  <2>3. disk' \in Tree
    BY <1>9, <2>2 DEF WriteFile, Tree
  <2> QED BY <1>9, <2>2, <2>3 DEF WriteFile, Frame
<1>10. CASE AddPath
  <2>1. cmd \in PromoteFrame
    BY <1>10, FrameKind DEF AddPath
  <2>2. cmd.path \in Path /\ cmd' \in PromoteFrame
    BY <1>10, <2>1 DEF AddPath, PromoteFrame
  <2>3. index' \in Tree
    BY <1>10, <2>2 DEF AddPath, Tree
  <2> QED BY <1>10, <2>2, <2>3 DEF AddPath, Frame
<1>11. CASE Fail
  BY <1>11 DEF Fail, Frame
<1>12. ASSUME NEW server \in BOOLEAN, PushCmd(server)
       PROVE  CtlTypeOK'
  BY <1>12 DEF PushCmd, Frame, PushFrame
<1>13. CASE Push \/ PushLost
  <2>1. AfterPush \in Frame
    BY DEF AfterPush, Frame, PublishFrame, Files
  <2>2. Idle \in Frame
    BY DEF Frame
  <2> QED BY <1>13, <2>1, <2>2 DEF Push, PushLost
<1>14. ASSUME NEW paths \in SUBSET Path, PublishCmd(paths)
       PROVE  CtlTypeOK'
  <2>1. (IF paths = {} THEN Files ELSE paths) \in SUBSET Path
    BY DEF Files
  <2> QED BY <1>14, <2>1 DEF PublishCmd, Frame, PublishFrame
<1>15. ASSUME NEW p \in Path, PublishOne(p)
       PROVE  CtlTypeOK'
  <2>1. cmd \in PublishFrame
    BY <1>15, FrameKind DEF PublishOne
  <2>2. [cmd EXCEPT !.todo = @ \ {p}] \in PublishFrame
    BY <2>1 DEF PublishFrame
  <2>3. cmd' \in Frame
    BY <1>15, <2>2 DEF PublishOne, Frame
  <2>4. served' \in Tree
    BY <1>15, ContentAssumption DEF PublishOne, Tree
  <2> QED BY <1>15, <2>3, <2>4 DEF PublishOne
<1>16. CASE PublishDone
  BY <1>16 DEF PublishDone, Frame
<1>17. ASSUME NEW b \in Branch, Pull(b)
       PROVE  CtlTypeOK'
  <2>1. origin[b][Len(origin[b])].tree \in Tree
    BY LastCommit
  <2>2. disk' \in Tree /\ index' \in Tree
    BY <1>17, <2>1, ResetType DEF Pull
  <2> QED BY <1>17, <2>2 DEF Pull
<1>18. ASSUME NEW b \in Branch, NEW tree \in Tree, ColleaguePush(b, tree)
       PROVE  CtlTypeOK'
  <2>1. [tree |-> tree, id |-> made + 1] \in Commit
    BY <1>18, BoundAssumption DEF ColleaguePush, Commit
  <2>2. origin' \in [Branch -> Seq(Commit) \ {<<>>}]
    BY <1>18, <2>1, OneMore DEF ColleaguePush
  <2> QED BY <1>18, <2>2, BoundAssumption DEF ColleaguePush
<1> QED BY <1>1, <1>2, <1>3, <1>4, <1>5, <1>6, <1>7, <1>8, <1>9, <1>10, <1>11, <1>12,
           <1>13, <1>14, <1>15, <1>16, <1>17, <1>18 DEF Next

\* The repository, the remote and the command keep their types: in particular
\* HEAD is on a branch, and no branch is ever empty.
THEOREM CtlTypeCorrect == Spec => []CtlTypeOK
  BY InitTypes, TypeStep, PTL DEF Spec

-----------------------------------------------------------------------------
\* What promote has reached at each of its steps.
PromoteSoFar ==
  /\ cmd.stage \in {"checkout", "write", "add"} \/ (At("commit") /\ cmd.op = "promote") =>
       cmd.content \in Valid
  /\ cmd.stage \in {"write", "add"} => head = cmd.to /\ index = TreeAt(head)
  /\ At("add") => disk[cmd.path] = cmd.content

\* What is staged, or about to be, is valid.
StagedValid ==
  /\ At("addall") => AllValid
  /\ At("commit") => ValidTree(index)

\* The inductive invariant of the commands that make commits.
CommitInv == CommitsValid /\ PromoteSoFar /\ PromoteIsExact /\ StagedValid

\* The files of a valid working tree are a valid tree.
LEMMA ValidDisk ==
  ASSUME AllValid
  PROVE  ValidTree(disk)
  BY DEF AllValid, ValidTree, Files, Read

LEMMA ValidAt ==
  ASSUME CtlTypeOK, CommitsValid, NEW b \in Branch
  PROVE  ValidTree(TreeAt(b))
  BY LastCommit DEF CtlTypeOK, CommitsValid, TreeAt

LEMMA CommitStep == CtlTypeOK /\ CommitInv /\ [Next]_vars => CommitInv'
<1> SUFFICES ASSUME CtlTypeOK, CommitInv, [Next]_vars
             PROVE  CommitInv'
  OBVIOUS
<1> USE DEF CommitInv
<1>1. ASSUME UNCHANGED <<refs, origin>>
      PROVE  CommitsValid'
  BY <1>1 DEF CommitsValid
<1>2. ASSUME cmd'.stage \in {"idle", "push", "publish"}
      PROVE  PromoteSoFar' /\ PromoteIsExact' /\ StagedValid'
  BY <1>2 DEF PromoteSoFar, PromoteIsExact, StagedValid, At
<1>3. Idle.stage = "idle"
  BY DEF Idle
<1>4. CASE UNCHANGED vars
  BY <1>4 DEF vars, CommitsValid, PromoteSoFar, PromoteIsExact, StagedValid, At, TreeAt,
              AllValid, ValidTree, Files
<1>5. ASSUME NEW p \in Path, NEW c \in Content \cup {None}, Edit(p, c)
      PROVE  CommitInv'
  BY <1>1, <1>2, <1>5 DEF Edit, At
<1>6. CASE CommitCmd
  <2>1. cmd'.stage = "addall" /\ AllValid'
    BY <1>6 DEF CommitCmd, AllValid, Files
  <2> QED BY <1>1, <1>6, <2>1 DEF CommitCmd, PromoteSoFar, PromoteIsExact, StagedValid, At
<1>7. CASE AddAll
  <2>1. cmd \in CommitFrame
    BY <1>7, FrameKind DEF AddAll, At, CtlTypeOK
  <2>2. cmd'.stage = "commit" /\ cmd'.op = "commit"
    BY <1>7, <2>1 DEF AddAll, CommitFrame
  <2>3. ValidTree(index')
    BY <1>7, ValidDisk DEF AddAll, StagedValid
  <2> QED BY <1>1, <1>7, <2>2, <2>3 DEF AddAll, PromoteSoFar, PromoteIsExact, StagedValid, At,
                                         ValidTree
<1>8. CASE CommitIndex
  <2>1. [tree |-> index, id |-> made + 1] \in Commit
    BY <1>8, BoundAssumption DEF CommitIndex, Commit, CtlTypeOK
  <2>2. ValidTree(index)
    BY <1>8 DEF CommitIndex, StagedValid
  <2>3. ASSUME NEW b \in Branch, NEW i \in DOMAIN refs'[b]
        PROVE  ValidTree(refs'[b][i].tree)
    <3>1. CASE b # head
      BY <1>8, <3>1 DEF CommitIndex, CommitsValid, CtlTypeOK
    <3>2. CASE b = head
      <4>1. refs'[b] = Append(refs[b], [tree |-> index, id |-> made + 1])
        BY <1>8, <3>2 DEF CommitIndex, CtlTypeOK
      <4>2. refs[b] \in Seq(Commit) \ {<<>>}
        BY DEF CtlTypeOK
      <4>3. \/ refs'[b][i] = [tree |-> index, id |-> made + 1]
            \/ (i \in DOMAIN refs[b] /\ refs'[b][i] = refs[b][i])
        BY <2>1, <4>1, <4>2, OneMore
      <4> QED BY <2>2, <4>3 DEF CommitsValid
    <3> QED BY <3>1, <3>2
  <2>4. CommitsValid'
    BY <1>8, <2>3 DEF CommitIndex, CommitsValid
  <2> QED BY <1>2, <1>3, <1>8, <2>4 DEF CommitIndex
<1>9. ASSUME NEW p \in Path, NEW from \in Branch, NEW to \in Branch, Promote(p, from, to)
      PROVE  CommitInv'
  <2>1. cmd'.stage = "checkout" /\ cmd'.content \in Valid
    BY <1>9 DEF Promote
  <2> QED BY <1>1, <1>9, <2>1 DEF Promote, PromoteSoFar, PromoteIsExact, StagedValid, At
<1>10. CASE Checkout
  <2>1. cmd \in PromoteFrame
    BY <1>10, FrameKind DEF Checkout, At, CtlTypeOK
  <2>2. /\ cmd'.stage = "write" /\ cmd'.to = cmd.to /\ cmd'.content = cmd.content
    BY <1>10, <2>1 DEF Checkout, PromoteFrame
  <2>3. cmd.content \in Valid
    BY <1>10 DEF Checkout, PromoteSoFar, At
  <2>4. head' = cmd'.to /\ index' = TreeAt(head)'
    BY <1>10, <2>2 DEF Checkout, TreeAt
  <2> QED BY <1>1, <1>10, <2>2, <2>3, <2>4
          DEF Checkout, PromoteSoFar, PromoteIsExact, StagedValid, At
<1>11. CASE CheckoutFails
  BY <1>1, <1>2, <1>3, <1>11 DEF CheckoutFails
<1>12. CASE WriteFile
  <2>1. cmd \in PromoteFrame
    BY <1>12, FrameKind DEF WriteFile, At, CtlTypeOK
  <2>2. /\ cmd'.stage = "add" /\ cmd'.to = cmd.to /\ cmd'.content = cmd.content
        /\ cmd'.path = cmd.path /\ cmd.path \in Path
    BY <1>12, <2>1 DEF WriteFile, PromoteFrame
  <2>3. cmd.content \in Valid /\ head = cmd.to /\ index = TreeAt(head)
    BY <1>12 DEF WriteFile, PromoteSoFar, At
  <2>4. disk'[cmd'.path] = cmd'.content
    BY <1>12, <2>2 DEF WriteFile, CtlTypeOK, Tree
  <2>5. TreeAt(head)' = TreeAt(head)
    BY <1>12 DEF WriteFile, TreeAt
  <2> QED BY <1>1, <1>12, <2>2, <2>3, <2>4, <2>5
          DEF WriteFile, PromoteSoFar, PromoteIsExact, StagedValid, At
<1>13. CASE AddPath
  <2>1. cmd \in PromoteFrame
    BY <1>13, FrameKind DEF AddPath, At, CtlTypeOK
  <2>2. /\ cmd'.stage = "commit" /\ cmd'.to = cmd.to /\ cmd'.content = cmd.content
        /\ cmd'.path = cmd.path /\ cmd.path \in Path /\ cmd'.op = "promote"
    BY <1>13, <2>1 DEF AddPath, PromoteFrame
  <2>3. /\ cmd.content \in Valid /\ head = cmd.to /\ index = TreeAt(head)
        /\ disk[cmd.path] = cmd.content
    BY <1>13 DEF AddPath, PromoteSoFar, At
  <2>4. TreeAt(head)' = TreeAt(head)
    BY <1>13 DEF AddPath, TreeAt
  <2>5. index' = [TreeAt(head) EXCEPT ![cmd.path] = cmd.content]
    BY <1>13, <2>3 DEF AddPath
  <2>6. ValidTree(TreeAt(head)) /\ TreeAt(head) \in Tree
    BY <2>3, ValidAt DEF CtlTypeOK
  <2>7. ValidTree(index')
    BY <2>3, <2>5, <2>6 DEF ValidTree, Tree
  <2> QED BY <1>1, <1>13, <2>2, <2>3, <2>4, <2>5, <2>7
          DEF AddPath, PromoteSoFar, PromoteIsExact, StagedValid, At, ValidTree
<1>14. CASE Fail
  BY <1>1, <1>2, <1>3, <1>14 DEF Fail
<1>15. ASSUME NEW server \in BOOLEAN, PushCmd(server)
       PROVE  CommitInv'
  BY <1>1, <1>2, <1>15 DEF PushCmd
<1>16. CASE Push \/ PushLost
  <2>1. cmd'.stage \in {"idle", "publish"}
    BY <1>3, <1>16 DEF Push, PushLost, AfterPush
  <2>2. CommitsValid'
    BY <1>16 DEF Push, PushLost, CommitsValid
  <2> QED BY <1>2, <2>1, <2>2
<1>17. ASSUME NEW paths \in SUBSET Path, PublishCmd(paths)
       PROVE  CommitInv'
  BY <1>1, <1>2, <1>17 DEF PublishCmd
<1>18. ASSUME NEW p \in Path, PublishOne(p)
       PROVE  CommitInv'
  <2>1. cmd \in PublishFrame
    BY <1>18, FrameKind DEF PublishOne, At, CtlTypeOK
  <2>2. cmd'.stage \in {"idle", "publish"}
    BY <1>3, <1>18, <2>1 DEF PublishOne, PublishFrame
  <2> QED BY <1>1, <1>2, <1>18, <2>2 DEF PublishOne
<1>19. CASE PublishDone
  BY <1>1, <1>2, <1>3, <1>19 DEF PublishDone
<1>20. ASSUME NEW b \in Branch, Pull(b)
       PROVE  CommitInv'
  <2>1. CommitsValid'
    BY <1>20 DEF Pull, CommitsValid, CtlTypeOK
  <2> QED BY <1>2, <1>20, <2>1 DEF Pull, At
<1>21. ASSUME NEW b \in Branch, NEW tree \in Tree, ColleaguePush(b, tree)
       PROVE  CommitInv'
  <2>1. [tree |-> tree, id |-> made + 1] \in Commit
    BY <1>21, BoundAssumption DEF ColleaguePush, Commit, CtlTypeOK
  <2>2. ASSUME NEW k \in Branch, NEW i \in DOMAIN origin'[k]
        PROVE  ValidTree(origin'[k][i].tree)
    <3>1. CASE k # b
      BY <1>21, <3>1 DEF ColleaguePush, CommitsValid, CtlTypeOK
    <3>2. CASE k = b
      <4>1. origin'[k] = Append(origin[k], [tree |-> tree, id |-> made + 1])
        BY <1>21, <3>2 DEF ColleaguePush, CtlTypeOK
      <4>2. origin[k] \in Seq(Commit) \ {<<>>}
        BY DEF CtlTypeOK
      <4>3. \/ origin'[k][i] = [tree |-> tree, id |-> made + 1]
            \/ (i \in DOMAIN origin[k] /\ origin'[k][i] = origin[k][i])
        BY <2>1, <4>1, <4>2, OneMore
      <4>4. ValidTree(tree)
        BY <1>21 DEF ColleaguePush, ValidTree
      <4> QED BY <4>3, <4>4 DEF CommitsValid
    <3> QED BY <3>1, <3>2
  <2>3. CommitsValid'
    BY <1>21, <2>2 DEF ColleaguePush, CommitsValid
  <2>4. PromoteSoFar' /\ PromoteIsExact' /\ StagedValid'
    BY <1>21 DEF ColleaguePush, PromoteSoFar, PromoteIsExact, StagedValid, At, TreeAt,
                 AllValid, ValidTree, Files
  <2> QED BY <2>3, <2>4
<1> QED BY <1>4, <1>5, <1>6, <1>7, <1>8, <1>9, <1>10, <1>11, <1>12, <1>13, <1>14, <1>15,
           <1>16, <1>17, <1>18, <1>19, <1>20, <1>21 DEF Next

LEMMA CommitInvHolds == Spec => []CommitInv
<1>1. Init => CommitInv
  <2> SUFFICES ASSUME Init
               PROVE  CommitInv
    OBVIOUS
  <2>1. \A b \in Branch : refs[b] = << [tree |-> NoFiles, id |-> 0] >> /\ origin[b] = refs[b]
    BY DEF Init
  <2>2. CommitsValid
    BY <2>1 DEF CommitsValid, ValidTree, NoFiles
  <2>3. cmd.stage = "idle"
    BY DEF Init, Idle
  <2> QED BY <2>2, <2>3 DEF CommitInv, PromoteSoFar, PromoteIsExact, StagedValid, At
<1> QED BY <1>1, CommitStep, CtlTypeCorrect, PTL DEF Spec

\* No commit holds a malformed prompt, whichever commands failed before it.
THEOREM CommitsAreValid == Spec => []CommitsValid
<1>1. CommitInv => CommitsValid
  BY DEF CommitInv
<1> QED BY <1>1, CommitInvHolds, PTL

\* A promote commits the branch it promotes to with one prompt changed.
THEOREM PromotesAreExact == Spec => []PromoteIsExact
<1>1. CommitInv => PromoteIsExact
  BY DEF CommitInv
<1> QED BY <1>1, CommitInvHolds, PTL

-----------------------------------------------------------------------------
\* A valid working tree in which diff sees no change is the last commit.
THEOREM DiffIsComplete == Spec => []DiffSeesAll
<1>1. CtlTypeOK /\ CommitInv => DiffSeesAll
  <2> SUFFICES ASSUME CtlTypeOK, CommitInv, Changed(head) = {}, AllValid
               PROVE  disk = TreeAt(head)
    BY DEF DiffSeesAll
  <2>1. head \in Branch /\ disk \in Tree /\ TreeAt(head) \in Tree
    BY LastCommit DEF CtlTypeOK, TreeAt
  <2>2. ValidTree(disk) /\ ValidTree(TreeAt(head))
    BY <2>1, ValidDisk, ValidAt DEF CommitInv
  <2>3. ASSUME NEW p \in Path
        PROVE  disk[p] = TreeAt(head)[p]
    <3>1. disk[p] \in Valid \cup {None} /\ TreeAt(head)[p] \in Valid \cup {None}
      BY <2>2 DEF ValidTree
    <3>2. disk[p] # None \/ TreeAt(head)[p] # None => Read(TreeAt(head)[p]) = Read(disk[p])
      BY DEF Changed, Files
    <3> QED BY <3>1, <3>2, ContentAssumption DEF Read
  <2> QED BY <2>1, <2>3 DEF Tree
<1> QED BY <1>1, CommitInvHolds, CtlTypeCorrect, PTL

\* By push -server, what is committed is at origin before it is served.
THEOREM PushesComeFirst == Spec => []PushPublishesPushed
<1>1. Init => PushPublishesPushed
  BY DEF Init, PushPublishesPushed, At, Idle
<1>2. CtlTypeOK /\ PushPublishesPushed /\ [Next]_vars => PushPublishesPushed'
  <2> SUFFICES ASSUME CtlTypeOK, PushPublishesPushed, [Next]_vars,
                      cmd'.stage = "publish", cmd'.op = "push", disk' = TreeAt(head)'
               PROVE  /\ IsPrefixOf(refs[head], origin[head])'
                      /\ \A p \in Path \ cmd'.todo :
                           TreeAt(head)'[p] # None => served'[p] = TreeAt(head)'[p]
    BY DEF PushPublishesPushed, At
  <2>1. CASE UNCHANGED vars
    BY <2>1 DEF vars, PushPublishesPushed, At, TreeAt
  <2>2. CASE Push
    <3>1. origin' = refs' /\ head' = head /\ refs' = refs /\ disk' = disk /\ cmd' = AfterPush
      BY <2>2 DEF Push
    <3>2. refs[head] \in Seq(Commit)
      BY DEF CtlTypeOK
    <3>3. IsPrefixOf(refs[head], origin[head])'
      BY <3>1, <3>2 DEF IsPrefixOf
    <3>4. cmd'.todo = Files
      <4>1. CASE cmd.server
        BY <3>1, <4>1 DEF AfterPush
      <4>2. CASE ~ cmd.server
        <5>1. cmd' = Idle
          BY <3>1, <4>2 DEF AfterPush
        <5> QED BY <5>1 DEF Idle
      <4> QED BY <4>1, <4>2
    <3>5. \A p \in Path \ cmd'.todo : TreeAt(head)'[p] = None
      BY <3>1, <3>4 DEF Files
    <3> QED BY <3>3, <3>5
  <2>3. ASSUME NEW p \in Path, PublishOne(p)
        PROVE  /\ IsPrefixOf(refs[head], origin[head])'
               /\ \A q \in Path \ cmd'.todo :
                    TreeAt(head)'[q] # None => served'[q] = TreeAt(head)'[q]
    <3>1. cmd \in PublishFrame /\ Idle.stage = "idle"
      BY <2>3, FrameKind DEF PublishOne, At, CtlTypeOK, Idle
    <3>2. cmd' = [cmd EXCEPT !.todo = @ \ {p}]
      BY <2>3, <3>1 DEF PublishOne
    <3>3. cmd.stage = "publish" /\ cmd.op = "push" /\ cmd'.todo = cmd.todo \ {p}
      BY <2>3, <3>1, <3>2 DEF PublishFrame, PublishOne, At
    <3>4. /\ UNCHANGED <<disk, head, refs, origin>> /\ TreeAt(head)' = TreeAt(head)
          /\ disk = TreeAt(head)
      BY <2>3 DEF PublishOne, TreeAt
    <3>5. /\ IsPrefixOf(refs[head], origin[head])
          /\ \A q \in Path \ cmd.todo : TreeAt(head)[q] # None => served[q] = TreeAt(head)[q]
      BY <3>3, <3>4 DEF PushPublishesPushed, At
    <3>6. \A q \in Path : TreeAt(head)[q] # None /\ q \notin cmd'.todo => served'[q] = TreeAt(head)[q]
      BY <2>3, <3>3, <3>4, <3>5 DEF PublishOne, Read, CtlTypeOK, Tree
    <3> QED BY <3>4, <3>5, <3>6
  <2>4. ASSUME NEW b \in Branch, NEW tree \in Tree, ColleaguePush(b, tree)
        PROVE  /\ IsPrefixOf(refs[head], origin[head])'
               /\ \A q \in Path \ cmd'.todo :
                    TreeAt(head)'[q] # None => served'[q] = TreeAt(head)'[q]
    <3>1. [tree |-> tree, id |-> made + 1] \in Commit
      BY <2>4, BoundAssumption DEF ColleaguePush, Commit, CtlTypeOK
    <3>2. UNCHANGED <<disk, head, refs, served, cmd>> /\ TreeAt(head)' = TreeAt(head)
      BY <2>4 DEF ColleaguePush, TreeAt
    <3>3. /\ IsPrefixOf(refs[head], origin[head])
          /\ \A q \in Path \ cmd.todo : TreeAt(head)[q] # None => served[q] = TreeAt(head)[q]
      BY <3>2 DEF PushPublishesPushed, At
    <3>4. origin'[head] \in {origin[head], Append(origin[head], [tree |-> tree, id |-> made + 1])}
      BY <2>4 DEF ColleaguePush, CtlTypeOK
    <3>5. refs[head] \in Seq(Commit) /\ origin[head] \in Seq(Commit) \ {<<>>}
      BY DEF CtlTypeOK
    <3>6. IsPrefixOf(refs[head], origin'[head])
      <4>1. CASE origin'[head] = origin[head]
        BY <3>3, <4>1 DEF IsPrefixOf
      <4>2. CASE origin'[head] = Append(origin[head], [tree |-> tree, id |-> made + 1])
        <5> DEFINE c == [tree |-> tree, id |-> made + 1]
        <5>1. c \in Commit
          BY <3>1
        <5> HIDE DEF c
        <5>2. IsPrefixOf(refs[head], Append(origin[head], c))
          BY <3>3, <3>5, <5>1, OneMore
        <5> QED BY <4>2, <5>2 DEF c
      <4> QED BY <3>4, <4>1, <4>2
    <3> QED BY <3>2, <3>3, <3>6
  <2>5. ASSUME \/ \E p \in Path, c \in Content \cup {None} : Edit(p, c)
               \/ CommitCmd \/ CommitIndex \/ CheckoutFails \/ Fail \/ PushLost \/ PublishDone
               \/ \E p \in Path, from, to \in Branch : Promote(p, from, to)
               \/ \E server \in BOOLEAN : PushCmd(server)
               \/ \E b \in Branch : Pull(b)
        PROVE  FALSE
    BY <2>5 DEF Edit, CommitCmd, CommitIndex, CheckoutFails, Fail, PushLost, PublishDone,
                Promote, PushCmd, Pull, At, Idle
  <2>6. ASSUME AddAll \/ Checkout \/ WriteFile \/ AddPath
        PROVE  FALSE
    <3>1. cmd \in CommitFrame \cup PromoteFrame
      BY <2>6, FrameKind DEF AddAll, Checkout, WriteFile, AddPath, At, CtlTypeOK
    <3>2. cmd'.stage \in {"commit", "write", "add"}
      BY <2>6, <3>1 DEF AddAll, Checkout, WriteFile, AddPath, CommitFrame, PromoteFrame
    <3> QED BY <3>2
  <2>7. ASSUME NEW paths, PublishCmd(paths)
        PROVE  FALSE
    BY <2>7 DEF PublishCmd
  <2> QED BY <2>1, <2>2, <2>3, <2>4, <2>5, <2>6, <2>7 DEF Next
<1> QED BY <1>1, <1>2, CtlTypeCorrect, PTL DEF Spec

=============================================================================
