----------------------------- MODULE Promptctl -----------------------------
(***************************************************************************)
(* The authoring tool, cmd/promptctl/main.go: a developer's git repository *)
(* of prompt files, the commands commit, diff, promote, push, pull and     *)
(* publish, its origin, and the server it publishes to.  A command runs    *)
(* step by step and may fail at each; what it has done stays.  Colleagues  *)
(* push to the same origin.  Files are edited between commands.            *)
(*                                                                         *)
(* go-git is external.  A commit is its tree and its identity, a branch    *)
(* the sequence of its commits.  A push sends all branches or, if one is   *)
(* behind, none; a checkout wants tracked files unmodified, and when it    *)
(* refuses it has moved HEAD, or not; untracked files stay or are removed. *)
(***************************************************************************)
EXTENDS Integers, Sequences

CONSTANTS
  Path,        \* prompt files
  Content,     \* file contents
  Empty,       \* the content ""
  Valid,       \* contents that validate.Prompt accepts
  None,        \* no such file, or the server has no such prompt
  Branch,      \* branches
  Main,        \* the branch HEAD is on at first, and origin's default branch
  MaxCommits   \* bound on the commits made, here and by colleagues

ASSUME ContentAssumption ==
  Valid \subseteq Content /\ Empty \notin Valid /\ None \notin Content
ASSUME BranchAssumption == Main \in Branch
ASSUME BoundAssumption == MaxCommits \in Nat

VARIABLES
  disk,        \* the working tree
  index,       \* the staging area
  head,        \* the branch HEAD names
  refs,        \* the local branches
  origin,      \* the branches of the remote
  served,      \* what the server serves
  cmd,         \* the command that is running
  made         \* the number of commits made

repoVars == <<disk, index, head, refs>>

vars == <<disk, index, head, refs, origin, served, cmd, made>>

-----------------------------------------------------------------------------
Tree == [Path -> Content \cup {None}]

Commit == [tree : Tree, id : 0 .. MaxCommits]

NoFiles == [p \in Path |-> None]

Idle == [stage |-> "idle"]

CommitFrame == [stage : {"addall", "commit"}, op : {"commit"}]

\* promote with the content it read.
PromoteFrame == [stage : {"checkout", "write", "add", "commit"}, op : {"promote"},
                 path : Path, to : Branch, content : Content]

\* push, with or without -server, and the loop of publishToServer.
PushFrame == [stage : {"push"}, op : {"push"}, server : BOOLEAN]

PublishFrame == [stage : {"publish"}, op : {"push", "publish"}, todo : SUBSET Path]

Frame == {Idle} \cup CommitFrame \cup PromoteFrame \cup PushFrame \cup PublishFrame

At(stage) == cmd.stage = stage

\* treeAt: the tree of a branch's last commit.
TreeAt(b) == refs[b][Len(refs[b])].tree

\* blobContent and diskContent: a file that is not there reads as empty.
Read(x) == IF x = None THEN Empty ELSE x

\* diskPromptFiles.
Files == {p \in Path : disk[p] # None}

\* Mutant: only the files on disk are compared.
ChangedOnDisk(b) == {p \in Files : Read(TreeAt(b)[p]) # Read(disk[p])}

\* diffCmd: the prompts, of the branch or on disk, whose contents differ.
Changed(b) ==
  {p \in Files \cup {q \in Path : TreeAt(b)[q] # None} : Read(TreeAt(b)[p]) # Read(disk[p])}

\* validateAll.
AllValid == \A p \in Files : Read(disk[p]) \in Valid

IsPrefixOf(s, t) == Len(s) <= Len(t) /\ \A i \in DOMAIN s : s[i] = t[i]

Unmodified == \A p \in Path : index[p] # None => disk[p] = index[p]

\* The working tree after a reset to a tree: its files, and untracked ones that
\* are left.
ResetTo(tree) ==
  \E keep \in SUBSET {p \in Files : index[p] = None /\ tree[p] = None} :
    disk' = [p \in Path |-> IF p \in keep THEN disk[p] ELSE tree[p]]

-----------------------------------------------------------------------------
\* The developer edits a file, or removes it, between commands.
Edit(p, c) ==
  /\ At("idle")
  /\ disk' = [disk EXCEPT ![p] = c]
  /\ UNCHANGED <<index, head, refs, origin, served, cmd, made>>

\* Mutant: nothing is validated.
CommitCmdUnchecked ==
  /\ At("idle")
  /\ cmd' = [stage |-> "addall", op |-> "commit"]
  /\ UNCHANGED <<disk, index, head, refs, origin, served, made>>

\* commit: one invalid file is fatal.
CommitCmd ==
  /\ At("idle")
  /\ AllValid
  /\ cmd' = [stage |-> "addall", op |-> "commit"]
  /\ UNCHANGED <<disk, index, head, refs, origin, served, made>>

AddAll ==
  /\ At("addall")
  /\ index' = disk
  /\ cmd' = [cmd EXCEPT !.stage = "commit"]
  /\ UNCHANGED <<disk, head, refs, origin, served, made>>

\* Worktree.Commit of the index, for commit and promote; an empty one fails.
CommitIndex ==
  /\ At("commit")
  /\ made < MaxCommits
  /\ index # TreeAt(head)
  /\ refs' = [refs EXCEPT ![head] = Append(@, [tree |-> index, id |-> made + 1])]
  /\ made' = made + 1
  /\ cmd' = Idle
  /\ UNCHANGED <<disk, index, head, origin, served>>

\* promote up to its first change: absent, unchanged and invalid prompts end it.
Promote(p, from, to) ==
  /\ At("idle")
  /\ LET content == Read(TreeAt(from)[p])
     IN /\ content \notin {Empty, Read(TreeAt(to)[p])}
        /\ content \in Valid
        /\ cmd' = [stage |-> "checkout", op |-> "promote", path |-> p, to |-> to,
                   content |-> content]
  /\ UNCHANGED <<disk, index, head, refs, origin, served, made>>

\* Mutant: the commit is checked out, not the branch.
CheckoutDetached ==
  /\ At("checkout")
  /\ Unmodified
  /\ head' = None
  /\ index' = TreeAt(cmd.to)
  /\ ResetTo(TreeAt(cmd.to))
  /\ cmd' = [cmd EXCEPT !.stage = "write"]
  /\ UNCHANGED <<refs, origin, served, made>>

\* The branch to promote to is checked out, and HEAD stays on it.
Checkout ==
  /\ At("checkout")
  /\ Unmodified
  /\ head' = cmd.to
  /\ index' = TreeAt(cmd.to)
  /\ ResetTo(TreeAt(cmd.to))
  /\ cmd' = [cmd EXCEPT !.stage = "write"]
  /\ UNCHANGED <<refs, origin, served, made>>

\* A refusal, before or after HEAD has moved.
CheckoutFails ==
  /\ At("checkout")
  /\ head' \in {head, cmd.to}
  /\ cmd' = Idle
  /\ UNCHANGED <<disk, index, refs, origin, served, made>>

WriteFile ==
  /\ At("write")
  /\ disk' = [disk EXCEPT ![cmd.path] = cmd.content]
  /\ cmd' = [cmd EXCEPT !.stage = "add"]
  /\ UNCHANGED <<index, head, refs, origin, served, made>>

\* Mutant: everything on disk is added.
AddPathAll ==
  /\ At("add")
  /\ index' = disk
  /\ cmd' = [cmd EXCEPT !.stage = "commit"]
  /\ UNCHANGED <<disk, head, refs, origin, served, made>>

\* Worktree.Add of the one path.
AddPath ==
  /\ At("add")
  /\ index' = [index EXCEPT ![cmd.path] = disk[cmd.path]]
  /\ cmd' = [cmd EXCEPT !.stage = "commit"]
  /\ UNCHANGED <<disk, head, refs, origin, served, made>>

\* log.Fatal at any step: disk full, no permission, an empty commit, no network.
Fail ==
  /\ cmd.stage \notin {"idle", "checkout"}
  /\ cmd' = Idle
  /\ UNCHANGED <<disk, index, head, refs, origin, served, made>>

-----------------------------------------------------------------------------
\* push: all files are validated, then origin, then the server.
PushCmd(server) ==
  /\ At("idle")
  /\ AllValid
  /\ cmd' = [stage |-> "push", op |-> "push", server |-> server]
  /\ UNCHANGED <<disk, index, head, refs, origin, served, made>>

AfterPush == IF cmd.server THEN [stage |-> "publish", op |-> "push", todo |-> Files] ELSE Idle

\* Mutant: an error of the push is reported and publishing goes on.
PushLenient ==
  /\ At("push")
  /\ IF \A b \in Branch : IsPrefixOf(origin[b], refs[b]) THEN origin' = refs
     ELSE UNCHANGED origin
  /\ cmd' = AfterPush
  /\ UNCHANGED <<disk, index, head, refs, served, made>>

\* Repository.Push; "already up to date" is a success.
Push ==
  /\ At("push")
  /\ \A b \in Branch : IsPrefixOf(origin[b], refs[b])
  /\ origin' = refs
  /\ cmd' = AfterPush
  /\ UNCHANGED <<disk, index, head, refs, served, made>>

\* The push took effect and is reported as failed.
PushLost ==
  /\ At("push")
  /\ \A b \in Branch : IsPrefixOf(origin[b], refs[b])
  /\ origin' = refs
  /\ cmd' = Idle
  /\ UNCHANGED <<disk, index, head, refs, served, made>>

\* publish, of the paths it is given or of the whole tree.
PublishCmd(paths) ==
  /\ At("idle")
  /\ cmd' = [stage |-> "publish", op |-> "publish",
             todo |-> IF paths = {} THEN Files ELSE paths]
  /\ UNCHANGED <<disk, index, head, refs, origin, served, made>>

\* publishToServer validates each file again and calls PublishPrompt, for the
\* branch main; the call may take effect and its answer be lost, which is fatal.
PublishOne(p) ==
  /\ At("publish")
  /\ p \in cmd.todo
  /\ Read(disk[p]) \in Valid
  /\ served' = [served EXCEPT ![p] = Read(disk[p])]
  /\ cmd' \in {[cmd EXCEPT !.todo = @ \ {p}], Idle}
  /\ UNCHANGED <<disk, index, head, refs, origin, made>>

PublishDone ==
  /\ At("publish")
  /\ cmd.todo = {}
  /\ cmd' = Idle
  /\ UNCHANGED <<disk, index, head, refs, origin, served, made>>

\* pull: the current branch, or origin's default one, fast forward only.  The
\* branch has moved also when the working tree is then refused.
Pull(b) ==
  /\ At("idle")
  /\ b \in {head, Main}
  /\ IsPrefixOf(refs[head], origin[b]) /\ refs[head] # origin[b]
  /\ refs' = [refs EXCEPT ![head] = origin[b]]
  /\ LET tree == origin[b][Len(origin[b])].tree
     IN IF Unmodified THEN index' = tree /\ ResetTo(tree)
        ELSE UNCHANGED <<disk, index>>
  /\ UNCHANGED <<head, origin, served, cmd, made>>

\* A colleague's push, of a commit of theirs on top of origin's.
ColleaguePush(b, tree) ==
  /\ made < MaxCommits
  /\ \A p \in Path : tree[p] \in Valid \cup {None}
  /\ origin' = [origin EXCEPT ![b] = Append(@, [tree |-> tree, id |-> made + 1])]
  /\ made' = made + 1
  /\ UNCHANGED <<disk, index, head, refs, served, cmd>>

-----------------------------------------------------------------------------
Init ==
  /\ disk = NoFiles
  /\ index = NoFiles
  /\ head = Main
  /\ refs = [b \in Branch |-> << [tree |-> NoFiles, id |-> 0] >>]
  /\ origin = refs
  /\ served = NoFiles
  /\ cmd = Idle
  /\ made = 0

Next ==
  \/ \E p \in Path, c \in Content \cup {None} : Edit(p, c)
  \/ CommitCmd \/ AddAll \/ CommitIndex
  \/ \E p \in Path, from, to \in Branch : Promote(p, from, to)
  \/ Checkout \/ CheckoutFails \/ WriteFile \/ AddPath \/ Fail
  \/ \E server \in BOOLEAN : PushCmd(server)
  \/ Push \/ PushLost
  \/ \E paths \in SUBSET Path : PublishCmd(paths)
  \/ \E p \in Path : PublishOne(p)
  \/ PublishDone
  \/ \E b \in Branch : Pull(b)
  \/ \E b \in Branch, tree \in Tree : ColleaguePush(b, tree)

Spec == Init /\ [][Next]_vars

-----------------------------------------------------------------------------
(***************************************************************************)
(* Properties.                                                             *)
(***************************************************************************)

\* Types of the repository, the remote and the running command.
CtlTypeOK ==
  /\ disk \in Tree /\ index \in Tree /\ served \in Tree
  /\ head \in Branch
  /\ refs \in [Branch -> Seq(Commit) \ {<<>>}]
  /\ origin \in [Branch -> Seq(Commit) \ {<<>>}]
  /\ cmd \in Frame
  /\ made \in 0 .. MaxCommits

ValidTree(tree) == \A p \in Path : tree[p] \in Valid \cup {None}

\* "A malformed prompt blocks the whole commit": no commit of a branch, here or
\* at origin, holds one, whatever an earlier command that failed left staged.
CommitsValid ==
  \A b \in Branch :
    /\ \A i \in DOMAIN refs[b] : ValidTree(refs[b][i].tree)
    /\ \A i \in DOMAIN origin[b] : ValidTree(origin[b][i].tree)

\* "Copies a validated prompt from one branch onto another": what a promote
\* is about to commit is the branch it promotes to with that one prompt changed,
\* though HEAD was elsewhere and files of other work lie in the working tree.
PromoteIsExact ==
  At("commit") /\ cmd.op = "promote" =>
    /\ head = cmd.to
    /\ cmd.content \in Valid
    /\ index = [TreeAt(head) EXCEPT ![cmd.path] = cmd.content]

\* Push goes to git first: when files that are all committed reach the server
\* by push -server, origin has the commit they are of, and the server has the
\* files that the loop has passed as they are in it.
PushPublishesPushed ==
  At("publish") /\ cmd.op = "push" /\ disk = TreeAt(head) =>
    /\ IsPrefixOf(refs[head], origin[head])
    /\ \A p \in Path \ cmd.todo : TreeAt(head)[p] # None => served[p] = TreeAt(head)[p]

\* When diff reports no change to HEAD and all prompts are valid there is none:
\* a commit would be empty.
DiffSeesAll == Changed(head) = {} /\ AllValid => disk = TreeAt(head)

=============================================================================
