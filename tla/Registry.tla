----------------------------- MODULE Registry ------------------------------
(***************************************************************************)
(* What the store promises its callers, without commits, hashes or calls   *)
(* in progress: every branch of a prompt carries one of the contents       *)
(* written to that prompt, each write takes effect at once, and the served *)
(* HEAD moves exactly when main is moved by a write.                       *)
(***************************************************************************)
CONSTANTS Uri, Branch, Main, Content, None, PutUri

VARIABLES
  tip,      \* content at the tip of each branch, None before it exists
  head,     \* served content, None before there is one
  seen      \* contents that writes have put into the prompt's history

registryVars == <<tip, head, seen>>

\* The branch now carries c; so does the served HEAD if the branch is main.
Move(u, b, c) ==
  /\ tip' = [tip EXCEPT ![u][b] = c]
  /\ head' = IF b = Main THEN [head EXCEPT ![u] = c] ELSE head

\* PublishPrompt: a content of the caller's choice (MergeBranch: the source's).
Publish(u, b, c) ==
  /\ Move(u, b, c)
  /\ seen' = [seen EXCEPT ![u] = @ \cup {c}]

\* SetBranch: a content this prompt has had before.
Reuse(u, b, c) ==
  /\ c \in seen[u]
  /\ Move(u, b, c)
  /\ UNCHANGED seen

\* CreateBranch: never an existing branch, and nothing is served anew.
Fork(u, b, c) ==
  /\ c \in seen[u]
  /\ tip[u][b] = None
  /\ tip' = [tip EXCEPT ![u][b] = c]
  /\ UNCHANGED <<head, seen>>

\* `put` and `restore`: the served HEAD alone.
Overwrite(u, c) ==
  /\ u \in PutUri
  /\ head' = [head EXCEPT ![u] = c]
  /\ UNCHANGED <<tip, seen>>

Init ==
  /\ tip = [u \in Uri |-> [b \in Branch |-> None]]
  /\ head = [u \in Uri |-> None]
  /\ seen = [u \in Uri |-> {}]

Next ==
  \E u \in Uri, c \in Content :
    \/ \E b \in Branch : Publish(u, b, c) \/ Reuse(u, b, c) \/ Fork(u, b, c)
    \/ Overwrite(u, c)

Spec == Init /\ [][Next]_registryVars

=============================================================================
