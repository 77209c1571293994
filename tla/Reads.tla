------------------------------- MODULE Reads -------------------------------
(***************************************************************************)
(* What the service promises those who read the HEAD of a prompt, without  *)
(* handlers, caches, notifications or faults: a version can be given out   *)
(* from the moment it is read as the HEAD, and no longer than Bound ticks  *)
(* after it has ceased to be.  Subscriber counts on no more than this.     *)
(***************************************************************************)
EXTENDS Naturals

CONSTANTS Uri, Content, None, Bound

VARIABLES
  head,     \* served content, None before there is one
  gone,     \* ticks since each version was the HEAD, up to Bound + 1
  held      \* versions of each prompt that a reader may be given

readVars == <<head, gone, held>>

\* A write moves the HEAD; what was given out or kept before stays.
Move(u, c) ==
  /\ head' = [head EXCEPT ![u] = c]
  /\ gone' = [gone EXCEPT ![u] = [@ EXCEPT ![c] = 0]]
  /\ UNCHANGED held

\* Reads and evictions: only the HEAD of the moment is added.
Hold ==
  /\ held' \in [Uri -> SUBSET Content]
  /\ \A u \in Uri : held'[u] \subseteq held[u] \cup {head[u]}
  /\ UNCHANGED <<head, gone>>

\* Time passes, and what has been gone for too long is given to nobody.
Pass ==
  /\ gone' = [u \in Uri |-> [c \in Content |->
                IF c = head[u] \/ gone[u][c] > Bound THEN gone[u][c] ELSE gone[u][c] + 1]]
  /\ held' \in [Uri -> SUBSET Content]
  /\ \A u \in Uri : held'[u] \subseteq {c \in held[u] : gone'[u][c] <= Bound}
  /\ UNCHANGED head

Init ==
  /\ head = [u \in Uri |-> None]
  /\ gone = [u \in Uri |-> [c \in Content |-> Bound + 1]]
  /\ held = [u \in Uri |-> {}]

Next == (\E u \in Uri, c \in Content : Move(u, c)) \/ Hold \/ Pass

Spec == Init /\ [][Next]_readVars

=============================================================================
