----------------------------- MODULE MCDatabase ----------------------------
(* The database for TLC: p1 is of a release with fewer migrations. *)
EXTENDS Database

CONSTANT p1

OlderAndNewer == [p \in Proc |-> IF p = p1 THEN 2 ELSE 4]

=============================================================================
