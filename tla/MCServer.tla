------------------------------ MODULE MCServer -----------------------------
(* The service for TLC: one cache for all handlers. *)
EXTENDS Server

OneCache == [p \in Proc |-> CHOOSE k \in Cache : TRUE]

=============================================================================
