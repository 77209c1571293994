------------------------------ MODULE MCStore ------------------------------
(* The store for TLC: callers are interchangeable. *)
EXTENDS Store, TLC

ProcSymmetry == Permutations(Proc)

=============================================================================
