------------------------------ MODULE Induction -----------------------------
(***************************************************************************)
(* Induction over the natural numbers for the proofs about recursively     *)
(* defined data: the first-parent walk of the store and the table of the   *)
(* line diff.  The property is given as the set of numbers that have it.   *)
(***************************************************************************)
EXTENDS Integers, WellFoundedInduction, TLAPS

\* A set of natural numbers that is not empty has a least element.
LEMMA LeastNat ==
  ASSUME NEW T \in SUBSET Nat, T # {}
  PROVE  \E x \in T : \A y \in T : x <= y
<1> DEFINE R == OpToRel(<, Nat)
<1>1. IsWellFoundedOn(R, Nat)
  BY NatLessThanWellFounded, Zenon
<1> HIDE DEF R
<1>2. PICK x \in T : \A y \in T : ~ (<<y, x>> \in R)
  BY <1>1, WFMin, Zenon
<1>3. \A y \in T : ~ (y < x)
  BY <1>2, Zenon DEF R, OpToRel
<1> QED BY <1>3

\* A set that every number is in when all smaller ones are holds all numbers.
LEMMA StrongInduction ==
  ASSUME NEW S, \A n \in Nat : (\A m \in 0 .. n - 1 : m \in S) => n \in S
  PROVE  \A n \in Nat : n \in S
<1> DEFINE T == {n \in Nat : n \notin S}
<1> SUFFICES ASSUME T # {} PROVE FALSE
  OBVIOUS
<1>1. PICK x \in T : \A y \in T : x <= y
  BY LeastNat
<1>2. \A m \in 0 .. x - 1 : m \in S
  BY <1>1
<1> QED BY <1>1, <1>2

\* A set that holds zero and every successor of a member holds all numbers.
LEMMA SimpleInduction ==
  ASSUME NEW S, 0 \in S, \A n \in Nat : n \in S => n + 1 \in S
  PROVE  \A n \in Nat : n \in S
<1> SUFFICES ASSUME NEW n \in Nat, \A m \in 0 .. n - 1 : m \in S PROVE n \in S
  BY StrongInduction
<1>1. CASE n = 0
  BY <1>1
<1>2. CASE n # 0
  BY <1>2, n - 1 \in 0 .. n - 1, (n - 1) + 1 = n
<1> QED BY <1>1, <1>2

=============================================================================
