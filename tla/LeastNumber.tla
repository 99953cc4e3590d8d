---------------------------- MODULE LeastNumber ----------------------------
(***************************************************************************)
(* A set of natural numbers that is not empty has a least element: what    *)
(* the proofs about searches for the first entry, or the first cell, need. *)
(***************************************************************************)
EXTENDS Integers, WellFoundedInduction, TLAPS

LEMMA Least ==
    ASSUME NEW S, S \subseteq Nat, S # {}
    PROVE  \E m \in S : \A k \in S : m <= k
<1> DEFINE R == {ss \in Nat \X Nat : ss[1] < ss[2]}
<1>1. IsWellFoundedOn(R, Nat)
  BY NatLessThanWellFounded DEF OpToRel
<1>2. PICK m \in S : \A k \in S : ~(<< k, m >> \in R)
  <2> HIDE DEF R
  <2> QED  BY <1>1, WFMin
<1>3. ASSUME NEW k \in S PROVE m <= k
  <2>1. k \in Nat /\ m \in Nat /\ << k, m >> \in Nat \X Nat
    OBVIOUS
  <2>2. ~(k < m)
    BY <1>2, <2>1
  <2> QED  BY <2>1, <2>2, SMT
<1> QED  BY <1>3
=============================================================================
