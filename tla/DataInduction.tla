----------------------------- MODULE DataInduction -----------------------------
(***************************************************************************)
(* Induction over the natural numbers for the lemmas about sequences: the  *)
(* library states it for an operator, here it is stated for a set.         *)
(***************************************************************************)
EXTENDS Integers, WellFoundedInduction, TLAPS

\* Induction with a set in place of a predicate: the least number outside of it
\* has a predecessor.
LEMMA Induction ==
  ASSUME NEW P, 0 \in P, \A k \in Nat : k \in P => k + 1 \in P
  PROVE  \A k \in Nat : k \in P
<1> SUFFICES ASSUME NEW k \in Nat, k \notin P PROVE FALSE
  OBVIOUS
<1> DEFINE Less == {pair \in Nat \X Nat : pair[1] < pair[2]}
           Rest == {i \in Nat : i \notin P}
<1>1. IsWellFoundedOn(Less, Nat)
  BY NatLessThanWellFounded DEF OpToRel
<1>2. Rest \subseteq Nat /\ Rest # {}
  OBVIOUS
<1> HIDE DEF Less
<1>3. PICK i \in Rest : \A j \in Rest : ~ (<<j, i>> \in Less)
  BY <1>1, <1>2, WFMin
<1>4. i - 1 \in Nat /\ i - 1 \in Rest
  <2>1. i # 0
    OBVIOUS
  <2> QED
    BY <2>1
<1>5. <<i - 1, i>> \in Less
  BY <1>4 DEF Less
<1> QED
  BY <1>3, <1>4, <1>5
===============================================================================
