--------------------------- MODULE NaturalLemmas ---------------------------
(***************************************************************************)
(* What the proofs of the other modules need of numbers: a set of naturals *)
(* has a least element, and the induction along an interval, both said of  *)
(* sets, since the library's induction theorems take an operator.          *)
(***************************************************************************)
EXTENDS Integers, WellFoundedInduction, TLAPS

(* Some natural of a set is above none of them: the first of a list of     *)
(* entries that match, the place of the voice heard longest ago.           *)
LEMMA LeastOfNaturals ==
  ASSUME NEW I \in SUBSET Nat, I # {}
  PROVE  \E i \in I : \A j \in I : i <= j
<1> DEFINE R == {ss \in Nat \X Nat : ss[1] < ss[2]}
<1>1. IsWellFoundedOn(R, Nat)
  BY NatLessThanWellFounded DEF OpToRel
<1>2. PICK i \in I : \A j \in I : ~(<<j, i>> \in R)
  <2> HIDE DEF R
  <2> QED BY ONLY <1>1, WFMin, I \in SUBSET Nat, I # {}
<1>3. ASSUME NEW j \in I PROVE i <= j
  <2>1. i \in Nat /\ j \in Nat
    OBVIOUS
  <2>2. CASE j < i
    <3>1. <<j, i>> \in Nat \X Nat /\ <<j, i>>[1] < <<j, i>>[2]
      BY <2>1, <2>2
    <3>2. <<j, i>> \in R
      BY ONLY <3>1
    <3> HIDE DEF R
    <3> QED BY <1>2, <3>2
  <2> QED BY <2>1, <2>2
<1> QED BY <1>3

(* What holds at 0 and goes from each number below m to the next holds up  *)
(* to m: the recursions over the places of a text or a list.               *)
LEMMA UpTo ==
  ASSUME NEW m \in Nat, NEW T, 0 \in T, \A n \in 0..(m - 1) : n \in T => n + 1 \in T
  PROVE  0..m \subseteq T
<1> DEFINE U == (0..m) \ T
<1> SUFFICES ASSUME U # {} PROVE FALSE
  OBVIOUS
<1>1. U \in SUBSET Nat
  OBVIOUS
<1>2. PICK u \in U : \A n \in U : u <= n
  <2> HIDE DEF U
  <2> QED BY ONLY <1>1, U # {}, LeastOfNaturals
<1>3. u \in Nat /\ u - 1 \in U
  OBVIOUS
<1>4. u <= u - 1
  BY <1>2, <1>3
<1> QED BY ONLY <1>3, <1>4
=============================================================================
