---------------------------- MODULE NumberLemmas ----------------------------
(***************************************************************************)
(* Least and greatest numbers, for the proofs that would otherwise need an *)
(* induction: of the numbers for which a claim is false there is a least.  *)
(***************************************************************************)
EXTENDS Naturals, FiniteSetsExt, WellFoundedInduction, TLAPS

LEMMA LessThan == \A x, y \in Nat : <<x, y>> \in OpToRel(<, Nat) <=> x < y
BY DEF OpToRel

\* A set of numbers has a least one.
LEMMA LeastNumber ==
    ASSUME NEW S \in SUBSET Nat, S # {}
    PROVE  \E x \in S : \A y \in S : x =< y
<1>1. PICK x \in S : \A y \in S : ~(<<y, x>> \in OpToRel(<, Nat))
  BY NatLessThanWellFounded, WFMin
<1>2. \A y \in S : ~(y < x)
  BY <1>1, LessThan
<1> QED BY <1>2

\* And a greatest one, if they do not exceed n.
LEMMA GreatestNumber ==
    ASSUME NEW n \in Nat, NEW S \in SUBSET (0..n), S # {}
    PROVE  \E x \in S : \A y \in S : x >= y
<1> DEFINE left == {n - x : x \in S}
<1>1. left # {} /\ left \in SUBSET Nat
  <2>1. ASSUME NEW x \in S PROVE n - x \in Nat
    <3>1. x \in 0..n
      OBVIOUS
    <3> QED BY <3>1
  <2> QED BY <2>1
<1>2. PICK d \in left : \A e \in left : d =< e
  <2> HIDE DEF left
  <2> QED BY <1>1, LeastNumber
<1>3. PICK x \in S : d = n - x
  BY <1>2
<1>4. ASSUME NEW y \in S PROVE x >= y
  <2>1. n - x =< n - y
    BY <1>2, <1>3
  <2> QED BY <2>1
<1> QED BY <1>4

LEMMA LeastIsMin ==
    ASSUME NEW S \in SUBSET Nat, NEW x \in S, \A y \in S : x =< y
    PROVE  Min(S) = x
<1>1. Min(S) \in S /\ \A y \in S : Min(S) =< y
  BY DEF Min
<1>2. Min(S) =< x /\ x =< Min(S) /\ x \in Nat /\ Min(S) \in Nat
  BY <1>1
<1> QED BY <1>2

LEMMA GreatestIsMax ==
    ASSUME NEW S \in SUBSET Nat, NEW x \in S, \A y \in S : x >= y
    PROVE  Max(S) = x
<1>1. Max(S) \in S /\ \A y \in S : Max(S) >= y
  BY DEF Max
<1>2. Max(S) =< x /\ x =< Max(S) /\ x \in Nat /\ Max(S) \in Nat
  BY <1>1
<1> QED BY <1>2

LEMMA MinIsLeast ==
    ASSUME NEW S \in SUBSET Nat, S # {}
    PROVE  Min(S) \in S /\ \A y \in S : Min(S) =< y
BY LeastNumber, LeastIsMin

LEMMA MaxIsGreatest ==
    ASSUME NEW n \in Nat, NEW S \in SUBSET (0..n), S # {}
    PROVE  Max(S) \in S /\ \A y \in S : Max(S) >= y
<1>1. PICK x \in S : \A y \in S : x >= y
  BY GreatestNumber
<1> QED BY <1>1, GreatestIsMax
=============================================================================
