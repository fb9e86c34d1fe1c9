------------------------------ MODULE Extremes -------------------------------
(***************************************************************************)
(* Least and greatest elements of sets of natural numbers, for which the   *)
(* modules use Min and Max of FiniteSetsExt.  That < is well-founded on    *)
(* Nat gives the least element; all else follows from it.                  *)
(***************************************************************************)
EXTENDS Naturals, FiniteSetsExt, WellFoundedInduction, TLAPS

\* A set of naturals that is not empty has a least element.
LEMMA LeastElement ==
  ASSUME NEW S \in SUBSET Nat, S # {}
  PROVE  \E x \in S : \A y \in S : x <= y
<1> DEFINE R == OpToRel(<, Nat)
<1>1. \A y \in Nat, x \in Nat : y < x => <<y, x>> \in R
  BY DEF OpToRel
<1>2. IsWellFoundedOn(R, Nat)
  BY NatLessThanWellFounded
<1> HIDE DEF R
<1>3. PICK x \in S : \A y \in S : ~ (<<y, x>> \in R)
  BY <1>2, WFMin
<1>4. \A y \in S : ~ (y < x)
  BY <1>1, <1>3, Zenon
<1>5. \A y \in S : x <= y
  BY <1>4, SMT
<1> QED BY <1>5

\* One that is bounded has a greatest element: its least bound.
LEMMA GreatestElement ==
  ASSUME NEW S \in SUBSET Nat, S # {}, NEW b \in Nat, \A y \in S : y <= b
  PROVE  \E x \in S : \A y \in S : y <= x
<1> DEFINE T == {c \in Nat : \A y \in S : y <= c}
<1>1. PICK c \in T : \A d \in T : c <= d
  BY LeastElement
<1>2. CASE c \notin S
  <2>1. PICK y \in S : TRUE
    OBVIOUS
  <2>2. \A z \in S : z < c
    BY <1>2
  <2>3. c # 0
    BY <2>1, <2>2
  <2>4. c - 1 \in Nat /\ \A z \in S : z <= c - 1
    BY <2>2, <2>3
  <2>5. c <= c - 1
    BY <1>1, <2>4
  <2> QED BY <2>5
<1> QED BY <1>1, <1>2

\* Min is what its name says.
LEMMA MinIsLeast ==
  ASSUME NEW S \in SUBSET Nat, S # {}
  PROVE  Min(S) \in S /\ \A y \in S : Min(S) <= y
BY LeastElement DEF Min

\* So is Max, of a bounded set.
LEMMA MaxIsGreatest ==
  ASSUME NEW S \in SUBSET Nat, S # {}, NEW b \in Nat, \A y \in S : y <= b
  PROVE  Max(S) \in S /\ \A y \in S : y <= Max(S)
<1>1. \E x \in S : \A y \in S : x >= y
  BY GreatestElement
<1> QED BY <1>1 DEF Max

\* No other element is.
LEMMA MaxUnique ==
  ASSUME NEW S \in SUBSET Nat, NEW m \in S, \A y \in S : y <= m
  PROVE  Max(S) = m
<1> DEFINE x == Max(S)
<1>1. x \in S /\ \A y \in S : y <= x
  BY MaxIsGreatest
<1> HIDE DEF x
<1>2. x \in Nat /\ m \in Nat /\ x <= m /\ m <= x
  BY <1>1
<1>3. x = m
  BY <1>2
<1> QED BY <1>3 DEF x
=============================================================================
