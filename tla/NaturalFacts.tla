---------------------------- MODULE NaturalFacts ----------------------------
(*****************************************************************************)
(* Facts about numbers, and about how many elements a set has, that the      *)
(* other proofs need and the library does not state without an operator for  *)
(* a parameter.                                                              *)
(*****************************************************************************)
EXTENDS Naturals, TLAPS, WellFoundedInduction, FiniteSetTheorems

----------------------------------------------------------------------------

\* A set of naturals that is not empty has a least element.
LEMMA LeastNatural ==
  ASSUME NEW T \in SUBSET Nat, T # {} PROVE \E x \in T : \A y \in T : x <= y
<1> DEFINE R == {ss \in Nat \X Nat : ss[1] < ss[2]}
<1>1. IsWellFoundedOn(R, Nat)
  BY NatLessThanWellFounded DEF OpToRel
<1>2. PICK x \in T : \A y \in T : <<y, x>> \notin R
  <2> HIDE DEF R
  <2> QED BY <1>1, WFMin
<1>3. \A y \in T : ~(y < x)
  BY <1>2
<1> QED
  BY <1>3

\* A bounded set of naturals has a greatest element.
LEMMA GreatestNatural ==
  ASSUME NEW T \in SUBSET Nat, T # {}, NEW n \in Nat, \A x \in T : x <= n
  PROVE \E x \in T : \A y \in T : y <= x
<1> DEFINE U == {n - x : x \in T}
<1>1. U \in SUBSET Nat /\ U # {}
  <2>1. \A x \in T : n - x \in Nat
    OBVIOUS
  <2>2. PICK x \in T : TRUE
    OBVIOUS
  <2>3. n - x \in U
    OBVIOUS
  <2> QED BY <2>1, <2>3
<1>2. PICK u \in U : \A v \in U : u <= v
  <2> HIDE DEF U
  <2> QED BY <1>1, LeastNatural
<1>3. PICK x \in T : u = n - x
  BY <1>2
<1>4. ASSUME NEW y \in T PROVE y <= x
  <2>1. n - y \in U
    OBVIOUS
  <2>2. n - x <= n - y
    BY <1>2, <1>3, <2>1
  <2> QED BY <2>2
<1> QED
  BY <1>4

----------------------------------------------------------------------------
(* Sets of at most so many elements *)

AtMost(S, n) == IsFiniteSet(S) /\ Cardinality(S) <= n

\* Nothing is no more than any number.
LEMMA AtMostNone == ASSUME NEW n \in Nat PROVE AtMost({}, n)
  BY FS_EmptySet DEF AtMost

\* One element is no more than one.
LEMMA AtMostOne == ASSUME NEW x, NEW n \in Nat \ {0} PROVE AtMost({x}, n)
<1>1. IsFiniteSet({x}) /\ Cardinality({x}) = 1
  BY FS_Singleton
<1> QED
  BY <1>1 DEF AtMost

\* Where there is room, one more still fits.
LEMMA AtMostWithRoom ==
  ASSUME NEW S, NEW x, NEW n \in Nat, AtMost(S, n), Cardinality(S) < n PROVE AtMost(S \cup {x}, n)
<1>1. IsFiniteSet(S)
  BY DEF AtMost
<1>2. IsFiniteSet(S \cup {x}) /\ Cardinality(S \cup {x}) \in {Cardinality(S), Cardinality(S) + 1}
  BY <1>1, FS_AddElement
<1>3. Cardinality(S) \in Nat
  BY <1>1, FS_CardinalityType
<1> QED
  BY <1>2, <1>3 DEF AtMost

\* A part has no more elements than the whole.
LEMMA AtMostPart ==
  ASSUME NEW S, NEW T \in SUBSET S, NEW n \in Nat, AtMost(S, n) PROVE AtMost(T, n)
<1>1. IsFiniteSet(S) /\ Cardinality(S) <= n
  BY DEF AtMost
<1>2. IsFiniteSet(T) /\ Cardinality(T) <= Cardinality(S)
  BY <1>1, FS_Subset
<1>3. Cardinality(S) \in Nat /\ Cardinality(T) \in Nat
  BY <1>1, <1>2, FS_CardinalityType
<1> QED
  BY <1>1, <1>2, <1>3 DEF AtMost

\* An element in the place of another.
LEMMA AtMostInPlace ==
  ASSUME NEW S, NEW a \in S, NEW b, NEW n \in Nat, AtMost(S, n) PROVE AtMost((S \ {a}) \cup {b}, n)
<1>1. IsFiniteSet(S) /\ Cardinality(S) <= n
  BY DEF AtMost
<1>2. Cardinality(S) \in Nat
  BY <1>1, FS_CardinalityType
<1>3. IsFiniteSet(S \ {a}) /\ Cardinality(S \ {a}) = Cardinality(S) - 1
  BY <1>1, FS_RemoveElement
<1>4. /\ IsFiniteSet((S \ {a}) \cup {b})
      /\ Cardinality((S \ {a}) \cup {b}) \in {Cardinality(S \ {a}), Cardinality(S \ {a}) + 1}
  BY <1>3, FS_AddElement
<1> QED
  BY <1>1, <1>2, <1>3, <1>4 DEF AtMost

\* One less without one of its elements.
LEMMA AtMostWithout ==
  ASSUME NEW S, NEW a \in S, NEW n \in Nat, AtMost(S, n)
  PROVE  n >= 1 /\ AtMost(S \ {a}, n - 1)
<1>1. IsFiniteSet(S) /\ Cardinality(S) <= n
  BY DEF AtMost
<1>2. Cardinality(S) \in Nat
  BY <1>1, FS_CardinalityType
<1>3. IsFiniteSet(S \ {a}) /\ Cardinality(S \ {a}) = Cardinality(S) - 1
  BY <1>1, FS_RemoveElement
<1>4. Cardinality(S \ {a}) \in Nat
  BY <1>3, FS_CardinalityType
<1> QED
  BY <1>1, <1>2, <1>3, <1>4 DEF AtMost

\* One more with another.
LEMMA AtMostAnother ==
  ASSUME NEW S, NEW x, NEW n \in Nat, AtMost(S, n) PROVE AtMost(S \cup {x}, n + 1) /\ AtMost(S, n + 1)
<1>1. IsFiniteSet(S) /\ Cardinality(S) <= n
  BY DEF AtMost
<1>2. IsFiniteSet(S \cup {x}) /\ Cardinality(S \cup {x}) \in {Cardinality(S), Cardinality(S) + 1}
  BY <1>1, FS_AddElement
<1>3. Cardinality(S) \in Nat
  BY <1>1, FS_CardinalityType
<1> QED
  BY <1>1, <1>2, <1>3 DEF AtMost

\* A bound may be raised.
LEMMA AtMostMore ==
  ASSUME NEW S, NEW n \in Nat, NEW k \in Nat, n <= k, AtMost(S, n) PROVE AtMost(S, k)
<1>1. IsFiniteSet(S) /\ Cardinality(S) <= n
  BY DEF AtMost
<1>2. Cardinality(S) \in Nat
  BY <1>1, FS_CardinalityType
<1> QED
  BY <1>1, <1>2 DEF AtMost

\* What a function makes of the elements is no more than they are.
LEMMA AtMostImage ==
  ASSUME NEW S, NEW R, NEW f \in [S -> R], NEW n \in Nat, AtMost(S, n)
  PROVE  AtMost({f[x] : x \in S}, n)
<1> DEFINE T == {f[x] : x \in S}
<1>1. IsFiniteSet(S) /\ Cardinality(S) <= n
  BY DEF AtMost
<1>2. f \in Surjection(S, T)
  BY DEF Surjection
<1>3. IsFiniteSet(T) /\ Cardinality(T) <= Cardinality(S)
  <2> HIDE DEF T
  <2> QED BY <1>1, <1>2, FS_Surjection
<1>4. Cardinality(S) \in Nat /\ Cardinality(T) \in Nat
  BY <1>1, <1>3, FS_CardinalityType
<1> QED
  BY <1>1, <1>3, <1>4 DEF AtMost

=============================================================================
