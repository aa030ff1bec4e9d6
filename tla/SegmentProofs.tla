---------------------------- MODULE SegmentProofs ----------------------------
(***************************************************************************)
(* Theorems about Segments, for every text, window and overlap: cleaning   *)
(* a cleaned text changes nothing, short passages are whole in a window,   *)
(* and a quote is found where the stored text says just that.              *)
(*                                                                         *)
(* What a step keeps of a text is given by the places it keeps, so a text  *)
(* made from another comes with a walk: an increasing function from its    *)
(* places to the places kept.  Nothing here is defined by recursion but    *)
(* the windows; inductions over places are arguments about a least or a    *)
(* greatest natural number with a property.                                *)
(***************************************************************************)
EXTENDS Segments, NaturalFacts

----------------------------------------------------------------------------
\* A walk goes through the places of a set in order.
Traversal(m, p, K) ==
  /\ m \in Nat /\ p \in [1 .. m -> K]
  /\ \A i \in K : \E k \in 1 .. m : p[k] = i
  /\ \A k, l \in 1 .. m : k < l => p[k] < p[l]

\* The walk through a finite set, and what counts the places up to one.
WalkOf(K) == [k \in 1 .. Cardinality(K) |-> Nth(K, k)]
Rank(K, i) == Cardinality({j \in K : j <= i})

\* What comes in, and everything that is made of it.
AllTexts == Seq(Chars \cup White)

\* The k-th places of a set of a text's places are a walk through it.
LEMMA WalkIs ==
  ASSUME NEW n \in Nat, NEW K \in SUBSET (1 .. n)
  PROVE  Traversal(Cardinality(K), WalkOf(K), K)
<1>1. IsFiniteSet(1 .. n)
  BY FS_Interval
<1>2. IsFiniteSet(K) /\ Cardinality(K) \in Nat
  BY <1>1, FS_Subset, FS_CardinalityType
<1>0. \A i \in K : i \in Nat
  OBVIOUS
<1> DEFINE c == Cardinality(K)
           U(i) == {j \in K : j <= i}
<1>3. ASSUME NEW i \in K PROVE IsFiniteSet(U(i)) /\ Rank(K, i) \in 1 .. c
  <2>1. U(i) \in SUBSET K
    OBVIOUS
  <2>2. IsFiniteSet(U(i)) /\ Cardinality(U(i)) <= c /\ Cardinality(U(i)) \in Nat
    BY <1>2, <2>1, FS_Subset, FS_CardinalityType
  <2>3. U(i) # {}
    OBVIOUS
  <2>4. Cardinality(U(i)) # 0
    BY <2>2, <2>3, FS_EmptySet
  <2> QED BY <1>2, <2>2, <2>4 DEF Rank
<1>4. ASSUME NEW i \in K, NEW j \in K, i < j PROVE Rank(K, i) < Rank(K, j)
  <2>0. \A x \in K : x <= i => x <= j
    BY <1>0, <1>4
  <2>1. U(i) \in SUBSET U(j)
    BY <2>0
  <2>2. j \in U(j) /\ j \notin U(i)
    BY <1>0, <1>4
  <2>3. Cardinality(U(i)) <= Cardinality(U(j)) /\ Cardinality(U(i)) # Cardinality(U(j))
    BY <1>3, <2>1, <2>2, FS_Subset
  <2> QED BY <1>3, <2>3 DEF Rank
<1> DEFINE f == [i \in K |-> Rank(K, i)]
<1>5. f \in Injection(K, 1 .. c)
  <2>1. f \in [K -> 1 .. c]
    BY <1>3
  <2>2. \A i, j \in K : i # j => f[i] # f[j]
    <3>1. ASSUME NEW i \in K, NEW j \in K, i < j PROVE f[i] # f[j]
      <4>1. Rank(K, i) < Rank(K, j) /\ Rank(K, i) \in 1 .. c /\ Rank(K, j) \in 1 .. c
        BY <1>3, <1>4, <3>1
      <4> HIDE DEF c
      <4> QED BY <4>1
    <3> QED BY <1>0, <3>1
  <2> QED BY <2>1, <2>2 DEF Injection, IsInjective
<1>6. f \in Surjection(K, 1 .. c)
  <2>1. IsFiniteSet(1 .. c) /\ Cardinality(1 .. c) = c
    BY <1>2, FS_Interval
  <2> HIDE DEF f
  <2> QED BY <1>5, <2>1, FS_Injection
<1>7. \A k \in 1 .. c : \E i \in K : Rank(K, i) = k
  BY <1>6 DEF Surjection
<1>8. \A k \in 1 .. c : Nth(K, k) \in K /\ Rank(K, Nth(K, k)) = k
  BY <1>7 DEF Nth, Rank
<1>9. \A i \in K : Nth(K, Rank(K, i)) = i
  <2> TAKE i \in K
  <2>1. Nth(K, Rank(K, i)) \in K /\ Rank(K, Nth(K, Rank(K, i))) = Rank(K, i)
    BY <1>3, <1>8
  <2>2. PICK j \in K : j = Nth(K, Rank(K, i))
    BY <2>1
  <2>3. ~(i < j) /\ ~(j < i)
    <3>1. Rank(K, i) = Rank(K, j) /\ Rank(K, i) \in 1 .. c
      BY <1>3, <2>1, <2>2
    <3> QED BY <1>4, <3>1
  <2>4. i = j
    BY <1>0, <2>3
  <2> QED BY <2>2, <2>4
<1>10. ASSUME NEW k \in 1 .. c, NEW l \in 1 .. c, k < l PROVE Nth(K, k) < Nth(K, l)
  <2>1. PICK i \in K, j \in K : i = Nth(K, k) /\ j = Nth(K, l) /\ Rank(K, i) = k /\ Rank(K, j) = l
    BY <1>8
  <2>2. ~(j < i) /\ i # j
    BY <1>4, <1>10, <2>1
  <2> QED BY <1>0, <2>1, <2>2
<1>11. \A i \in K : \E k \in 1 .. c : WalkOf(K)[k] = i
  BY <1>3, <1>9 DEF WalkOf
<1>12. WalkOf(K) \in [1 .. c -> K]
  BY <1>8 DEF WalkOf
<1>13. \A k, l \in 1 .. c : k < l => WalkOf(K)[k] < WalkOf(K)[l]
  BY <1>10 DEF WalkOf
<1> QED BY <1>2, <1>11, <1>12, <1>13 DEF Traversal

\* Two sets of places correspond in order.
Aligned(K, L, h) ==
  /\ K \subseteq Nat /\ L \subseteq Nat /\ h \in [K -> L]
  /\ \A i \in L : \E j \in K : h[j] = i
  /\ \A i, j \in K : i < j => h[i] < h[j]

\* Then they are walked through alike.
LEMMA WalksAgree ==
  ASSUME NEW K, NEW L, NEW h, Aligned(K, L, h),
         NEW m, NEW p, Traversal(m, p, K), NEW n, NEW q, Traversal(n, q, L)
  PROVE  m = n /\ \A k \in 1 .. m : q[k] = h[p[k]]
<1> USE DEF Traversal, Aligned
<1>a. \A k \in 1 .. m : p[k] \in K /\ p[k] \in Nat /\ h[p[k]] \in L /\ h[p[k]] \in Nat
  OBVIOUS
<1>b. \A k \in 1 .. n : q[k] \in L /\ q[k] \in Nat
  OBVIOUS
<1>c. \A i \in L : \E k \in 1 .. m : h[p[k]] = i
  <2> TAKE i \in L
  <2>1. PICK j \in K : h[j] = i
    OBVIOUS
  <2>2. PICK k \in 1 .. m : p[k] = j
    BY <2>1
  <2> QED BY <2>1, <2>2
<1>d. m \in Nat /\ n \in Nat
  OBVIOUS
<1>1. \A k \in Nat : k \in 1 .. m /\ k \in 1 .. n => q[k] = h[p[k]]
  <2> DEFINE T == {k \in Nat : k \in 1 .. m /\ k \in 1 .. n /\ q[k] # h[p[k]]}
  <2>1. ASSUME T # {} PROVE FALSE
    <3>1. PICK k \in T : \A l \in T : k <= l
      BY <2>1, LeastNatural
    <3>2. k \in 1 .. m /\ k \in 1 .. n /\ q[k] # h[p[k]] /\ p[k] \in K /\ q[k] \in L /\ h[p[k]] \in L
      BY <3>1
    <3>3. \A l \in 1 .. m : l \in 1 .. n /\ l < k => q[l] = h[p[l]]
      BY <3>1
    <3>4. CASE q[k] < h[p[k]]
      <4>1. PICK l \in 1 .. m : h[p[l]] = q[k]
        BY <3>2, <1>c
      <4>2. CASE l < k
        <5>1. l \in 1 .. n /\ q[l] = h[p[l]]
          BY <3>2, <3>3, <4>2
        <5>2. q[l] < q[k]
          BY <3>2, <4>2, <5>1
        <5>3. q[k] \in Nat
          BY <3>2
        <5> QED BY <4>1, <5>1, <5>2, <5>3
      <4>3. CASE k < l
        <5>1. p[k] < p[l] /\ p[l] \in K
          BY <3>2, <4>3
        <5>2. h[p[k]] < h[p[l]] /\ h[p[l]] \in L
          BY <3>2, <5>1
        <5> QED BY <3>2, <3>4, <4>1, <5>2, <1>a, <1>b
      <4>4. CASE k = l
        BY <3>2, <4>1, <4>4
      <4> QED BY <3>2, <4>1, <4>2, <4>3, <4>4
    <3>5. CASE h[p[k]] < q[k]
      <4>1. PICK l \in 1 .. n : q[l] = h[p[k]]
        BY <3>2
      <4>2. CASE l < k
        <5>1. l \in 1 .. m /\ q[l] = h[p[l]] /\ p[l] \in K
          BY <3>2, <3>3, <4>2
        <5>2. p[l] < p[k]
          BY <3>2, <4>2, <5>1
        <5>3. h[p[l]] < h[p[k]]
          BY <3>2, <5>1, <5>2
        <5> QED BY <3>2, <4>1, <5>1, <5>3, <1>a
      <4>3. CASE k < l
        <5>1. q[k] < q[l] /\ q[l] \in L
          BY <3>2, <4>3
        <5> QED BY <3>2, <3>5, <4>1, <5>1, <1>a, <1>b
      <4>4. CASE k = l
        BY <3>2, <4>1, <4>4
      <4> QED BY <3>2, <4>1, <4>2, <4>3, <4>4
    <3>6. q[k] \in Nat /\ h[p[k]] \in Nat
      BY <3>2, <1>a, <1>b
    <3> QED BY <3>2, <3>4, <3>5, <3>6
  <2> QED BY <2>1
<1>2. ~(m < n)
  <2> SUFFICES ASSUME m < n PROVE FALSE
    OBVIOUS
  <2>1. m + 1 \in 1 .. n /\ q[m + 1] \in L
    OBVIOUS
  <2>2. PICK l \in 1 .. m : h[p[l]] = q[m + 1]
    BY <2>1, <1>c
  <2>3. q[l] = q[m + 1] /\ l \in 1 .. n /\ q[l] < q[m + 1]
    BY <1>1, <2>1, <2>2
  <2> QED BY <2>1, <2>3, <1>b
<1>3. ~(n < m)
  <2> SUFFICES ASSUME n < m PROVE FALSE
    OBVIOUS
  <2>1. n + 1 \in 1 .. m /\ p[n + 1] \in K /\ h[p[n + 1]] \in L
    BY <1>a, <1>d
  <2>2. PICK l \in 1 .. n : q[l] = h[p[n + 1]]
    BY <2>1
  <2>3. h[p[l]] = h[p[n + 1]] /\ l \in 1 .. m /\ p[l] \in K /\ p[l] < p[n + 1]
    BY <1>1, <2>1, <2>2
  <2>4. h[p[l]] < h[p[n + 1]]
    BY <2>1, <2>3
  <2> QED BY <2>1, <2>3, <2>4, <1>a
<1> QED BY <1>1, <1>2, <1>3

\* What a strip gives: the text t, read along a walk through the places kept.
TakenFrom(s, t, K, m, p) ==
  /\ s \in AllTexts /\ t \in AllTexts /\ Len(t) = m /\ Traversal(m, p, K) /\ K \subseteq 1 .. Len(s)
  /\ \A k \in 1 .. m : t[k] = s[p[k]]

\* What is left of a text at some places is taken from there.
LEMMA StripTakes ==
  ASSUME NEW s \in AllTexts, NEW K \in SUBSET DOMAIN s
  PROVE  TakenFrom(s, Strip(s, K), K, Cardinality(K), WalkOf(K))
<1>1. DOMAIN s = 1 .. Len(s) /\ Len(s) \in Nat /\ \A i \in DOMAIN s : s[i] \in Chars \cup White
  BY DEF AllTexts
<1>2. Traversal(Cardinality(K), WalkOf(K), K)
  BY <1>1, WalkIs
<1>3. \A k \in 1 .. Cardinality(K) : Nth(K, k) \in K /\ WalkOf(K)[k] = Nth(K, k)
  BY <1>2 DEF Traversal, WalkOf
<1>4. Cardinality(K) \in Nat
  BY <1>2 DEF Traversal
<1>5. Strip(s, K) \in Seq(Chars \cup White) /\ Len(Strip(s, K)) = Cardinality(K)
  <2>1. \A k \in 1 .. Cardinality(K) : s[Nth(K, k)] \in Chars \cup White
    BY <1>1, <1>3
  <2>2. PICK t : t = Strip(s, K)
    OBVIOUS
  <2>3. t \in [1 .. Cardinality(K) -> Chars \cup White]
    BY <2>1, <2>2 DEF Strip
  <2> QED BY <1>4, <2>2, <2>3
<1> QED BY <1>1, <1>2, <1>3, <1>5 DEF TakenFrom, AllTexts, Strip

\* A text is a function on its places.
LEMMA TextIs ==
  ASSUME NEW s \in AllTexts
  PROVE  /\ Len(s) \in Nat /\ DOMAIN s = 1 .. Len(s) /\ s = [i \in 1 .. Len(s) |-> s[i]]
         /\ \A i \in 1 .. Len(s) : s[i] \in Chars \cup White
  BY DEF AllTexts

\* A text with the same length and the same characters is the same text.
LEMMA SameText ==
  ASSUME NEW s \in AllTexts, NEW t \in AllTexts, Len(s) = Len(t), \A i \in 1 .. Len(s) : s[i] = t[i]
  PROVE  s = t
  BY TextIs

\* Nothing is taken away where all places are kept.
LEMMA StripOfAll ==
  ASSUME NEW s \in AllTexts, NEW K \in SUBSET DOMAIN s, \A i \in DOMAIN s : i \in K PROVE Strip(s, K) = s
<1>1. TakenFrom(s, Strip(s, K), K, Cardinality(K), WalkOf(K))
  BY StripTakes
<1>2. PICK m, p : m = Cardinality(K) /\ p = WalkOf(K)
  OBVIOUS
<1>3. K = 1 .. Len(s) /\ Len(s) \in Nat
  BY TextIs
<1> DEFINE h == [i \in K |-> i]
<1>4. Traversal(Len(s), h, K)
  BY <1>3 DEF Traversal
<1>5. Len(s) = m /\ \A k \in 1 .. Len(s) : p[k] = h[h[k]]
  <2>1. Traversal(m, p, K)
    BY <1>1, <1>2 DEF TakenFrom
  <2>2. Aligned(K, K, h)
    BY <1>3 DEF Aligned
  <2> HIDE DEF h
  <2> QED BY <1>4, <2>1, <2>2, WalksAgree
<1>6. \A k \in 1 .. Len(s) : Strip(s, K)[k] = s[k]
  BY <1>1, <1>2, <1>3, <1>5 DEF TakenFrom
<1> QED BY <1>1, <1>2, <1>5, <1>6, SameText DEF TakenFrom

----------------------------------------------------------------------------
\* What each step of the cleaning sees to.
Spoken(s) == \A i \in DOMAIN s : ~TimestampOnly(s, i)

\* What each step of cleaning sees to.
Squeezed(s) == \A i \in DOMAIN s : s[i] = "blank" => i - 1 \in Ink(s) /\ i + 1 \in Ink(s)
Few(s) == \A i \in DOMAIN s : i >= 3 => {s[i], s[i - 1], s[i - 2]} # {"end"}
Trimmed(s) == s # <<>> => 1 \in Ink(s) /\ Len(s) \in Ink(s)
Cleaned(s) == s \in AllTexts /\ Spoken(s) /\ Squeezed(s) /\ Few(s) /\ Trimmed(s)

\* Being on one line is an equivalence.
LEMMA LinesAreClasses ==
  ASSUME NEW s, NEW n \in Nat, DOMAIN s = 1 .. n, NEW i \in Nat, NEW j \in Nat, NEW k \in Nat
  PROVE  /\ SameLine(s, i, i)
         /\ SameLine(s, i, j) => SameLine(s, j, i)
         /\ SameLine(s, i, j) /\ SameLine(s, j, k) => SameLine(s, i, k)
  BY DEF SameLine

\* Kept places that share a line still do.
LEMMA LinesStay ==
  ASSUME NEW s, NEW t, NEW K, NEW m, NEW p, TakenFrom(s, t, K, m, p),
         NEW k \in 1 .. m, NEW l \in 1 .. m, SameLine(s, p[k], p[l])
  PROVE  SameLine(t, k, l)
<1>1. DOMAIN t = 1 .. m /\ DOMAIN s = 1 .. Len(s) /\ m \in Nat /\ Len(s) \in Nat
  BY TextIs DEF TakenFrom, Traversal
<1>2. \A x \in 1 .. m : p[x] \in 1 .. Len(s) /\ t[x] = s[p[x]]
  BY DEF TakenFrom, Traversal
<1>3. \A x, y \in 1 .. m : x < y => p[x] < p[y]
  BY DEF TakenFrom, Traversal
<1> SUFFICES ASSUME NEW x \in 1 .. m, (k < x /\ x <= l) \/ (l < x /\ x <= k) PROVE t[x] # "end"
  BY <1>1 DEF SameLine
<1>4. CASE k < x /\ x <= l
  <2>1. p[k] < p[x] /\ (p[x] < p[l] \/ x = l)
    BY <1>1, <1>3, <1>4
  <2>2. p[x] <= p[l]
    BY <1>2, <2>1
  <2> QED BY <1>1, <1>2, <2>1, <2>2 DEF SameLine
<1>5. CASE l < x /\ x <= k
  <2>1. p[l] < p[x] /\ (p[x] < p[k] \/ x = k)
    BY <1>1, <1>3, <1>5
  <2>2. p[x] <= p[k]
    BY <1>2, <2>1
  <2> QED BY <1>1, <1>2, <2>1, <2>2 DEF SameLine
<1> QED BY <1>4, <1>5

\* No line is a timestamp alone where each timestamp kept has kept company.
LEMMA SpokenStays ==
  ASSUME NEW s, NEW t, NEW K, NEW m, NEW p, TakenFrom(s, t, K, m, p),
         \A i \in K : s[i] = "stamp" => \E l \in K : l \in Ink(s) /\ l # i /\ SameLine(s, i, l)
  PROVE  Spoken(t)
<1>1. DOMAIN t = 1 .. m /\ DOMAIN s = 1 .. Len(s) /\ m \in Nat /\ Len(s) \in Nat
  BY TextIs DEF TakenFrom, Traversal
<1>2. \A x \in 1 .. m : p[x] \in K /\ p[x] \in 1 .. Len(s) /\ t[x] = s[p[x]]
  BY DEF TakenFrom, Traversal
<1> SUFFICES ASSUME NEW i \in 1 .. m, TimestampOnly(t, i) PROVE FALSE
  BY <1>1 DEF Spoken
<1>3. PICK j \in 1 .. m : /\ t[j] = "stamp" /\ SameLine(t, i, j)
                          /\ \A k \in Ink(t) : SameLine(t, i, k) => k = j
  BY <1>1 DEF TimestampOnly
<1>4. PICK l \in K : l \in Ink(s) /\ l # p[j] /\ SameLine(s, p[j], l)
  BY <1>2, <1>3
<1>5. PICK k \in 1 .. m : p[k] = l
  BY <1>4 DEF TakenFrom, Traversal
<1>6. SameLine(t, j, k)
  BY <1>4, <1>5, LinesStay
<1>7. SameLine(t, i, k)
  BY <1>1, <1>3, <1>6, LinesAreClasses
<1>8. k \in Ink(t)
  BY <1>1, <1>2, <1>4, <1>5 DEF Ink
<1> QED BY <1>3, <1>4, <1>5, <1>7, <1>8

\* The characters kept stand in their order.
InOrder(s, t, K, m, p) ==
  /\ DOMAIN t = 1 .. m /\ DOMAIN s = 1 .. Len(s) /\ m \in Nat /\ Len(s) \in Nat /\ Len(t) = m
  /\ \A x \in 1 .. m : p[x] \in K /\ p[x] \in 1 .. Len(s) /\ t[x] = s[p[x]]
  /\ \A x, y \in 1 .. m : x < y => p[x] < p[y]
  /\ \A i \in K : i \in 1 .. Len(s) /\ \E x \in 1 .. m : p[x] = i

\* A walk through the kept places, said of each place.
LEMMA TakenFacts ==
  ASSUME NEW s, NEW t, NEW K, NEW m, NEW p, TakenFrom(s, t, K, m, p) PROVE InOrder(s, t, K, m, p)
<1>1. DOMAIN t = 1 .. m /\ DOMAIN s = 1 .. Len(s) /\ m \in Nat /\ Len(s) \in Nat /\ Len(t) = m
  BY TextIs DEF TakenFrom, Traversal
<1>2. \A x \in 1 .. m : p[x] \in K /\ p[x] \in 1 .. Len(s) /\ t[x] = s[p[x]]
  BY DEF TakenFrom, Traversal
<1>3. \A x, y \in 1 .. m : x < y => p[x] < p[y]
  BY DEF TakenFrom, Traversal
<1>4. \A i \in K : i \in 1 .. Len(s) /\ \E x \in 1 .. m : p[x] = i
  BY DEF TakenFrom, Traversal
<1> QED BY <1>1, <1>2, <1>3, <1>4 DEF InOrder

\* The next place kept is the next character.
LEMMA NextKept ==
  ASSUME NEW s, NEW t, NEW K, NEW m, NEW p, TakenFrom(s, t, K, m, p),
         NEW k \in 1 .. m, NEW i \in K, p[k] < i, \A x \in K : ~(p[k] < x /\ x < i)
  PROVE  k + 1 \in 1 .. m /\ p[k + 1] = i
<1>a. InOrder(s, t, K, m, p)
  BY TakenFacts
<1>0. /\ DOMAIN t = 1 .. m /\ DOMAIN s = 1 .. Len(s) /\ m \in Nat /\ Len(s) \in Nat /\ Len(t) = m
     /\ (\A x \in 1 .. m : p[x] \in K /\ p[x] \in 1 .. Len(s) /\ t[x] = s[p[x]])
     /\ (\A x, y \in 1 .. m : x < y => p[x] < p[y])
     /\ \A j \in K : j \in 1 .. Len(s) /\ \E x \in 1 .. m : p[x] = j
  BY <1>a DEF InOrder
<1>1. PICK l \in 1 .. m : p[l] = i
  BY <1>0
<1>2. m \in Nat /\ p[k] \in Nat /\ p[l] \in Nat
  BY <1>0
<1>3. ~(l < k) /\ l # k
  BY <1>1, <1>2, <1>0
<1>4. k + 1 \in 1 .. m
  BY <1>2, <1>3
<1>5. ~(k + 1 < l)
  <2> SUFFICES ASSUME k + 1 < l PROVE FALSE
    OBVIOUS
  <2>1. p[k] < p[k + 1] /\ p[k + 1] < p[l] /\ p[k + 1] \in K
    BY <1>2, <1>4, <1>0
  <2> QED BY <1>1, <2>1
<1>6. l = k + 1
  BY <1>2, <1>3, <1>5
<1> QED BY <1>1, <1>6

\* The place before, when it is kept, is the character before.
LEMMA PrevKept ==
  ASSUME NEW s, NEW t, NEW K, NEW m, NEW p, TakenFrom(s, t, K, m, p), NEW l \in 1 .. m, p[l] - 1 \in K
  PROVE  l - 1 \in 1 .. m /\ p[l - 1] = p[l] - 1
<1>a. InOrder(s, t, K, m, p)
  BY TakenFacts
<1>0. /\ DOMAIN t = 1 .. m /\ DOMAIN s = 1 .. Len(s) /\ m \in Nat /\ Len(s) \in Nat /\ Len(t) = m
     /\ (\A x \in 1 .. m : p[x] \in K /\ p[x] \in 1 .. Len(s) /\ t[x] = s[p[x]])
     /\ (\A x, y \in 1 .. m : x < y => p[x] < p[y])
     /\ \A i \in K : i \in 1 .. Len(s) /\ \E x \in 1 .. m : p[x] = i
  BY <1>a DEF InOrder
<1>1. PICK k \in 1 .. m : p[k] = p[l] - 1
  BY <1>0
<1>2. m \in Nat /\ p[l] \in Nat /\ p[l] \in K /\ \A x \in K : x \in Nat
  BY <1>0
<1>3. k + 1 \in 1 .. m /\ p[k + 1] = p[l]
  <2>1. p[k] < p[l] /\ \A x \in K : ~(p[k] < x /\ x < p[l])
    BY <1>1, <1>2
  <2> QED BY <1>2, <2>1, NextKept
<1>4. ~(k + 1 < l) /\ ~(l < k + 1)
  BY <1>2, <1>3, <1>0
<1>5. l = k + 1
  BY <1>2, <1>4
<1> QED BY <1>1, <1>5

\* What is no whitespace kept, spoken lines stay so, and single blanks.
LEMMA InkKeepsLines ==
  ASSUME NEW s, NEW t, NEW K, NEW m, NEW p, TakenFrom(s, t, K, m, p), Spoken(s), \A i \in Ink(s) : i \in K
  PROVE  Spoken(t)
<1>a. InOrder(s, t, K, m, p)
  BY TakenFacts
<1>0. /\ DOMAIN t = 1 .. m /\ DOMAIN s = 1 .. Len(s) /\ m \in Nat /\ Len(s) \in Nat /\ Len(t) = m
     /\ (\A x \in 1 .. m : p[x] \in K /\ p[x] \in 1 .. Len(s) /\ t[x] = s[p[x]])
     /\ (\A x, y \in 1 .. m : x < y => p[x] < p[y])
     /\ \A i \in K : i \in 1 .. Len(s) /\ \E x \in 1 .. m : p[x] = i
  BY <1>a DEF InOrder
<1>1. ASSUME NEW i \in K, s[i] = "stamp" PROVE \E l \in K : l \in Ink(s) /\ l # i /\ SameLine(s, i, l)
  <2>1. i \in DOMAIN s /\ i \in Nat /\ DOMAIN s = 1 .. Len(s) /\ Len(s) \in Nat
    BY <1>0
  <2>2. ~TimestampOnly(s, i) /\ SameLine(s, i, i)
    BY <2>1, LinesAreClasses DEF Spoken
  <2> QED BY <1>1, <2>1, <2>2 DEF TimestampOnly
<1> QED BY <1>1, SpokenStays

\* Blanks stay squeezed where only whitespace is taken away.
LEMMA InkKeepsBlanks ==
  ASSUME NEW s, NEW t, NEW K, NEW m, NEW p, TakenFrom(s, t, K, m, p), Squeezed(s), \A i \in Ink(s) : i \in K
  PROVE  Squeezed(t)
<1>a. InOrder(s, t, K, m, p)
  BY TakenFacts
<1>0. /\ DOMAIN t = 1 .. m /\ DOMAIN s = 1 .. Len(s) /\ m \in Nat /\ Len(s) \in Nat /\ Len(t) = m
     /\ (\A x \in 1 .. m : p[x] \in K /\ p[x] \in 1 .. Len(s) /\ t[x] = s[p[x]])
     /\ (\A x, y \in 1 .. m : x < y => p[x] < p[y])
     /\ \A i \in K : i \in 1 .. Len(s) /\ \E x \in 1 .. m : p[x] = i
  BY <1>a DEF InOrder
<1> SUFFICES ASSUME NEW i \in 1 .. m, t[i] = "blank" PROVE i - 1 \in Ink(t) /\ i + 1 \in Ink(t)
  BY <1>0 DEF Squeezed
<1>1. p[i] \in DOMAIN s /\ s[p[i]] = "blank" /\ p[i] \in Nat
  BY <1>0
<1>2. p[i] - 1 \in Ink(s) /\ p[i] + 1 \in Ink(s)
  BY <1>1 DEF Squeezed
<1>3. i - 1 \in 1 .. m /\ p[i - 1] = p[i] - 1
  BY <1>2, PrevKept
<1>4. i + 1 \in 1 .. m /\ p[i + 1] = p[i] + 1
  <2>1. p[i] + 1 \in K /\ p[i] < p[i] + 1 /\ \A x \in K : ~(p[i] < x /\ x < p[i] + 1)
    BY <1>1, <1>2, <1>0
  <2> QED BY <2>1, NextKept
<1>5. t[i - 1] = s[p[i] - 1] /\ t[i + 1] = s[p[i] + 1]
  BY <1>3, <1>4, <1>0
<1> QED BY <1>2, <1>3, <1>4, <1>5, <1>0 DEF Ink

\* After the first step no line is a timestamp alone.
LEMMA TimestampsGo ==
  ASSUME NEW s \in AllTexts PROVE WithoutTimestamps(s) \in AllTexts /\ Spoken(WithoutTimestamps(s))
<1>1. PICK K : K = {i \in DOMAIN s : ~TimestampOnly(s, i)}
  OBVIOUS
<1>2. TakenFrom(s, WithoutTimestamps(s), K, Cardinality(K), WalkOf(K))
  BY <1>1, StripTakes DEF WithoutTimestamps
<1>3. DOMAIN s = 1 .. Len(s) /\ Len(s) \in Nat
  BY TextIs
<1>4. ASSUME NEW i \in K, s[i] = "stamp" PROVE \E l \in K : l \in Ink(s) /\ l # i /\ SameLine(s, i, l)
  <2>1. i \in DOMAIN s /\ i \in Nat /\ ~TimestampOnly(s, i) /\ SameLine(s, i, i)
    BY <1>1, <1>3, LinesAreClasses
  <2>2. PICK k \in Ink(s) : SameLine(s, i, k) /\ k # i
    BY <1>4, <2>1 DEF TimestampOnly
  <2>3. k \in DOMAIN s /\ k \in Nat
    BY <1>3, <2>2 DEF Ink
  <2>4. ASSUME TimestampOnly(s, k) PROVE FALSE
    <3>1. PICK j \in DOMAIN s : /\ s[j] = "stamp" /\ SameLine(s, k, j)
                                /\ \A x \in Ink(s) : SameLine(s, k, x) => x = j
      BY <2>4 DEF TimestampOnly
    <3>2. j \in Nat /\ SameLine(s, i, j) /\ SameLine(s, k, i)
      BY <1>3, <2>1, <2>2, <2>3, <3>1, LinesAreClasses
    <3>3. \A x \in Ink(s) : SameLine(s, i, x) => SameLine(s, k, x)
      <4> TAKE x \in Ink(s)
      <4>1. x \in Nat
        BY <1>3 DEF Ink
      <4> QED BY <1>3, <2>1, <2>3, <3>2, <4>1, LinesAreClasses
    <3> QED BY <2>1, <3>1, <3>2, <3>3 DEF TimestampOnly
  <2>5. k \in K
    BY <1>1, <2>3, <2>4
  <2> QED BY <2>2, <2>5
<1> QED BY <1>2, <1>4, SpokenStays DEF TakenFrom

\* The places that SqueezeLines keeps.
BlanksKept(s) ==
  {i \in DOMAIN s : \/ s[i] # "blank"
                    \/ i - 1 \in Ink(s) /\ \E j \in Ink(s) : i < j /\ SameLine(s, i, j)}

\* After the second, blanks stand alone between what is no whitespace.
LEMMA BlanksAreSqueezed ==
  ASSUME NEW s \in AllTexts, Spoken(s)
  PROVE  SqueezeLines(s) \in AllTexts /\ Spoken(SqueezeLines(s)) /\ Squeezed(SqueezeLines(s))
<1>1. PICK K : K = BlanksKept(s)
  OBVIOUS
<1>2. PICK t, m, p : t = SqueezeLines(s) /\ m = Cardinality(K) /\ p = WalkOf(K)
  OBVIOUS
<1>3. TakenFrom(s, t, K, m, p)
  <2>1. K \in SUBSET DOMAIN s
    BY <1>1 DEF BlanksKept
  <2>2. SqueezeLines(s) = Strip(s, BlanksKept(s))
    BY Zenon DEF BlanksKept, SqueezeLines
  <2> QED BY <1>1, <1>2, <2>1, <2>2, StripTakes
<1>a. InOrder(s, t, K, m, p)
  BY <1>3, TakenFacts
<1>0. /\ DOMAIN t = 1 .. m /\ DOMAIN s = 1 .. Len(s) /\ m \in Nat /\ Len(s) \in Nat /\ Len(t) = m
     /\ (\A x \in 1 .. m : p[x] \in K /\ p[x] \in 1 .. Len(s) /\ t[x] = s[p[x]])
     /\ (\A x, y \in 1 .. m : x < y => p[x] < p[y])
     /\ \A i \in K : i \in 1 .. Len(s) /\ \E x \in 1 .. m : p[x] = i
  BY <1>a DEF InOrder
<1>4. \A i \in Ink(s) : i \in K
  <2> TAKE i \in Ink(s)
  <2>1. i \in DOMAIN s /\ s[i] # "blank"
    BY DEF Ink, White
  <2> QED BY <1>1, <2>1 DEF BlanksKept
<1>5. ASSUME NEW i \in 1 .. m, t[i] = "blank" PROVE i - 1 \in Ink(t) /\ i + 1 \in Ink(t)
  <2>1. /\ p[i] \in K /\ p[i] \in DOMAIN s /\ s[p[i]] = "blank" /\ p[i] \in Nat
        /\ DOMAIN s = 1 .. Len(s) /\ Len(s) \in Nat
    BY <1>3, <1>5, <1>0
  <2>2. p[i] - 1 \in Ink(s) /\ \E j \in Ink(s) : p[i] < j /\ SameLine(s, p[i], j)
    BY <1>1, <2>1 DEF BlanksKept
  <2>3. PICK j \in Ink(s) : p[i] < j /\ SameLine(s, p[i], j)
    BY <2>2
  <2>4. PICK n \in {x \in Ink(s) : p[i] < x} : \A y \in {x \in Ink(s) : p[i] < x} : n <= y
    <3>1. {x \in Ink(s) : p[i] < x} \in SUBSET Nat /\ {x \in Ink(s) : p[i] < x} # {}
      BY <2>1, <2>3 DEF Ink
    <3> QED BY <3>1, LeastNatural
  <2>5. n \in Ink(s) /\ p[i] < n /\ n <= j /\ j \in Nat /\ n \in Nat
    BY <2>1, <2>3, <2>4 DEF Ink
  <2>6. ASSUME NEW x \in K, p[i] < x, x < n PROVE FALSE
    <3>1. x \in DOMAIN s /\ x \in Nat
      BY <1>3, <1>0
    <3>2. x \notin Ink(s) /\ x - 1 \notin Ink(s)
      <4>1. x \notin Ink(s)
        BY <2>1, <2>4, <2>6, <3>1, <2>5
      <4>2. CASE x - 1 = p[i]
        BY <2>1, <4>1, <4>2 DEF Ink, White
      <4>3. CASE x - 1 > p[i]
        BY <2>1, <2>4, <2>6, <3>1, <2>5, <4>3
      <4> QED BY <2>1, <2>6, <3>1, <4>1, <4>2, <4>3
    <3>3. s[x] # "end"
      BY <2>1, <2>3, <2>5, <2>6, <3>1 DEF SameLine
    <3>4. s[x] = "blank"
      BY <3>1, <3>2, <3>3 DEF Ink, White
    <3> QED BY <1>1, <2>6, <3>2, <3>4 DEF BlanksKept
  <2>7. i + 1 \in 1 .. m /\ p[i + 1] = n
    BY <1>3, <1>4, <2>5, <2>6, NextKept
  <2>8. i - 1 \in 1 .. m /\ p[i - 1] = p[i] - 1
    BY <1>3, <1>4, <2>2, PrevKept
  <2>9. t[i - 1] = s[p[i] - 1] /\ t[i + 1] = s[n] /\ DOMAIN t = 1 .. m
    BY <1>3, <2>7, <2>8, <1>0
  <2> QED BY <2>2, <2>5, <2>7, <2>8, <2>9 DEF Ink
<1>6. Squeezed(t)
  BY <1>3, <1>5, <1>0 DEF Squeezed
<1>7. Spoken(t)
  BY <1>3, <1>4, InkKeepsLines
<1> QED BY <1>2, <1>3, <1>6, <1>7 DEF TakenFrom

\* After the third, at most one line in a row is empty.
LEMMA EmptyLinesGo ==
  ASSUME NEW s \in AllTexts, Spoken(s), Squeezed(s)
  PROVE  FewerEmpty(s) \in AllTexts /\ Spoken(FewerEmpty(s)) /\ Squeezed(FewerEmpty(s)) /\ Few(FewerEmpty(s))
<1>1. PICK K : K = {i \in DOMAIN s : i < 3 \/ {s[i], s[i - 1], s[i - 2]} # {"end"}}
  OBVIOUS
<1>2. PICK t, m, p : t = FewerEmpty(s) /\ m = Cardinality(K) /\ p = WalkOf(K)
  OBVIOUS
<1>3. TakenFrom(s, t, K, m, p)
  BY <1>1, <1>2, StripTakes DEF FewerEmpty
<1>a. InOrder(s, t, K, m, p)
  BY <1>3, TakenFacts
<1>0. /\ DOMAIN t = 1 .. m /\ DOMAIN s = 1 .. Len(s) /\ m \in Nat /\ Len(s) \in Nat /\ Len(t) = m
     /\ (\A x \in 1 .. m : p[x] \in K /\ p[x] \in 1 .. Len(s) /\ t[x] = s[p[x]])
     /\ (\A x, y \in 1 .. m : x < y => p[x] < p[y])
     /\ \A i \in K : i \in 1 .. Len(s) /\ \E x \in 1 .. m : p[x] = i
  BY <1>a DEF InOrder
<1>4. \A i \in DOMAIN s : s[i] # "end" => i \in K
  BY <1>1
<1>5. \A i \in Ink(s) : i \in K
  BY <1>4 DEF Ink, White
<1>6. ASSUME NEW i \in 1 .. m, i >= 3, {t[i], t[i - 1], t[i - 2]} = {"end"} PROVE FALSE
  <2>1. m \in Nat /\ i - 1 \in 1 .. m /\ i - 2 \in 1 .. m /\ DOMAIN s = 1 .. Len(s) /\ Len(s) \in Nat
    BY <1>3, <1>6, <1>0
  <2>2. t[i] = "end" /\ t[i - 1] = "end" /\ t[i - 2] = "end"
    BY <1>6
  <2>3. PICK a, b, c : a = p[i - 2] /\ b = p[i - 1] /\ c = p[i]
    OBVIOUS
  <2>4. /\ a \in 1 .. Len(s) /\ b \in 1 .. Len(s) /\ c \in K /\ c \in 1 .. Len(s) /\ a < b /\ b < c
        /\ s[a] = "end" /\ s[b] = "end" /\ s[c] = "end"
    BY <1>3, <2>1, <2>2, <2>3, <1>0
  <2>5. ASSUME NEW x \in 1 .. Len(s), a < x, x < c, x # b PROVE x \notin K
    <3> SUFFICES ASSUME x \in K PROVE FALSE
      OBVIOUS
    <3>1. PICK y \in 1 .. m : p[y] = x
      BY <1>3, <1>0
    <3>2. i - 2 < y /\ y < i /\ y # i - 1
      <4>1. ~(y < i - 2) /\ y # i - 2
        BY SMTT(20), <1>3, <2>1, <2>3, <2>4, <2>5, <3>1, <1>0
      <4>2. ~(i < y) /\ y # i
        BY <1>3, <2>1, <2>3, <2>4, <2>5, <3>1, <1>0
      <4>3. y # i - 1
        BY <2>3, <2>5, <3>1
      <4> QED BY <2>1, <4>1, <4>2, <4>3
    <3> QED BY <2>1, <3>2
  <2>6. \A x \in 1 .. Len(s) : a <= x /\ x <= c => s[x] = "end"
    BY <1>4, <2>1, <2>4, <2>5
  <2>7. c >= 3 /\ c - 1 \in 1 .. Len(s) /\ c - 2 \in 1 .. Len(s) /\ a <= c - 2
    BY <2>1, <2>4
  <2>8. s[c - 1] = "end" /\ s[c - 2] = "end"
    BY <2>4, <2>6, <2>7
  <2> QED BY <1>1, <2>4, <2>7, <2>8
<1>7. Few(t)
  BY <1>3, <1>6, <1>0 DEF Few
<1> QED BY <1>2, <1>3, <1>5, <1>7, InkKeepsLines, InkKeepsBlanks DEF TakenFrom

\* And after the last, no end is whitespace.
LEMMA EndsGo ==
  ASSUME NEW s \in AllTexts, Spoken(s), Squeezed(s), Few(s) PROVE Cleaned(Trim(s))
<1>1. PICK K : K = {i \in DOMAIN s : \E a, b \in Ink(s) : a <= i /\ i <= b}
  OBVIOUS
<1>2. PICK t, m, p : t = Trim(s) /\ m = Cardinality(K) /\ p = WalkOf(K)
  OBVIOUS
<1>3. TakenFrom(s, t, K, m, p)
  BY <1>1, <1>2, StripTakes DEF Trim
<1>a. InOrder(s, t, K, m, p)
  BY <1>3, TakenFacts
<1>0. /\ DOMAIN t = 1 .. m /\ DOMAIN s = 1 .. Len(s) /\ m \in Nat /\ Len(s) \in Nat /\ Len(t) = m
     /\ (\A x \in 1 .. m : p[x] \in K /\ p[x] \in 1 .. Len(s) /\ t[x] = s[p[x]])
     /\ (\A x, y \in 1 .. m : x < y => p[x] < p[y])
     /\ \A i \in K : i \in 1 .. Len(s) /\ \E x \in 1 .. m : p[x] = i
  BY <1>a DEF InOrder
<1>4. DOMAIN s = 1 .. Len(s) /\ Len(s) \in Nat /\ m \in Nat /\ t \in AllTexts /\ Len(t) = m /\ DOMAIN t = 1 .. m
  BY <1>3, TextIs, <1>0 DEF TakenFrom
<1>5. \A i \in Ink(s) : i \in K
  BY <1>1, <1>4 DEF Ink
<1>6. \A k \in 1 .. m : k - 1 \in 1 .. m => p[k - 1] = p[k] - 1
  <2> SUFFICES ASSUME NEW k \in 1 .. m, k - 1 \in 1 .. m PROVE p[k - 1] = p[k] - 1
    OBVIOUS
  <2>1. p[k - 1] \in K /\ p[k] \in K /\ p[k - 1] < p[k] /\ p[k] \in 1 .. Len(s) /\ p[k - 1] \in 1 .. Len(s)
    BY <1>3, <1>4, <1>0
  <2>2. p[k] - 1 \in K
    <3>1. PICK a \in Ink(s) : a <= p[k - 1]
      BY <1>1, <2>1
    <3>2. PICK b \in Ink(s) : p[k] <= b
      BY <1>1, <2>1
    <3>3. a \in Nat /\ b \in Nat /\ p[k] - 1 \in DOMAIN s /\ a <= p[k] - 1 /\ p[k] - 1 <= b
      BY <1>4, <2>1, <3>1, <3>2 DEF Ink
    <3> QED BY <1>1, <3>3
  <2> QED BY <1>3, <2>2, PrevKept
<1>7. Few(t)
  <2> SUFFICES ASSUME NEW i \in 1 .. m, i >= 3 PROVE {t[i], t[i - 1], t[i - 2]} # {"end"}
    BY <1>4 DEF Few
  <2>1. i - 1 \in 1 .. m /\ i - 2 \in 1 .. m /\ i - 2 = (i - 1) - 1
    BY <1>4
  <2>2. p[i] \in 1 .. Len(s) /\ p[i - 1] = p[i] - 1 /\ p[i - 2] = p[i] - 2 /\ p[i - 2] \in 1 .. Len(s)
    BY <1>3, <1>4, <1>6, <2>1, <1>0
  <2>3. t[i] = s[p[i]] /\ t[i - 1] = s[p[i] - 1] /\ t[i - 2] = s[p[i] - 2]
    BY <1>3, <2>1, <2>2, <1>0
  <2>4. p[i] >= 3
    BY <1>4, <2>2
  <2> QED BY <1>4, <2>2, <2>3, <2>4 DEF Few
<1>8. Trimmed(t)
  <2> SUFFICES ASSUME t # <<>> PROVE 1 \in Ink(t) /\ m \in Ink(t)
    BY <1>4 DEF Trimmed
  <2>1. 1 \in 1 .. m /\ m \in 1 .. m
    BY <1>4 DEF AllTexts
  <2>2. PICK a \in Ink(s) : a <= p[1]
    BY <1>1, <1>3, <2>1, <1>0
  <2>3. PICK b \in Ink(s) : p[m] <= b
    BY <1>1, <1>3, <2>1, <1>0
  <2>4. p[1] = a
    <3>1. PICK k \in 1 .. m : p[k] = a
      BY <1>3, <1>5, <2>2, <1>0
    <3>2. k = 1 \/ p[1] < p[k]
      BY <1>3, <1>4, <2>1, <1>0
    <3> QED BY <1>3, <1>4, <2>1, <2>2, <3>1, <3>2, <1>0
  <2>5. p[m] = b
    <3>1. PICK k \in 1 .. m : p[k] = b
      BY <1>3, <1>5, <2>3, <1>0
    <3>2. k = m \/ p[k] < p[m]
      BY <1>3, <1>4, <2>1, <1>0
    <3> QED BY <1>3, <1>4, <2>1, <2>3, <3>1, <3>2, <1>0
  <2> QED BY <1>3, <1>4, <2>1, <2>2, <2>3, <2>4, <2>5, <1>0 DEF Ink
<1> QED BY <1>2, <1>3, <1>4, <1>5, <1>7, <1>8, InkKeepsLines, InkKeepsBlanks DEF Cleaned

\* Cleaning cleans, and takes nothing from a clean text ("Idempotent.", segment.ts:11).
LEMMA CleanCleans ==
  ASSUME NEW s \in AllTexts PROVE Cleaned(Clean(s))
  BY TimestampsGo, BlanksAreSqueezed, EmptyLinesGo, EndsGo DEF Clean

\* Each step of cleaning finds nothing to take from a cleaned text.
LEMMA CleanedStays ==
  ASSUME NEW s, Cleaned(s) PROVE Clean(s) = s
<1>1. s \in AllTexts /\ DOMAIN s = 1 .. Len(s) /\ Len(s) \in Nat
  BY TextIs DEF Cleaned
<1>2. WithoutTimestamps(s) = s
  BY <1>1, StripOfAll DEF Cleaned, Spoken, WithoutTimestamps
<1>3. SqueezeLines(s) = s
  <2>1. ASSUME NEW i \in DOMAIN s, s[i] = "blank"
        PROVE  i - 1 \in Ink(s) /\ \E j \in Ink(s) : i < j /\ SameLine(s, i, j)
    <3>1. i - 1 \in Ink(s) /\ i + 1 \in Ink(s) /\ i \in Nat
      BY <1>1, <2>1 DEF Cleaned, Squeezed
    <3>2. SameLine(s, i, i + 1)
      BY <1>1, <3>1 DEF SameLine, Ink, White
    <3> QED BY <3>1, <3>2
  <2> QED BY <1>1, <2>1, StripOfAll DEF SqueezeLines
<1>4. FewerEmpty(s) = s
  <2>1. \A i \in DOMAIN s : i < 3 \/ {s[i], s[i - 1], s[i - 2]} # {"end"}
    <3> SUFFICES ASSUME NEW i \in DOMAIN s, ~(i < 3) PROVE {s[i], s[i - 1], s[i - 2]} # {"end"}
      OBVIOUS
    <3>1. i >= 3
      BY <1>1
    <3> QED BY <3>1 DEF Cleaned, Few
  <2> QED BY <1>1, <2>1, StripOfAll DEF FewerEmpty
<1>5. Trim(s) = s
  <2>1. \A i \in DOMAIN s : \E a, b \in Ink(s) : a <= i /\ i <= b
    <3> TAKE i \in DOMAIN s
    <3>1. s # <<>>
      BY <1>1
    <3>2. 1 \in Ink(s) /\ Len(s) \in Ink(s) /\ 1 <= i /\ i <= Len(s)
      BY <1>1, <3>1 DEF Cleaned, Trimmed
    <3> QED BY <3>2
  <2> QED BY <1>1, <2>1, StripOfAll DEF Trim
<1> QED BY <1>2, <1>3, <1>4, <1>5 DEF Clean

----------------------------------------------------------------------------
\* The text with a blank for any whitespace.
Blanked(s) == [i \in DOMAIN s |-> IF s[i] \in White THEN "blank" ELSE s[i]]

\* Squeezing takes what is shown.
LEMMA SqueezeTakes ==
  ASSUME NEW s \in AllTexts
  PROVE  /\ TakenFrom(Blanked(s), Squeeze(s), Shown(s), Cardinality(Shown(s)), WalkOf(Shown(s)))
         /\ Squeeze(s) \in AllTexts /\ Shown(s) \subseteq 1 .. Len(s)
<1>1. DOMAIN s = 1 .. Len(s) /\ Len(s) \in Nat /\ \A i \in 1 .. Len(s) : s[i] \in Chars \cup White
  BY TextIs
<1>2. Blanked(s) \in AllTexts /\ DOMAIN Blanked(s) = DOMAIN s
  <2>1. \A i \in 1 .. Len(s) : (IF s[i] \in White THEN "blank" ELSE s[i]) \in Chars \cup White
    BY <1>1 DEF White
  <2>2. PICK b : b = Blanked(s)
    OBVIOUS
  <2>3. b \in [1 .. Len(s) -> Chars \cup White]
    BY <1>1, <2>1, <2>2 DEF Blanked
  <2> QED BY <1>1, <2>2, <2>3 DEF AllTexts
<1>3. Shown(s) \in SUBSET DOMAIN s
  BY DEF Shown
<1>4. Squeeze(s) = Strip(Blanked(s), Shown(s))
  BY Zenon DEF Squeeze, Blanked
<1>5. Shown(s) \in SUBSET DOMAIN Blanked(s)
  BY <1>2, <1>3
<1>6. TakenFrom(Blanked(s), Squeeze(s), Shown(s), Cardinality(Shown(s)), WalkOf(Shown(s)))
  BY <1>2, <1>4, <1>5, StripTakes
<1> QED BY <1>1, <1>3, <1>6 DEF TakenFrom

\* Where the n characters of a squeezed text stand.
PlacesOf(s, n, p) ==
  /\ n \in Nat /\ Traversal(n, p, Shown(s)) /\ Squeeze(s) \in AllTexts /\ n = Len(Squeeze(s))
  /\ \A k \in 1 .. n : /\ p[k] \in Shown(s) /\ p[k] \in 1 .. Len(s) /\ p[k] = Nth(Shown(s), k)
                       /\ Squeeze(s)[k] = IF s[p[k]] \in White THEN "blank" ELSE s[p[k]]
                       /\ Squeeze(s)[k] \notin White <=> p[k] \in Ink(s)
  /\ \A k, l \in 1 .. n : k < l => p[k] < p[l]
  /\ \A i \in Shown(s) : i \in 1 .. Len(s) /\ \E k \in 1 .. n : p[k] = i
  /\ \A i \in Ink(s) : i \in Shown(s)

\* The squeezed text and the places it is of.
LEMMA SqueezePlaces ==
  ASSUME NEW s \in AllTexts, NEW n, n = Len(Squeeze(s)), NEW p, p = WalkOf(Shown(s))
  PROVE  PlacesOf(s, n, p)
<1>1. /\ TakenFrom(Blanked(s), Squeeze(s), Shown(s), Cardinality(Shown(s)), WalkOf(Shown(s)))
     /\ Shown(s) \subseteq 1 .. Len(s)
  BY SqueezeTakes
<1>2. PICK c : c = Cardinality(Shown(s))
  OBVIOUS
<1>3. TakenFrom(Blanked(s), Squeeze(s), Shown(s), c, p)
  BY <1>1, <1>2
<1>4. n = c /\ n \in Nat /\ Traversal(n, p, Shown(s)) /\ Squeeze(s) \in AllTexts
      /\ (\A k \in 1 .. n : p[k] \in Shown(s) /\ Squeeze(s)[k] = Blanked(s)[p[k]])
      /\ (\A k, l \in 1 .. n : k < l => p[k] < p[l])
      /\ \A i \in Shown(s) : \E k \in 1 .. n : p[k] = i
  <2>1. /\ n = c /\ Squeeze(s) \in AllTexts /\ Traversal(n, p, Shown(s))
        /\ \A k \in 1 .. n : Squeeze(s)[k] = Blanked(s)[p[k]]
    BY <1>3 DEF TakenFrom
  <2> QED BY <2>1 DEF Traversal
<1>5. DOMAIN s = 1 .. Len(s) /\ Len(s) \in Nat
  BY TextIs
<1>6. \A k \in 1 .. n : p[k] = Nth(Shown(s), k)
  BY <1>2, <1>4 DEF WalkOf
<1>7. ASSUME NEW k \in 1 .. n
      PROVE  /\ Squeeze(s)[k] = IF s[p[k]] \in White THEN "blank" ELSE s[p[k]]
             /\ Squeeze(s)[k] \notin White <=> p[k] \in Ink(s)
  <2>1. p[k] \in DOMAIN s
    BY <1>1, <1>4, <1>5
  <2>2. Squeeze(s)[k] = IF s[p[k]] \in White THEN "blank" ELSE s[p[k]]
    BY <1>4, <2>1 DEF Blanked
  <2> QED BY <2>1, <2>2 DEF Ink, White
<1>8. \A i \in Ink(s) : i \in Shown(s)
  BY DEF Ink, Shown
<1> QED BY <1>1, <1>4, <1>6, <1>7, <1>8 DEF PlacesOf

\* Texts whose shown places correspond are squeezed alike.
LEMMA SqueezesAgree ==
  ASSUME NEW s \in AllTexts, NEW t \in AllTexts, NEW h, Aligned(Shown(s), Shown(t), h),
         \A i \in Shown(s) : \/ s[i] \in White /\ t[h[i]] \in White
                             \/ s[i] \notin White /\ t[h[i]] = s[i]
  PROVE  Squeeze(s) = Squeeze(t)
<1>1. PICK m, n, p, q : /\ m = Len(Squeeze(s)) /\ n = Len(Squeeze(t))
                       /\ p = WalkOf(Shown(s)) /\ q = WalkOf(Shown(t))
  OBVIOUS
<1>2. /\ Traversal(m, p, Shown(s)) /\ Squeeze(s) \in AllTexts
      /\ \A k \in 1 .. m : /\ p[k] \in Shown(s)
                           /\ Squeeze(s)[k] = IF s[p[k]] \in White THEN "blank" ELSE s[p[k]]
  BY <1>1, SqueezePlaces DEF PlacesOf
<1>3. /\ Traversal(n, q, Shown(t)) /\ Squeeze(t) \in AllTexts
      /\ \A k \in 1 .. n : Squeeze(t)[k] = IF t[q[k]] \in White THEN "blank" ELSE t[q[k]]
  BY <1>1, SqueezePlaces DEF PlacesOf
<1>4. m = n /\ \A k \in 1 .. m : q[k] = h[p[k]]
  BY <1>2, <1>3, WalksAgree
<1>5. \A k \in 1 .. m : Squeeze(s)[k] = Squeeze(t)[k]
  <2> TAKE k \in 1 .. m
  <2>1. CASE s[p[k]] \in White /\ t[h[p[k]]] \in White
    BY <1>2, <1>3, <1>4, <2>1
  <2>2. CASE s[p[k]] \notin White /\ t[h[p[k]]] = s[p[k]]
    BY <1>2, <1>3, <1>4, <2>2
  <2> QED BY <1>2, <2>1, <2>2
<1> QED BY <1>1, <1>2, <1>3, <1>4, <1>5, SameText

\* A passage between two characters that are no whitespace is squeezed as the text is.
AsIn(t, a, b, q) ==
  /\ q \in AllTexts /\ Squeeze(q) \in AllTexts /\ Len(Squeeze(q)) = b - a + 1
  /\ \A k \in 1 .. (b - a + 1) : Squeeze(q)[k] = Squeeze(t)[a + k - 1]

\* A passage squeezed by itself is the same stretch of the squeezed text.
LEMMA PassageSqueezed ==
  ASSUME NEW t \in AllTexts, NEW n, NEW p, PlacesOf(t, n, p),
         NEW a \in 1 .. n, NEW b \in 1 .. n, a <= b, p[a] \in Ink(t), p[b] \in Ink(t)
  PROVE  AsIn(t, a, b, SubSeq(t, p[a], p[b]))
<1>q. PICK q : q = SubSeq(t, p[a], p[b])
  OBVIOUS
<1>1. /\ n \in Nat /\ Traversal(n, p, Shown(t))
      /\ \A k \in 1 .. n : /\ p[k] \in Shown(t) /\ p[k] \in 1 .. Len(t)
                           /\ Squeeze(t)[k] = IF t[p[k]] \in White THEN "blank" ELSE t[p[k]]
      /\ \A k, l \in 1 .. n : k < l => p[k] < p[l]
      /\ \A i \in Shown(t) : i \in 1 .. Len(t) /\ \E k \in 1 .. n : p[k] = i
  BY DEF PlacesOf
<1>2. PICK i, j : i = p[a] /\ j = p[b]
  OBVIOUS
<1>3. /\ DOMAIN t = 1 .. Len(t) /\ Len(t) \in Nat /\ i \in 1 .. Len(t) /\ j \in 1 .. Len(t) /\ i <= j
      /\ i \in Ink(t) /\ j \in Ink(t)
  <2>1. a = b \/ a < b
    BY <1>1
  <2> QED BY <1>1, <1>2, <2>1, TextIs
<1>4. /\ q \in AllTexts /\ Len(q) = j - i + 1 /\ DOMAIN q = 1 .. (j - i + 1)
      /\ \A x \in 1 .. (j - i + 1) : q[x] = t[x + i - 1]
  <2>1. t \in Seq(Chars \cup White) /\ q = SubSeq(t, i, j)
    BY <1>q, <1>2 DEF AllTexts
  <2>2. q \in Seq(Chars \cup White) /\ Len(q) = j - i + 1 /\ \A x \in 1 .. (j - i + 1) : q[x] = t[i + x - 1]
    BY <1>3, <2>1
  <2>3. j - i + 1 \in Nat /\ \A x \in 1 .. (j - i + 1) : i + x - 1 = x + i - 1
    BY <1>3
  <2>4. \A x \in 1 .. (j - i + 1) : q[x] = t[x + i - 1]
    BY <2>2, <2>3
  <2>5. q \in AllTexts /\ DOMAIN q = 1 .. Len(q)
    BY <2>2 DEF AllTexts
  <2> QED BY <2>2, <2>4, <2>5
<1>5. \A x \in 1 .. (j - i + 1) : x \in Ink(q) <=> x + i - 1 \in Ink(t)
  <2> TAKE x \in 1 .. (j - i + 1)
  <2>0. x + i - 1 \in 1 .. Len(t)
    BY <1>3
  <2>1. x \in DOMAIN q /\ x + i - 1 \in DOMAIN t /\ q[x] = t[x + i - 1]
    BY <1>3, <1>4, <2>0
  <2> QED BY <2>1 DEF Ink
<1>6. \A x \in 1 .. (j - i + 1) : x \in Shown(q) <=> x + i - 1 \in Shown(t)
  <2> TAKE x \in 1 .. (j - i + 1)
  <2>1. j - i + 1 \in Ink(q) /\ 1 \in Ink(q) /\ x + i - 1 \in 1 .. Len(t) /\ x \in 1 .. (j - i + 1)
    BY <1>3, <1>5
  <2>2. CASE x \in Ink(q)
    BY <1>5, <2>1, <2>2, <1>3, <1>4 DEF Shown
  <2>3. CASE x \notin Ink(q)
    <3>1. x # 1 /\ x # j - i + 1 /\ x + i - 1 \notin Ink(t)
      BY <1>5, <2>1, <2>3
    <3>2. x - 1 \in 1 .. (j - i + 1) /\ x < j - i + 1 /\ x + i - 1 < j /\ (x - 1) + i - 1 = (x + i - 1) - 1
      BY <1>3, <2>1, <3>1
    <3>3. x - 1 \in Ink(q) <=> (x + i - 1) - 1 \in Ink(t)
      BY <1>5, <3>2
    <3>4. (\E y \in Ink(q) : x < y) /\ \E y \in Ink(t) : x + i - 1 < y
      BY <1>3, <2>1, <3>2
    <3> QED BY <1>3, <1>4, <2>1, <2>3, <3>1, <3>3, <3>4 DEF Shown
  <2> QED BY <2>2, <2>3
<1>7. PICK K : K = {x \in Shown(t) : i <= x /\ x <= j}
  OBVIOUS
<1>8. PICK g : g = [k \in 1 .. (b - a + 1) |-> p[a + k - 1]]
  OBVIOUS
<1>9. b - a + 1 \in Nat /\ \A k \in 1 .. (b - a + 1) : a + k - 1 \in 1 .. n /\ a <= a + k - 1 /\ a + k - 1 <= b
  BY <1>1
<1>10. Traversal(b - a + 1, g, K)
  <2>1. \A k \in 1 .. n : a <= k /\ k <= b <=> i <= p[k] /\ p[k] <= j
    <3> TAKE k \in 1 .. n
    <3>1. (k < a => p[k] < p[a]) /\ (a < k => p[a] < p[k]) /\ (k < b => p[k] < p[b]) /\ (b < k => p[b] < p[k])
      BY <1>1
    <3>2. k < a \/ k = a \/ a < k
      BY <1>1
    <3>3. k < b \/ k = b \/ b < k
      BY <1>1
    <3>4. p[k] \in Nat /\ p[a] \in Nat /\ p[b] \in Nat /\ k \in Nat /\ a \in Nat /\ b \in Nat
      BY <1>1
    <3> QED BY <1>2, <3>1, <3>2, <3>3, <3>4
  <2>2. g \in [1 .. (b - a + 1) -> K]
    <3>1. \A k \in 1 .. (b - a + 1) : p[a + k - 1] \in K
      BY <1>1, <1>7, <1>9, <2>1
    <3> QED BY <1>8, <3>1
  <2>3. \A x \in K : \E k \in 1 .. (b - a + 1) : g[k] = x
    <3> TAKE x \in K
    <3>1. PICK l \in 1 .. n : p[l] = x
      BY <1>1, <1>7
    <3>2. a <= l /\ l <= b
      BY <1>7, <2>1, <3>1
    <3>3. l - a + 1 \in 1 .. (b - a + 1) /\ a + (l - a + 1) - 1 = l
      BY <1>1, <3>2
    <3> QED BY <1>8, <3>1, <3>3
  <2>4. \A k, l \in 1 .. (b - a + 1) : k < l => g[k] < g[l]
    <3> SUFFICES ASSUME NEW k \in 1 .. (b - a + 1), NEW l \in 1 .. (b - a + 1), k < l PROVE g[k] < g[l]
      OBVIOUS
    <3>1. a + k - 1 < a + l - 1 /\ a + k - 1 \in 1 .. n /\ a + l - 1 \in 1 .. n
      BY <1>1, <1>9
    <3>2. p[a + k - 1] < p[a + l - 1]
      BY <1>1, <3>1
    <3> QED BY <1>8, <3>2
  <2> QED BY <1>9, <2>2, <2>3, <2>4 DEF Traversal
<1>11. PICK h : h = [x \in K |-> x - i + 1]
  OBVIOUS
<1>12. Aligned(K, Shown(q), h)
  <2>1. \A x \in K : x \in Nat /\ x - i + 1 \in 1 .. (j - i + 1) /\ (x - i + 1) + i - 1 = x /\ x \in Shown(t)
    BY SMTT(20), <1>1, <1>3, <1>7
  <2>2. \A x \in K : x - i + 1 \in Shown(q)
    BY <1>6, <2>1
  <2>3. h \in [K -> Shown(q)] /\ \A x \in K : h[x] = x - i + 1
    BY <1>11, <2>2
  <2>4. Shown(q) \subseteq 1 .. (j - i + 1)
    BY <1>4 DEF Shown
  <2>5. \A y \in Shown(q) : \E x \in K : h[x] = y
    <3> TAKE y \in Shown(q)
    <3>1. y \in 1 .. (j - i + 1) /\ y + i - 1 \in Shown(t)
      BY <1>6, <2>4
    <3>2. y + i - 1 \in K /\ (y + i - 1) - i + 1 = y
      BY <1>3, <1>7, <3>1
    <3> QED BY <2>3, <3>2
  <2>6. \A x, y \in K : x < y => h[x] < h[y]
    BY <1>3, <2>1, <2>3
  <2>7. K \subseteq Nat /\ Shown(q) \subseteq Nat
    BY <1>3, <2>1, <2>4
  <2> QED BY <2>3, <2>5, <2>6, <2>7 DEF Aligned
<1>13. PICK m, r : m = Len(Squeeze(q)) /\ r = WalkOf(Shown(q))
  OBVIOUS
<1>14. /\ Traversal(m, r, Shown(q)) /\ Squeeze(q) \in AllTexts
       /\ \A k \in 1 .. m : /\ r[k] \in 1 .. Len(q)
                            /\ Squeeze(q)[k] = IF q[r[k]] \in White THEN "blank" ELSE q[r[k]]
  <2>1. PlacesOf(q, m, r)
    BY <1>4, <1>13, SqueezePlaces
  <2> QED BY <2>1 DEF PlacesOf
<1>15. b - a + 1 = m /\ \A k \in 1 .. (b - a + 1) : r[k] = h[g[k]]
  BY <1>10, <1>12, <1>14, WalksAgree
<1>16. \A k \in 1 .. (b - a + 1) : Squeeze(q)[k] = Squeeze(t)[a + k - 1]
  <2> TAKE k \in 1 .. (b - a + 1)
  <2>1. g[k] = p[a + k - 1] /\ g[k] \in K /\ a + k - 1 \in 1 .. n
    BY <1>8, <1>9, <1>10 DEF Traversal
  <2>2. r[k] = g[k] - i + 1 /\ r[k] \in 1 .. (j - i + 1) /\ g[k] \in 1 .. Len(t)
    BY <1>1, <1>4, <1>11, <1>14, <1>15, <2>1
  <2>3. q[r[k]] = t[g[k]]
    <3>1. r[k] + i - 1 = g[k]
      BY <1>3, <2>2
    <3> QED BY <1>4, <2>2, <3>1
  <2>4. Squeeze(t)[a + k - 1] = IF t[g[k]] \in White THEN "blank" ELSE t[g[k]]
    BY <1>1, <2>1
  <2>5. Squeeze(q)[k] = IF q[r[k]] \in White THEN "blank" ELSE q[r[k]]
    BY <1>14, <1>15
  <2> QED BY <2>3, <2>4, <2>5
<1> QED BY <1>q, <1>4, <1>13, <1>14, <1>15, <1>16 DEF AsIn

\* The first of a set of places is there, and the least.
LEMMA FirstIs ==
  ASSUME NEW P \in SUBSET Nat, P # {} PROVE First(P) \in P /\ \A x \in P : First(P) <= x
  BY LeastNatural DEF First

\* A least place is the first.
LEMMA FirstOfOwn ==
  ASSUME NEW P \in SUBSET Nat, NEW x \in P, \A y \in P : x <= y PROVE First(P) = x
<1>1. First(P) \in P /\ First(P) <= x /\ x <= First(P)
  BY FirstIs
<1>2. PICK y \in P : y = First(P)
  BY <1>1
<1>3. x \in Nat /\ y \in Nat /\ y <= x /\ x <= y
  BY <1>1, <1>2
<1> QED BY <1>2, <1>3

\* A character that is no whitespace is found where it stands.
LEMMA PlaceIsOwn ==
  ASSUME NEW s \in AllTexts, NEW k, Nth(Shown(s), k) \in Ink(s) PROVE PlaceOf(s, k) = Nth(Shown(s), k)
<1>1. PICK i : i = Nth(Shown(s), k)
  OBVIOUS
<1>2. PICK P : P = {x \in Ink(s) : i <= x}
  OBVIOUS
<1>3. Ink(s) \subseteq Nat
  BY TextIs DEF Ink
<1>4. P \in SUBSET Nat /\ i \in P /\ \A y \in P : i <= y
  BY <1>1, <1>2, <1>3
<1>5. First(P) = i
  BY <1>4, FirstOfOwn
<1> QED BY <1>1, <1>2, <1>5 DEF PlaceOf

\* What is squeezed as a passage is, is found, where the text is squeezed so too.
LEMMA QuoteIsFound ==
  ASSUME NEW t \in AllTexts, NEW i \in Ink(t), NEW j \in Ink(t), i <= j,
         NEW quote, Squeeze(quote) = Squeeze(SubSeq(t, i, j))
  PROVE  \E m \in FindQuote(t, quote) :
           m[1] \in Ink(t) /\ m[2] \in Ink(t)
           /\ Squeeze(SubSeq(t, m[1], m[2])) = Squeeze(SubSeq(t, i, j))
<1>1. PICK n, p, norm : n = Len(Squeeze(t)) /\ p = WalkOf(Shown(t)) /\ norm = Squeeze(t)
  OBVIOUS
<1>2. PlacesOf(t, n, p)
  BY <1>1, SqueezePlaces
<1>3. PICK a \in 1 .. n, b \in 1 .. n : p[a] = i /\ p[b] = j
  BY <1>2 DEF PlacesOf
<1>4. n \in Nat /\ a <= b /\ DOMAIN norm = 1 .. n /\ Len(norm) = n /\ norm \in AllTexts
  <2>1. n \in Nat /\ DOMAIN norm = 1 .. n /\ Len(norm) = n /\ norm \in AllTexts
    BY <1>1, <1>2, TextIs DEF PlacesOf
  <2>2. b < a => p[b] < p[a]
    BY <1>2 DEF PlacesOf
  <2>3. i \in Nat /\ j \in Nat
    BY TextIs DEF Ink
  <2> QED BY <1>3, <2>1, <2>2, <2>3
<1>5. PICK w, l : w = Squeeze(SubSeq(t, i, j)) /\ l = b - a + 1
  OBVIOUS
<1>6. w \in AllTexts /\ Len(w) = l /\ DOMAIN w = 1 .. l /\ l \in Nat /\ l >= 1
      /\ \A k \in 1 .. l : w[k] = norm[a + k - 1]
  <2>1. SubSeq(t, p[a], p[b]) = SubSeq(t, i, j) /\ p[a] \in Ink(t) /\ p[b] \in Ink(t)
    BY <1>3
  <2>2. w \in AllTexts /\ Len(w) = b - a + 1 /\ \A k \in 1 .. (b - a + 1) : w[k] = norm[a + k - 1]
    <3>1. AsIn(t, a, b, SubSeq(t, p[a], p[b]))
      BY <1>2, <1>4, <2>1, PassageSqueezed
    <3> QED BY <1>1, <1>5, <2>1, <3>1 DEF AsIn
  <2> QED BY <1>4, <1>5, <2>2, TextIs
<1>7. PICK found : found = {x \in DOMAIN norm : /\ x + Len(w) - 1 <= Len(norm)
                                                /\ \A k \in DOMAIN w : norm[x + k - 1] = w[k]}
  OBVIOUS
<1>8. a \in found /\ found \subseteq Nat /\ w # <<>>
  <2>1. a \in DOMAIN norm /\ a + Len(w) - 1 <= Len(norm)
    BY <1>4, <1>5, <1>6
  <2>2. \A k \in DOMAIN w : norm[a + k - 1] = w[k]
    BY <1>6
  <2>3. w # <<>>
    BY <1>6
  <2> QED BY <1>4, <1>7, <2>1, <2>2, <2>3
<1>9. PICK f : f = First(found) /\ f \in found
  BY <1>8, FirstIs
<1>10. f \in 1 .. n /\ f + l - 1 \in 1 .. n /\ \A k \in 1 .. l : norm[f + k - 1] = w[k]
  <2>1. f \in DOMAIN norm /\ f + Len(w) - 1 <= Len(norm) /\ \A k \in DOMAIN w : norm[f + k - 1] = w[k]
    BY <1>7, <1>9
  <2>2. f \in 1 .. n /\ f + l - 1 <= n
    BY <1>4, <1>6, <2>1
  <2>3. f + l - 1 \in 1 .. n
    BY <1>4, <1>6, <2>2
  <2> QED BY <1>6, <2>1, <2>2, <2>3
<1>11. PICK g \in 1 .. n : g = f + l - 1
  BY <1>10
<1>12. p[f] \in Ink(t) /\ p[g] \in Ink(t)
  <2>0. 1 \in 1 .. l /\ l \in 1 .. l
    BY <1>6
  <2>1. norm[f + 1 - 1] = w[1] /\ norm[f + l - 1] = w[l] /\ w[1] = norm[a + 1 - 1] /\ w[l] = norm[a + l - 1]
    BY <1>6, <1>10, <2>0
  <2>2. f + 1 - 1 = f /\ a + 1 - 1 = a /\ a + l - 1 = b
    BY <1>4, <1>5, <1>10
  <2>3. norm[f] = norm[a] /\ norm[g] = norm[b]
    BY <1>11, <2>1, <2>2
  <2>4. norm[a] \notin White /\ norm[b] \notin White
    BY <1>1, <1>2, <1>3 DEF PlacesOf
  <2> QED BY <1>1, <1>2, <1>10, <1>11, <2>3, <2>4 DEF PlacesOf
<1>13. PlaceOf(t, f) = p[f] /\ PlaceOf(t, g) = p[g]
  <2>1. p[f] = Nth(Shown(t), f) /\ p[g] = Nth(Shown(t), g)
    BY <1>2, <1>10 DEF PlacesOf
  <2> QED BY <1>12, <2>1, PlaceIsOwn
<1>14. FindQuote(t, quote) = {<<p[f], p[g]>>}
  <2>1. FindQuote(t, quote) = {<<PlaceOf(t, First(found)), PlaceOf(t, First(found) + Len(w) - 1)>>}
    BY <1>1, <1>5, <1>7, <1>8 DEF FindQuote
  <2>2. First(found) = f /\ First(found) + Len(w) - 1 = g
    BY <1>6, <1>9, <1>11
  <2> QED BY <1>13, <2>1, <2>2
<1>15. Squeeze(SubSeq(t, p[f], p[g])) = w
  <2>1. PICK v : v = Squeeze(SubSeq(t, p[f], p[g]))
    OBVIOUS
  <2>2. f <= g /\ g - f + 1 = l
    BY <1>6, <1>10, <1>11
  <2>3. v \in AllTexts /\ Len(v) = g - f + 1 /\ \A k \in 1 .. (g - f + 1) : v[k] = norm[f + k - 1]
    <3>1. AsIn(t, f, g, SubSeq(t, p[f], p[g]))
      BY <1>2, <1>10, <1>12, <2>2, PassageSqueezed
    <3> QED BY <1>1, <2>1, <3>1 DEF AsIn
  <2>4. \A k \in 1 .. l : v[k] = w[k]
    BY <1>10, <2>2, <2>3
  <2> QED BY ZenonT(40), <1>6, <2>1, <2>2, <2>3, <2>4, SameText
<1>16. <<p[f], p[g]>>[1] = p[f] /\ <<p[f], p[g]>>[2] = p[g]
  OBVIOUS
<1> QED BY <1>5, <1>12, <1>14, <1>15, <1>16

----------------------------------------------------------------------------
\* Each passage no longer than the overlap is whole in a window.
WindowsFrom(s, m, g) ==
  g = [start \in m .. Len(s) |->
         IF start + ChunkChars >= Len(s) THEN {<<start + 1, Len(s)>>}
         ELSE {<<start + 1, start + ChunkChars>>} \cup g[start + ChunkChars - OverlapChars]]

\* The windows are defined: the recursion goes to later starts.
LEMMA WindowsExist ==
  ASSUME NEW s, Len(s) \in Nat PROVE \E g : WindowsFrom(s, 0, g)
<1> DEFINE T == {m \in Nat : m <= Len(s) /\ ~\E g : WindowsFrom(s, m, g)}
<1>1. ASSUME T # {} PROVE FALSE
  <2>1. T \in SUBSET Nat /\ \A m \in T : m <= Len(s)
    OBVIOUS
  <2>2. PICK m \in T : \A y \in T : y <= m
    BY <1>1, <2>1, GreatestNatural
  <2>3. m \in Nat /\ m <= Len(s) /\ ~\E g : WindowsFrom(s, m, g)
    OBVIOUS
  <2>4. PICK g : m < Len(s) => WindowsFrom(s, m + 1, g)
    <3>1. m < Len(s) => m + 1 \in Nat /\ m + 1 <= Len(s)
      BY <2>3
    <3>2. PICK x : x = m + 1
      OBVIOUS
    <3>3. m < Len(s) /\ (~\E g : WindowsFrom(s, x, g)) => x \in T
      BY <3>1, <3>2
    <3> HIDE DEF T
    <3>4. m \in Nat
      BY <2>1
    <3>5. x \notin T
      <4>1. x \in T => x <= m
        BY <2>2
      <4> QED BY <3>2, <3>4, <4>1
    <3>6. m < Len(s) => \E g : WindowsFrom(s, x, g)
      BY <3>3, <3>5
    <3> QED BY <3>2, <3>6
  <2> DEFINE new == [start \in m .. Len(s) |->
                       IF start + ChunkChars >= Len(s) THEN {<<start + 1, Len(s)>>}
                       ELSE {<<start + 1, start + ChunkChars>>} \cup g[start + ChunkChars - OverlapChars]]
  <2>5. \A start \in m .. Len(s) : start + ChunkChars < Len(s) =>
          /\ start + ChunkChars - OverlapChars \in (m + 1) .. Len(s)
          /\ m < Len(s)
    BY <2>3, SegmentsAssumption
  <2>6. \A x \in (m + 1) .. Len(s) : m < Len(s) /\ x \in m .. Len(s)
    BY <2>3
  <2>7. \A x \in (m + 1) .. Len(s) : g[x] = new[x]
    BY <2>4, <2>6 DEF WindowsFrom
  <2>8. WindowsFrom(s, m, new)
    <3>1. \A start \in m .. Len(s) :
            (IF start + ChunkChars >= Len(s) THEN {<<start + 1, Len(s)>>}
             ELSE {<<start + 1, start + ChunkChars>>} \cup g[start + ChunkChars - OverlapChars])
            = (IF start + ChunkChars >= Len(s) THEN {<<start + 1, Len(s)>>}
               ELSE {<<start + 1, start + ChunkChars>>} \cup new[start + ChunkChars - OverlapChars])
      <4> HIDE DEF new
      <4> TAKE start \in m .. Len(s)
      <4>1. CASE start + ChunkChars >= Len(s)
        BY <4>1
      <4>2. CASE ~(start + ChunkChars >= Len(s))
        <5>1. start + ChunkChars < Len(s)
          BY <2>3, <4>2, SegmentsAssumption
        <5>2. g[start + ChunkChars - OverlapChars] = new[start + ChunkChars - OverlapChars]
          BY <2>5, <2>7, <5>1
        <5> QED BY <4>2, <5>2
      <4> QED BY <4>1, <4>2
    <3> QED BY <3>1 DEF WindowsFrom
  <2> QED BY <2>3, <2>8
<1>2. 0 \notin T
  BY <1>1
<1> QED BY <1>2

\* Whatever is no longer than the overlap is whole in one of them.
LEMMA WindowsCover ==
  ASSUME NEW s \in AllTexts, NEW i \in 1 .. Len(s), NEW j \in 1 .. Len(s), i <= j, j - i + 1 <= OverlapChars
  PROVE  \E w \in Chunks(s) : w[1] <= i /\ j <= w[2]
<1>1. Len(s) \in Nat /\ s # <<>>
  BY TextIs DEF AllTexts
<1>2. PICK g : WindowsFrom(s, 0, g) /\ Chunks(s) = g[0]
  <2>1. \E g : WindowsFrom(s, 0, g)
    BY <1>1, WindowsExist
  <2> QED BY <1>1, <2>1 DEF WindowsFrom, Chunks
<1> DEFINE Covered(start) == \E w \in g[start] : w[1] <= i /\ j <= w[2]
           T == {start \in Nat : start < i /\ ~Covered(start)}
<1>3. ASSUME T # {} PROVE FALSE
  <2>1. T \in SUBSET Nat /\ i \in Nat /\ \A x \in T : x <= i
    OBVIOUS
  <2>2. PICK m \in T : \A y \in T : y <= m
    BY <1>3, <2>1, GreatestNatural
  <2>3. m \in Nat /\ m < i /\ ~Covered(m) /\ m \in 0 .. Len(s)
    BY <1>1, <2>2
  <2>4. g[m] = IF m + ChunkChars >= Len(s) THEN {<<m + 1, Len(s)>>}
               ELSE {<<m + 1, m + ChunkChars>>} \cup g[m + ChunkChars - OverlapChars]
    BY <1>2, <2>3 DEF WindowsFrom
  <2>5. CASE m + ChunkChars >= Len(s)
    <3>1. <<m + 1, Len(s)>> \in g[m] /\ m + 1 <= i /\ j <= Len(s)
      BY <1>1, <2>3, <2>4, <2>5
    <3>2. <<m + 1, Len(s)>>[1] = m + 1 /\ <<m + 1, Len(s)>>[2] = Len(s)
      OBVIOUS
    <3> QED BY <2>3, <3>1, <3>2
  <2>6. CASE m + ChunkChars < Len(s) /\ j <= m + ChunkChars
    <3>1. <<m + 1, m + ChunkChars>> \in g[m] /\ m + 1 <= i
      BY <1>1, <2>3, <2>4, <2>6, SegmentsAssumption
    <3>2. <<m + 1, m + ChunkChars>>[1] = m + 1 /\ <<m + 1, m + ChunkChars>>[2] = m + ChunkChars
      OBVIOUS
    <3> QED BY <2>3, <2>6, <3>1, <3>2
  <2>7. CASE m + ChunkChars < Len(s) /\ m + ChunkChars < j
    <3>1. PICK n \in Nat : n = m + ChunkChars - OverlapChars
      BY <2>3, SegmentsAssumption
    <3>2. m < n /\ n < i
      BY <2>3, <2>7, <3>1, SegmentsAssumption
    <3>3. n \notin T
      <4>1. n \in T => n <= m
        BY <2>2
      <4> QED BY <2>3, <3>1, <3>2, <4>1
    <3>4. Covered(n)
      BY <3>2, <3>3
    <3>5. g[n] \subseteq g[m]
      BY <1>1, <2>3, <2>4, <2>7, <3>1, SegmentsAssumption
    <3> QED BY <2>3, <3>4, <3>5
  <2> QED BY <1>1, <2>3, <2>5, <2>6, <2>7, SegmentsAssumption
<1>4. Covered(0)
  BY <1>3
<1> QED BY <1>2, <1>4

----------------------------------------------------------------------------
\* What two sequences are beside each other.
SideBySide(u, v, w, S) ==
  /\ w \in Seq(S) /\ Len(w) = Len(u) + Len(v)
  /\ \A x \in 1 .. Len(u) : w[x] = u[x]
  /\ \A x \in 1 .. Len(v) : w[Len(u) + x] = v[x]

\* Putting them beside each other does that.
LEMMA BesideEachOther ==
  ASSUME NEW S, NEW u \in Seq(S), NEW v \in Seq(S) PROVE SideBySide(u, v, u \o v, S)
<1>1. u \o v \in Seq(S) /\ Len(u \o v) = Len(u) + Len(v) /\ Len(u) \in Nat /\ Len(v) \in Nat
  OBVIOUS
<1>2. \A x \in 1 .. Len(u) : (u \o v)[x] = u[x]
  OBVIOUS
<1>3. ASSUME NEW x \in 1 .. Len(v) PROVE (u \o v)[Len(u) + x] = v[x]
  <2>1. Len(u) + x > Len(u) /\ (Len(u) + x) - Len(u) = x /\ Len(u) + x \in 1 .. (Len(u) + Len(v))
    BY <1>1
  <2> QED BY <1>1, <2>1
<1> QED BY <1>1, <1>2, <1>3 DEF SideBySide

\* Other whitespace is squeezed alike.
LEMMA RespacedSame ==
  ASSUME NEW q \in AllTexts, q # <<>>, 1 \in Ink(q), Len(q) \in Ink(q), NEW quote \in Respaced(q)
  PROVE  Squeeze(quote) = Squeeze(q)
<1>1. PICK n \in Nat : n = Len(q) /\ DOMAIN q = 1 .. n /\ \A x \in 1 .. n : q[x] \in Chars \cup White
  BY TextIs
<1>2. 1 \in 1 .. n /\ n \in 1 .. n
  BY <1>1 DEF Ink
<1>3. Shown(q) \subseteq 1 .. n /\ Ink(q) \subseteq 1 .. n
  BY <1>1 DEF Shown, Ink
<1>4. CASE quote = [i \in DOMAIN q |-> IF q[i] \in White THEN "end" ELSE q[i]]
  <2>1. DOMAIN quote = 1 .. n /\ \A x \in 1 .. n : quote[x] = IF q[x] \in White THEN "end" ELSE q[x]
    BY <1>1, <1>4
  <2>2. Ink(quote) = Ink(q)
    BY <1>1, <2>1 DEF Ink, White
  <2>3. Shown(quote) = Shown(q)
    BY <1>1, <2>1, <2>2 DEF Shown
  <2>4. \A x \in 1 .. n : (IF quote[x] \in White THEN "blank" ELSE quote[x])
                          = (IF q[x] \in White THEN "blank" ELSE q[x])
    BY <2>1 DEF White
  <2>5. Blanked(quote) = Blanked(q)
    BY <1>1, <2>1, <2>4 DEF Blanked
  <2>6. Squeeze(quote) = Strip(Blanked(quote), Shown(quote)) /\ Squeeze(q) = Strip(Blanked(q), Shown(q))
    BY Zenon DEF Squeeze, Blanked
  <2> QED BY <2>3, <2>5, <2>6
<1>5. ASSUME NEW c \in White, NEW k \in 0 .. n, k \in {0, n} \/ q[k] \in White,
             quote = SubSeq(q, 1, k) \o <<c>> \o SubSeq(q, k + 1, n)
      PROVE  Squeeze(quote) = Squeeze(q)
  <2>1. /\ quote \in AllTexts /\ Len(quote) = n + 1 /\ DOMAIN quote = 1 .. (n + 1)
        /\ (\A x \in 1 .. k : quote[x] = q[x]) /\ quote[k + 1] = c
        /\ \A x \in (k + 1) .. n : quote[x + 1] = q[x]
    <3>1. q \in Seq(Chars \cup White) /\ c \in Chars \cup White
      BY DEF AllTexts
    <3>2. PICK u, v : u = SubSeq(q, 1, k) /\ v = SubSeq(q, k + 1, n)
      OBVIOUS
    <3>3. u \in Seq(Chars \cup White) /\ Len(u) = k /\ \A x \in 1 .. k : u[x] = q[x]
      BY <1>1, <3>1, <3>2
    <3>4. v \in Seq(Chars \cup White) /\ Len(v) = n - k /\ \A x \in 1 .. (n - k) : v[x] = q[k + x]
      BY <1>1, <3>1, <3>2
    <3>5. PICK z : z = u \o <<c>>
      OBVIOUS
    <3>6. z \in Seq(Chars \cup White) /\ Len(z) = k + 1 /\ z[k + 1] = c /\ \A x \in 1 .. k : z[x] = q[x]
      <4>1. PICK w : w = <<c>>
        OBVIOUS
      <4>2. w \in Seq(Chars \cup White) /\ Len(w) = 1 /\ w[1] = c
        BY <3>1, <4>1
      <4>3. z = u \o w
        BY <3>5, <4>1
      <4>4. SideBySide(u, w, z, Chars \cup White)
        BY <3>3, <4>2, <4>3, BesideEachOther
      <4>5. 1 \in 1 .. Len(w)
        BY <4>2
      <4>6. z[k + 1] = c
        BY <3>3, <4>2, <4>4, <4>5 DEF SideBySide
      <4>7. Len(z) = k + 1 /\ \A x \in 1 .. k : z[x] = q[x]
        BY <3>3, <4>2, <4>4 DEF SideBySide
      <4> QED BY <4>4, <4>6, <4>7 DEF SideBySide
    <3>7. quote = z \o v
      BY <1>5, <3>2, <3>5
    <3>8. /\ quote \in Seq(Chars \cup White) /\ Len(quote) = (k + 1) + (n - k)
          /\ (\A x \in 1 .. (k + 1) : quote[x] = z[x])
          /\ \A x \in 1 .. (n - k) : quote[(k + 1) + x] = v[x]
      <4>1. Len(z) = k + 1 /\ Len(v) = n - k /\ z \in Seq(Chars \cup White) /\ v \in Seq(Chars \cup White)
        BY <3>4, <3>6
      <4>2. SideBySide(z, v, quote, Chars \cup White)
        BY <3>7, <4>1, BesideEachOther
      <4> QED BY <4>1, <4>2 DEF SideBySide
    <3>9. Len(quote) = n + 1 /\ DOMAIN quote = 1 .. (n + 1) /\ quote \in AllTexts
      <4>1. Len(quote) = n + 1
        BY <1>1, <3>8
      <4> QED BY <3>8, <4>1 DEF AllTexts
    <3>10. ASSUME NEW x \in (k + 1) .. n PROVE quote[x + 1] = q[x]
      <4>1. x - k \in 1 .. (n - k) /\ (k + 1) + (x - k) = x + 1 /\ k + (x - k) = x
        BY <1>1
      <4>2. quote[(k + 1) + (x - k)] = v[x - k]
        BY <3>8, <4>1
      <4>3. v[x - k] = q[k + (x - k)]
        BY <3>4, <4>1
      <4>4. quote[x + 1] = v[x - k] /\ v[x - k] = q[x]
        BY <4>1, <4>2, <4>3
      <4> QED BY <4>4
    <3>11. (\A x \in 1 .. k : quote[x] = q[x]) /\ quote[k + 1] = c
      <4>1. k + 1 \in 1 .. (k + 1) /\ \A x \in 1 .. k : x \in 1 .. (k + 1)
        OBVIOUS
      <4> QED BY <3>6, <3>8, <4>1
    <3> QED BY <3>9, <3>10, <3>11
  <2> DEFINE sh(x) == IF x <= k THEN x ELSE x + 1
  <2>2. \A x \in 1 .. n : sh(x) \in 1 .. (n + 1) /\ sh(x) # k + 1 /\ quote[sh(x)] = q[x]
    <3> TAKE x \in 1 .. n
    <3>1. CASE x <= k
      BY <2>1, <3>1
    <3>2. CASE ~(x <= k)
      <4>1. x \in (k + 1) .. n /\ x + 1 \in 1 .. (n + 1) /\ x + 1 # k + 1
        BY <3>2
      <4> QED BY <2>1, <3>2, <4>1
    <3> QED BY <3>1, <3>2
  <2>3. \A y \in 1 .. (n + 1) : y = k + 1 \/ \E x \in 1 .. n : y = sh(x)
    <3> TAKE y \in 1 .. (n + 1)
    <3>1. CASE y <= k
      <4>1. y \in 1 .. n /\ sh(y) = y
        BY <3>1
      <4> QED BY <4>1
    <3>2. CASE y > k + 1
      <4>1. y - 1 \in 1 .. n /\ sh(y - 1) = y
        BY <3>2
      <4> QED BY <4>1
    <3> QED BY <3>1, <3>2
  <2>4. k + 1 \notin Ink(quote) /\ \A x \in 1 .. n : sh(x) \in Ink(quote) <=> x \in Ink(q)
    BY <1>1, <2>1, <2>2 DEF Ink
  <2>5. \A x, y \in 1 .. n : x < y <=> sh(x) < sh(y)
    OBVIOUS
  <2> HIDE DEF sh
  <2>6. Ink(quote) \subseteq 1 .. (n + 1) /\ \A y \in Ink(quote) : \E x \in Ink(q) : y = sh(x)
    <3>1. Ink(quote) \subseteq 1 .. (n + 1)
      BY <2>1 DEF Ink
    <3> QED BY <2>3, <2>4, <3>1
  <2>7. \A x \in 1 .. n : (\E y \in Ink(q) : x < y) <=> \E y \in Ink(quote) : sh(x) < y
    BY <1>3, <2>4, <2>5, <2>6
  <2>8. ASSUME NEW x \in 1 .. n, x \notin Ink(q) PROVE sh(x) - 1 \in Ink(quote) <=> x - 1 \in Ink(q)
    <3>1. x # 1 /\ x - 1 \in 1 .. n
      BY <2>8
    <3>2. CASE x <= k
      <4>1. sh(x) - 1 = sh(x - 1)
        BY <3>1, <3>2 DEF sh
      <4> QED BY <2>4, <3>1, <4>1
    <3>3. CASE x = k + 1
      <4>1. sh(x) - 1 = k + 1 /\ x - 1 = k
        BY <3>3 DEF sh
      <4>2. k # 0 /\ k # n
        BY <3>1, <3>3
      <4>3. k \notin Ink(q)
        BY <1>5, <4>2 DEF Ink
      <4> QED BY <2>4, <4>1, <4>3
    <3>4. CASE x > k + 1
      <4>1. sh(x) - 1 = sh(x - 1)
        BY <3>1, <3>4 DEF sh
      <4> QED BY <2>4, <3>1, <4>1
    <3> QED BY <3>2, <3>3, <3>4
  <2>9. ASSUME NEW x \in 1 .. n PROVE sh(x) \in Shown(quote) <=> x \in Shown(q)
    <3>1. CASE x \in Ink(q)
      BY <1>1, <2>1, <2>2, <2>4, <3>1 DEF Shown
    <3>2. CASE x \notin Ink(q)
      <4>1. sh(x) \notin Ink(quote) /\ sh(x) \in 1 .. (n + 1)
        BY <2>2, <2>4, <3>2
      <4>2. sh(x) - 1 \in Ink(quote) <=> x - 1 \in Ink(q)
        BY <2>8, <3>2
      <4>3. (\E y \in Ink(q) : x < y) <=> \E y \in Ink(quote) : sh(x) < y
        BY <2>7
      <4> QED BY <1>1, <2>1, <3>2, <4>1, <4>2, <4>3 DEF Shown
    <3> QED BY <3>1, <3>2
  <2>10. k + 1 \notin Shown(quote)
    <3> SUFFICES ASSUME (k + 1) - 1 \in Ink(quote), NEW j \in Ink(quote), k + 1 < j PROVE FALSE
      BY <2>4 DEF Shown
    <3>1. k \in Ink(quote) /\ j \in 1 .. (n + 1)
      BY <2>6
    <3>2. k \in 1 .. n /\ k # n
      BY <2>6, <3>1
    <3>3. sh(k) = k
      BY <3>2 DEF sh
    <3>4. k \in Ink(q) /\ q[k] \in White
      BY <1>5, <2>4, <3>1, <3>2, <3>3
    <3> QED BY <3>4 DEF Ink
  <2>11. PICK h : h = [x \in Shown(q) |-> sh(x)]
    OBVIOUS
  <2>12. Aligned(Shown(q), Shown(quote), h)
    <3>1. h \in [Shown(q) -> Shown(quote)] /\ \A x \in Shown(q) : h[x] = sh(x)
      BY <1>3, <2>9, <2>11
    <3>2. Shown(quote) \subseteq 1 .. (n + 1)
      BY <2>1 DEF Shown
    <3>3. \A y \in Shown(quote) : \E x \in Shown(q) : h[x] = y
      BY <2>3, <2>9, <2>10, <3>1, <3>2
    <3>4. \A x, y \in Shown(q) : x < y => h[x] < h[y]
      BY <1>3, <2>5, <3>1
    <3> QED BY <1>3, <3>1, <3>2, <3>3, <3>4 DEF Aligned
  <2>13. \A x \in Shown(q) : \/ q[x] \in White /\ quote[h[x]] \in White
                             \/ q[x] \notin White /\ quote[h[x]] = q[x]
    BY <1>3, <2>2, <2>11
  <2> QED BY <2>1, <2>12, <2>13, SqueezesAgree
<1>6. CASE quote = q
  BY <1>6
<1>7. CASE quote \in {Widened(q, k, c) : k \in Gaps(q), c \in White}
  <2>1. PICK k \in Gaps(q), c \in White : quote = Widened(q, k, c)
    BY <1>7
  <2>2. k \in 0 .. n /\ (k \in {0, n} \/ q[k] \in White)
    BY <1>1, <2>1 DEF Gaps
  <2>3. Widened(q, k, c) = SubSeq(q, 1, k) \o <<c>> \o SubSeq(q, k + 1, n)
    BY <1>1 DEF Widened
  <2> QED BY <1>5, <2>1, <2>2, <2>3
<1> QED BY <1>4, <1>6, <1>7 DEF Respaced

----------------------------------------------------------------------------
\* A text that begins and ends with no whitespace.
LEMMA InkAtTheEnds ==
  ASSUME NEW q \in AllTexts, Len(q) >= 1, q[1] \notin White, q[Len(q)] \notin White
  PROVE  q # <<>> /\ 1 \in Ink(q) /\ Len(q) \in Ink(q)
<1>1. Len(q) \in Nat /\ DOMAIN q = 1 .. Len(q)
  BY TextIs
<1>2. 1 \in DOMAIN q /\ Len(q) \in DOMAIN q
  BY <1>1
<1>3. q # <<>>
  BY <1>2
<1> QED BY <1>2, <1>3 DEF Ink

\* A passage is one.
LEMMA PassageEnds ==
  ASSUME NEW t \in AllTexts, NEW i \in Ink(t), NEW j \in Ink(t), i <= j, NEW q, q = SubSeq(t, i, j)
  PROVE  q \in AllTexts /\ q # <<>> /\ 1 \in Ink(q) /\ Len(q) \in Ink(q)
<1>1. i \in 1 .. Len(t) /\ j \in 1 .. Len(t) /\ Len(t) \in Nat /\ t[i] \notin White /\ t[j] \notin White
  BY TextIs DEF Ink
<1>2. t \in Seq(Chars \cup White)
  BY DEF AllTexts
<1>3. q \in Seq(Chars \cup White) /\ Len(q) = j - i + 1 /\ \A x \in 1 .. (j - i + 1) : q[x] = t[i + x - 1]
  BY <1>1, <1>2
<1>4. j - i + 1 \in Nat /\ j - i + 1 >= 1 /\ i + 1 - 1 = i /\ i + (j - i + 1) - 1 = j
  BY <1>1
<1>5. q[1] = t[i] /\ q[j - i + 1] = t[j]
  <2>1. 1 \in 1 .. (j - i + 1) /\ j - i + 1 \in 1 .. (j - i + 1)
    BY <1>4
  <2> QED BY <1>3, <1>4, <2>1
<1>6. q \in AllTexts /\ Len(q) >= 1
  BY <1>3, <1>4 DEF AllTexts
<1>7. q[1] \notin White /\ q[Len(q)] \notin White
  BY <1>1, <1>3, <1>5
<1> QED BY <1>6, <1>7, InkAtTheEnds

\* Cleaning is idempotent, as segment.ts:11 says: what is stored is cleaned when it is
\* stored and again when it is read, and its offsets are the same.
THEOREM CleanIsIdempotent ==
  ASSUME NEW s \in AllTexts PROVE Clean(s) \in AllTexts /\ Clean(Clean(s)) = Clean(s)
  BY CleanCleans, CleanedStays DEF Cleaned

\* The state says nothing more than which text came in.
LEMMA QuotesFollow ==
  ASSUME raw \in Seq(Chars) PROVE QuotesFoundWhole
<1>1. raw \in AllTexts
  BY DEF AllTexts
<1>2. PICK stored : stored = Clean(raw)
  OBVIOUS
<1>3. stored \in AllTexts /\ Clean(stored) = stored
  BY <1>1, <1>2, CleanIsIdempotent
<1>4. ASSUME NEW i \in Ink(stored), NEW j \in Ink(stored), i <= j
      PROVE  /\ j - i + 1 <= OverlapChars => \E w \in Chunks(stored) : w[1] <= i /\ j <= w[2]
             /\ \A quote \in Respaced(SubSeq(stored, i, j)) :
                  \E m \in FindQuote(stored, quote) :
                    /\ m[1] \in Ink(stored) /\ m[2] \in Ink(stored)
                    /\ Squeeze(SubSeq(stored, m[1], m[2])) = Squeeze(SubSeq(stored, i, j))
  <2>1. i \in 1 .. Len(stored) /\ j \in 1 .. Len(stored)
    BY <1>3, TextIs DEF Ink
  <2>2. j - i + 1 <= OverlapChars => \E w \in Chunks(stored) : w[1] <= i /\ j <= w[2]
    BY <1>3, <1>4, <2>1, WindowsCover
  <2>3. PICK q : q = SubSeq(stored, i, j)
    OBVIOUS
  <2>4. ASSUME NEW quote \in Respaced(q) PROVE Squeeze(quote) = Squeeze(q)
    <3>1. q \in AllTexts /\ q # <<>> /\ 1 \in Ink(q) /\ Len(q) \in Ink(q)
      BY <1>3, <1>4, <2>3, PassageEnds
    <3> QED BY <3>1, RespacedSame
  <2>5. \A quote \in Respaced(SubSeq(stored, i, j)) : Squeeze(quote) = Squeeze(SubSeq(stored, i, j))
    BY <2>3, <2>4
  <2> QED BY <1>3, <1>4, <2>2, <2>5, QuoteIsFound
<1> QED BY <1>2, <1>3, <1>4 DEF QuotesFoundWhole

\* What is pasted or typed has its types at first, and after every step.
LEMMA SegmentTypedAtFirst == SegmentInit => SegmentTypeOK
  BY SegmentsAssumption DEF SegmentInit, SegmentTypeOK

\* Every step keeps them.
LEMMA SegmentTypedStep == SegmentTypeOK /\ [SegmentNext]_segmentVars => SegmentTypeOK'
<1> SUFFICES ASSUME SegmentTypeOK, [SegmentNext]_segmentVars PROVE SegmentTypeOK'
  OBVIOUS
<1>1. CASE Typed
  BY <1>1, SegmentsAssumption DEF SegmentTypeOK, Typed
<1>2. CASE UNCHANGED segmentVars
  BY <1>2 DEF SegmentTypeOK, segmentVars
<1> QED BY <1>1, <1>2 DEF SegmentNext

\* SegmentTypeOK: what reaches cleanTranscript is a text of Chars no longer than MaxText.
THEOREM SegmentTypeCorrect == SegmentSpec => []SegmentTypeOK
BY SegmentTypedAtFirst, SegmentTypedStep, PTL DEF SegmentSpec

\* QuotesFoundWhole: "items spanning a boundary appear whole in one chunk" (segment.ts:29)
\* as far as the overlap goes, and "char_start/char_end always point into the real
\* transcript" (segment.ts:62), although what was searched is cleaned once more.
THEOREM QuotesAlwaysFoundWhole == SegmentSpec => []QuotesFoundWhole
<1>1. SegmentTypeOK => QuotesFoundWhole
  BY QuotesFollow DEF SegmentTypeOK
<1> QED BY <1>1, SegmentTypeCorrect, PTL
=============================================================================
