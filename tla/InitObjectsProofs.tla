------------------------- MODULE InitObjectsProofs --------------------------
(***************************************************************************)
(* Proofs about InitObjects, for every namespace, whatever the methods that *)
(* are run return and declare.                                              *)
(***************************************************************************)
EXTENDS InitObjects, FiniteSetTheorems, SequenceTheorems, WellFoundedInduction, TLAPS

USE DEF Walked

\* Induction over the natural numbers, for a property given as a set.
LEMMA SetInduction ==
    ASSUME NEW S, 0 \in S, \A k \in Nat : k \in S => k + 1 \in S
    PROVE  Nat \subseteq S
<1> SUFFICES ASSUME Nat \ S # {} PROVE FALSE
  OBVIOUS
<1> DEFINE R == {ss \in Nat \X Nat : ss[1] < ss[2]}
<1>1. IsWellFoundedOn(R, Nat)
  BY NatLessThanWellFounded DEF OpToRel
<1>2. \A x, y \in Nat : x < y => <<x, y>> \in R
  OBVIOUS
<1> HIDE DEF R
<1>3. PICK x \in Nat \ S : \A y \in Nat \ S : ~(<<y, x>> \in R)
  <2>1. Nat \ S \in SUBSET Nat
    OBVIOUS
  <2> QED
    BY <1>1, <2>1, WFMin, Zenon
<1>4. \A y \in Nat \ S : ~(y < x)
  BY <1>2, <1>3, Zenon
<1>5. x - 1 \in Nat /\ x - 1 \in S
  BY <1>4
<1> QED
  BY <1>5

----------------------------------------------------------------------------
(***************************************************************************)
(* The order in which a traversal comes to the paths: a level before what   *)
(* is below it, and a subtree before the next one.                          *)
(***************************************************************************)
Path == Seq(Nat)

\* p and q begin with the same n segments.
Alike(p, q, n) == n \in Nat /\ n <= Len(p) /\ n <= Len(q) /\ \A i \in 1..n : p[i] = q[i]

Above(p, q) == Len(p) < Len(q) /\ Alike(p, q, Len(p))

\* They part after n segments, and p comes first.
Part(p, q, n) == Alike(p, q, n) /\ n < Len(p) /\ n < Len(q) /\ p[n + 1] < q[n + 1]

Aside(p, q) == \E n \in 0..Len(p) : Part(p, q, n)

Before(p, q) == Above(p, q) \/ Aside(p, q)

LEMMA PathFacts ==
    ASSUME NEW p \in Path
    PROVE  Len(p) \in Nat /\ \A i \in 1..Len(p) : p[i] \in Nat
BY DEF Path

LEMMA PartIs ==
    ASSUME NEW p \in Path, NEW q, NEW n
    PROVE  Part(p, q, n) => Aside(p, q) /\ Before(p, q)
<1>1. Len(p) \in Nat
  BY PathFacts
<1> QED
  BY <1>1 DEF Part, Aside, Before, Alike

LEMMA NeverBeforeItself ==
    ASSUME NEW p \in Path
    PROVE  ~Before(p, p)
<1>1. Len(p) \in Nat /\ \A i \in 1..Len(p) : p[i] \in Nat
  BY PathFacts
<1>2. ~Above(p, p)
  BY <1>1 DEF Above
<1>3. \A n : ~Part(p, p, n)
  BY <1>1 DEF Part, Alike
<1> QED
  BY <1>2, <1>3, Zenon DEF Before, Aside

\* Transitivity, in four cases.
LEMMA AboveAbove ==
    ASSUME NEW p \in Path, NEW q \in Path, NEW r \in Path, Above(p, q), Above(q, r)
    PROVE  Above(p, r)
<1>1. Len(p) \in Nat /\ Len(q) \in Nat /\ Len(r) \in Nat
  BY PathFacts
<1>2. Len(p) < Len(q) /\ Len(q) < Len(r) /\ (\A i \in 1..Len(p) : p[i] = q[i]) /\ \A i \in 1..Len(q) : q[i] = r[i]
  BY DEF Above, Alike
<1>3. \A i \in 1..Len(p) : p[i] = r[i]
  BY <1>1, <1>2
<1> QED
  BY <1>1, <1>2, <1>3 DEF Above, Alike

LEMMA AboveAside ==
    ASSUME NEW p \in Path, NEW q \in Path, NEW r \in Path, Above(p, q), Aside(q, r)
    PROVE  Before(p, r)
<1>1. Len(p) \in Nat /\ Len(q) \in Nat /\ Len(r) \in Nat
  BY PathFacts
<1>2. PICK n \in 0..Len(q) : Part(q, r, n)
  BY Zenon DEF Aside
<1>3. Len(p) < Len(q) /\ \A i \in 1..Len(p) : p[i] = q[i]
  BY DEF Above, Alike
<1>4. n \in Nat /\ n < Len(q) /\ n < Len(r) /\ q[n + 1] < r[n + 1] /\ \A i \in 1..n : q[i] = r[i]
  BY <1>2 DEF Part, Alike
<1>5. CASE n < Len(p)
  <2>1. Part(p, r, n)
    BY <1>1, <1>3, <1>4, <1>5 DEF Part, Alike
  <2> QED
    BY <2>1, PartIs
<1>6. CASE ~(n < Len(p))
  <2>1. Above(p, r)
    BY <1>1, <1>3, <1>4, <1>6 DEF Above, Alike
  <2> QED
    BY <2>1 DEF Before
<1> QED
  BY <1>5, <1>6

\* Where two paths part, what is below them parts.
LEMMA AsideBelow ==
    ASSUME NEW p \in Path, NEW q \in Path, NEW r \in Path, Aside(p, q)
    PROVE  (Above(p, r) => Aside(r, q)) /\ (Above(q, r) => Aside(p, r))
<1>1. Len(p) \in Nat /\ Len(q) \in Nat /\ Len(r) \in Nat
  BY PathFacts
<1>2. PICK n \in 0..Len(p) : Part(p, q, n)
  BY Zenon DEF Aside
<1>3. n \in Nat /\ n < Len(p) /\ n < Len(q) /\ p[n + 1] < q[n + 1] /\ \A i \in 1..n : p[i] = q[i]
  BY <1>2 DEF Part, Alike
<1>4. ASSUME Above(p, r) PROVE Aside(r, q)
  <2>1. Len(p) < Len(r) /\ \A i \in 1..Len(p) : p[i] = r[i]
    BY <1>4 DEF Above, Alike
  <2>2. Part(r, q, n)
    BY <1>1, <1>3, <2>1 DEF Part, Alike
  <2> QED
    BY <2>2, PartIs
<1>5. ASSUME Above(q, r) PROVE Aside(p, r)
  <2>1. Len(q) < Len(r) /\ \A i \in 1..Len(q) : q[i] = r[i]
    BY <1>5 DEF Above, Alike
  <2>2. Part(p, r, n)
    BY <1>1, <1>3, <2>1 DEF Part, Alike
  <2> QED
    BY <2>2, PartIs
<1> QED
  BY <1>4, <1>5

LEMMA AsideAside ==
    ASSUME NEW p \in Path, NEW q \in Path, NEW r \in Path, Aside(p, q), Aside(q, r)
    PROVE  Aside(p, r)
<1>1. Len(p) \in Nat /\ Len(q) \in Nat /\ Len(r) \in Nat
  BY PathFacts
<1>2. PICK n \in 0..Len(p) : Part(p, q, n)
  BY Zenon DEF Aside
<1>3. PICK m \in 0..Len(q) : Part(q, r, m)
  BY Zenon DEF Aside
<1>4. n \in Nat /\ n < Len(p) /\ n < Len(q) /\ p[n + 1] < q[n + 1] /\ \A i \in 1..n : p[i] = q[i]
  BY <1>2 DEF Part, Alike
<1>5. m \in Nat /\ m < Len(q) /\ m < Len(r) /\ q[m + 1] < r[m + 1] /\ \A i \in 1..m : q[i] = r[i]
  BY <1>3 DEF Part, Alike
<1>6. CASE n < m
  <2>1. Part(p, r, n)
    BY <1>1, <1>4, <1>5, <1>6 DEF Part, Alike
  <2> QED
    BY <2>1, PartIs
<1>7. CASE m < n
  <2>1. Part(p, r, m)
    BY <1>1, <1>4, <1>5, <1>7 DEF Part, Alike
  <2> QED
    BY <2>1, PartIs
<1>8. CASE m = n
  <2>1. p[n + 1] \in Nat /\ q[n + 1] \in Nat /\ r[n + 1] \in Nat
    BY <1>1, <1>4, <1>5, <1>8, PathFacts
  <2>2. p[n + 1] < r[n + 1]
    BY <1>4, <1>5, <1>8, <2>1
  <2>3. Part(p, r, n)
    BY <1>1, <1>4, <1>5, <1>8, <2>2 DEF Part, Alike
  <2> QED
    BY <2>3, PartIs
<1> QED
  BY <1>4, <1>5, <1>6, <1>7, <1>8

LEMMA BeforeBefore ==
    ASSUME NEW p \in Path, NEW q \in Path, NEW r \in Path, Before(p, q), Before(q, r)
    PROVE  Before(p, r)
BY AboveAbove, AboveAside, AsideBelow, AsideAside, Zenon DEF Before

\* What comes between a level and something below it is below the level.
LEMMA SubtreesInOnePiece ==
    ASSUME NEW p \in Path, NEW q \in Path, NEW r \in Path,
           Above(p, r), Before(p, q), Before(q, r) \/ q = r
    PROVE  Above(p, q)
<1> SUFFICES ASSUME Aside(p, q) PROVE FALSE
  BY Zenon DEF Before
<1>1. Aside(r, q)
  BY AsideBelow, Zenon
<1>2. CASE q = r
  BY <1>1, <1>2, NeverBeforeItself, Zenon DEF Before
<1>3. CASE Before(q, r)
  <2>1. Before(r, r)
    BY <1>1, <1>3, BeforeBefore, Zenon DEF Before
  <2> QED
    BY <2>1, NeverBeforeItself, Zenon
<1> QED
  BY <1>2, <1>3

\* The proper prefixes of a path are what is above it.
LEMMA PrefixesAreAbove ==
    ASSUME NEW p \in Path
    PROVE  \A q : q \in ProperPrefixes(p) <=> q \in Path /\ Above(q, p)
<1>1. Len(p) \in Nat /\ p \in Seq(Nat)
  BY PathFacts DEF Path
<1>2. ASSUME NEW n \in 0..(Len(p) - 1) PROVE SubSeq(p, 1, n) \in Path /\ Above(SubSeq(p, 1, n), p)
  <2>1. SubSeq(p, 1, n) \in Seq(Nat) /\ Len(SubSeq(p, 1, n)) = n /\ \A i \in 1..n : SubSeq(p, 1, n)[i] = p[i]
    BY <1>1
  <2> QED
    BY <1>1, <2>1 DEF Path, Above, Alike
<1>3. ASSUME NEW q \in Path, Above(q, p) PROVE q \in ProperPrefixes(p)
  <2>1. q \in Seq(Nat) /\ Len(q) \in Nat /\ Len(q) < Len(p) /\ \A i \in 1..Len(q) : q[i] = p[i]
    BY <1>3 DEF Path, Above, Alike
  <2>2. q = SubSeq(p, 1, Len(q))
    BY <1>1, <2>1
  <2>3. Len(q) \in 0..(Len(p) - 1)
    BY <1>1, <2>1
  <2> QED
    BY <2>2, <2>3, Zenon DEF ProperPrefixes
<1> QED
  BY <1>2, <1>3, Zenon DEF ProperPrefixes

\* The levels above a level of a namespace are in it.
LEMMA AboveInNamespace ==
    ASSUME NEW levels, IsNamespace(levels), NEW p \in DOMAIN levels, NEW q \in Path, Above(q, p)
    PROVE  q \in DOMAIN levels
<1> DEFINE S == {n \in Nat : n <= Len(p) => SubSeq(p, 1, Len(p) - n) \in DOMAIN levels}
<1>0. p \in Seq(Nat) /\ Len(p) \in Nat
  BY DEF IsNamespace
<1>1. 0 \in S
  <2>1. SubSeq(p, 1, Len(p) - 0) = p
    BY <1>0
  <2> QED
    BY <2>1
<1>2. ASSUME NEW n \in Nat, n \in S PROVE n + 1 \in S
  <2> SUFFICES ASSUME n + 1 <= Len(p) PROVE SubSeq(p, 1, Len(p) - (n + 1)) \in DOMAIN levels
    OBVIOUS
  <2> DEFINE c == SubSeq(p, 1, Len(p) - n)
  <2>1. c \in DOMAIN levels
    BY <1>0, <1>2
  <2>2. c \in Seq(Nat) /\ Len(c) = Len(p) - n /\ \A i \in 1..Len(c) : c[i] = p[i]
    BY <1>0
  <2>3. c # <<>>
    <3>1. Len(p) - n # 0 /\ Len(<<>>) = 0
      BY <1>0
    <3> QED
      BY <2>2, <3>1, Zenon
  <2>4. AllButLast(c) = SubSeq(p, 1, Len(p) - (n + 1))
    BY <1>0, <2>2, <2>3 DEF AllButLast
  <2> QED
    BY <2>1, <2>3, <2>4, Zenon DEF IsNamespace
<1> HIDE DEF S
<1>3. Nat \subseteq S
  BY <1>1, <1>2, SetInduction
<1>4. q \in Seq(Nat) /\ Len(q) \in Nat /\ Len(q) < Len(p) /\ \A i \in 1..Len(q) : q[i] = p[i]
  BY DEF Path, Above, Alike
<1>5. Len(p) - Len(q) \in Nat /\ Len(p) - Len(q) <= Len(p) /\ Len(p) - (Len(p) - Len(q)) = Len(q)
  BY <1>0, <1>4
<1>6. SubSeq(p, 1, Len(p) - (Len(p) - Len(q))) \in DOMAIN levels
  BY <1>3, <1>5 DEF S
<1>7. SubSeq(p, 1, Len(q)) = q
  BY <1>0, <1>4
<1> QED
  BY <1>5, <1>6, <1>7, Zenon

----------------------------------------------------------------------------
(***************************************************************************)
(* The levels right below a level.                                          *)
(***************************************************************************)
Under(levels, path) == {p \in DOMAIN levels : p # <<>> /\ AllButLast(p) = path}

Sorted(s) == \A i, j \in DOMAIN s : i < j => LastOf(s[i]) < LastOf(s[j])

\* Paths that differ in their last segments.
Siblings(B) ==
    /\ IsFiniteSet(B) /\ \A p \in B : LastOf(p) \in Nat
    /\ \A p, q \in B : LastOf(p) = LastOf(q) => p = q

\* Segments that are all below a bound can be sorted.
LEMMA BoundedSorts ==
    ASSUME NEW bound \in Nat
    PROVE  \A B : Siblings(B) /\ (\A p \in B : LastOf(p) < bound)
                    => \E s \in [1..Cardinality(B) -> B] : Sorted(s)
<1> DEFINE Sorts(n) == \A B : Siblings(B) /\ (\A p \in B : LastOf(p) < n) => \E s \in [1..Cardinality(B) -> B] : Sorted(s)
           S == {n \in Nat : Sorts(n)}
<1>1. 0 \in S
  <2>1. ASSUME NEW B, Siblings(B), \A p \in B : LastOf(p) < 0 PROVE \E s \in [1..Cardinality(B) -> B] : Sorted(s)
    <3>1. B = {}
      BY <2>1 DEF Siblings
    <3>2. Cardinality(B) = 0 /\ 1..0 = {}
      BY <3>1, FS_EmptySet
    <3> DEFINE s == [i \in 1..0 |-> i]
    <3>3. s \in [1..0 -> B] /\ DOMAIN s = {}
      BY <3>2
    <3> HIDE DEF s
    <3>4. Sorted(s)
      BY <3>3, Zenon DEF Sorted
    <3> QED
      BY <3>2, <3>3, <3>4, Zenon
  <2> QED
    BY <2>1, Zenon
<1>2. ASSUME NEW n \in Nat, n \in S PROVE n + 1 \in S
  <2>1. ASSUME NEW B, Siblings(B), \A p \in B : LastOf(p) < n + 1 PROVE \E s \in [1..Cardinality(B) -> B] : Sorted(s)
    <3>1. CASE \A p \in B : LastOf(p) # n
      <4>1. \A p \in B : LastOf(p) < n
        BY <2>1, <3>1 DEF Siblings
      <4> QED
        BY <1>2, <2>1, <4>1, Zenon
    <3>2. ASSUME NEW b \in B, LastOf(b) = n PROVE \E s \in [1..Cardinality(B) -> B] : Sorted(s)
      <4> DEFINE C == B \ {b}
                 m == Cardinality(C)
      <4>1. IsFiniteSet(B)
        BY <2>1, Zenon DEF Siblings
      <4>2. IsFiniteSet(C) /\ m = Cardinality(B) - 1 /\ Cardinality(B) \in Nat /\ m \in Nat
        BY <4>1, FS_RemoveElement, FS_CardinalityType, Zenon
      <4>3. Siblings(C)
        BY <2>1, <4>2 DEF Siblings
      <4>4. \A p \in C : LastOf(p) < n
        BY <2>1, <3>2 DEF Siblings
      <4> HIDE DEF C
      <4>5. PICK t \in [1..m -> C] : Sorted(t)
        BY <1>2, <4>3, <4>4, Zenon
      <4> DEFINE s == [i \in 1..(m + 1) |-> IF i = m + 1 THEN b ELSE t[i]]
      <4>6. Cardinality(B) = m + 1
        BY <4>2
      <4> HIDE DEF m
      <4>7. s \in [1..(m + 1) -> B] /\ DOMAIN s = 1..(m + 1) /\ s[m + 1] = b /\ \A i \in 1..m : s[i] = t[i] /\ t[i] \in C
        BY <4>2, <4>5 DEF C
      <4> HIDE DEF s
      <4>8. Sorted(s)
        <5> SUFFICES ASSUME NEW i \in 1..(m + 1), NEW j \in 1..(m + 1), i < j PROVE LastOf(s[i]) < LastOf(s[j])
          BY <4>7, Zenon DEF Sorted
        <5>1. i \in 1..m /\ (j \in 1..m \/ j = m + 1)
          BY <4>2
        <5>2. CASE j \in 1..m
          <6>1. LastOf(t[i]) < LastOf(t[j])
            BY <4>5, <5>1, <5>2 DEF Sorted
          <6> QED
            BY <4>7, <5>1, <5>2, <6>1, Zenon
        <5>3. CASE j = m + 1
          BY <3>2, <4>4, <4>7, <5>1, <5>3, Zenon
        <5> QED
          BY <5>1, <5>2, <5>3
      <4> QED
        BY <4>6, <4>7, <4>8, Zenon
    <3> QED
      BY <3>1, <3>2, Zenon
  <2>2. Sorts(n + 1)
    BY <2>1, Zenon
  <2> HIDE DEF Sorts
  <2> QED
    BY <2>2
<1> HIDE DEF S
<1>3. bound \in S
  BY <1>1, <1>2, SetInduction
<1> QED
  BY <1>3 DEF S

LEMMA FiniteBounded ==
    ASSUME NEW B, Siblings(B)
    PROVE  \E bound \in Nat : \A p \in B : LastOf(p) < bound
<1> DEFINE Bounded(n) == \A C : Siblings(C) /\ Cardinality(C) = n => \E bound \in Nat : \A p \in C : LastOf(p) < bound
           S == {n \in Nat : Bounded(n)}
<1>1. 0 \in S
  <2>1. ASSUME NEW C, Siblings(C), Cardinality(C) = 0 PROVE \E bound \in Nat : \A p \in C : LastOf(p) < bound
    <3>1. C = {}
      BY <2>1, FS_EmptySet, Zenon DEF Siblings
    <3> QED
      BY <3>1
  <2> QED
    BY <2>1, Zenon
<1>2. ASSUME NEW n \in Nat, n \in S PROVE n + 1 \in S
  <2>1. ASSUME NEW C, Siblings(C), Cardinality(C) = n + 1 PROVE \E bound \in Nat : \A p \in C : LastOf(p) < bound
    <3>1. IsFiniteSet(C)
      BY <2>1, Zenon DEF Siblings
    <3>2. C # {}
      <4>1. n + 1 # 0
        OBVIOUS
      <4> QED
        BY <2>1, <4>1, FS_EmptySet, Zenon
    <3>3. PICK b : b \in C
      BY <3>2, Zenon
    <3> DEFINE D == C \ {b}
    <3>4. IsFiniteSet(D) /\ Cardinality(D) = Cardinality(C) - 1
      BY <3>1, <3>3, FS_RemoveElement, Zenon
    <3>5. Cardinality(D) = n
      BY <2>1, <3>4
    <3>6. Siblings(D)
      BY <2>1, <3>4 DEF Siblings
    <3>7. PICK m \in Nat : \A p \in D : LastOf(p) < m
      BY <1>2, <3>5, <3>6, Zenon
    <3> DEFINE k == m + LastOf(b) + 1
    <3>8. k \in Nat /\ \A p \in C : LastOf(p) \in Nat
      BY <2>1, <3>3 DEF Siblings
    <3>9. \A p \in C : LastOf(p) < k
      BY <2>1, <3>3, <3>7, <3>8 DEF Siblings
    <3> QED
      BY <3>8, <3>9, Zenon
  <2>2. Bounded(n + 1)
    BY <2>1, Zenon
  <2> HIDE DEF Bounded
  <2> QED
    BY <2>2
<1> HIDE DEF S
<1>3. Cardinality(B) \in Nat
  BY FS_CardinalityType, Zenon DEF Siblings
<1>4. Cardinality(B) \in S
  BY <1>1, <1>2, <1>3, SetInduction
<1>5. Bounded(Cardinality(B))
  BY <1>4, Zenon DEF S
<1> QED
  BY <1>5, Zenon

\* Every level right below p is a child of p, and nothing else is; the
\* children part from each other in the order of the map.
Lined(levels, p, c) ==
    /\ c \in Seq(DOMAIN levels)
    /\ \A i \in 1..Len(c) : c[i] \in Path /\ Above(p, c[i]) /\ Len(c[i]) = Len(p) + 1
    /\ \A q \in DOMAIN levels : Above(p, q) /\ Len(q) = Len(p) + 1 => \E i \in 1..Len(c) : c[i] = q
    /\ \A i, j \in 1..Len(c) : i < j => Aside(c[i], c[j])

LEMMA ChildrenLined ==
    ASSUME NEW levels, IsNamespace(levels), NEW p \in DOMAIN levels
    PROVE  Lined(levels, p, Children(levels, p))
<1> DEFINE B == Under(levels, p)
           n == Cardinality(B)
           c == Children(levels, p)
<1>1. p \in Path /\ Len(p) \in Nat /\ DOMAIN levels \subseteq Path /\ IsFiniteSet(DOMAIN levels)
  BY PathFacts DEF IsNamespace, Path
<1>2. ASSUME NEW q \in Path
      PROVE  /\ q # <<>> => LastOf(q) = q[Len(q)] /\ LastOf(q) \in Nat /\ Len(q) > 0
             /\ q # <<>> /\ AllButLast(q) = p <=> Above(p, q) /\ Len(q) = Len(p) + 1
  <2>1. q \in Seq(Nat) /\ Len(q) \in Nat /\ p \in Seq(Nat)
    BY <1>1 DEF Path
  <2>2. q # <<>> => LastOf(q) = q[Len(q)] /\ LastOf(q) \in Nat /\ Len(q) > 0
    BY <2>1 DEF LastOf
  <2>3. ASSUME q # <<>>, AllButLast(q) = p PROVE Above(p, q) /\ Len(q) = Len(p) + 1
    <3>1. p = SubSeq(q, 1, Len(q) - 1) /\ Len(q) > 0
      BY <2>1, <2>3 DEF AllButLast
    <3>2. Len(p) = Len(q) - 1 /\ \A i \in 1..Len(p) : p[i] = q[i]
      <4> DEFINE above == Len(q) - 1
                 s == SubSeq(q, 1, above)
      <4>1. above \in Nat /\ above <= Len(q)
        BY <2>1, <3>1
      <4> HIDE DEF above
      <4>2. Len(s) = above /\ \A i \in 1..above : s[i] = q[i]
        BY <2>1, <4>1
      <4>3. p = s
        BY <3>1 DEF above
      <4> HIDE DEF s
      <4>4. Len(p) = above /\ \A i \in 1..above : p[i] = q[i]
        BY <4>2, <4>3, Zenon
      <4> QED
        BY <4>4, Zenon DEF above
    <3> QED
      BY <1>1, <2>1, <3>2 DEF Above, Alike
  <2>4. ASSUME Above(p, q), Len(q) = Len(p) + 1 PROVE q # <<>> /\ AllButLast(q) = p
    <3>1. Len(q) - 1 = Len(p) /\ Len(q) > 0 /\ \A i \in 1..Len(p) : p[i] = q[i]
      BY <1>1, <2>1, <2>4 DEF Above, Alike
    <3>2. q # <<>>
      BY <3>1
    <3>3. SubSeq(q, 1, Len(p)) = p
      BY <1>1, <2>1, <2>4, <3>1
    <3> QED
      BY <3>1, <3>2, <3>3, Zenon DEF AllButLast
  <2> QED
    BY <2>2, <2>3, <2>4, Zenon
<1>3. \A q \in DOMAIN levels : q \in B <=> Above(p, q) /\ Len(q) = Len(p) + 1
  BY <1>1, <1>2, Zenon DEF Under
<1>4. B \subseteq DOMAIN levels
  BY DEF Under
<1>5. \A q \in B : q \in Path /\ Above(p, q) /\ Len(q) = Len(p) + 1 /\ LastOf(q) = q[Len(p) + 1] /\ LastOf(q) \in Nat
  BY <1>1, <1>2, <1>3, <1>4, Zenon DEF Under
<1>6. c = CHOOSE s \in [1..n -> B] : Sorted(s)
  BY Zenon DEF Children, Under, Sorted
<1> HIDE DEF B, c
<1>7. IsFiniteSet(B) /\ n \in Nat
  BY <1>1, <1>4, FS_Subset, FS_CardinalityType, Zenon
<1>8. \A q, r \in B : LastOf(q) = LastOf(r) => q = r
  <2> SUFFICES ASSUME NEW q \in B, NEW r \in B, LastOf(q) = LastOf(r) PROVE q = r
    OBVIOUS
  <2>1. q \in Seq(Nat) /\ r \in Seq(Nat) /\ Len(q) = Len(p) + 1 /\ Len(r) = Len(p) + 1 /\ q[Len(p) + 1] = r[Len(p) + 1]
    BY <1>5 DEF Path
  <2>2. \A i \in 1..Len(p) : q[i] = r[i]
    BY <1>5 DEF Above, Alike
  <2>3. ASSUME NEW i \in 1..Len(q) PROVE q[i] = r[i]
    <3>1. i \in 1..Len(p) \/ i = Len(p) + 1
      BY <1>1, <2>1
    <3> QED
      BY <2>1, <2>2, <3>1, Zenon
  <2>4. Len(q) = Len(r)
    BY <2>1, Zenon
  <2> QED
    BY <2>1, <2>3, <2>4, SeqEqual, Zenon
<1>9. Siblings(B)
  BY <1>5, <1>7, <1>8, Zenon DEF Siblings
<1>10. c \in [1..n -> B] /\ Sorted(c)
  <2>1. PICK bound \in Nat : \A q \in B : LastOf(q) < bound
    BY <1>9, FiniteBounded, Zenon
  <2>2. \E s \in [1..n -> B] : Sorted(s)
    BY <1>9, <2>1, BoundedSorts, Zenon
  <2> QED
    BY <1>6, <2>2, Zenon
<1> HIDE DEF n
<1>11. c \in Seq(DOMAIN levels) /\ Len(c) = n /\ DOMAIN c = 1..n /\ \A i \in 1..n : c[i] \in B
  BY <1>4, <1>7, <1>10
<1>12. \A i, j \in 1..n : i < j => LastOf(c[i]) < LastOf(c[j])
  BY <1>10, <1>11, Zenon DEF Sorted
<1>13. \A i, j \in 1..n : c[i] = c[j] => i = j
  <2> SUFFICES ASSUME NEW i \in 1..n, NEW j \in 1..n, c[i] = c[j] PROVE i = j
    OBVIOUS
  <2>1. LastOf(c[i]) \in Nat /\ LastOf(c[i]) = LastOf(c[j])
    BY <1>5, <1>11, Zenon
  <2>2. ~(i < j) /\ ~(j < i)
    BY <1>12, <2>1
  <2> QED
    BY <1>7, <2>2
<1>14. \A q \in B : \E i \in 1..n : c[i] = q
  <2>1. c \in Injection(1..n, B)
    BY <1>10, <1>11, <1>13, Zenon DEF Injection, IsInjective
  <2>2. Cardinality(1..n) = n
    BY <1>7, FS_Interval
  <2>3. c \in Surjection(1..n, B)
    BY <1>7, <2>1, <2>2, FS_Injection, Zenon DEF n
  <2> QED
    BY <2>3, Zenon DEF Surjection
<1>15. ASSUME NEW i \in 1..n, NEW j \in 1..n, i < j PROVE Aside(c[i], c[j])
  <2> DEFINE q == c[i]
             r == c[j]
  <2>1. q \in B /\ r \in B /\ LastOf(q) < LastOf(r)
    BY <1>11, <1>12, <1>15, Zenon
  <2>2. q \in Path /\ r \in Path /\ Above(p, q) /\ Above(p, r) /\ Len(q) = Len(p) + 1 /\ Len(r) = Len(p) + 1 /\ q[Len(p) + 1] < r[Len(p) + 1]
    BY <1>5, <2>1, Zenon
  <2> HIDE DEF q, r
  <2>3. Part(q, r, Len(p))
    BY <1>1, <2>2 DEF Above, Alike, Part
  <2> QED
    BY <2>2, <2>3, PartIs, Zenon DEF q, r
<1> QED
  BY <1>3, <1>5, <1>11, <1>14, <1>15, Zenon DEF Lined, c

----------------------------------------------------------------------------
(***************************************************************************)
(* The invariant: what the traversal has done, and what it has still to do. *)
(* tr is the namespace it walks through, pe the levels that wait for it, lg *)
(* the methods it has invoked and st the statuses it has found; mid says    *)
(* that it is between `_STA` and `_INI` of the first of pe.                 *)
(***************************************************************************)

\* What is below q is to be looked at.
Open(tr, st, q) ==
    \/ tr[q].typ = "Scope"
    \/ tr[q].typ = "Device" /\ q \in DOMAIN st /\ (st[q].present \/ st[q].functional)

Reach(tr, st, p) == \A q \in ProperPrefixes(p) : Open(tr, st, q)

\* The invocations made by the traversal.
Own(lg) == {i \in DOMAIN lg : ~(lg[i].path = SB /\ lg[i].method = "_INI" /\ i = 1)}

Ran(lg, p, method) == \E i \in Own(lg) : lg[i].path = p /\ lg[i].method = method

\* The traversal has still to come to p, or has come past q.
Waiting(pe, p) == \E k \in 1..Len(pe) : pe[k] = p \/ Above(pe[k], p)

Passed(pe, q) == \A k \in 1..Len(pe) : Before(q, pe[k])

\* All there is to do for the device p has been done.
Finished(tr, lg, st, p) ==
    /\ p \in DOMAIN st
    /\ Ran(lg, p, "_STA") <=> tr[p].sta
    /\ Ran(lg, p, "_INI") <=> tr[p].ini /\ st[p].present

\* The levels that wait are reached, and come in the order of the traversal.
StackOK(tr, st, pe) ==
    /\ IsNamespace(tr) /\ pe \in Seq(DOMAIN tr)
    /\ \A i, j \in 1..Len(pe) : i < j => Aside(pe[i], pe[j])
    /\ \A k \in 1..Len(pe) : Reach(tr, st, pe[k])

\* A status is that of a device that was passed, or of the one at hand.
StatusOK(tr, pe, mid, st) ==
    \A q \in DOMAIN st : q \in DOMAIN tr /\ tr[q].typ = "Device" /\ (Passed(pe, q) \/ (mid /\ q = pe[1]))

Precedes(e, f) == Before(e.path, f.path) \/ (e.path = f.path /\ e.method = "_STA" /\ f.method = "_INI")

\* Devices that are reached have been invoked, in the order of the traversal,
\* up to the first error.
LogOK(tr, st, lg) ==
    /\ lg \in Seq([path : Path, method : {"_STA", "_INI"}, ok : BOOLEAN])
    /\ \A i \in Own(lg) : /\ lg[i].path \in DOMAIN tr /\ tr[lg[i].path].typ = "Device" /\ Reach(tr, st, lg[i].path)
                          /\ ~lg[i].ok => i = Len(lg)
    /\ \A i, j \in Own(lg) : i < j => Precedes(lg[i], lg[j])
    /\ SB \in DOMAIN tr /\ tr[SB].ini => lg # <<>> /\ lg[1].path = SB /\ lg[1].method = "_INI"

\* While it goes on, no method has failed, everything invoked has been passed,
\* and every device that is reached waits or is finished.
GoingOK(tr, pe, mid, lg, st) ==
    /\ \A i \in Own(lg) : /\ lg[i].ok
                          /\ Passed(pe, lg[i].path) \/ (mid /\ lg[i].path = pe[1] /\ lg[i].method = "_STA")
    /\ \A p \in DOMAIN tr : tr[p].typ = "Device" /\ Reach(tr, st, p) => Waiting(pe, p) \/ Finished(tr, lg, st, p)
    /\ mid => /\ pe # <<>> /\ pe[1] \in DOMAIN st /\ tr[pe[1]].typ = "Device"
              /\ Ran(lg, pe[1], "_STA") <=> tr[pe[1]].sta

TraversalOK(tr, pe, mid, lg, st, going) ==
    /\ StackOK(tr, st, pe) /\ StatusOK(tr, pe, mid, st) /\ LogOK(tr, st, lg)
    /\ going => GoingOK(tr, pe, mid, lg, st)

TraversalInv ==
    /\ IsNamespace(namespace)
    /\ at \in {"start", "level", "ini"}
    /\ at = "start" => log = <<>> /\ DOMAIN status = {} /\ outcome = "none"
    /\ at # "start" => TraversalOK(traversed, pending, at = "ini", log, status, outcome \in {"none", "Ok"})
    /\ outcome = "Ok" => pending = <<>> /\ at = "level"

\* ss is st with the status x of l.
MoreStatus(tr, st, ss, l, x) ==
    /\ \A q \in Path : Reach(tr, st, q) => Reach(tr, ss, q)
    /\ \A q \in Path : Reach(tr, ss, q) /\ ~Above(l, q) => Reach(tr, st, q)
    /\ DOMAIN ss = DOMAIN st \cup {l} /\ ss[l] = x
    /\ \A q \in DOMAIN st : ss[q] = st[q] /\ q # l

\* A new status opens a level, and changes nothing that was open.
LEMMA StatusMore ==
    ASSUME NEW tr, IsNamespace(tr), NEW st, NEW l \in Path, l \notin DOMAIN st, NEW x
    PROVE  MoreStatus(tr, st, Insert(st, l, x), l, x)
<1> DEFINE ss == Insert(st, l, x)
<1>1. DOMAIN ss = DOMAIN st \cup {l} /\ ss[l] = x /\ \A q \in DOMAIN st : ss[q] = st[q] /\ q # l
  BY Zenon DEF Insert
<1> HIDE DEF ss
<1>2. \A q : Open(tr, st, q) => Open(tr, ss, q)
  BY <1>1, Zenon DEF Open
<1>3. \A q : Open(tr, ss, q) /\ q # l => Open(tr, st, q)
  BY <1>1, Zenon DEF Open
<1>4. \A q \in Path : Reach(tr, st, q) => Reach(tr, ss, q)
  BY <1>2, Zenon DEF Reach
<1>5. ASSUME NEW q \in Path, Reach(tr, ss, q), ~Above(l, q) PROVE Reach(tr, st, q)
  <2>1. \A r \in ProperPrefixes(q) : r # l
    BY <1>5, PrefixesAreAbove, Zenon
  <2> QED
    BY <1>3, <1>5, <2>1, Zenon DEF Reach
<1> QED
  BY <1>1, <1>4, <1>5, Zenon DEF MoreStatus, ss

\* ll is lg with the invocation of method for p.
OneMore(lg, ll, p, method, ok) ==
    /\ \A q, m : Ran(ll, q, m) <=> (Ran(lg, q, m) \/ (q = p /\ m = method))
    /\ \A i \in Own(ll) : (i \in Own(lg) /\ ll[i] = lg[i]) \/ (ll[i].path = p /\ ll[i].method = method /\ ll[i].ok = ok)

\* One more invocation.
LEMMA LogMore ==
    ASSUME NEW tr, IsNamespace(tr), NEW st, NEW lg, LogOK(tr, st, lg),
           NEW p \in DOMAIN tr, tr[p].typ = "Device", Reach(tr, st, p),
           NEW method \in {"_STA", "_INI"}, NEW ok \in BOOLEAN, method = "_INI" => tr[p].ini,
           \A i \in Own(lg) : lg[i].ok /\ Precedes(lg[i], Invocation(p, method, ok))
    PROVE  /\ LogOK(tr, st, Append(lg, Invocation(p, method, ok)))
           /\ OneMore(lg, Append(lg, Invocation(p, method, ok)), p, method, ok)
<1> DEFINE E == [path : Path, method : {"_STA", "_INI"}, ok : BOOLEAN]
           e == Invocation(p, method, ok)
           ll == Append(lg, e)
           n == Len(lg)
<1>1. e \in E /\ e.path = p /\ e.method = method /\ e.ok = ok
  BY DEF Invocation, Path, IsNamespace
<1>2. lg \in Seq(E) /\ n \in Nat /\ DOMAIN lg = 1..n
  BY DEF LogOK
<1> HIDE DEF e, E
<1>3. ll \in Seq(E) /\ Len(ll) = n + 1 /\ DOMAIN ll = 1..(n + 1) /\ ll[n + 1] = e /\ \A i \in 1..n : ll[i] = lg[i]
  BY <1>1, <1>2
<1> HIDE DEF ll
<1>4. ~(e.path = SB /\ e.method = "_INI" /\ n + 1 = 1)
  <2> SUFFICES ASSUME e.path = SB, e.method = "_INI", n + 1 = 1 PROVE FALSE
    OBVIOUS
  <2>1. SB \in DOMAIN tr /\ tr[SB].ini
    BY <1>1, Zenon
  <2>2. lg # <<>>
    BY <2>1, Zenon DEF LogOK
  <2> QED
    BY <1>2, <2>2
<1>5. Own(ll) = Own(lg) \cup {n + 1}
  <2>1. 1..(n + 1) = (1..n) \cup {n + 1} /\ n + 1 \notin 1..n
    BY <1>2
  <2> QED
    BY <1>2, <1>3, <1>4, <2>1, Zenon DEF Own
<1>6. \A i \in Own(lg) : i \in 1..n /\ ll[i] = lg[i]
  BY <1>2, <1>3, Zenon DEF Own
<1>7. \A i \in Own(ll) : (i \in Own(lg) /\ ll[i] = lg[i]) \/ ll[i] = e
  BY <1>3, <1>5, <1>6, Zenon
<1>8. \A q, m : Ran(ll, q, m) <=> (Ran(lg, q, m) \/ (q = p /\ m = method))
  <2> SUFFICES ASSUME NEW q, NEW m PROVE Ran(ll, q, m) <=> (Ran(lg, q, m) \/ (q = p /\ m = method))
    BY Zenon
  <2>1. n + 1 \in Own(ll) /\ ll[n + 1].path = p /\ ll[n + 1].method = method
    BY <1>1, <1>3, <1>5, Zenon
  <2>2. ASSUME Ran(ll, q, m) PROVE Ran(lg, q, m) \/ (q = p /\ m = method)
    <3>1. PICK i \in Own(ll) : ll[i].path = q /\ ll[i].method = m
      BY <2>2, Zenon DEF Ran
    <3>2. CASE i \in Own(lg) /\ ll[i] = lg[i]
      BY <3>1, <3>2, Zenon DEF Ran
    <3>3. CASE ll[i] = e
      BY <1>1, <3>1, <3>3, Zenon
    <3> QED
      BY <1>7, <3>2, <3>3, Zenon
  <2>3. ASSUME Ran(lg, q, m) PROVE Ran(ll, q, m)
    <3>1. PICK i \in Own(lg) : lg[i].path = q /\ lg[i].method = m
      BY <2>3, Zenon DEF Ran
    <3>2. i \in Own(ll) /\ ll[i] = lg[i]
      BY <1>5, <1>6, Zenon
    <3> QED
      BY <3>1, <3>2, Zenon DEF Ran
  <2>4. q = p /\ m = method => Ran(ll, q, m)
    BY <2>1, Zenon DEF Ran
  <2> QED
    BY <2>2, <2>3, <2>4, Zenon
<1>9. \A i \in Own(ll) : /\ ll[i].path \in DOMAIN tr /\ tr[ll[i].path].typ = "Device" /\ Reach(tr, st, ll[i].path)
                         /\ ~ll[i].ok => i = Len(ll)
  <2>1. ASSUME NEW i \in Own(lg)
        PROVE  ll[i].path \in DOMAIN tr /\ tr[ll[i].path].typ = "Device" /\ Reach(tr, st, ll[i].path) /\ ll[i].ok
    <3>1. lg[i].path \in DOMAIN tr /\ tr[lg[i].path].typ = "Device" /\ Reach(tr, st, lg[i].path)
      BY Zenon DEF LogOK
    <3> QED
      BY <1>6, <3>1, Zenon
  <2> QED
    BY <1>1, <1>3, <1>5, <2>1, Zenon
<1>10. \A i, j \in Own(ll) : i < j => Precedes(ll[i], ll[j])
  <2> SUFFICES ASSUME NEW i \in Own(ll), NEW j \in Own(ll), i < j PROVE Precedes(ll[i], ll[j])
    BY Zenon
  <2>1. i \in Own(lg)
    BY <1>2, <1>5, <1>6
  <2>2. CASE j \in Own(lg)
    <3>1. Precedes(lg[i], lg[j])
      BY <2>1, <2>2, Zenon DEF LogOK
    <3> QED
      BY <1>6, <2>1, <2>2, <3>1, Zenon
  <2>3. CASE j = n + 1
    BY <1>3, <1>6, <2>1, <2>3, Zenon DEF e
  <2> QED
    BY <1>5, <2>2, <2>3, Zenon
<1>11. SB \in DOMAIN tr /\ tr[SB].ini => ll # <<>> /\ ll[1].path = SB /\ ll[1].method = "_INI"
  <2> SUFFICES ASSUME SB \in DOMAIN tr, tr[SB].ini PROVE ll # <<>> /\ ll[1].path = SB /\ ll[1].method = "_INI"
    OBVIOUS
  <2>1. lg # <<>> /\ lg[1].path = SB /\ lg[1].method = "_INI"
    BY Zenon DEF LogOK
  <2>2. 1 \in 1..n
    BY <1>2, <2>1
  <2>3. ll # <<>>
    BY <1>2, <1>3
  <2> QED
    BY <1>3, <2>1, <2>2, <2>3, Zenon
<1>12. LogOK(tr, st, ll)
  BY <1>3, <1>9, <1>10, <1>11, Zenon DEF LogOK, E
<1>13. OneMore(lg, ll, p, method, ok)
  BY <1>1, <1>7, <1>8, Zenon DEF OneMore
<1> QED
  BY <1>12, <1>13, Zenon DEF ll, e

\* A status that is new leaves the log as good as it was.
LEMMA LogKept ==
    ASSUME NEW tr, IsNamespace(tr), NEW st, NEW lg, LogOK(tr, st, lg), NEW l \in Path, l \notin DOMAIN st, NEW x
    PROVE  LogOK(tr, Insert(st, l, x), lg)
<1>1. ASSUME NEW i \in Own(lg) PROVE Reach(tr, Insert(st, l, x), lg[i].path)
  <2>1. lg[i].path \in Path /\ Reach(tr, st, lg[i].path)
    BY DEF LogOK, IsNamespace, Path
  <2>2. MoreStatus(tr, st, Insert(st, l, x), l, x)
    BY StatusMore, Zenon
  <2> QED
    BY <2>1, <2>2, Zenon DEF MoreStatus
<1> QED
  BY <1>1, Zenon DEF LogOK

\* A child of an open level that is reached is reached.
LEMMA ReachChild ==
    ASSUME NEW tr, NEW st, NEW l \in Path, Reach(tr, st, l), Open(tr, st, l),
           NEW c \in Path, Above(l, c), Len(c) = Len(l) + 1
    PROVE  Reach(tr, st, c)
<1> SUFFICES ASSUME NEW q \in ProperPrefixes(c) PROVE Open(tr, st, q)
  BY Zenon DEF Reach
<1>1. q \in Path /\ Above(q, c)
  BY PrefixesAreAbove, Zenon
<1>2. Len(q) \in Nat /\ Len(l) \in Nat
  BY <1>1, PathFacts
<1>3. Len(q) <= Len(l) /\ (\A i \in 1..Len(q) : q[i] = c[i]) /\ \A i \in 1..Len(l) : l[i] = c[i]
  BY <1>1, <1>2 DEF Above, Alike
<1>4. CASE Len(q) = Len(l)
  <2>1. \A i \in 1..Len(q) : q[i] = l[i]
    BY <1>3, <1>4, Zenon
  <2>2. q = l
    BY <1>1, <1>4, <2>1, SeqEqual, Zenon DEF Path
  <2> QED
    BY <2>2
<1>5. CASE Len(q) < Len(l)
  <2>1. Above(q, l)
    BY <1>2, <1>3, <1>5 DEF Above, Alike
  <2>2. q \in ProperPrefixes(l)
    BY <1>1, <2>1, PrefixesAreAbove, Zenon
  <2> QED
    BY <2>2, Zenon DEF Reach
<1> QED
  BY <1>2, <1>3, <1>4, <1>5

\* A level on the way to one that is reached is open.
LEMMA ReachOpen ==
    ASSUME NEW tr, NEW st, NEW l \in Path, NEW p \in Path, Above(l, p), Reach(tr, st, p)
    PROVE  Open(tr, st, l)
BY PrefixesAreAbove, Zenon DEF Reach

\* There is a child of l on the way from l to p.
LEMMA ChildTowards ==
    ASSUME NEW tr, IsNamespace(tr), NEW l \in Path, NEW p \in DOMAIN tr, Above(l, p)
    PROVE  \E c \in DOMAIN tr : Above(l, c) /\ Len(c) = Len(l) + 1 /\ (c = p \/ Above(c, p))
<1>1. p \in Seq(Nat) /\ Len(p) \in Nat /\ Len(l) \in Nat /\ p \in Path
  BY PathFacts DEF IsNamespace, Path
<1>2. Len(l) < Len(p) /\ \A i \in 1..Len(l) : l[i] = p[i]
  BY DEF Above, Alike
<1>3. CASE Len(p) = Len(l) + 1
  BY <1>3, Zenon
<1>4. CASE Len(p) > Len(l) + 1
  <2> DEFINE c == SubSeq(p, 1, Len(l) + 1)
  <2>1. c \in Seq(Nat) /\ Len(c) = Len(l) + 1 /\ \A i \in 1..(Len(l) + 1) : c[i] = p[i]
    <3> DEFINE n == Len(l) + 1
    <3>1. n \in Nat /\ n <= Len(p)
      BY <1>1, <1>2
    <3> HIDE DEF n
    <3>2. SubSeq(p, 1, n) \in Seq(Nat) /\ Len(SubSeq(p, 1, n)) = n /\ \A i \in 1..n : SubSeq(p, 1, n)[i] = p[i]
      BY <1>1, <3>1
    <3> QED
      BY <3>2, Zenon DEF n
  <2> HIDE DEF c
  <2>2. c \in Path /\ Above(c, p) /\ Above(l, c)
    <3>1. c \in Path /\ Len(c) < Len(p) /\ Len(l) < Len(c) /\ Len(c) \in Nat
      BY <1>1, <1>4, <2>1 DEF Path
    <3>2. \A i \in 1..Len(c) : c[i] = p[i]
      BY <2>1, Zenon
    <3>3. \A i \in 1..Len(l) : l[i] = c[i]
      BY <1>1, <1>2, <2>1
    <3>4. Alike(c, p, Len(c)) /\ Alike(l, c, Len(l))
      BY <1>1, <3>1, <3>2, <3>3 DEF Alike
    <3> QED
      BY <3>1, <3>4, Zenon DEF Above
  <2>3. c \in DOMAIN tr
    BY <2>2, AboveInNamespace, Zenon
  <2> QED
    BY <2>1, <2>2, <2>3, Zenon
<1> QED
  BY <1>1, <1>2, <1>3, <1>4

\* What takes the place of the first of the levels that wait.
Entered(tr, pe, enter) == (IF enter THEN Children(tr, Head(pe)) ELSE <<>>) \o Tail(pe)

\* It is made of children of that level, if it is entered, and of the others.
MadeOf(tr, pe, enter, ee, c) ==
    /\ ee \in Seq(DOMAIN tr) /\ Len(c) \in Nat /\ Len(ee) = Len(c) + Len(pe) - 1
    /\ enter => Lined(tr, pe[1], c)
    /\ ~enter => Len(c) = 0
    /\ \A k \in 1..Len(c) : ee[k] = c[k]
    /\ \A k \in (Len(c) + 1)..(Len(c) + Len(pe) - 1) : ee[k] = pe[k - Len(c) + 1]

LEMMA EnteredIs ==
    ASSUME NEW tr, NEW st, NEW pe, StackOK(tr, st, pe), pe # <<>>, NEW enter \in BOOLEAN
    PROVE  \E c : MadeOf(tr, pe, enter, Entered(tr, pe, enter), c)
<1>1. IsNamespace(tr) /\ pe \in Seq(DOMAIN tr) /\ Len(pe) \in Nat /\ Len(pe) > 0 /\ Head(pe) = pe[1] /\ pe[1] \in DOMAIN tr
  <2>1. IsNamespace(tr) /\ pe \in Seq(DOMAIN tr)
    BY Zenon DEF StackOK
  <2> QED
    BY <2>1
<1> DEFINE c == IF enter THEN Children(tr, Head(pe)) ELSE <<>>
           m == Len(c)
           t == Tail(pe)
<1>2. c \in Seq(DOMAIN tr) /\ (enter => Lined(tr, pe[1], c)) /\ (~enter => c = <<>>)
  <2>1. Lined(tr, pe[1], Children(tr, pe[1]))
    BY <1>1, ChildrenLined, Zenon
  <2>2. CASE enter
    BY <1>1, <2>1, <2>2, Zenon DEF Lined
  <2>3. CASE ~enter
    BY <2>3
  <2> QED
    BY <2>2, <2>3
<1>3. t \in Seq(DOMAIN tr) /\ Len(t) = Len(pe) - 1 /\ \A j \in 1..Len(t) : t[j] = pe[j + 1]
  BY <1>1
<1>4. Entered(tr, pe, enter) = c \o t
  BY Zenon DEF Entered
<1> HIDE DEF c, t
<1>5. /\ c \o t \in Seq(DOMAIN tr) /\ m \in Nat /\ Len(c \o t) = m + Len(pe) - 1
      /\ \A k \in 1..m : (c \o t)[k] = c[k]
      /\ \A k \in (m + 1)..(m + Len(pe) - 1) : (c \o t)[k] = t[k - m]
  <2>1. c \in Seq(DOMAIN tr) /\ t \in Seq(DOMAIN tr)
    BY <1>2, <1>3, Zenon
  <2>2. /\ c \o t \in Seq(DOMAIN tr) /\ m \in Nat /\ Len(c \o t) = m + Len(t) /\ Len(t) \in Nat
        /\ \A k \in 1..m : (c \o t)[k] = c[k]
        /\ \A k \in (m + 1)..(m + Len(t)) : (c \o t)[k] = t[k - m]
    BY <2>1
  <2>3. m + Len(t) = m + Len(pe) - 1
    BY <1>1, <1>3, <2>2
  <2> QED
    BY <2>2, <2>3, Zenon
<1>6. ASSUME NEW k \in (m + 1)..(m + Len(pe) - 1) PROVE t[k - m] = pe[k - m + 1]
  <2>1. m \in Nat /\ Len(pe) \in Nat /\ Len(t) = Len(pe) - 1
    BY <1>1, <1>3, <1>5, Zenon
  <2> HIDE DEF m
  <2>2. k - m \in 1..Len(t)
    BY <2>1
  <2> QED
    BY <1>3, <2>2, Zenon
<1>7. ~enter => m = 0
  BY <1>2
<1>8. \A k \in (m + 1)..(m + Len(pe) - 1) : (c \o t)[k] = pe[k - m + 1]
  BY <1>5, <1>6, Zenon
<1>9. MadeOf(tr, pe, enter, c \o t, c)
  BY <1>2, <1>5, <1>7, <1>8, Zenon DEF MadeOf
<1> QED
  BY <1>4, <1>9, Zenon

\* The children of a level take its place in the order of the traversal; what
\* was passed stays passed, and what waits and is reached goes on waiting.
LEMMA Enter ==
    ASSUME NEW tr, NEW st, NEW pe, StackOK(tr, st, pe), pe # <<>>,
           NEW enter \in BOOLEAN, enter <=> Open(tr, st, pe[1])
    PROVE  /\ StackOK(tr, st, Entered(tr, pe, enter))
           /\ \A q \in Path : Passed(pe, q) \/ q = pe[1] => Passed(Entered(tr, pe, enter), q)
           /\ \A p \in DOMAIN tr : Waiting(pe, p) /\ Reach(tr, st, p) => p = pe[1] \/ Waiting(Entered(tr, pe, enter), p)
<1> DEFINE l == pe[1]
           n == Len(pe)
           ee == Entered(tr, pe, enter)
<1>a. PICK c : MadeOf(tr, pe, enter, ee, c)
  BY EnteredIs, Zenon
<1> DEFINE m == Len(c)
<1>0. /\ ee \in Seq(DOMAIN tr) /\ m \in Nat /\ Len(ee) = m + n - 1
      /\ enter => Lined(tr, l, c)
      /\ ~enter => m = 0
      /\ \A k \in 1..m : ee[k] = c[k]
      /\ \A k \in (m + 1)..(m + n - 1) : ee[k] = pe[k - m + 1]
  BY <1>a, Zenon DEF MadeOf
<1>1. /\ IsNamespace(tr) /\ pe \in Seq(DOMAIN tr)
      /\ \A i, j \in 1..n : i < j => Aside(pe[i], pe[j])
      /\ \A k \in 1..n : Reach(tr, st, pe[k])
  BY Zenon DEF StackOK
<1>2. n \in Nat /\ n > 0 /\ 1 \in 1..n /\ \A k \in 1..n : pe[k] \in DOMAIN tr
  BY <1>1
<1>3. DOMAIN tr \subseteq Path
  BY <1>1 DEF IsNamespace, Path
<1>4. l \in Path /\ l \in DOMAIN tr /\ Reach(tr, st, l)
  BY <1>1, <1>2, <1>3
<1>5. \A k \in 1..m : ee[k] \in Path /\ Above(l, ee[k]) /\ Len(ee[k]) = Len(l) + 1 /\ enter
  <2> SUFFICES ASSUME NEW k \in 1..m PROVE ee[k] \in Path /\ Above(l, ee[k]) /\ Len(ee[k]) = Len(l) + 1 /\ enter
    BY Zenon
  <2>1. enter
    BY <1>0
  <2>2. c[k] \in Path /\ Above(l, c[k]) /\ Len(c[k]) = Len(l) + 1
    BY <1>0, <2>1, Zenon DEF Lined
  <2> QED
    BY <1>0, <2>1, <2>2, Zenon
<1>6. \A k \in (m + 1)..(m + n - 1) : k - m + 1 \in 1..n /\ k - m + 1 > 1 /\ ee[k] = pe[k - m + 1]
  BY <1>0, <1>2
<1>7. \A k \in 1..(m + n - 1) : k \in 1..m \/ k \in (m + 1)..(m + n - 1)
  BY <1>0, <1>2
<1>8. \A j \in 1..n : j = 1 \/ (m + j - 1 \in (m + 1)..(m + n - 1) /\ m + j - 1 \in 1..(m + n - 1) /\ ee[m + j - 1] = pe[j])
  <2> SUFFICES ASSUME NEW j \in 1..n, j # 1
               PROVE  m + j - 1 \in (m + 1)..(m + n - 1) /\ m + j - 1 \in 1..(m + n - 1) /\ ee[m + j - 1] = pe[j]
    OBVIOUS
  <2>1. m + j - 1 \in (m + 1)..(m + n - 1) /\ m + j - 1 \in 1..(m + n - 1) /\ (m + j - 1) - m + 1 = j
    BY <1>0, <1>2
  <2> QED
    BY <1>0, <2>1, Zenon
<1> HIDE DEF ee, l
<1>9. \A i, j \in 1..(m + n - 1) : i < j => Aside(ee[i], ee[j])
  <2> SUFFICES ASSUME NEW i \in 1..(m + n - 1), NEW j \in 1..(m + n - 1), i < j PROVE Aside(ee[i], ee[j])
    BY Zenon
  <2>1. CASE j \in 1..m
    <3>1. i \in 1..m
      BY <1>0, <1>2, <2>1
    <3>2. Lined(tr, l, c)
      BY <1>0, <1>5, <3>1, Zenon
    <3>3. Aside(c[i], c[j])
      BY <1>0, <2>1, <3>1, <3>2, Zenon DEF Lined
    <3> QED
      BY <1>0, <2>1, <3>1, <3>3, Zenon
  <2>2. CASE i \in 1..m /\ j \in (m + 1)..(m + n - 1)
    <3>1. j - m + 1 \in 1..n /\ 1 < j - m + 1 /\ ee[j] = pe[j - m + 1]
      BY <1>6, <2>2
    <3>2. Aside(l, ee[j]) /\ ee[j] \in Path
      BY <1>1, <1>2, <1>3, <3>1 DEF l
    <3>3. ee[i] \in Path /\ Above(l, ee[i])
      BY <1>5, <2>2, Zenon
    <3> QED
      BY <1>4, <3>2, <3>3, AsideBelow, Zenon
  <2>3. CASE i \in (m + 1)..(m + n - 1) /\ j \in (m + 1)..(m + n - 1)
    <3>1. i - m + 1 < j - m + 1
      BY <1>0, <2>3
    <3> QED
      BY <1>1, <1>6, <2>3, <3>1, Zenon
  <2>4. ~(i \in (m + 1)..(m + n - 1) /\ j \in 1..m)
    BY <1>0, <1>2
  <2> QED
    BY <1>7, <2>1, <2>2, <2>3, <2>4, Zenon
<1>10. \A k \in 1..(m + n - 1) : Reach(tr, st, ee[k])
  <2> SUFFICES ASSUME NEW k \in 1..(m + n - 1) PROVE Reach(tr, st, ee[k])
    BY Zenon
  <2>1. CASE k \in 1..m
    <3>1. Open(tr, st, l)
      BY <1>5, <2>1, Zenon DEF l
    <3> QED
      BY <1>4, <1>5, <2>1, <3>1, ReachChild, Zenon
  <2>2. CASE k \in (m + 1)..(m + n - 1)
    BY <1>1, <1>6, <2>2, Zenon
  <2> QED
    BY <1>7, <2>1, <2>2, Zenon
<1>11. StackOK(tr, st, ee)
  BY <1>0, <1>1, <1>9, <1>10, Zenon DEF StackOK
<1>12. ASSUME NEW q \in Path, Passed(pe, q) \/ q = l PROVE Passed(ee, q)
  <2> SUFFICES ASSUME NEW k \in 1..(m + n - 1) PROVE Before(q, ee[k])
    BY <1>0, Zenon DEF Passed
  <2>1. CASE k \in 1..m
    <3>1. ee[k] \in Path /\ Above(l, ee[k]) /\ Before(l, ee[k])
      BY <1>5, <2>1, Zenon DEF Before
    <3>2. q = l \/ Before(q, l)
      BY <1>2, <1>12, Zenon DEF Passed, l
    <3> QED
      BY <1>4, <3>1, <3>2, BeforeBefore, Zenon
  <2>2. CASE k \in (m + 1)..(m + n - 1)
    <3>1. k - m + 1 \in 1..n /\ 1 < k - m + 1 /\ ee[k] = pe[k - m + 1]
      BY <1>6, <2>2
    <3>2. Before(l, ee[k])
      BY <1>1, <1>2, <3>1, Zenon DEF Before, l
    <3>3. Passed(pe, q) => Before(q, ee[k])
      BY <3>1, Zenon DEF Passed
    <3> QED
      BY <1>12, <3>2, <3>3, Zenon
  <2> QED
    BY <1>7, <2>1, <2>2, Zenon
<1>13. ASSUME NEW p \in DOMAIN tr, Waiting(pe, p), Reach(tr, st, p), p # l PROVE Waiting(ee, p)
  <2>1. PICK j \in 1..n : pe[j] = p \/ Above(pe[j], p)
    BY <1>13, Zenon DEF Waiting
  <2>2. CASE j # 1
    <3> DEFINE k == m + j - 1
    <3>1. k \in 1..(m + n - 1) /\ ee[k] = pe[j]
      BY <1>8, <2>2, Zenon
    <3> HIDE DEF k
    <3> QED
      BY <1>0, <2>1, <3>1, Zenon DEF Waiting
  <2>3. CASE j = 1
    <3>1. Above(l, p) /\ p \in Path
      BY <1>3, <1>13, <2>1, <2>3 DEF l
    <3>2. enter
      BY <1>4, <1>13, <3>1, ReachOpen, Zenon DEF l
    <3>3. PICK d \in DOMAIN tr : Above(l, d) /\ Len(d) = Len(l) + 1 /\ (d = p \/ Above(d, p))
      BY <1>1, <1>4, <3>1, ChildTowards, Zenon
    <3>4. PICK i \in 1..m : c[i] = d
      BY <1>0, <3>2, <3>3, Zenon DEF Lined
    <3>5. ee[i] = d /\ i \in 1..(m + n - 1)
      BY <1>0, <1>2, <3>4
    <3> QED
      BY <1>0, <3>3, <3>5, Zenon DEF Waiting
  <2> QED
    BY <2>2, <2>3
<1> QED
  BY <1>11, <1>12, <1>13, Zenon DEF ee, l

----------------------------------------------------------------------------
(***************************************************************************)
(* The steps of the traversal.                                              *)
(***************************************************************************)

\* The level at hand, and what is known of it.
LEMMA AtHand ==
    ASSUME NEW tr, NEW st, NEW pe, StackOK(tr, st, pe), pe # <<>>
    PROVE  /\ IsNamespace(tr) /\ Len(pe) \in Nat /\ 1 \in 1..Len(pe) /\ Head(pe) = pe[1]
           /\ pe[1] \in DOMAIN tr /\ pe[1] \in Path /\ Reach(tr, st, pe[1]) /\ DOMAIN tr \subseteq Path
           /\ tr[pe[1]] \in [typ : LevelTypes, sta : BOOLEAN, ini : BOOLEAN]
           /\ Waiting(pe, pe[1]) /\ ~Passed(pe, pe[1])
<1>1. IsNamespace(tr) /\ pe \in Seq(DOMAIN tr)
  BY Zenon DEF StackOK
<1>2. Len(pe) \in Nat /\ 1 \in 1..Len(pe) /\ Head(pe) = pe[1] /\ pe[1] \in DOMAIN tr
  BY <1>1
<1>3. DOMAIN tr \subseteq Path /\ pe[1] \in Path /\ tr[pe[1]] \in [typ : LevelTypes, sta : BOOLEAN, ini : BOOLEAN]
  BY <1>1, <1>2 DEF IsNamespace, Path
<1>4. Reach(tr, st, pe[1])
  BY <1>2, Zenon DEF StackOK
<1>5. Waiting(pe, pe[1]) /\ ~Passed(pe, pe[1])
  BY <1>2, <1>3, NeverBeforeItself, Zenon DEF Waiting, Passed
<1> QED
  BY <1>1, <1>2, <1>3, <1>4, <1>5, Zenon

\* A level that is no device is passed over, or looked into.
LEMMA PassOver ==
    ASSUME NEW tr, NEW pe, NEW lg, NEW st, TraversalOK(tr, pe, FALSE, lg, st, TRUE),
           pe # <<>>, tr[pe[1]].typ # "Device", NEW enter \in BOOLEAN, enter <=> tr[pe[1]].typ = "Scope"
    PROVE  TraversalOK(tr, Entered(tr, pe, enter), FALSE, lg, st, TRUE)
<1> DEFINE l == pe[1]
           ee == Entered(tr, pe, enter)
<1>1. StackOK(tr, st, pe) /\ StatusOK(tr, pe, FALSE, st) /\ LogOK(tr, st, lg) /\ GoingOK(tr, pe, FALSE, lg, st)
  BY Zenon DEF TraversalOK
<1>2. DOMAIN tr \subseteq Path /\ l \in Path
  BY <1>1, AtHand, Zenon
<1>3. enter <=> Open(tr, st, l)
  BY Zenon DEF Open
<1>4. /\ StackOK(tr, st, ee)
      /\ \A q \in Path : Passed(pe, q) \/ q = l => Passed(ee, q)
      /\ \A p \in DOMAIN tr : Waiting(pe, p) /\ Reach(tr, st, p) => p = l \/ Waiting(ee, p)
  BY <1>1, <1>3, Enter, Zenon
<1> HIDE DEF ee, l
<1>5. StatusOK(tr, ee, FALSE, st)
  BY <1>1, <1>2, <1>4, Zenon DEF StatusOK
<1>6. \A i \in Own(lg) : lg[i].ok /\ Passed(ee, lg[i].path)
  <2> SUFFICES ASSUME NEW i \in Own(lg) PROVE lg[i].ok /\ Passed(ee, lg[i].path)
    BY Zenon
  <2>1. lg[i].ok /\ Passed(pe, lg[i].path)
    BY <1>1, Zenon DEF GoingOK
  <2>2. lg[i].path \in Path
    BY <1>1, <1>2, Zenon DEF LogOK
  <2> QED
    BY <1>4, <2>1, <2>2, Zenon
<1>7. ASSUME NEW p \in DOMAIN tr, tr[p].typ = "Device", Reach(tr, st, p) PROVE Waiting(ee, p) \/ Finished(tr, lg, st, p)
  <2>1. Waiting(pe, p) \/ Finished(tr, lg, st, p)
    BY <1>1, <1>7, Zenon DEF GoingOK
  <2>2. p # l
    BY <1>7, Zenon DEF l
  <2> QED
    BY <1>4, <1>7, <2>1, <2>2, Zenon
<1>8. GoingOK(tr, ee, FALSE, lg, st)
  BY <1>6, <1>7, Zenon DEF GoingOK
<1> QED
  BY <1>1, <1>4, <1>5, <1>8, Zenon DEF TraversalOK, ee

\* What is invoked next comes after what was invoked.
LEMMA NextInvoked ==
    ASSUME NEW tr, NEW pe, NEW mid \in BOOLEAN, NEW lg, NEW st, StackOK(tr, st, pe), GoingOK(tr, pe, mid, lg, st), pe # <<>>,
           NEW method, NEW ok, mid => method = "_INI"
    PROVE  \A i \in Own(lg) : lg[i].ok /\ Precedes(lg[i], Invocation(pe[1], method, ok))
<1> SUFFICES ASSUME NEW i \in Own(lg) PROVE lg[i].ok /\ Precedes(lg[i], Invocation(pe[1], method, ok))
  BY Zenon
<1> DEFINE e == Invocation(pe[1], method, ok)
<1>1. e.path = pe[1] /\ e.method = method
  BY DEF Invocation
<1> HIDE DEF e
<1>2. lg[i].ok /\ (Passed(pe, lg[i].path) \/ (mid /\ lg[i].path = pe[1] /\ lg[i].method = "_STA"))
  BY Zenon DEF GoingOK
<1>3. 1 \in 1..Len(pe)
  BY AtHand, Zenon
<1>4. Precedes(lg[i], e)
  BY <1>1, <1>2, <1>3, Zenon DEF Precedes, Passed
<1> QED
  BY <1>2, <1>4, Zenon DEF e

\* The status of the device at hand is found, by `_STA` if there is one.
LEMMA TakeStatus ==
    ASSUME NEW tr, NEW pe, NEW lg, NEW st, TraversalOK(tr, pe, FALSE, lg, st, TRUE),
           pe # <<>>, tr[pe[1]].typ = "Device", NEW x,
           NEW ll, ll = IF tr[pe[1]].sta THEN Append(lg, Invocation(pe[1], "_STA", TRUE)) ELSE lg
    PROVE  TraversalOK(tr, pe, TRUE, ll, Insert(st, pe[1], x), TRUE)
<1> DEFINE l == pe[1]
           ss == Insert(st, l, x)
<1>1. StackOK(tr, st, pe) /\ StatusOK(tr, pe, FALSE, st) /\ LogOK(tr, st, lg) /\ GoingOK(tr, pe, FALSE, lg, st)
  BY Zenon DEF TraversalOK
<1>2. /\ IsNamespace(tr) /\ l \in DOMAIN tr /\ l \in Path /\ Reach(tr, st, l) /\ DOMAIN tr \subseteq Path
      /\ tr[l].sta \in BOOLEAN /\ ~Passed(pe, l) /\ 1 \in 1..Len(pe)
  BY <1>1, AtHand
<1>3. l \notin DOMAIN st
  BY <1>1, <1>2, Zenon DEF StatusOK
<1> HIDE DEF l
<1>13. MoreStatus(tr, st, ss, l, x)
  BY <1>2, <1>3, StatusMore, Zenon
<1>5. LogOK(tr, ss, lg)
  BY <1>1, <1>2, <1>3, LogKept, Zenon
<1> HIDE DEF ss
<1>4. /\ \A q \in Path : Reach(tr, st, q) => Reach(tr, ss, q)
      /\ \A q \in Path : Reach(tr, ss, q) /\ ~Above(l, q) => Reach(tr, st, q)
      /\ DOMAIN ss = DOMAIN st \cup {l} /\ ss[l] = x
      /\ \A q \in DOMAIN st : ss[q] = st[q] /\ q # l
  BY <1>13, Zenon DEF MoreStatus
<1>6. StackOK(tr, ss, pe)
  <2>1. ASSUME NEW k \in 1..Len(pe) PROVE Reach(tr, ss, pe[k])
    <3>1. pe[k] \in DOMAIN tr /\ Reach(tr, st, pe[k])
      BY <1>1 DEF StackOK
    <3> QED
      BY <1>2, <1>4, <3>1, Zenon
  <2> QED
    BY <1>1, <2>1, Zenon DEF StackOK
<1>7. StatusOK(tr, pe, TRUE, ss)
  BY <1>1, <1>2, <1>4, Zenon DEF StatusOK, l
<1>8. ~Ran(lg, l, "_STA") /\ ~Ran(lg, l, "_INI")
  <2> SUFFICES ASSUME NEW i \in Own(lg), lg[i].path = l PROVE FALSE
    BY Zenon DEF Ran
  <2>1. Passed(pe, l)
    BY <1>1, Zenon DEF GoingOK
  <2> QED
    BY <1>2, <2>1, Zenon
<1>9. /\ LogOK(tr, ss, ll)
      /\ \A q, m : Ran(ll, q, m) <=> (Ran(lg, q, m) \/ (tr[l].sta /\ q = l /\ m = "_STA"))
      /\ \A i \in Own(ll) : (i \in Own(lg) /\ ll[i] = lg[i]) \/ (ll[i].path = l /\ ll[i].method = "_STA" /\ ll[i].ok)
  <2>1. CASE tr[l].sta
    <3>1. \A i \in Own(lg) : lg[i].ok /\ Precedes(lg[i], Invocation(l, "_STA", TRUE))
      BY <1>1, NextInvoked, Zenon DEF l
    <3>2. Reach(tr, ss, l) /\ "_STA" \in {"_STA", "_INI"} /\ TRUE \in BOOLEAN /\ "_STA" # "_INI"
      BY <1>2, <1>4
    <3>3. ll = Append(lg, Invocation(l, "_STA", TRUE)) /\ tr[l].typ = "Device"
      BY <2>1, Zenon DEF l
    <3>4. LogOK(tr, ss, Append(lg, Invocation(l, "_STA", TRUE))) /\ OneMore(lg, Append(lg, Invocation(l, "_STA", TRUE)), l, "_STA", TRUE)
      BY <1>2, <1>5, <3>1, <3>2, <3>3, LogMore, Zenon
    <3>5. LogOK(tr, ss, ll) /\ OneMore(lg, ll, l, "_STA", TRUE)
      BY <3>3, <3>4, Zenon
    <3> QED
      BY <2>1, <3>5, Zenon DEF OneMore
  <2>2. CASE ~tr[l].sta
    <3>1. ll = lg
      BY <2>2, Zenon DEF l
    <3> QED
      BY <1>5, <2>2, <3>1, Zenon
  <2> QED
    BY <2>1, <2>2
<1>10. \A i \in Own(ll) : ll[i].ok /\ (Passed(pe, ll[i].path) \/ (ll[i].path = l /\ ll[i].method = "_STA"))
  BY <1>1, <1>9, Zenon DEF GoingOK
<1>11. ASSUME NEW p \in DOMAIN tr, tr[p].typ = "Device", Reach(tr, ss, p) PROVE Waiting(pe, p) \/ Finished(tr, ll, ss, p)
  <2>1. CASE p = l \/ Above(l, p)
    BY <1>2, <2>1, Zenon DEF Waiting, l
  <2>2. CASE ~(p = l \/ Above(l, p))
    <3>1. Reach(tr, st, p)
      BY <1>2, <1>4, <1>11, <2>2, Zenon
    <3>2. Waiting(pe, p) \/ Finished(tr, lg, st, p)
      BY <1>1, <1>11, <3>1, Zenon DEF GoingOK
    <3>3. Finished(tr, lg, st, p) => Finished(tr, ll, ss, p)
      BY <1>4, <1>9, <2>2, Zenon DEF Finished
    <3> QED
      BY <3>2, <3>3, Zenon
  <2> QED
    BY <2>1, <2>2
<1>12. Ran(ll, l, "_STA") <=> tr[l].sta
  BY <1>8, <1>9, Zenon
<1>14. GoingOK(tr, pe, TRUE, ll, ss)
  BY <1>4, <1>10, <1>11, <1>12, Zenon DEF GoingOK, l
<1> QED
  BY <1>6, <1>7, <1>9, <1>14, Zenon DEF TraversalOK, ss, l

\* `_STA` of the device at hand fails.
LEMMA FailStatus ==
    ASSUME NEW tr, NEW pe, NEW lg, NEW st, TraversalOK(tr, pe, FALSE, lg, st, TRUE),
           pe # <<>>, tr[pe[1]].typ = "Device"
    PROVE  TraversalOK(tr, pe, FALSE, Append(lg, Invocation(pe[1], "_STA", FALSE)), st, FALSE)
<1> DEFINE l == pe[1]
<1>1. StackOK(tr, st, pe) /\ StatusOK(tr, pe, FALSE, st) /\ LogOK(tr, st, lg) /\ GoingOK(tr, pe, FALSE, lg, st)
  BY Zenon DEF TraversalOK
<1>2. IsNamespace(tr) /\ l \in DOMAIN tr /\ Reach(tr, st, l) /\ tr[l].typ = "Device"
  BY <1>1, AtHand, Zenon
<1>3. \A i \in Own(lg) : lg[i].ok /\ Precedes(lg[i], Invocation(l, "_STA", FALSE))
  BY <1>1, NextInvoked, Zenon
<1>4. "_STA" \in {"_STA", "_INI"} /\ FALSE \in BOOLEAN /\ "_STA" # "_INI"
  OBVIOUS
<1> HIDE DEF l
<1>5. LogOK(tr, st, Append(lg, Invocation(l, "_STA", FALSE)))
  BY <1>1, <1>2, <1>3, <1>4, LogMore, Zenon
<1> QED
  BY <1>1, <1>5, Zenon DEF TraversalOK, l

\* `_INI` of the device at hand is invoked.
LEMMA InvokeIni ==
    ASSUME NEW tr, NEW pe, NEW lg, NEW st, TraversalOK(tr, pe, TRUE, lg, st, TRUE), tr[pe[1]].ini, NEW ok \in BOOLEAN
    PROVE  /\ LogOK(tr, st, Append(lg, Invocation(pe[1], "_INI", ok)))
           /\ OneMore(lg, Append(lg, Invocation(pe[1], "_INI", ok)), pe[1], "_INI", ok)
<1> DEFINE l == pe[1]
<1>1. StackOK(tr, st, pe) /\ LogOK(tr, st, lg) /\ GoingOK(tr, pe, TRUE, lg, st)
  BY Zenon DEF TraversalOK
<1>2. pe # <<>> /\ tr[l].typ = "Device"
  BY <1>1, Zenon DEF GoingOK
<1>3. IsNamespace(tr) /\ l \in DOMAIN tr /\ Reach(tr, st, l)
  BY <1>1, <1>2, AtHand, Zenon
<1>4. \A i \in Own(lg) : lg[i].ok /\ Precedes(lg[i], Invocation(l, "_INI", ok))
  BY <1>1, <1>2, NextInvoked, Zenon
<1>5. "_INI" \in {"_STA", "_INI"} /\ tr[l].ini
  OBVIOUS
<1> HIDE DEF l
<1>6. LogOK(tr, st, Append(lg, Invocation(l, "_INI", ok))) /\ OneMore(lg, Append(lg, Invocation(l, "_INI", ok)), l, "_INI", ok)
  BY <1>1, <1>2, <1>3, <1>4, <1>5, LogMore, Zenon
<1> QED
  BY <1>6, Zenon DEF l

\* `_INI` of the device at hand fails.
LEMMA FailIni ==
    ASSUME NEW tr, NEW pe, NEW lg, NEW st, TraversalOK(tr, pe, TRUE, lg, st, TRUE), tr[pe[1]].ini
    PROVE  TraversalOK(tr, pe, TRUE, Append(lg, Invocation(pe[1], "_INI", FALSE)), st, FALSE)
<1>1. LogOK(tr, st, Append(lg, Invocation(pe[1], "_INI", FALSE)))
  BY InvokeIni, Zenon
<1> QED
  BY <1>1, Zenon DEF TraversalOK

\* The device at hand is done with, after its `_INI` if that is to be run.
LEMMA LeaveDevice ==
    ASSUME NEW tr, NEW pe, NEW lg, NEW st, TraversalOK(tr, pe, TRUE, lg, st, TRUE),
           NEW enter \in BOOLEAN, enter <=> st[pe[1]].present \/ st[pe[1]].functional,
           NEW run \in BOOLEAN, run <=> tr[pe[1]].ini /\ st[pe[1]].present,
           NEW ll, ll = IF run THEN Append(lg, Invocation(pe[1], "_INI", TRUE)) ELSE lg
    PROVE  TraversalOK(tr, Entered(tr, pe, enter), FALSE, ll, st, TRUE)
<1> DEFINE l == pe[1]
           ee == Entered(tr, pe, enter)
<1>1. StackOK(tr, st, pe) /\ StatusOK(tr, pe, TRUE, st) /\ LogOK(tr, st, lg) /\ GoingOK(tr, pe, TRUE, lg, st)
  BY Zenon DEF TraversalOK
<1>2. pe # <<>> /\ l \in DOMAIN st /\ tr[l].typ = "Device" /\ (Ran(lg, l, "_STA") <=> tr[l].sta)
  BY <1>1, Zenon DEF GoingOK
<1>3. DOMAIN tr \subseteq Path /\ l \in Path /\ ~Passed(pe, l)
  BY <1>1, <1>2, AtHand, Zenon
<1>4. enter <=> Open(tr, st, l)
  BY <1>2 DEF Open
<1>5. /\ StackOK(tr, st, ee)
      /\ \A q \in Path : Passed(pe, q) \/ q = l => Passed(ee, q)
      /\ \A p \in DOMAIN tr : Waiting(pe, p) /\ Reach(tr, st, p) => p = l \/ Waiting(ee, p)
  BY <1>1, <1>2, <1>4, Enter, Zenon
<1>6. /\ LogOK(tr, st, ll)
      /\ \A q, m : Ran(ll, q, m) <=> (Ran(lg, q, m) \/ (run /\ q = l /\ m = "_INI"))
      /\ \A i \in Own(ll) : (i \in Own(lg) /\ ll[i] = lg[i]) \/ (ll[i].path = l /\ ll[i].ok)
  <2>1. CASE run
    <3>1. TRUE \in BOOLEAN /\ tr[pe[1]].ini /\ ll = Append(lg, Invocation(pe[1], "_INI", TRUE))
      BY <2>1, Zenon
    <3>2. LogOK(tr, st, Append(lg, Invocation(pe[1], "_INI", TRUE))) /\ OneMore(lg, Append(lg, Invocation(pe[1], "_INI", TRUE)), pe[1], "_INI", TRUE)
      BY <3>1, InvokeIni, Zenon
    <3>3. LogOK(tr, st, ll) /\ OneMore(lg, ll, l, "_INI", TRUE)
      BY <3>1, <3>2, Zenon
    <3> QED
      BY <2>1, <3>3, Zenon DEF OneMore
  <2>2. CASE ~run
    <3>1. ll = lg
      BY <2>2, Zenon
    <3> QED
      BY <1>1, <2>2, <3>1, Zenon
  <2> QED
    BY <2>1, <2>2
<1> HIDE DEF ee, l
<1>7. StatusOK(tr, ee, FALSE, st)
  <2> SUFFICES ASSUME NEW q \in DOMAIN st PROVE q \in DOMAIN tr /\ tr[q].typ = "Device" /\ Passed(ee, q)
    BY Zenon DEF StatusOK
  <2>1. q \in DOMAIN tr /\ tr[q].typ = "Device" /\ (Passed(pe, q) \/ q = l)
    BY <1>1, Zenon DEF StatusOK, l
  <2> QED
    BY <1>3, <1>5, <2>1, Zenon
<1>8. \A i \in Own(lg) : lg[i].path \in Path /\ lg[i].ok /\ Passed(ee, lg[i].path)
  <2> SUFFICES ASSUME NEW i \in Own(lg) PROVE lg[i].path \in Path /\ lg[i].ok /\ Passed(ee, lg[i].path)
    BY Zenon
  <2>1. lg[i].ok /\ (Passed(pe, lg[i].path) \/ lg[i].path = l)
    BY <1>1, Zenon DEF GoingOK, l
  <2>2. lg[i].path \in Path
    BY <1>1, <1>3, Zenon DEF LogOK
  <2> QED
    BY <1>5, <2>1, <2>2, Zenon
<1>9. \A i \in Own(ll) : ll[i].ok /\ Passed(ee, ll[i].path)
  BY <1>3, <1>5, <1>6, <1>8, Zenon
<1>10. Finished(tr, ll, st, l)
  <2>1. ~Ran(lg, l, "_INI")
    <3> SUFFICES ASSUME NEW i \in Own(lg), lg[i].path = l, lg[i].method = "_INI" PROVE FALSE
      BY Zenon DEF Ran
    <3>1. Passed(pe, l)
      BY <1>1 DEF GoingOK
    <3> QED
      BY <1>3, <3>1, Zenon
  <2>2. Ran(ll, l, "_STA") <=> tr[l].sta
    <3>1. \A q, m : Ran(ll, q, m) <=> (Ran(lg, q, m) \/ (run /\ q = l /\ m = "_INI"))
      BY <1>6, Zenon
    <3>2. "_STA" # "_INI"
      OBVIOUS
    <3> QED
      BY <1>2, <3>1, <3>2, Zenon
  <2>3. Ran(ll, l, "_INI") <=> tr[l].ini /\ st[l].present
    BY <1>6, <2>1, Zenon DEF l
  <2> QED
    BY <1>2, <2>2, <2>3, Zenon DEF Finished
<1>11. ASSUME NEW p \in DOMAIN tr, tr[p].typ = "Device", Reach(tr, st, p) PROVE Waiting(ee, p) \/ Finished(tr, ll, st, p)
  <2>1. Waiting(pe, p) \/ Finished(tr, lg, st, p)
    BY <1>1, <1>11, Zenon DEF GoingOK
  <2>2. p # l /\ Finished(tr, lg, st, p) => Finished(tr, ll, st, p)
    <3>1. \A m : Ran(ll, p, m) <=> Ran(lg, p, m) \/ (run /\ p = l /\ m = "_INI")
      BY <1>6, Zenon
    <3> QED
      BY <3>1, Zenon DEF Finished
  <2> QED
    BY <1>5, <1>10, <1>11, <2>1, <2>2, Zenon
<1>12. GoingOK(tr, ee, FALSE, ll, st)
  BY <1>9, <1>11, Zenon DEF GoingOK
<1> QED
  BY <1>5, <1>6, <1>7, <1>12, Zenon DEF TraversalOK, ee

\* The traversal begins at the root, with nothing invoked but `\_SB._INI`.
LEMMA Begin ==
    ASSUME NEW tr, IsNamespace(tr), NEW st, DOMAIN st = {}, NEW going,
           NEW lg, \/ lg = <<>> /\ ~(SB \in DOMAIN tr /\ tr[SB].ini)
                   \/ SB \in DOMAIN tr /\ \E ok \in BOOLEAN : lg = <<Invocation(SB, "_INI", ok)>>
    PROVE  TraversalOK(tr, <<<<>>>>, FALSE, lg, st, going)
<1> DEFINE E == [path : Path, method : {"_STA", "_INI"}, ok : BOOLEAN]
           pe == <<<<>>>>
<1>1. DOMAIN tr \subseteq Path /\ <<>> \in DOMAIN tr
  BY DEF IsNamespace, Path
<1>2. pe \in Seq(DOMAIN tr) /\ 1..Len(pe) = {1} /\ pe[1] = <<>>
  BY <1>1
<1>3. lg \in Seq(E) /\ Own(lg) = {} /\ (SB \in DOMAIN tr /\ tr[SB].ini => lg # <<>> /\ lg[1].path = SB /\ lg[1].method = "_INI")
  <2>1. CASE lg = <<>> /\ ~(SB \in DOMAIN tr /\ tr[SB].ini)
    <3>1. lg \in Seq(E) /\ DOMAIN lg = {}
      BY <2>1
    <3> QED
      BY <2>1, <3>1, Zenon DEF Own
  <2>2. ASSUME SB \in DOMAIN tr, NEW ok \in BOOLEAN, lg = <<Invocation(SB, "_INI", ok)>>
        PROVE  lg \in Seq(E) /\ Own(lg) = {} /\ lg # <<>> /\ lg[1].path = SB /\ lg[1].method = "_INI"
    <3> DEFINE e == Invocation(SB, "_INI", ok)
    <3>1. e \in E /\ e.path = SB /\ e.method = "_INI"
      BY <1>1, <2>2 DEF Invocation
    <3> HIDE DEF e, E
    <3>2. lg = <<e>>
      BY <2>2 DEF e
    <3>3. lg \in Seq(E) /\ DOMAIN lg = {1} /\ lg # <<>> /\ lg[1] = e
      BY <3>1, <3>2
    <3>4. Own(lg) = {}
      BY <3>1, <3>3, Zenon DEF Own
    <3> QED
      BY <3>1, <3>3, <3>4, Zenon
  <2> QED
    BY <2>1, <2>2, Zenon
<1>4. Reach(tr, st, <<>>)
  <2>1. ProperPrefixes(<<>>) = {}
    BY DEF ProperPrefixes
  <2> QED
    BY <2>1, Zenon DEF Reach
<1>5. StackOK(tr, st, pe)
  <2>1. \A i, j \in 1..Len(pe) : ~(i < j)
    BY <1>2
  <2>2. \A k \in 1..Len(pe) : Reach(tr, st, pe[k])
    BY <1>2, <1>4, Zenon
  <2> QED
    BY <1>2, <2>1, <2>2, Zenon DEF StackOK
<1>6. \A p \in DOMAIN tr : Waiting(pe, p)
  <2> SUFFICES ASSUME NEW p \in DOMAIN tr PROVE Waiting(pe, p)
    BY Zenon
  <2>1. p = <<>> \/ Above(<<>>, p)
    BY <1>1 DEF Path, Above, Alike
  <2> QED
    BY <1>2, <2>1, Zenon DEF Waiting
<1> HIDE DEF pe
<1>7. StatusOK(tr, pe, FALSE, st)
  BY Zenon DEF StatusOK
<1>8. LogOK(tr, st, lg)
  BY <1>3, Zenon DEF LogOK
<1>9. GoingOK(tr, pe, FALSE, lg, st)
  BY <1>3, <1>6, Zenon DEF GoingOK
<1> QED
  BY <1>5, <1>7, <1>8, <1>9, Zenon DEF TraversalOK, pe

\* A method that declares a device leaves a namespace.
LEMMA Declared ==
    ASSUME IsNamespace(namespace), MayDeclare
    PROVE  IsNamespace(namespace') /\ DOMAIN namespace \subseteq DOMAIN namespace'
<1>1. CASE UNCHANGED namespace
  BY <1>1, Zenon
<1>2. ASSUME NEW path \in DOMAIN NewDevices \ DOMAIN namespace, AllButLast(path) \in DOMAIN namespace,
             namespace' = Insert(namespace, path, NewDevices[path])
      PROVE  IsNamespace(namespace') /\ DOMAIN namespace \subseteq DOMAIN namespace'
  <2> DEFINE L == [typ : LevelTypes, sta : BOOLEAN, ini : BOOLEAN]
             d == DOMAIN namespace
  <2>1. path \in Seq(Nat) /\ path # <<>> /\ NewDevices[path] \in L
    BY <1>2, NewDevicesAssumption, Zenon
  <2>2. DOMAIN namespace' = d \cup {path} /\ namespace'[path] = NewDevices[path] /\ \A p \in d : namespace'[p] = namespace[p]
    BY <1>2, Zenon DEF Insert
  <2> HIDE DEF L
  <2>3. /\ IsFiniteSet(d) /\ d \subseteq Seq(Nat) /\ <<>> \in d
        /\ \A p \in d \ {<<>>} : AllButLast(p) \in d
        /\ \A p \in d : namespace[p] \in L
    BY Zenon DEF IsNamespace, L
  <2> HIDE DEF d
  <2>4. IsFiniteSet(d \cup {path})
    BY <2>3, FS_AddElement, Zenon
  <2>5. \A p \in (d \cup {path}) \ {<<>>} : AllButLast(p) \in d \cup {path}
    BY <1>2, <2>3, Zenon DEF d
  <2>6. \A p \in d \cup {path} : namespace'[p] \in L
    BY <2>1, <2>2, <2>3, Zenon
  <2>7. d \cup {path} \subseteq Seq(Nat) /\ <<>> \in d \cup {path}
    BY <2>1, <2>3, Zenon
  <2>8. IsNamespace(namespace')
    BY <2>2, <2>4, <2>5, <2>6, <2>7, Zenon DEF IsNamespace, L
  <2> QED
    BY <2>2, <2>8, Zenon DEF d
<1> QED
  BY <1>1, <1>2, Zenon DEF MayDeclare

\* mid and going matter as truth values.
LEMMA SameMode ==
    ASSUME NEW tr, NEW pe, NEW lg, NEW st, NEW mid, NEW going, NEW m, NEW g,
           TraversalOK(tr, pe, m, lg, st, g), m <=> mid, going => g
    PROVE  TraversalOK(tr, pe, mid, lg, st, going)
<1>1. StatusOK(tr, pe, m, st) => StatusOK(tr, pe, mid, st)
  BY Zenon DEF StatusOK
<1>2. GoingOK(tr, pe, m, lg, st) => GoingOK(tr, pe, mid, lg, st)
  BY Zenon DEF GoingOK
<1> QED
  BY <1>1, <1>2, Zenon DEF TraversalOK

\* What a step has to leave behind.
LEMMA Resume ==
    ASSUME NEW m \in BOOLEAN, NEW g \in BOOLEAN, IsNamespace(namespace'), at' \in {"level", "ini"}, m <=> at' = "ini",
           TraversalOK(traversed', pending', m, log', status', g), outcome' \in {"none", "Ok"} => g,
           outcome' = "Ok" => pending' = <<>> /\ at' = "level"
    PROVE  TraversalInv'
<1>1. TraversalOK(traversed', pending', at' = "ini", log', status', outcome' \in {"none", "Ok"})
  BY SameMode, Zenon
<1>2. at' \in {"start", "level", "ini"} /\ at' # "start"
  OBVIOUS
<1> QED
  BY <1>1, <1>2, Zenon DEF TraversalInv

\* What a step finds.
LEMMA Underway ==
    ASSUME TraversalInv, NEW m \in BOOLEAN, at \in {"level", "ini"}, m <=> at = "ini", outcome = "none"
    PROVE  IsNamespace(namespace) /\ TraversalOK(traversed, pending, m, log, status, TRUE)
<1>1. at # "start" /\ outcome \in {"none", "Ok"}
  OBVIOUS
<1>2. TraversalOK(traversed, pending, at = "ini", log, status, outcome \in {"none", "Ok"})
  BY <1>1, Zenon DEF TraversalInv
<1>3. IsNamespace(namespace)
  BY Zenon DEF TraversalInv
<1> QED
  BY <1>1, <1>2, <1>3, SameMode, Zenon

LEMMA BusStep ==
    ASSUME TraversalInv, RunSystemBus
    PROVE  TraversalInv'
<1>1. IsNamespace(namespace) /\ log = <<>> /\ DOMAIN status = {} /\ outcome = "none"
  BY DEF TraversalInv, RunSystemBus
<1>2. traversed' = namespace' /\ pending' = <<<<>>>> /\ at' = "level" /\ status' = status
  BY Zenon DEF RunSystemBus
<1>3. /\ IsNamespace(namespace') /\ outcome' # "Ok"
      /\ \/ log' = <<>> /\ ~(SB \in DOMAIN namespace' /\ namespace'[SB].ini)
         \/ SB \in DOMAIN namespace' /\ \E ok \in BOOLEAN : log' = <<Invocation(SB, "_INI", ok)>>
  <2>1. CASE /\ SB \in DOMAIN namespace /\ MayDeclare
             /\ \/ log' = Append(log, Invocation(SB, "_INI", TRUE)) /\ UNCHANGED outcome
                \/ \E err \in Errors :
                      /\ log' = Append(log, Invocation(SB, "_INI", FALSE))
                      /\ outcome' = IF err = "ValueDoesNotExist" THEN outcome ELSE err
    <3>1. IsNamespace(namespace') /\ SB \in DOMAIN namespace'
      BY <1>1, <2>1, Declared, Zenon
    <3>2. \E ok \in BOOLEAN : log' = Append(log, Invocation(SB, "_INI", ok))
      BY <2>1, Zenon
    <3>3. \A e : Append(log, e) = <<e>>
      BY <1>1
    <3>4. outcome' # "Ok"
      BY <1>1, <2>1 DEF Errors
    <3> QED
      BY <3>1, <3>2, <3>3, <3>4, Zenon
  <2>2. CASE ~(SB \in DOMAIN namespace /\ namespace[SB].ini) /\ UNCHANGED <<namespace, log, outcome>>
    BY <1>1, <2>2
  <2> QED
    BY <2>1, <2>2, Zenon DEF RunSystemBus
<1>4. TraversalOK(traversed', pending', FALSE, log', status', TRUE)
  BY <1>1, <1>2, <1>3, Begin, Zenon
<1>5. FALSE \in BOOLEAN /\ TRUE \in BOOLEAN /\ at' \in {"level", "ini"} /\ (FALSE <=> at' = "ini")
  BY <1>2
<1> QED
  BY <1>3, <1>4, <1>5, Resume, Zenon

LEMMA OtherStep ==
    ASSUME TraversalInv, VisitOther
    PROVE  TraversalInv'
<1> DEFINE enter == traversed[Level].typ = "Scope"
<1>1. /\ outcome = "none" /\ at = "level" /\ pending # <<>> /\ traversed[Level].typ # "Device"
      /\ pending' = Entered(traversed, pending, enter)
      /\ UNCHANGED <<namespace, traversed, at, log, status, outcome>>
  BY Zenon DEF VisitOther, EnterChildren, Entered, Level
<1>2. /\ FALSE \in BOOLEAN /\ TRUE \in BOOLEAN /\ at \in {"level", "ini"} /\ (FALSE <=> at = "ini") /\ enter \in BOOLEAN
      /\ outcome # "Ok"
  BY <1>1
<1>3. IsNamespace(namespace) /\ TraversalOK(traversed, pending, FALSE, log, status, TRUE)
  BY <1>1, <1>2, Underway, Zenon
<1>4. Level = pending[1]
  BY <1>1, <1>3, AtHand, Zenon DEF TraversalOK, Level
<1>5. traversed[pending[1]].typ # "Device" /\ (enter <=> traversed[pending[1]].typ = "Scope")
  BY <1>1, <1>4, Zenon
<1> HIDE DEF enter
<1>6. TraversalOK(traversed, Entered(traversed, pending, enter), FALSE, log, status, TRUE)
  BY <1>1, <1>2, <1>3, <1>5, PassOver, Zenon
<1>7. TraversalOK(traversed', pending', FALSE, log', status', TRUE)
  BY <1>1, <1>6, Zenon
<1>8. IsNamespace(namespace') /\ at' \in {"level", "ini"} /\ (FALSE <=> at' = "ini") /\ outcome' # "Ok"
  BY <1>1, <1>2, <1>3, Zenon
<1> QED
  BY <1>2, <1>7, <1>8, Resume, Zenon

LEMMA StatusStep ==
    ASSUME TraversalInv, VisitWithoutStatus \/ EvaluateStatus
    PROVE  TraversalInv'
<1>1. /\ outcome = "none" /\ at = "level" /\ pending # <<>> /\ traversed[Level].typ = "Device"
      /\ UNCHANGED <<traversed, pending>> /\ MayDeclare
  BY Zenon DEF VisitWithoutStatus, EvaluateStatus, MayDeclare
<1>2. FALSE \in BOOLEAN /\ TRUE \in BOOLEAN /\ at \in {"level", "ini"} /\ (FALSE <=> at = "ini")
  BY <1>1
<1>3. IsNamespace(namespace) /\ TraversalOK(traversed, pending, FALSE, log, status, TRUE)
  BY <1>1, <1>2, Underway, Zenon
<1>4. Level = pending[1]
  BY <1>1, <1>3, AtHand, Zenon DEF TraversalOK, Level
<1>5. IsNamespace(namespace')
  BY <1>1, <1>3, Declared, Zenon
<1>6. CASE \E x : /\ status' = Insert(status, Level, x) /\ at' = "ini" /\ UNCHANGED outcome
                  /\ log' = IF traversed[Level].sta THEN Append(log, Invocation(Level, "_STA", TRUE)) ELSE log
  <2>1. PICK x : /\ status' = Insert(status, Level, x) /\ at' = "ini" /\ UNCHANGED outcome
                 /\ log' = IF traversed[Level].sta THEN Append(log, Invocation(Level, "_STA", TRUE)) ELSE log
    BY <1>6, Zenon
  <2>2. traversed[pending[1]].typ = "Device" /\ log' = IF traversed[pending[1]].sta THEN Append(log, Invocation(pending[1], "_STA", TRUE)) ELSE log
    BY <1>1, <1>4, <2>1, Zenon
  <2>3. TraversalOK(traversed, pending, TRUE, log', Insert(status, pending[1], x), TRUE)
    BY <1>1, <1>3, <2>2, TakeStatus, Zenon
  <2>4. TraversalOK(traversed', pending', TRUE, log', status', TRUE)
    BY <1>1, <1>4, <2>1, <2>3, Zenon
  <2>5. at' \in {"level", "ini"} /\ (TRUE <=> at' = "ini") /\ outcome' # "Ok"
    BY <1>1, <2>1
  <2> QED
    BY <1>2, <1>5, <2>4, <2>5, Resume, Zenon
<1>7. CASE \E err \in Errors \cup {"InvalidStatusObject"} :
              log' = Append(log, Invocation(Level, "_STA", FALSE)) /\ outcome' = err /\ UNCHANGED <<status, at>>
  <2>1. outcome' \notin {"none", "Ok"} /\ log' = Append(log, Invocation(Level, "_STA", FALSE)) /\ status' = status /\ at' = "level"
    BY <1>1, <1>7 DEF Errors
  <2>2. TraversalOK(traversed, pending, FALSE, Append(log, Invocation(pending[1], "_STA", FALSE)), status, FALSE)
    BY <1>1, <1>3, <1>4, FailStatus, Zenon
  <2>3. TraversalOK(traversed', pending', FALSE, log', status', FALSE)
    BY <1>1, <1>4, <2>1, <2>2, Zenon
  <2>4. at' \in {"level", "ini"} /\ (FALSE <=> at' = "ini") /\ (outcome' \in {"none", "Ok"} => FALSE) /\ outcome' # "Ok"
    BY <2>1
  <2> QED
    BY <1>2, <1>5, <2>3, <2>4, Resume, Zenon
<1>8. VisitWithoutStatus =>
         \E x : /\ status' = Insert(status, Level, x) /\ at' = "ini" /\ UNCHANGED outcome
                /\ log' = IF traversed[Level].sta THEN Append(log, Invocation(Level, "_STA", TRUE)) ELSE log
  BY Zenon DEF VisitWithoutStatus
<1>9. EvaluateStatus =>
         \/ \E x : /\ status' = Insert(status, Level, x) /\ at' = "ini" /\ UNCHANGED outcome
                   /\ log' = IF traversed[Level].sta THEN Append(log, Invocation(Level, "_STA", TRUE)) ELSE log
         \/ \E err \in Errors \cup {"InvalidStatusObject"} :
               log' = Append(log, Invocation(Level, "_STA", FALSE)) /\ outcome' = err /\ UNCHANGED <<status, at>>
  BY Zenon DEF EvaluateStatus
<1> QED
  BY <1>6, <1>7, <1>8, <1>9, Zenon

LEMMA IniStep ==
    ASSUME TraversalInv, RunIni \/ SkipIni
    PROVE  TraversalInv'
<1> DEFINE enter == status[Level].present \/ status[Level].functional
           run == traversed[Level].ini /\ status[Level].present
<1>1. outcome = "none" /\ at = "ini" /\ UNCHANGED <<traversed, status>> /\ MayDeclare
  BY Zenon DEF RunIni, SkipIni, MayDeclare
<1>2. FALSE \in BOOLEAN /\ TRUE \in BOOLEAN /\ at \in {"level", "ini"} /\ (TRUE <=> at = "ini") /\ enter \in BOOLEAN /\ run \in BOOLEAN
  BY <1>1
<1>3. IsNamespace(namespace) /\ TraversalOK(traversed, pending, TRUE, log, status, TRUE)
  BY <1>1, <1>2, Underway, Zenon
<1>4. pending # <<>>
  BY <1>3, Zenon DEF TraversalOK, GoingOK
<1>5. Level = pending[1]
  BY <1>3, <1>4, AtHand, Zenon DEF TraversalOK, Level
<1>6. IsNamespace(namespace')
  BY <1>1, <1>3, Declared, Zenon
<1>7. CASE /\ log' = IF run THEN Append(log, Invocation(Level, "_INI", TRUE)) ELSE log
           /\ pending' = Entered(traversed, pending, enter) /\ at' = "level" /\ UNCHANGED outcome
  <2>1. /\ enter <=> status[pending[1]].present \/ status[pending[1]].functional
        /\ run <=> traversed[pending[1]].ini /\ status[pending[1]].present
    BY <1>5, Zenon
  <2> HIDE DEF enter, run
  <2>2. log' = IF run THEN Append(log, Invocation(pending[1], "_INI", TRUE)) ELSE log
    BY <1>5, <1>7, Zenon
  <2>3. TraversalOK(traversed, Entered(traversed, pending, enter), FALSE, log', status, TRUE)
    BY <1>2, <1>3, <2>1, <2>2, LeaveDevice, Zenon
  <2>4. TraversalOK(traversed', pending', FALSE, log', status', TRUE)
    BY <1>1, <1>7, <2>3, Zenon
  <2>5. at' \in {"level", "ini"} /\ (FALSE <=> at' = "ini") /\ outcome' # "Ok"
    BY <1>1, <1>7
  <2> QED
    BY <1>2, <1>6, <2>4, <2>5, Resume, Zenon
<1>8. CASE /\ run /\ UNCHANGED <<pending, at>>
           /\ \E err \in Errors : log' = Append(log, Invocation(Level, "_INI", FALSE)) /\ outcome' = err
  <2>1. outcome' \notin {"none", "Ok"} /\ log' = Append(log, Invocation(Level, "_INI", FALSE)) /\ at' = "ini" /\ pending' = pending
    BY <1>1, <1>8 DEF Errors
  <2>2. traversed[pending[1]].ini
    BY <1>5, <1>8, Zenon
  <2>3. TraversalOK(traversed, pending, TRUE, Append(log, Invocation(pending[1], "_INI", FALSE)), status, FALSE)
    BY <1>3, <2>2, FailIni, Zenon
  <2>4. TraversalOK(traversed', pending', TRUE, log', status', FALSE)
    BY <1>1, <1>5, <2>1, <2>3, Zenon
  <2>5. at' \in {"level", "ini"} /\ (TRUE <=> at' = "ini") /\ (outcome' \in {"none", "Ok"} => FALSE) /\ outcome' # "Ok"
    BY <2>1
  <2> QED
    BY <1>2, <1>6, <2>4, <2>5, Resume, Zenon
<1>9. RunIni =>
         \/ /\ log' = IF run THEN Append(log, Invocation(Level, "_INI", TRUE)) ELSE log
            /\ pending' = Entered(traversed, pending, enter) /\ at' = "level" /\ UNCHANGED outcome
         \/ /\ run /\ UNCHANGED <<pending, at>>
            /\ \E err \in Errors : log' = Append(log, Invocation(Level, "_INI", FALSE)) /\ outcome' = err
  BY Zenon DEF RunIni, EnterChildren, Entered, Level
<1>10. SkipIni => /\ log' = IF run THEN Append(log, Invocation(Level, "_INI", TRUE)) ELSE log
                  /\ pending' = Entered(traversed, pending, enter) /\ at' = "level" /\ UNCHANGED outcome
  BY Zenon DEF SkipIni, EnterChildren, Entered, Level
<1> QED
  BY <1>7, <1>8, <1>9, <1>10, Zenon

(***************************************************************************)
(* The traversal keeps a stack of levels to look at: they are reached, they *)
(* stand aside of one another in the order of the map, and everything the   *)
(* traversal has invoked comes before them.  This is the loop of            *)
(* Namespace::traverse, under the closure of initialize_objects, whatever   *)
(* the methods return and declare.                                          *)
(***************************************************************************)
THEOREM TraversalInvariant == Spec => []TraversalInv
<1>1. Init => TraversalInv
  <2> SUFFICES ASSUME Init PROVE TraversalInv
    OBVIOUS
  <2>1. IsNamespace(namespace)
    BY NamespacesAssumption, Zenon DEF Init
  <2>2. at = "start" /\ log = <<>> /\ outcome = "none" /\ status = [p \in {} |-> Default]
    BY Zenon DEF Init
  <2>3. DOMAIN status = {} /\ at \in {"start", "level", "ini"} /\ outcome # "Ok"
    BY <2>2
  <2> QED
    BY <2>1, <2>2, <2>3, Zenon DEF TraversalInv
<1>2. TraversalInv /\ [Next]_vars => TraversalInv'
  <2> SUFFICES ASSUME TraversalInv, [Next]_vars PROVE TraversalInv'
    OBVIOUS
  <2>1. CASE Finish
    <3>1. /\ outcome = "none" /\ at = "level" /\ pending = <<>> /\ outcome' = "Ok"
          /\ UNCHANGED <<namespace, traversed, pending, at, log, status>>
      BY <2>1, Zenon DEF Finish
    <3>2. FALSE \in BOOLEAN /\ TRUE \in BOOLEAN /\ at \in {"level", "ini"} /\ (FALSE <=> at = "ini")
      BY <3>1
    <3>3. IsNamespace(namespace) /\ TraversalOK(traversed, pending, FALSE, log, status, TRUE)
      BY <3>1, <3>2, Underway, Zenon
    <3>4. IsNamespace(namespace') /\ TraversalOK(traversed', pending', FALSE, log', status', TRUE)
      BY <3>1, <3>3, Zenon
    <3>5. at' \in {"level", "ini"} /\ (FALSE <=> at' = "ini") /\ pending' = <<>> /\ at' = "level"
      BY <3>1, <3>2, Zenon
    <3> QED
      BY <3>2, <3>4, <3>5, Resume, Zenon
  <2>2. CASE UNCHANGED vars
    BY <2>2, Zenon DEF vars, TraversalInv
  <2> QED
    BY <2>1, <2>2, BusStep, OtherStep, StatusStep, IniStep, Zenon DEF Next
<1> QED
  BY <1>1, <1>2, PTL DEF Spec

RunsIn(lg, p, m) == {i \in Own(lg) : lg[i].path = p /\ lg[i].method = m}

\* A method of a device is invoked once, if at all.
LEMMA InvokedOnce ==
    ASSUME NEW tr, IsNamespace(tr), NEW st, NEW lg, LogOK(tr, st, lg), NEW p, NEW m
    PROVE  Cardinality(RunsIn(lg, p, m)) = IF Ran(lg, p, m) THEN 1 ELSE 0
<1> DEFINE S == {i \in Own(lg) : lg[i].path = p /\ lg[i].method = m}
<1>1. CASE Ran(lg, p, m)
  <2>1. PICK i \in Own(lg) : lg[i].path = p /\ lg[i].method = m
    BY <1>1, Zenon DEF Ran
  <2>2. Own(lg) \subseteq Nat
    <3>1. DOMAIN lg \subseteq Nat
      BY DEF LogOK
    <3> QED
      BY <3>1, Zenon DEF Own
  <2>3. p \in Path
    BY <2>1 DEF LogOK, IsNamespace, Path
  <2>4. ASSUME NEW j \in S, NEW k \in S, j < k PROVE FALSE
    <3>1. Precedes(lg[j], lg[k]) /\ lg[j].path = p /\ lg[k].path = p /\ lg[j].method = lg[k].method
      BY <2>4, Zenon DEF LogOK
    <3>2. Before(p, p) \/ "_STA" = "_INI"
      BY <3>1, Zenon DEF Precedes
    <3>3. "_STA" # "_INI"
      OBVIOUS
    <3> QED
      BY <2>3, <3>2, <3>3, NeverBeforeItself, Zenon
  <2>5. \A j \in S : j \in Nat
    BY <2>2, Zenon
  <2>6. i \in S
    BY <2>1, Zenon
  <2> HIDE DEF S
  <2>7. \A j \in S : j = i
    <3> SUFFICES ASSUME NEW j \in S, j # i PROVE FALSE
      BY Zenon
    <3>1. j < i \/ i < j
      BY <2>5, <2>6
    <3> QED
      BY <2>4, <2>6, <3>1, Zenon
  <2>8. S = {i}
    BY <2>6, <2>7, Zenon
  <2>9. Cardinality(S) = 1
    BY <2>8, FS_Singleton, Zenon
  <2> QED
    BY <1>1, <2>9, Zenon DEF S, RunsIn
<1>2. CASE ~Ran(lg, p, m)
  <2>1. S = {}
    BY <1>2, Zenon DEF Ran
  <2> HIDE DEF S
  <2>2. Cardinality(S) = 0
    BY <2>1, FS_EmptySet, Zenon
  <2> QED
    BY <1>2, <2>2, Zenon DEF S, RunsIn
<1> QED
  BY <1>1, <1>2

\* What ParentsFirst says of two invocations.
Ordered(lg, i, j) ==
    /\ lg[j].path \notin ProperPrefixes(lg[i].path)
    /\ lg[i].path = lg[j].path => lg[i].method = "_STA" /\ lg[j].method = "_INI"
    /\ \A k \in Own(lg) :
          j < k /\ lg[i].path \in ProperPrefixes(lg[k].path) => lg[i].path \in ProperPrefixes(lg[j].path)
                                                                  \/ lg[i].path = lg[j].path

LEMMA InOrder ==
    ASSUME NEW tr, IsNamespace(tr), NEW st, NEW lg, LogOK(tr, st, lg),
           NEW i \in Own(lg), NEW j \in Own(lg), i < j
    PROVE  Ordered(lg, i, j)
<1>1. \A k \in Own(lg) : lg[k].path \in Path
  BY DEF LogOK, IsNamespace, Path
<1>2. Before(lg[i].path, lg[j].path) \/ (lg[i].path = lg[j].path /\ lg[i].method = "_STA" /\ lg[j].method = "_INI")
  BY Zenon DEF LogOK, Precedes
<1>3. lg[j].path \notin ProperPrefixes(lg[i].path)
  <2> SUFFICES ASSUME lg[j].path \in ProperPrefixes(lg[i].path) PROVE FALSE
    BY Zenon
  <2>1. Before(lg[j].path, lg[i].path)
    BY <1>1, PrefixesAreAbove, Zenon DEF Before
  <2> QED
    BY <1>1, <1>2, <2>1, BeforeBefore, NeverBeforeItself, Zenon
<1>4. lg[i].path = lg[j].path => lg[i].method = "_STA" /\ lg[j].method = "_INI"
  BY <1>1, <1>2, NeverBeforeItself, Zenon
<1>5. ASSUME NEW k \in Own(lg), j < k, lg[i].path \in ProperPrefixes(lg[k].path), lg[i].path # lg[j].path
      PROVE  lg[i].path \in ProperPrefixes(lg[j].path)
  <2>1. Before(lg[j].path, lg[k].path) \/ lg[j].path = lg[k].path
    BY <1>5, Zenon DEF LogOK, Precedes
  <2>2. Above(lg[i].path, lg[k].path)
    BY <1>1, <1>5, PrefixesAreAbove, Zenon
  <2>3. Above(lg[i].path, lg[j].path)
    BY <1>1, <1>2, <1>5, <2>1, <2>2, SubtreesInOnePiece, Zenon
  <2> QED
    BY <1>1, <2>3, PrefixesAreAbove, Zenon
<1> QED
  BY <1>3, <1>4, <1>5, Zenon DEF Ordered

(***************************************************************************)
(* For every namespace, whatever the methods return and declare: the devices *)
(* to be reached are initialised once each, parents first, a subtree at a    *)
(* time, nothing else is, and nothing follows a method that fails            *)
(* (AmlContext::initialize_objects).                                         *)
(***************************************************************************)
THEOREM AlwaysInitializedOnceInOrder == Spec => []InitializedOnceInOrder
<1>1. TraversalInv => InitializedOnceInOrder
  <2> SUFFICES ASSUME TraversalInv PROVE InitializedOnceInOrder
    OBVIOUS
  <2>1. OfTraversal = Own(log)
    BY Zenon DEF OfTraversal, Own
  <2>2. \A p : Reached(p) <=> Reach(traversed, status, p)
    BY Zenon DEF Reached, Reach, Open
  <2>3. CASE at = "start"
    <3>1. log = <<>> /\ outcome # "Ok"
      BY <2>3 DEF TraversalInv
    <3>2. OfTraversal = {}
      BY <3>1 DEF OfTraversal
    <3> QED
      BY <3>1, <3>2, Zenon DEF InitializedOnceInOrder, ParentsFirst
  <2>4. CASE at # "start"
    <3>1. TraversalOK(traversed, pending, at = "ini", log, status, outcome \in {"none", "Ok"})
      BY <2>4, Zenon DEF TraversalInv
    <3>2. IsNamespace(traversed) /\ LogOK(traversed, status, log)
      BY <3>1, Zenon DEF TraversalOK, StackOK
    <3>3. ParentsFirst
      <4>1. \A i, j \in Own(log) : i < j => Ordered(log, i, j)
        BY <3>2, InOrder, Zenon
      <4> QED
        BY <2>1, <4>1, Zenon DEF ParentsFirst, Ordered
    <3>4. \A i \in OfTraversal : Reached(log[i].path) /\ (~log[i].ok => i = Len(log))
      BY <2>1, <2>2, <3>2, Zenon DEF LogOK
    <3>5. ASSUME outcome = "Ok" PROVE Complete
      <4>1. pending = <<>> /\ GoingOK(traversed, pending, at = "ini", log, status)
        <5>1. outcome \in {"none", "Ok"}
          BY <3>5
        <5> QED
          BY <3>1, <3>5, <5>1, Zenon DEF TraversalInv, TraversalOK
      <4>2. \A p, m : Runs(p, m) = RunsIn(log, p, m)
        BY <2>1, Zenon DEF Runs, RunsIn
      <4>3. \A p : ~Waiting(pending, p)
        <5>1. 1..Len(pending) = {}
          BY <4>1
        <5> QED
          BY <5>1, Zenon DEF Waiting
      <4>4. ASSUME NEW p \in DOMAIN traversed, traversed[p].typ = "Device", Reached(p)
            PROVE  /\ p \in DOMAIN status
                   /\ Cardinality(Runs(p, "_STA")) = IF traversed[p].sta THEN 1 ELSE 0
                   /\ Cardinality(Runs(p, "_INI")) = IF traversed[p].ini /\ status[p].present THEN 1 ELSE 0
        <5>1. Finished(traversed, log, status, p)
          BY <2>2, <4>1, <4>3, <4>4, Zenon DEF GoingOK
        <5>2. \A m : Cardinality(Runs(p, m)) = IF Ran(log, p, m) THEN 1 ELSE 0
          BY <3>2, <4>2, InvokedOnce, Zenon
        <5>3. Cardinality(Runs(p, "_STA")) = IF traversed[p].sta THEN 1 ELSE 0
          <6>1. Cardinality(Runs(p, "_STA")) = IF Ran(log, p, "_STA") THEN 1 ELSE 0
            BY <5>2, Zenon
          <6> QED
            BY <5>1, <6>1, Zenon DEF Finished
        <5>4. Cardinality(Runs(p, "_INI")) = IF traversed[p].ini /\ status[p].present THEN 1 ELSE 0
          <6>1. Cardinality(Runs(p, "_INI")) = IF Ran(log, p, "_INI") THEN 1 ELSE 0
            BY <5>2, Zenon
          <6> QED
            BY <5>1, <6>1, Zenon DEF Finished
        <5> QED
          BY <5>1, <5>3, <5>4, Zenon DEF Finished
      <4>5. ASSUME NEW p \in DOMAIN traversed, ~(traversed[p].typ = "Device" /\ Reached(p)), NEW m
            PROVE  Runs(p, m) = {}
        <5>1. \A i \in Own(log) : log[i].path # p
          BY <2>2, <3>2, <4>5, Zenon DEF LogOK
        <5> QED
          BY <4>2, <5>1, Zenon DEF RunsIn
      <4> QED
        BY <4>4, <4>5, Zenon DEF Complete
    <3> QED
      BY <3>3, <3>4, <3>5, Zenon DEF InitializedOnceInOrder
  <2> QED
    BY <2>3, <2>4
<1> QED
  BY <1>1, TraversalInvariant, PTL

\* An invocation is known by its path and its method.
LEMMA FewInvocations ==
    ASSUME NEW tr, IsNamespace(tr), NEW st, NEW lg, LogOK(tr, st, lg)
    PROVE  Cardinality(Own(lg)) <= 2 * Cardinality(Devices(tr))
<1> DEFINE D == Devices(tr)
           M == {"_STA", "_INI"}
           f == [i \in Own(lg) |-> <<lg[i].path, lg[i].method>>]
<1>1. IsFiniteSet(D) /\ Cardinality(D) \in Nat
  <2>1. D \in SUBSET DOMAIN tr /\ IsFiniteSet(DOMAIN tr)
    BY Zenon DEF Devices, IsNamespace
  <2> QED
    BY <2>1, FS_Subset, FS_CardinalityType, Zenon
<1>2. IsFiniteSet(M) /\ Cardinality(M) = 2
  <2> DEFINE S == {"_STA"}
  <2>1. IsFiniteSet(S) /\ Cardinality(S) = 1
    BY FS_Singleton, Zenon
  <2>2. "_INI" \notin S /\ M = S \cup {"_INI"}
    OBVIOUS
  <2> HIDE DEF S, M
  <2>3. IsFiniteSet(S \cup {"_INI"}) /\ Cardinality(S \cup {"_INI"}) = Cardinality(S) + 1
    BY <2>1, <2>2, FS_AddElement, Zenon
  <2> QED
    BY <2>1, <2>2, <2>3
<1>3. \A i \in Own(lg) : i \in Nat /\ lg[i].path \in D /\ lg[i].method \in M /\ lg[i].path \in Path
  <2>1. \A i \in Own(lg) : i \in Nat /\ lg[i].path \in Path /\ lg[i].method \in M
    <3>1. \A i \in Own(lg) : i \in DOMAIN lg
      BY Zenon DEF Own
    <3> DEFINE R == [path : Path, method : M, ok : BOOLEAN]
    <3>2. lg \in Seq(R)
      BY Zenon DEF LogOK
    <3>3. \A e \in R : e.path \in Path /\ e.method \in M
      OBVIOUS
    <3> HIDE DEF R, M
    <3>4. \A i \in DOMAIN lg : i \in Nat /\ lg[i] \in R
      BY <3>2
    <3> QED
      BY <3>1, <3>3, <3>4, Zenon
  <2>2. \A i \in Own(lg) : lg[i].path \in D
    BY Zenon DEF LogOK, Devices
  <2> QED
    BY <2>1, <2>2, Zenon
<1>4. ASSUME NEW i \in Own(lg), NEW j \in Own(lg), i < j, lg[i].path = lg[j].path, lg[i].method = lg[j].method
      PROVE  FALSE
  <2>1. Precedes(lg[i], lg[j])
    BY <1>4, Zenon DEF LogOK
  <2>2. Before(lg[i].path, lg[i].path) \/ "_STA" = "_INI"
    BY <1>4, <2>1, Zenon DEF Precedes
  <2>3. "_STA" # "_INI"
    OBVIOUS
  <2> QED
    BY <1>3, <2>2, <2>3, NeverBeforeItself, Zenon
<1> HIDE DEF D, M
<1>5. \A i, j \in Own(lg) : f[i] = f[j] => i = j
  <2> SUFFICES ASSUME NEW i \in Own(lg), NEW j \in Own(lg), f[i] = f[j], i # j PROVE FALSE
    BY Zenon
  <2>1. lg[i].path = lg[j].path /\ lg[i].method = lg[j].method
    OBVIOUS
  <2>2. i < j \/ j < i
    BY <1>3
  <2> QED
    BY <1>4, <2>1, <2>2, Zenon
<1>6. f \in [Own(lg) -> D \X M]
  BY <1>3
<1> HIDE DEF f
<1>7. f \in Injection(Own(lg), D \X M)
  BY <1>5, <1>6, Zenon DEF Injection, IsInjective
<1>8. IsFiniteSet(D \X M) /\ Cardinality(D \X M) = Cardinality(D) * Cardinality(M)
  BY <1>1, <1>2, FS_Product, Zenon
<1>9. Cardinality(Own(lg)) <= Cardinality(D \X M)
  BY <1>7, <1>8, FS_Injection, Zenon
<1> QED
  BY <1>1, <1>2, <1>8, <1>9 DEF D

(***************************************************************************)
(* For every namespace, and whatever the methods declare on the way, be it  *)
(* without end: the traversal invokes methods only of the devices that were *)
(* in the namespace when it was copied (lib.rs:259), two for each at most.  *)
(***************************************************************************)
THEOREM TraversalAlwaysBounded == Spec => []TraversalIsBounded
<1>1. TraversalInv => TraversalIsBounded
  <2> SUFFICES ASSUME TraversalInv, at # "start" PROVE TraversalIsBounded
    BY Zenon DEF TraversalIsBounded
  <2>1. IsNamespace(traversed) /\ LogOK(traversed, status, log)
    BY Zenon DEF TraversalInv, TraversalOK, StackOK
  <2>2. OfTraversal = Own(log)
    BY Zenon DEF OfTraversal, Own
  <2>3. \A i \in OfTraversal : log[i].path \in Devices(traversed)
    BY <2>1, <2>2, Zenon DEF LogOK, Devices
  <2>4. Cardinality(OfTraversal) <= 2 * Cardinality(Devices(traversed))
    BY <2>1, <2>2, FewInvocations, Zenon
  <2> QED
    BY <2>3, <2>4, Zenon DEF TraversalIsBounded
<1> QED
  BY <1>1, TraversalInvariant, PTL
=============================================================================
