------------------------- MODULE NamespaceTheorems -------------------------
(***************************************************************************)
(* What the operators of AmlName and Namespace compute, for all names and   *)
(* namespaces: the facts that the proofs about NamespaceClient and about    *)
(* AmlContext rest on.                                                      *)
(***************************************************************************)
EXTENDS Namespace, SequenceTheorems, WellFoundedInduction, TLAPS

\* A set of natural numbers that is not empty has a least element.  The
\* inductions below are over the least counterexample.
LEMMA LeastNatural ==
    ASSUME NEW S \in SUBSET Nat, S # {}
    PROVE  \E x \in S : \A y \in S : x <= y
<1> DEFINE R == {ss \in Nat \X Nat : ss[1] < ss[2]}
<1>1. IsWellFoundedOn(R, Nat)
  BY NatLessThanWellFounded DEF OpToRel
<1>2. \A x, y \in Nat : x < y => <<x, y>> \in R
  OBVIOUS
<1> HIDE DEF R
<1>3. PICK x \in S : \A y \in S : ~(<<y, x>> \in R)
  BY <1>1, WFMin, Zenon
<1>4. \A y \in S : ~(y < x)
  BY <1>2, <1>3, Zenon
<1> QED
  BY <1>4

\* Induction over the natural numbers, for a property given as a set.
LEMMA SetInduction ==
    ASSUME NEW S, 0 \in S, \A k \in Nat : k \in S => k + 1 \in S
    PROVE  Nat \subseteq S
<1> SUFFICES ASSUME Nat \ S # {} PROVE FALSE
  OBVIOUS
<1>1. PICK x \in Nat \ S : \A y \in Nat \ S : x <= y
  BY LeastNatural, Zenon
<1>2. x - 1 \in Nat /\ x - 1 \in S
  BY <1>1
<1> QED
  BY <1>1, <1>2

LEMMA MaxIs ==
    ASSUME NEW S \in SUBSET Int, NEW m \in S, \A x \in S : x <= m
    PROVE  Max(S) = m
<1>1. \A x \in S : (\A y \in S : x >= y) => x = m
  OBVIOUS
<1>2. m \in S /\ \A y \in S : m >= y
  OBVIOUS
<1> QED
  BY <1>1, <1>2, Zenon DEF Max

\* What a fold over a sequence of k + 1 elements sees after the last of them.
LEMMA SubsetsUpTo ==
    ASSUME NEW k \in Nat
    PROVE  /\ \A s \in SUBSET (1..(k + 1)) : /\ k + 1 \in s => Max(s) = k + 1 /\ s # {}
                                             /\ k + 1 \notin s => s \in SUBSET (1..k)
                                             /\ s \ {k + 1} \in SUBSET (1..k)
           /\ \A s \in SUBSET (1..k) : k + 1 \notin s /\ s \in SUBSET (1..(k + 1)) /\ \A x : s \ {x} \in SUBSET (1..k)
<1>1. ASSUME NEW s \in SUBSET (1..(k + 1))
      PROVE  /\ k + 1 \in s => Max(s) = k + 1 /\ s # {}
             /\ k + 1 \notin s => s \in SUBSET (1..k)
             /\ s \ {k + 1} \in SUBSET (1..k)
  <2>1. k + 1 \in s => Max(s) = k + 1
    BY MaxIs
  <2> QED
    BY <2>1
<1>2. ASSUME NEW s \in SUBSET (1..k)
      PROVE  k + 1 \notin s /\ s \in SUBSET (1..(k + 1)) /\ \A x : s \ {x} \in SUBSET (1..k)
  <2>1. k + 1 \notin 1..k /\ 1..k \subseteq 1..(k + 1)
    OBVIOUS
  <2> QED
    BY <2>1, Zenon
<1> QED
  BY <1>1, <1>2, Zenon

LEMMA MaxOfInterval ==
    ASSUME NEW k \in Nat, k # 0
    PROVE  Max(1..k) = k
<1>1. 1..k \in SUBSET Int /\ k \in 1..k /\ \A x \in 1..k : x <= k
  OBVIOUS
<1> QED
  BY <1>1, MaxIs, Zenon

----------------------------------------------------------------------------
\* The `try_fold` of `normalize` goes through the components one by one.
LEMMA NormalizeFold ==
    ASSUME NEW p, NEW n \in Nat, DOMAIN p = 1..n
    PROVE  \E a : /\ FoldInOrder(NormalizeStep, Ok(<<>>), p) = a[n]
                  /\ a[0] = Ok(<<>>) /\ \A k \in 1..n : a[k] = NormalizeStep(a[k - 1], p[k])
<1> DEFINE D(it, k) == [s \in SUBSET (1..k) |-> IF s = {} THEN Ok(<<>>)
                                                ELSE NormalizeStep(it[s \ {Max(s)}], p[Max(s)])]
           Defined == {k \in Nat : \E it : it = D(it, k)}
<1>1. 0 \in Defined
  <2> DEFINE it == [s \in SUBSET (1..0) |-> Ok(<<>>)]
  <2>1. \A s \in SUBSET (1..0) : s = {}
    OBVIOUS
  <2>2. it = D(it, 0)
    BY <2>1, Zenon
  <2> QED
    BY <2>2, Zenon
<1>2. ASSUME NEW k \in Nat, k \in Defined PROVE k + 1 \in Defined
  <2>1. PICK g : g = D(g, k)
    BY <1>2, Zenon
  <2> DEFINE it == [s \in SUBSET (1..(k + 1)) |-> IF k + 1 \in s THEN NormalizeStep(g[s \ {k + 1}], p[k + 1]) ELSE g[s]]
  <2>2. /\ \A s \in SUBSET (1..(k + 1)) : /\ k + 1 \in s => Max(s) = k + 1 /\ s # {}
                                          /\ k + 1 \notin s => s \in SUBSET (1..k)
                                          /\ s \ {k + 1} \in SUBSET (1..k)
        /\ \A s \in SUBSET (1..k) : k + 1 \notin s /\ s \in SUBSET (1..(k + 1)) /\ \A x : s \ {x} \in SUBSET (1..k)
    BY SubsetsUpTo, Zenon
  <2>3. \A s \in SUBSET (1..k) : it[s] = g[s] /\ s \in SUBSET (1..(k + 1)) /\ \A x : s \ {x} \in SUBSET (1..k)
    BY <2>2, Zenon
  <2>4. \A s \in SUBSET (1..k) : g[s] = IF s = {} THEN Ok(<<>>) ELSE NormalizeStep(g[s \ {Max(s)}], p[Max(s)])
    BY <2>1, Zenon
  <2>5. ASSUME NEW s \in SUBSET (1..(k + 1))
        PROVE  it[s] = IF s = {} THEN Ok(<<>>) ELSE NormalizeStep(it[s \ {Max(s)}], p[Max(s)])
    <3>1. CASE k + 1 \in s
      BY <2>2, <2>3, <3>1, Zenon
    <3>2. CASE k + 1 \notin s
      BY <2>2, <2>3, <2>4, <3>2, Zenon
    <3> QED
      BY <3>1, <3>2
  <2>6. it = [s \in SUBSET (1..(k + 1)) |-> it[s]]
    BY Zenon
  <2> HIDE DEF it
  <2>7. it = D(it, k + 1)
    BY <2>5, <2>6, Zenon
  <2>8. k + 1 \in Nat
    OBVIOUS
  <2> QED
    BY <2>7, <2>8, Zenon
<1> HIDE DEF Defined
<1>3. n \in Defined
  BY <1>1, <1>2, SetInduction
<1> USE DEF Defined
<1>4. \E it : it = D(it, n)
  BY <1>3, Zenon
<1> DEFINE f == CHOOSE it : it = D(it, n)
<1>5. FoldInOrder(NormalizeStep, Ok(<<>>), p) = f[1..n]
  BY Zenon DEF FoldInOrder, MapThenFoldSet
<1>6. f = D(f, n)
  BY <1>4, Zenon
<1> HIDE DEF f
<1>7. \A s \in SUBSET (1..n) : f[s] = IF s = {} THEN Ok(<<>>) ELSE NormalizeStep(f[s \ {Max(s)}], p[Max(s)])
  BY <1>6, Zenon
<1> DEFINE a == [k \in 0..n |-> f[1..k]]
<1>8. a[n] = f[1..n] /\ a[0] = Ok(<<>>)
  <2>1. n \in 0..n /\ 0 \in 0..n /\ 1..0 = {} /\ {} \in SUBSET (1..n)
    OBVIOUS
  <2> QED
    BY <1>7, <2>1, Zenon
<1>9. ASSUME NEW k \in 1..n PROVE a[k] = NormalizeStep(a[k - 1], p[k])
  <2>1. 1..k \in SUBSET (1..n) /\ 1..k # {} /\ (1..k) \ {k} = 1..(k - 1)
    OBVIOUS
  <2>2. Max(1..k) = k
    BY MaxOfInterval
  <2>3. f[1..k] = NormalizeStep(f[1..(k - 1)], p[k])
    BY <1>7, <2>1, <2>2, Zenon
  <2>4. k \in 0..n /\ k - 1 \in 0..n
    OBVIOUS
  <2> QED
    BY <2>3, <2>4, Zenon
<1> HIDE DEF a
<1> QED
  BY <1>5, <1>8, <1>9, Zenon

\* The names `normalize` returns: free of prefixes.
Normal == Seq(Segs \cup {Root})

Invalid == Err("InvalidNormalizedName")

LEMMA OkOrErr ==
    /\ \A v : Ok(v).ok /\ Ok(v).val = v
    /\ \A e : ~Err(e).ok
    /\ \A u, v : Ok(u) = Ok(v) => u = v
    /\ \A v, e : Ok(v) # Err(e)
<1>1. \A v : Ok(v).ok /\ Ok(v).val = v
  BY DEF Ok
<1>2. \A e : ~Err(e).ok
  BY DEF Err
<1> QED
  BY <1>1, <1>2, Zenon

LEMMA ComponentFacts ==
    /\ Prefix \notin Segs \cup {Root} /\ Segs \cup {Root} \subseteq Component
    /\ \A c \in Component : c # Prefix => c \in Segs \cup {Root}
    /\ Root \notin Segs
BY SegsAssumption DEF Component, Root, Prefix

\* One turn of the fold, case by case.
LEMMA NormalizeTurn ==
    /\ \A e, c : NormalizeStep(Err(e), c) = Err(e)
    /\ \A v, c : c # Prefix => NormalizeStep(Ok(v), c) = Ok(Append(v, c))
    /\ \A v : NormalizeStep(Ok(v), Prefix) = IF v # <<>> /\ LastOf(v) \in Segs THEN Ok(AllButLast(v)) ELSE Invalid
<1>1. \A e, c : NormalizeStep(Err(e), c) = Err(e)
  BY OkOrErr DEF NormalizeStep
<1>2. ASSUME NEW v, NEW c, c # Prefix PROVE NormalizeStep(Ok(v), c) = Ok(Append(v, c))
  BY OkOrErr, <1>2 DEF NormalizeStep
<1>3. ASSUME NEW v PROVE NormalizeStep(Ok(v), Prefix) = IF v # <<>> /\ LastOf(v) \in Segs THEN Ok(AllButLast(v)) ELSE Invalid
  BY OkOrErr DEF NormalizeStep, Invalid
<1> QED
  BY <1>1, <1>2, <1>3, Zenon

\* a[k] is what the fold has made of the first k components of p.
Steps(a, p) == a[0] = Ok(<<>>) /\ \A k \in 1..Len(p) : a[k] = NormalizeStep(a[k - 1], p[k])

Typed(outcome) == outcome = Invalid \/ \E v \in Normal : outcome = Ok(v)

LEMMA TurnTyped ==
    ASSUME NEW r, Typed(r), NEW c \in Component
    PROVE  Typed(NormalizeStep(r, c))
<1>1. CASE r = Invalid
  BY <1>1, NormalizeTurn, Zenon DEF Typed, Invalid
<1>2. ASSUME NEW v \in Normal, r = Ok(v), c # Prefix PROVE Typed(NormalizeStep(r, c))
  <2>1. c \in Segs \cup {Root}
    BY <1>2, ComponentFacts
  <2>2. Append(v, c) \in Normal
    BY <1>2, <2>1, AppendProperties DEF Normal
  <2> QED
    BY <1>2, <2>2, NormalizeTurn, Zenon DEF Typed
<1>3. ASSUME NEW v \in Normal, r = Ok(v), c = Prefix PROVE Typed(NormalizeStep(r, c))
  <2>1. v # <<>> => AllButLast(v) \in Normal
    BY <1>3 DEF Normal, AllButLast
  <2> QED
    BY <1>3, <2>1, NormalizeTurn, Zenon DEF Typed
<1> QED
  BY <1>1, <1>2, <1>3, Zenon DEF Typed

LEMMA StepsTyped ==
    ASSUME NEW p \in Seq(Component), NEW a, Steps(a, p)
    PROVE  \A k \in 0..Len(p) : Typed(a[k])
<1> DEFINE S == {k \in Nat : k <= Len(p) => Typed(a[k])}
<1>0. Len(p) \in Nat
  OBVIOUS
<1>1. 0 \in S
  <2>1. Typed(a[0])
    BY EmptySeq, Zenon DEF Steps, Typed, Normal
  <2> QED
    BY <2>1
<1>2. ASSUME NEW k \in Nat, k \in S PROVE k + 1 \in S
  <2> SUFFICES ASSUME k + 1 <= Len(p) PROVE Typed(a[k + 1])
    OBVIOUS
  <2>1. Typed(a[k])
    BY <1>0, <1>2
  <2>2. k + 1 \in 1..Len(p) /\ (k + 1) - 1 = k
    BY <1>0
  <2>3. p[k + 1] \in Component
    BY <2>2, ElementOfSeq
  <2> QED
    BY <2>1, <2>2, <2>3, TurnTyped, Zenon DEF Steps
<1> HIDE DEF S
<1>3. Nat \subseteq S
  BY <1>1, <1>2, SetInduction
<1> QED
  BY <1>0, <1>3 DEF S

\* Without a prefix, the fold copies the name.
LEMMA StepsOfNormal ==
    ASSUME NEW p \in Normal, NEW a, Steps(a, p)
    PROVE  a[Len(p)] = Ok(p)
<1> DEFINE S == {k \in Nat : k <= Len(p) => a[k] = Ok(SubSeq(p, 1, k))}
<1>0. Len(p) \in Nat /\ p \in Seq(Segs \cup {Root})
  BY DEF Normal
<1>1. 0 \in S
  <2>1. SubSeq(p, 1, 0) = <<>>
    BY <1>0, SubSeqEmpty
  <2> QED
    BY <2>1, Zenon DEF Steps
<1>2. ASSUME NEW k \in Nat, k \in S PROVE k + 1 \in S
  <2> SUFFICES ASSUME k + 1 <= Len(p) PROVE a[k + 1] = Ok(SubSeq(p, 1, k + 1))
    OBVIOUS
  <2>1. a[k] = Ok(SubSeq(p, 1, k))
    BY <1>0, <1>2
  <2>2. k + 1 \in 1..Len(p) /\ (k + 1) - 1 = k
    BY <1>0
  <2>3. p[k + 1] # Prefix
    BY <1>0, <2>2, ElementOfSeq, ComponentFacts
  <2>4. SubSeq(p, 1, k + 1) = Append(SubSeq(p, 1, k), p[k + 1])
    BY <1>0, <2>2, SubSeqRecursiveSecond
  <2>5. a[k + 1] = NormalizeStep(a[k], p[k + 1])
    BY <2>2, Zenon DEF Steps
  <2>6. NormalizeStep(a[k], p[k + 1]) = Ok(Append(SubSeq(p, 1, k), p[k + 1]))
    BY <2>1, <2>3, NormalizeTurn, Zenon
  <2> QED
    BY <2>4, <2>5, <2>6, Zenon
<1> HIDE DEF S
<1>3. Nat \subseteq S
  BY <1>1, <1>2, SetInduction
<1>4. SubSeq(p, 1, Len(p)) = p
  BY <1>0, SubSeqFull
<1>5. Len(p) \in S /\ Len(p) <= Len(p)
  BY <1>0, <1>3
<1>6. a[Len(p)] = Ok(SubSeq(p, 1, Len(p)))
  BY <1>5, Zenon DEF S
<1> QED
  BY <1>4, <1>6, Zenon

\* Two folds that agree somewhere go on agreeing over the same components.
Agree(a, p, m, b, q, n, d) ==
    /\ Steps(a, p) /\ Steps(b, q) /\ a[m] = b[n]
    /\ {m, n, d, Len(p), Len(q)} \subseteq Nat /\ m + d <= Len(p) /\ n + d <= Len(q)
    /\ \A i \in 1..d : p[m + i] = q[n + i]
    => a[m + d] = b[n + d]

LEMMA StepsAgree ==
    ASSUME NEW p, NEW a, NEW q, NEW b, NEW m, NEW n, NEW d
    PROVE  Agree(a, p, m, b, q, n, d)
<1> SUFFICES ASSUME Steps(a, p), Steps(b, q), a[m] = b[n],
                    m \in Nat, n \in Nat, d \in Nat, Len(p) \in Nat, Len(q) \in Nat,
                    m + d <= Len(p), n + d <= Len(q), \A i \in 1..d : p[m + i] = q[n + i]
             PROVE  a[m + d] = b[n + d]
  BY Zenon DEF Agree
<1> DEFINE S == {k \in Nat : k <= d => a[m + k] = b[n + k]}
<1>1. 0 \in S
  BY m + 0 = m, n + 0 = n
<1>2. ASSUME NEW k \in Nat, k \in S PROVE k + 1 \in S
  <2> SUFFICES ASSUME k + 1 <= d PROVE a[m + (k + 1)] = b[n + (k + 1)]
    OBVIOUS
  <2>1. a[m + k] = b[n + k]
    BY <1>2
  <2>2. /\ m + (k + 1) \in 1..Len(p) /\ (m + (k + 1)) - 1 = m + k
        /\ n + (k + 1) \in 1..Len(q) /\ (n + (k + 1)) - 1 = n + k
        /\ k + 1 \in 1..d
    OBVIOUS
  <2> QED
    BY <2>1, <2>2, Zenon DEF Steps
<1> HIDE DEF S
<1>3. d \in S
  BY <1>1, <1>2, SetInduction
<1> QED
  BY <1>3 DEF S

----------------------------------------------------------------------------
\* `normalize` folds; for a name without prefixes, which it returns at once,
\* the fold would have come to the same.
LEMMA NormalizeSteps ==
    ASSUME NEW p \in Seq(Component)
    PROVE  \E a : Steps(a, p) /\ normalize(p) = a[Len(p)]
<1>0. Len(p) \in Nat /\ DOMAIN p = 1..Len(p)
  OBVIOUS
<1>1. PICK a : FoldInOrder(NormalizeStep, Ok(<<>>), p) = a[Len(p)] /\ Steps(a, p)
  BY <1>0, NormalizeFold, Zenon DEF Steps
<1>2. CASE ~is_normal(p)
  BY <1>1, <1>2, Zenon DEF normalize
<1>3. CASE is_normal(p)
  <2>1. \A i \in 1..Len(p) : p[i] \in Segs \cup {Root}
    BY <1>3, ElementOfSeq, ComponentFacts DEF is_normal
  <2>2. p \in Normal
    BY <1>0, <2>1, IsASeq DEF Normal
  <2> QED
    BY <1>1, <1>3, <2>2, StepsOfNormal, Zenon DEF normalize
<1> QED
  BY <1>2, <1>3

LEMMA NormalizeOutcome ==
    ASSUME NEW p \in Seq(Component)
    PROVE  Typed(normalize(p))
<1>1. Len(p) \in 0..Len(p)
  OBVIOUS
<1> QED
  BY <1>1, NormalizeSteps, StepsTyped, Zenon

LEMMA NormalIsName ==
    ASSUME NEW v \in Normal
    PROVE  v \in Seq(Component) /\ Len(v) \in Nat /\ normalize(v) = Ok(v)
<1>1. v \in Seq(Segs \cup {Root}) /\ Len(v) \in Nat
  BY DEF Normal
<1>2. v \in Seq(Component)
  BY <1>1, ComponentFacts, SeqMonotonic
<1> QED
  BY <1>1, <1>2, NormalizeSteps, StepsOfNormal, Zenon

\* Normalising the front part of a name first makes no difference.
LEMMA NormalizeConcat ==
    ASSUME NEW p \in Seq(Component), NEW q \in Seq(Component)
    PROVE  /\ normalize(p) = Invalid => normalize(p \o q) = Invalid
           /\ \A v \in Normal : normalize(p) = Ok(v) => normalize(p \o q) = normalize(v \o q)
<1> DEFINE m == Len(p)  d == Len(q)
<1>0. /\ m \in Nat /\ d \in Nat /\ p \o q \in Seq(Component) /\ Len(p \o q) = m + d
      /\ \A i \in 1..m : (p \o q)[i] = p[i]
      /\ \A i \in 1..d : (p \o q)[m + i] = q[i]
  BY ConcatProperties
<1>1. PICK a : Steps(a, p \o q) /\ normalize(p \o q) = a[m + d]
  BY <1>0, NormalizeSteps, ZenonT(30)
<1>2. PICK b : Steps(b, p) /\ normalize(p) = b[m]
  BY NormalizeSteps
<1> HIDE DEF m, d
<1>3. a[m] = normalize(p)
  <2>1. a[0 + m] = b[0 + m]
    <3>1. /\ 0 \in Nat /\ m + d \in Nat /\ a[0] = b[0] /\ 0 + m <= m + d /\ 0 + m <= m
          /\ \A i \in 1..m : (p \o q)[0 + i] = p[0 + i]
      BY <1>0, <1>1, <1>2 DEF Steps
    <3>2. Len(p) = m
      BY DEF m
    <3>3. Agree(a, p \o q, 0, b, p, 0, m)
      BY StepsAgree, Zenon
    <3> QED
      BY <1>0, <1>1, <1>2, <3>1, <3>2, <3>3, Zenon DEF Agree
  <2>2. 0 + m = m
    BY <1>0
  <2> QED
    BY <1>2, <2>1, <2>2, Zenon
<1>4. ASSUME normalize(p) = Invalid PROVE normalize(p \o q) = Invalid
  <2> DEFINE S == {k \in Nat : k <= d => a[m + k] = Invalid}
  <2>1. 0 \in S
    BY <1>0, <1>3, <1>4
  <2>2. ASSUME NEW k \in Nat, k \in S PROVE k + 1 \in S
    <3> SUFFICES ASSUME k + 1 <= d PROVE a[m + (k + 1)] = Invalid
      OBVIOUS
    <3>1. a[m + k] = Invalid
      BY <1>0, <2>2
    <3>2. m + (k + 1) \in 1..(m + d) /\ (m + (k + 1)) - 1 = m + k
      BY <1>0
    <3>3. a[m + (k + 1)] = NormalizeStep(a[m + k], (p \o q)[m + (k + 1)])
      BY <1>0, <1>1, <3>2, Zenon DEF Steps
    <3> QED
      BY <3>1, <3>3, NormalizeTurn, Zenon DEF Invalid
  <2> HIDE DEF S
  <2>3. d \in S /\ d <= d
    <3>1. Nat \subseteq S
      BY <2>1, <2>2, SetInduction
    <3> QED
      BY <1>0, <3>1
  <2> QED
    BY <1>1, <2>3, Zenon DEF S
<1>5. ASSUME NEW v \in Normal, normalize(p) = Ok(v) PROVE normalize(p \o q) = normalize(v \o q)
  <2> DEFINE n == Len(v)
  <2>0. /\ v \in Seq(Component) /\ normalize(v) = Ok(v)
    BY NormalIsName
  <2>1. /\ n \in Nat /\ v \o q \in Seq(Component) /\ Len(v \o q) = n + Len(q)
        /\ \A i \in 1..n : (v \o q)[i] = v[i]
        /\ \A i \in 1..Len(q) : (v \o q)[n + i] = q[i]
    BY <2>0, ConcatProperties
  <2>2. PICK c : Steps(c, v \o q) /\ normalize(v \o q) = c[n + d]
    BY <2>1, NormalizeSteps, Zenon DEF d
  <2>3. PICK e : Steps(e, v) /\ normalize(v) = e[n]
    BY <2>0, NormalizeSteps
  <2>4. Len(v) = n /\ Len(q) = d
    BY DEF d
  <2> HIDE DEF n
  <2>5. c[n] = Ok(v)
    <3>1. c[0 + n] = e[0 + n]
      <4>1. /\ 0 \in Nat /\ n + d \in Nat /\ c[0] = e[0] /\ 0 + n <= n + d /\ 0 + n <= n
            /\ \A i \in 1..n : (v \o q)[0 + i] = v[0 + i]
        BY <1>0, <2>1, <2>2, <2>3 DEF Steps
      <4>2. Agree(c, v \o q, 0, e, v, 0, n)
        BY StepsAgree, Zenon
      <4> QED
        BY <1>0, <2>1, <2>2, <2>3, <2>4, <4>1, <4>2, Zenon DEF Agree
    <3>2. 0 + n = n
      BY <2>1
    <3> QED
      BY <2>0, <2>3, <3>1, <3>2, Zenon
  <2>6. a[m + d] = c[n + d]
    <3>1. m + d <= m + d /\ n + d <= n + d /\ m + d \in Nat /\ n + d \in Nat
      BY <1>0, <2>1
    <3>2. \A i \in 1..d : (p \o q)[m + i] = (v \o q)[n + i]
      BY <1>0, <2>1, <2>4, Zenon
    <3>3. Agree(a, p \o q, m, c, v \o q, n, d)
      BY StepsAgree, Zenon
    <3>4. a[m] = c[n]
      BY <1>3, <1>5, <2>5, Zenon
    <3> QED
      BY <1>0, <1>1, <2>1, <2>2, <2>4, <3>1, <3>2, <3>3, <3>4, Zenon DEF Agree
  <2> QED
    BY <1>1, <2>2, <2>6, Zenon
<1> QED
  BY <1>4, <1>5, Zenon

\* One more component is one more turn.
LEMMA NormalizeAppend ==
    ASSUME NEW p \in Seq(Component), NEW c \in Component
    PROVE  normalize(p \o <<c>>) = NormalizeStep(normalize(p), c)
<1> DEFINE t == p \o <<c>>  n == Len(p)
<1>0. /\ n \in Nat /\ t \in Seq(Component) /\ Len(t) = n + 1
      /\ (\A i \in 1..n : t[i] = p[i]) /\ t[n + 1] = c
  OBVIOUS
<1>1. PICK a : Steps(a, t) /\ normalize(t) = a[n + 1]
  BY <1>0, NormalizeSteps, Zenon
<1>2. PICK b : Steps(b, p) /\ normalize(p) = b[n]
  BY NormalizeSteps
<1>3. Len(p) = n
  OBVIOUS
<1> HIDE DEF t, n
<1>4. a[n] = normalize(p)
  <2>1. /\ 0 \in Nat /\ n + 1 \in Nat /\ a[0] = b[0] /\ 0 + n <= n + 1 /\ 0 + n <= n /\ 0 + n = n
        /\ \A i \in 1..n : t[0 + i] = p[0 + i]
    BY <1>0, <1>1, <1>2 DEF Steps
  <2>2. Agree(a, t, 0, b, p, 0, n)
    BY StepsAgree, Zenon
  <2>3. a[0 + n] = b[0 + n]
    BY <1>0, <1>1, <1>2, <1>3, <2>1, <2>2, Zenon DEF Agree
  <2> QED
    BY <1>2, <2>1, <2>3, Zenon
<1>5. n + 1 \in 1..(n + 1) /\ (n + 1) - 1 = n
  BY <1>0
<1>6. a[n + 1] = NormalizeStep(a[n], t[n + 1])
  BY <1>0, <1>1, <1>5, Zenon DEF Steps
<1> QED
  BY <1>0, <1>1, <1>4, <1>6, Zenon DEF t

----------------------------------------------------------------------------
\* Keys are names, and they are normal.
LEMMA KeysAreNormal ==
    ASSUME NEW v \in AbsoluteNormal
    PROVE  /\ v \in Normal /\ v \in WellFormed /\ is_absolute(v) /\ v # <<>> /\ Len(v) \in Nat /\ Len(v) > 0
           /\ normalize(v) = Ok(v)
<1>1. v \in Seq(Segs \cup {Root}) /\ Len(v) > 0 /\ Len(v) \in Nat /\ v[1] = Root /\ \A i \in 2..Len(v) : v[i] \in Segs
  BY DEF AbsoluteNormal
<1>2. v \in Normal /\ v \in Seq(Component) /\ normalize(v) = Ok(v)
  BY <1>1, NormalIsName DEF Normal
<1>3. \A i \in 2..Len(v) : v[i] # Root
  BY <1>1, ComponentFacts
<1>4. v # <<>>
  BY <1>1
<1> QED
  BY <1>1, <1>2, <1>3, <1>4 DEF WellFormed, is_absolute

IsKey(outcome) == outcome = Invalid \/ \E v \in AbsoluteNormal : outcome = Ok(v)

\* Further components leave the root character where it is.
LEMMA TurnKeepsKey ==
    ASSUME NEW r, IsKey(r), NEW c \in Component, c # Root
    PROVE  IsKey(NormalizeStep(r, c))
<1>1. CASE r = Invalid
  BY <1>1, NormalizeTurn, Zenon DEF IsKey, Invalid
<1>2. ASSUME NEW v \in AbsoluteNormal, r = Ok(v), c # Prefix PROVE IsKey(NormalizeStep(r, c))
  <2>1. c \in Segs
    BY <1>2, ComponentFacts
  <2>2. v \in Seq(Segs \cup {Root}) /\ Len(v) > 0 /\ Len(v) \in Nat /\ v[1] = Root /\ \A i \in 2..Len(v) : v[i] \in Segs
    BY <1>2 DEF AbsoluteNormal
  <2>3. /\ Append(v, c) \in Seq(Segs \cup {Root}) /\ Len(Append(v, c)) = Len(v) + 1
        /\ (\A i \in 1..Len(v) : Append(v, c)[i] = v[i]) /\ Append(v, c)[Len(v) + 1] = c
    BY <2>1, <2>2, AppendProperties
  <2> DEFINE t == Append(v, c)
  <2> HIDE DEF t
  <2>4. t \in AbsoluteNormal
    <3>1. /\ t \in Seq(Segs \cup {Root}) /\ Len(t) = Len(v) + 1
          /\ (\A i \in 1..Len(v) : t[i] = v[i]) /\ t[Len(v) + 1] = c
      BY <2>3, Zenon DEF t
    <3> QED
      BY <2>1, <2>2, <3>1 DEF AbsoluteNormal
  <2> QED
    BY <1>2, <2>4, NormalizeTurn, Zenon DEF IsKey, t
<1>3. ASSUME NEW v \in AbsoluteNormal, r = Ok(v), c = Prefix PROVE IsKey(NormalizeStep(r, c))
  <2>1. v \in Seq(Segs \cup {Root}) /\ Len(v) > 0 /\ Len(v) \in Nat /\ v[1] = Root /\ \A i \in 2..Len(v) : v[i] \in Segs
    BY <1>3 DEF AbsoluteNormal
  <2>2. ASSUME LastOf(v) \in Segs PROVE AllButLast(v) \in AbsoluteNormal
    <3>1. Len(v) > 1
      BY <2>1, <2>2, ComponentFacts DEF LastOf
    <3>2. /\ AllButLast(v) \in Seq(Segs \cup {Root}) /\ Len(AllButLast(v)) = Len(v) - 1
          /\ \A i \in 1..(Len(v) - 1) : AllButLast(v)[i] = v[i]
      BY <2>1, <3>1 DEF AllButLast
    <3> QED
      BY <2>1, <3>1, <3>2 DEF AbsoluteNormal
  <2> QED
    BY <1>3, <2>2, NormalizeTurn, Zenon DEF IsKey
<1> QED
  BY <1>1, <1>2, <1>3, Zenon DEF IsKey

\* An absolute name is normalised to a key, or not at all.
LEMMA NormalizeIsKey ==
    ASSUME NEW p \in WellFormed, is_absolute(p)
    PROVE  IsKey(normalize(p))
<1>0. p \in Seq(Component) /\ Len(p) \in Nat /\ Len(p) > 0 /\ p[1] = Root /\ \A i \in 2..Len(p) : p[i] # Root
  BY DEF WellFormed, is_absolute
<1>1. PICK a : Steps(a, p) /\ normalize(p) = a[Len(p)]
  BY <1>0, NormalizeSteps
<1> DEFINE S == {k \in Nat : k + 1 <= Len(p) => IsKey(a[k + 1])}
<1>2. 0 \in S
  <2>1. a[1] = NormalizeStep(Ok(<<>>), Root)
    <3>1. 1 \in 1..Len(p) /\ 1 - 1 = 0
      BY <1>0
    <3> QED
      BY <1>0, <1>1, <3>1, Zenon DEF Steps
  <2>2. a[1] = Ok(Append(<<>>, Root))
    BY <2>1, NormalizeTurn, ComponentFacts, Zenon
  <2>3. Append(<<>>, Root) \in AbsoluteNormal
    BY DEF AbsoluteNormal
  <2> QED
    BY <2>2, <2>3 DEF IsKey
<1>3. ASSUME NEW k \in Nat, k \in S PROVE k + 1 \in S
  <2> SUFFICES ASSUME (k + 1) + 1 <= Len(p) PROVE IsKey(a[(k + 1) + 1])
    OBVIOUS
  <2>1. IsKey(a[k + 1])
    BY <1>0, <1>3
  <2>2. (k + 1) + 1 \in 2..Len(p) /\ (k + 1) + 1 \in 1..Len(p) /\ ((k + 1) + 1) - 1 = k + 1
    BY <1>0
  <2>3. p[(k + 1) + 1] \in Component /\ p[(k + 1) + 1] # Root
    BY <1>0, <2>2, ElementOfSeq
  <2>4. a[(k + 1) + 1] = NormalizeStep(a[k + 1], p[(k + 1) + 1])
    BY <1>1, <2>2, Zenon DEF Steps
  <2> QED
    BY <2>1, <2>3, <2>4, TurnKeepsKey, Zenon
<1> HIDE DEF S
<1>4. Nat \subseteq S
  BY <1>2, <1>3, SetInduction
<1>5. Len(p) - 1 \in S /\ (Len(p) - 1) + 1 = Len(p) /\ Len(p) <= Len(p)
  BY <1>0, <1>4
<1>6. IsKey(a[(Len(p) - 1) + 1])
  BY <1>5, Zenon DEF S
<1> QED
  BY <1>1, <1>5, <1>6, Zenon

\* What `resolve` returns for a relative name is a key, and for an absolute
\* name the name itself.
LEMMA ResolveIsAbsolute ==
    ASSUME NEW p \in WellFormed, NEW s \in WellFormed, is_absolute(s)
    PROVE  /\ ~is_absolute(p) => IsKey(resolve(p, s)) /\ resolve(p, s) = normalize(s \o p)
           /\ is_absolute(p) => resolve(p, s) = Ok(p)
           /\ resolve(p, s) = Invalid \/ \E v \in WellFormed : is_absolute(v) /\ resolve(p, s) = Ok(v)
<1>1. CASE is_absolute(p)
  BY <1>1, Zenon DEF resolve
<1>2. CASE ~is_absolute(p)
  <2>1. resolve(p, s) = normalize(s \o p)
    BY <1>2 DEF resolve
  <2>2. /\ p \in Seq(Component) /\ Len(p) \in Nat /\ Len(p) > 0 /\ \A i \in 1..Len(p) : p[i] # Root
        /\ s \in Seq(Component) /\ Len(s) \in Nat /\ Len(s) > 0 /\ s[1] = Root /\ \A i \in 2..Len(s) : s[i] # Root
    BY <1>2 DEF WellFormed, is_absolute
  <2> DEFINE t == s \o p
  <2>3. /\ t \in Seq(Component) /\ Len(t) = Len(s) + Len(p)
        /\ \A i \in 1..Len(t) : t[i] = IF i <= Len(s) THEN s[i] ELSE p[i - Len(s)]
    BY <2>2
  <2> HIDE DEF t
  <2>4. t \in WellFormed /\ is_absolute(t)
    <3>1. t # <<>> /\ t[1] = Root
      BY <2>2, <2>3
    <3>2. ASSUME NEW i \in 2..Len(t) PROVE t[i] # Root
      <4>1. CASE i <= Len(s)
        BY <2>2, <2>3, <4>1
      <4>2. CASE ~(i <= Len(s))
        <5>1. i - Len(s) \in 1..Len(p)
          BY <2>2, <2>3, <4>2
        <5> QED
          BY <2>2, <2>3, <4>2, <5>1
      <4> QED
        BY <4>1, <4>2
    <3> QED
      BY <2>3, <3>1, <3>2 DEF WellFormed, is_absolute
  <2>5. IsKey(normalize(t))
    BY <2>4, NormalizeIsKey
  <2> QED
    BY <1>2, <2>1, <2>5, KeysAreNormal, Zenon DEF IsKey, t
<1> QED
  BY <1>1, <1>2

----------------------------------------------------------------------------
(***************************************************************************)
(* What `as_string` prints, and what `from_str` makes of it.                *)
(***************************************************************************)

\* Only the first component is the root.
RootFirst(p) == p \in Seq(Component) /\ \A i \in 1..Len(p) : p[i] = Root => i = 1

\* One turn of either fold: printing a component, or reading a token.
Token == Component \cup {Dot}

Turn(printing, s, c) ==
    IF printing THEN IF c \in Segs THEN s \o <<c, Dot>> ELSE Append(s, c)
    ELSE IF c = Dot THEN s ELSE Append(s, c)

TurnFold(printing, p) == FoldInOrder(LAMBDA s, c : Turn(printing, s, c), <<>>, p)

Turns(printing, a, p) == a[0] = <<>> /\ \A k \in 1..Len(p) : a[k] = Turn(printing, a[k - 1], p[k])

LEMMA TurnFoldSteps ==
    ASSUME NEW printing, NEW p, NEW n \in Nat, DOMAIN p = 1..n, Len(p) = n
    PROVE  \E a : TurnFold(printing, p) = a[n] /\ Turns(printing, a, p)
<1> DEFINE D(it, k) == [s \in SUBSET (1..k) |-> IF s = {} THEN <<>>
                                                ELSE Turn(printing, it[s \ {Max(s)}], p[Max(s)])]
           Defined == {k \in Nat : \E it : it = D(it, k)}
<1>1. 0 \in Defined
  <2> DEFINE it == [s \in SUBSET (1..0) |-> <<>>]
  <2>1. \A s \in SUBSET (1..0) : s = {}
    OBVIOUS
  <2>2. it = D(it, 0)
    BY <2>1, Zenon
  <2> QED
    BY <2>2, Zenon
<1>2. ASSUME NEW k \in Nat, k \in Defined PROVE k + 1 \in Defined
  <2>1. PICK g : g = D(g, k)
    BY <1>2, Zenon
  <2> DEFINE it == [s \in SUBSET (1..(k + 1)) |-> IF k + 1 \in s THEN Turn(printing, g[s \ {k + 1}], p[k + 1]) ELSE g[s]]
  <2>2. /\ \A s \in SUBSET (1..(k + 1)) : /\ k + 1 \in s => Max(s) = k + 1 /\ s # {}
                                          /\ k + 1 \notin s => s \in SUBSET (1..k)
                                          /\ s \ {k + 1} \in SUBSET (1..k)
        /\ \A s \in SUBSET (1..k) : k + 1 \notin s /\ s \in SUBSET (1..(k + 1)) /\ \A x : s \ {x} \in SUBSET (1..k)
    BY SubsetsUpTo, Zenon
  <2>3. \A s \in SUBSET (1..k) : it[s] = g[s] /\ s \in SUBSET (1..(k + 1)) /\ \A x : s \ {x} \in SUBSET (1..k)
    BY <2>2, Zenon
  <2>4. \A s \in SUBSET (1..k) : g[s] = IF s = {} THEN <<>> ELSE Turn(printing, g[s \ {Max(s)}], p[Max(s)])
    BY <2>1, Zenon
  <2>5. ASSUME NEW s \in SUBSET (1..(k + 1))
        PROVE  it[s] = IF s = {} THEN <<>> ELSE Turn(printing, it[s \ {Max(s)}], p[Max(s)])
    <3>1. CASE k + 1 \in s
      BY <2>2, <2>3, <3>1, Zenon
    <3>2. CASE k + 1 \notin s
      BY <2>2, <2>3, <2>4, <3>2, Zenon
    <3> QED
      BY <3>1, <3>2
  <2>6. it = [s \in SUBSET (1..(k + 1)) |-> it[s]]
    BY Zenon
  <2> HIDE DEF it
  <2>7. it = D(it, k + 1)
    BY <2>5, <2>6, Zenon
  <2>8. k + 1 \in Nat
    OBVIOUS
  <2> QED
    BY <2>7, <2>8, Zenon
<1> HIDE DEF Defined
<1>3. n \in Defined
  BY <1>1, <1>2, SetInduction
<1> USE DEF Defined
<1>4. \E it : it = D(it, n)
  BY <1>3, Zenon
<1> DEFINE f == CHOOSE it : it = D(it, n)
<1>5. TurnFold(printing, p) = f[1..n]
  BY Zenon DEF TurnFold, FoldInOrder, MapThenFoldSet
<1>6. f = D(f, n)
  BY <1>4, Zenon
<1> HIDE DEF f
<1>7. \A s \in SUBSET (1..n) : f[s] = IF s = {} THEN <<>> ELSE Turn(printing, f[s \ {Max(s)}], p[Max(s)])
  BY <1>6, Zenon
<1> DEFINE a == [k \in 0..n |-> f[1..k]]
<1>8. a[n] = f[1..n] /\ a[0] = <<>>
  <2>1. n \in 0..n /\ 0 \in 0..n /\ 1..0 = {} /\ {} \in SUBSET (1..n)
    OBVIOUS
  <2> QED
    BY <1>7, <2>1, Zenon
<1>9. ASSUME NEW k \in 1..n PROVE a[k] = Turn(printing, a[k - 1], p[k])
  <2>1. 1..k \in SUBSET (1..n) /\ 1..k # {} /\ (1..k) \ {k} = 1..(k - 1)
    OBVIOUS
  <2>2. Max(1..k) = k
    BY MaxOfInterval
  <2>3. f[1..k] = Turn(printing, f[1..(k - 1)], p[k])
    BY <1>7, <2>1, <2>2, Zenon
  <2>4. k \in 0..n /\ k - 1 \in 0..n
    OBVIOUS
  <2> QED
    BY <2>3, <2>4, Zenon
<1> HIDE DEF a
<1> QED
  BY <1>5, <1>8, <1>9, Zenon DEF Turns

\* Reading one more token.
LEMMA ReadNext ==
    /\ TurnFold(FALSE, <<>>) = <<>>
    /\ \A s \in Seq(Token), c \in Token :
          TurnFold(FALSE, Append(s, c)) = IF c = Dot THEN TurnFold(FALSE, s) ELSE Append(TurnFold(FALSE, s), c)
<1>1. TurnFold(FALSE, <<>>) = <<>>
  <2>1. 0 \in Nat /\ DOMAIN <<>> = 1..0 /\ Len(<<>>) = 0
    OBVIOUS
  <2>2. PICK a : TurnFold(FALSE, <<>>) = a[0] /\ Turns(FALSE, a, <<>>)
    BY <2>1, TurnFoldSteps, Zenon
  <2> QED
    BY <2>2, Zenon DEF Turns
<1>2. ASSUME NEW s \in Seq(Token), NEW c \in Token
      PROVE  TurnFold(FALSE, Append(s, c)) = IF c = Dot THEN TurnFold(FALSE, s) ELSE Append(TurnFold(FALSE, s), c)
  <2> DEFINE n == Len(s)
             t == Append(s, c)
  <2>1. /\ n \in Nat /\ DOMAIN s = 1..n /\ n + 1 \in Nat /\ DOMAIN t = 1..(n + 1) /\ Len(t) = n + 1
        /\ t[n + 1] = c /\ \A k \in 1..n : t[k] = s[k]
    OBVIOUS
  <2> HIDE DEF t
  <2>2. PICK a : TurnFold(FALSE, s) = a[n] /\ Turns(FALSE, a, s)
    BY <2>1, TurnFoldSteps, Zenon
  <2>3. PICK b : TurnFold(FALSE, t) = b[n + 1] /\ Turns(FALSE, b, t)
    BY <2>1, TurnFoldSteps, Zenon
  <2> HIDE DEF n
  <2> DEFINE S == {k \in Nat : k <= n => b[k] = a[k]}
  <2>4. 0 \in S
    BY <2>2, <2>3 DEF Turns
  <2>5. ASSUME NEW k \in Nat, k \in S PROVE k + 1 \in S
    <3> SUFFICES ASSUME k + 1 <= n PROVE b[k + 1] = a[k + 1]
      OBVIOUS
    <3>1. k + 1 \in 1..n /\ k + 1 \in 1..(n + 1) /\ (k + 1) - 1 = k /\ b[k] = a[k]
      BY <2>1, <2>5
    <3> QED
      BY <2>1, <2>2, <2>3, <3>1, Zenon DEF Turns, n
  <2> HIDE DEF S
  <2>6. n \in S
    BY <2>1, <2>4, <2>5, SetInduction
  <2>7. b[n] = a[n]
    BY <2>1, <2>6 DEF S
  <2>8. n + 1 \in 1..(n + 1) /\ (n + 1) - 1 = n
    BY <2>1
  <2>9. b[n + 1] = Turn(FALSE, a[n], c)
    BY <2>1, <2>3, <2>7, <2>8, Zenon DEF Turns
  <2> QED
    BY <2>2, <2>3, <2>9, Zenon DEF Turn, t
<1> QED
  BY <1>1, <1>2, Zenon

\* s is the first k components of p, printed, with a dot after every segment.
Printed(p, k, s) ==
    /\ s \in Seq(Token)
    /\ s = <<>> <=> k = 0
    /\ \A i \in 1..Len(s) : s[i] = Root => i = 1
    /\ \A i \in 1..Len(s) : s[i] \in Segs => i < Len(s) /\ s[i + 1] = Dot
    /\ \A i \in 1..Len(s) : s[i] = Dot => i > 1 /\ s[i - 1] \in Segs
    /\ k > 0 => s[Len(s)] = IF p[k] \in Segs THEN Dot ELSE p[k]
    /\ TurnFold(FALSE, s) = SubSeq(p, 1, k)

LEMMA TokenFacts ==
    /\ Dot \in Token /\ Component \subseteq Token
    /\ Dot \notin Component /\ Root \notin Segs /\ Prefix \notin Segs /\ Root # Prefix /\ Dot \notin Segs
    /\ Segs \subseteq Component
BY SegsAssumption DEF Token, Component, Root, Prefix, Dot

LEMMA PrintedNext ==
    ASSUME NEW p, RootFirst(p), NEW k \in Nat, k + 1 <= Len(p), NEW s, Printed(p, k, s)
    PROVE  Printed(p, k + 1, Turn(TRUE, s, p[k + 1]))
<1> DEFINE c == p[k + 1]
           n == Len(s)
<1>1. /\ s \in Seq(Token) /\ n \in Nat /\ (s = <<>> <=> k = 0) /\ TurnFold(FALSE, s) = SubSeq(p, 1, k)
      /\ \A i \in 1..n : s[i] = Root => i = 1
      /\ \A i \in 1..n : s[i] \in Segs => i < n /\ s[i + 1] = Dot
      /\ \A i \in 1..n : s[i] = Dot => i > 1 /\ s[i - 1] \in Segs
  <2>1. s \in Seq(Token)
    BY Zenon DEF Printed
  <2>2. n \in Nat
    BY <2>1
  <2> QED
    BY <2>2, Zenon DEF Printed
<1>2. c \in Component /\ (c = Root => k = 0) /\ p \in Seq(Component) /\ k + 1 \in 1..Len(p)
  BY DEF RootFirst
<1>3. c \in Token /\ c # Dot /\ Dot \in Token /\ Root # Dot
  BY <1>2, TokenFacts DEF Component
<1>4. SubSeq(p, 1, k + 1) = Append(SubSeq(p, 1, k), c)
  BY <1>2, SubSeqRecursiveSecond
<1>5. k = 0 => n = 0
  BY <1>1
<1> DEFINE t == Append(s, c)
<1>6. t \in Seq(Token) /\ Len(t) = n + 1 /\ t[n + 1] = c /\ t # <<>> /\ \A i \in 1..n : t[i] = s[i]
  BY <1>1, <1>3
<1>7. TurnFold(FALSE, t) = SubSeq(p, 1, k + 1)
  BY <1>1, <1>3, <1>4, ReadNext, Zenon
<1> HIDE DEF t, c
<1>8. CASE c \notin Segs
  <2>1. \A i \in 1..(n + 1) : t[i] = Root => i = 1
    BY <1>1, <1>2, <1>5, <1>6
  <2>2. \A i \in 1..(n + 1) : t[i] \in Segs => i < n + 1 /\ t[i + 1] = Dot
    BY <1>1, <1>6, <1>8
  <2>3. \A i \in 1..(n + 1) : t[i] = Dot => i > 1 /\ t[i - 1] \in Segs
    BY <1>1, <1>3, <1>6
  <2>4. Turn(TRUE, s, c) = t
    BY <1>8, Zenon DEF Turn, t
  <2>5. k + 1 # 0
    OBVIOUS
  <2> QED
    BY <1>6, <1>7, <1>8, <2>1, <2>2, <2>3, <2>4, <2>5, Zenon DEF Printed, c
<1>9. CASE c \in Segs
  <2> DEFINE u == s \o <<c, Dot>>
  <2>1. u \in Seq(Token) /\ Len(u) = n + 2 /\ u[n + 1] = c /\ u[n + 2] = Dot /\ u # <<>> /\ \A i \in 1..n : u[i] = s[i]
    BY <1>1, <1>3
  <2>2. u = Append(t, Dot)
    BY <1>1, <1>3 DEF t
  <2> HIDE DEF u
  <2>3. TurnFold(FALSE, u) = SubSeq(p, 1, k + 1)
    BY <1>3, <1>6, <1>7, <2>2, ReadNext, Zenon
  <2>4. \A i \in 1..(n + 2) : i \in 1..n \/ i = n + 1 \/ i = n + 2
    BY <1>1
  <2>5. \A i \in 1..(n + 2) : u[i] = Root => i = 1
    BY <1>1, <1>3, <1>9, <2>1, <2>4, TokenFacts
  <2>6. \A i \in 1..(n + 2) : u[i] \in Segs => i < n + 2 /\ u[i + 1] = Dot
    BY <1>1, <2>1, <2>4, TokenFacts
  <2>7. \A i \in 1..(n + 2) : u[i] = Dot => i > 1 /\ u[i - 1] \in Segs
    <3> SUFFICES ASSUME NEW i \in 1..(n + 2), u[i] = Dot PROVE i > 1 /\ u[i - 1] \in Segs
      BY Zenon
    <3>1. CASE i \in 1..n
      <4>1. i > 1 /\ s[i - 1] \in Segs
        BY <1>1, <2>1, <3>1, Zenon
      <4>2. i - 1 \in 1..n
        BY <1>1, <3>1, <4>1
      <4> QED
        BY <2>1, <4>1, <4>2, Zenon
    <3>2. CASE i = n + 1
      BY <1>3, <2>1, <3>2, Zenon
    <3>3. CASE i = n + 2
      <4>1. i > 1 /\ i - 1 = n + 1
        BY <1>1, <3>3
      <4> QED
        BY <1>9, <2>1, <4>1, Zenon
    <3> QED
      BY <2>4, <3>1, <3>2, <3>3, Zenon
  <2>8. Turn(TRUE, s, c) = u
    BY <1>9, Zenon DEF Turn, u
  <2>9. k + 1 # 0
    OBVIOUS
  <2> QED
    BY <1>9, <2>1, <2>3, <2>5, <2>6, <2>7, <2>8, <2>9, Zenon DEF Printed, c
<1> QED
  BY <1>8, <1>9, Zenon DEF c

LEMMA PrintedAll ==
    ASSUME NEW p, RootFirst(p)
    PROVE  Printed(p, Len(p), TurnFold(TRUE, p))
<1>0. p \in Seq(Component) /\ Len(p) \in Nat /\ DOMAIN p = 1..Len(p)
  BY DEF RootFirst
<1>1. PICK a : TurnFold(TRUE, p) = a[Len(p)] /\ Turns(TRUE, a, p)
  BY <1>0, TurnFoldSteps, Zenon
<1> DEFINE S == {k \in Nat : k <= Len(p) => Printed(p, k, a[k])}
<1>2. 0 \in S
  <2>1. <<>> \in Seq(Token) /\ Len(<<>>) = 0 /\ 1..0 = {} /\ ~(0 > 0)
    OBVIOUS
  <2>2. SubSeq(p, 1, 0) = <<>>
    BY <1>0, SubSeqEmpty
  <2>3. Printed(p, 0, <<>>)
    BY <2>1, <2>2, ReadNext, Zenon DEF Printed
  <2> QED
    BY <1>1, <2>3 DEF Turns
<1>3. ASSUME NEW k \in Nat, k \in S PROVE k + 1 \in S
  <2> SUFFICES ASSUME k + 1 <= Len(p) PROVE Printed(p, k + 1, a[k + 1])
    OBVIOUS
  <2>1. Printed(p, k, a[k]) /\ k + 1 \in 1..Len(p) /\ (k + 1) - 1 = k
    BY <1>0, <1>3
  <2>2. a[k + 1] = Turn(TRUE, a[k], p[k + 1])
    BY <1>1, <2>1, Zenon DEF Turns
  <2> QED
    BY <2>1, <2>2, PrintedNext, Zenon
<1> HIDE DEF S
<1>4. Len(p) \in S
  BY <1>0, <1>2, <1>3, SetInduction
<1>5. Len(p) <= Len(p)
  BY <1>0
<1>6. Printed(p, Len(p), a[Len(p)])
  BY <1>4, <1>5, Zenon DEF S
<1> QED
  BY <1>1, <1>6, Zenon

\* The two folds of the code are the ones above.
LEMMA FoldsAreTurns ==
    ASSUME NEW p
    PROVE  /\ FoldInOrder(LAMBDA s, c : IF c \in Segs THEN s \o <<c, Dot>> ELSE Append(s, c), <<>>, p) = TurnFold(TRUE, p)
           /\ FoldInOrder(LAMBDA s, c : IF c = Dot THEN s ELSE Append(s, c), <<>>, p) = TurnFold(FALSE, p)
<1> DEFINE T(s, c) == IF c \in Segs THEN s \o <<c, Dot>> ELSE Append(s, c)
           R(s, c) == IF c = Dot THEN s ELSE Append(s, c)
<1>1. \A s, c : T(s, c) = Turn(TRUE, s, c) /\ R(s, c) = Turn(FALSE, s, c)
  BY Zenon DEF Turn
<1> HIDE DEF T, R
<1>2. FoldInOrder(T, <<>>, p) = TurnFold(TRUE, p)
  BY <1>1, Zenon DEF TurnFold, FoldInOrder, MapThenFoldSet
<1>3. FoldInOrder(R, <<>>, p) = TurnFold(FALSE, p)
  BY <1>1, Zenon DEF TurnFold, FoldInOrder, MapThenFoldSet
<1>4. FoldInOrder(LAMBDA s, c : IF c \in Segs THEN s \o <<c, Dot>> ELSE Append(s, c), <<>>, p) = FoldInOrder(T, <<>>, p)
  BY Zenon DEF FoldInOrder, MapThenFoldSet, T
<1>5. FoldInOrder(LAMBDA s, c : IF c = Dot THEN s ELSE Append(s, c), <<>>, p) = FoldInOrder(R, <<>>, p)
  BY Zenon DEF FoldInOrder, MapThenFoldSet, R
<1> QED
  BY <1>2, <1>3, <1>4, <1>5, Zenon

\* Printing a name and reading what was printed.
LEMMA PrintAndRead ==
    ASSUME NEW p, RootFirst(p), p # <<>>
    PROVE  from_str(as_string(p)) = IF p[Len(p)] = Prefix THEN Err("InvalidNameSeg") ELSE Ok(p)
<1> DEFINE n == Len(p)
           s == TurnFold(TRUE, p)
           z == as_string(p)
           absolute == z # <<>> /\ z[1] = Root
           rest == IF absolute THEN Tail(z) ELSE z
           Parted == \A i \in 1..Len(rest) :
                        /\ rest[i] # Root
                        /\ i = 1 => rest[i] # Dot
                        /\ rest[i] \in Segs <=> (i = Len(rest) \/ rest[i + 1] = Dot)
<1>1. p \in Seq(Component) /\ n \in Nat /\ n > 0 /\ p[n] \in Component
  BY DEF RootFirst
<1>2. z = IF LastOf(s) = Dot THEN AllButLast(s) ELSE s
  <2> DEFINE X == FoldInOrder(LAMBDA name_, c : IF c \in Segs THEN name_ \o <<c, Dot>> ELSE Append(name_, c), <<>>, p)
  <2>1. X = s
    BY FoldsAreTurns, Zenon
  <2>2. z = IF LastOf(X) = Dot THEN AllButLast(X) ELSE X
    BY Zenon DEF as_string
  <2> HIDE DEF X, s
  <2> QED
    BY <2>1, <2>2, Zenon
<1>3. from_str(z) = CASE z = <<>> -> Err("EmptyNamesAreInvalid")
                      [] z # <<>> /\ Parted -> Ok(TurnFold(FALSE, z))
                      [] OTHER -> Err("InvalidNameSeg")
  <2>1. FoldInOrder(LAMBDA name_, c : IF c = Dot THEN name_ ELSE Append(name_, c), <<>>, z) = TurnFold(FALSE, z)
    BY FoldsAreTurns, Zenon DEF FoldInOrder, MapThenFoldSet
  <2> HIDE DEF z
  <2> QED
    BY <2>1, Zenon DEF from_str, FoldInOrder, MapThenFoldSet
<1>4. Printed(p, n, s)
  BY PrintedAll, Zenon
<1>5. SubSeq(p, 1, n) = p
  BY <1>1, SubSeqFull
<1>6. s \in Seq(Token) /\ s # <<>> /\ Len(s) \in Nat /\ Len(s) > 0 /\ LastOf(s) = s[Len(s)]
  <2>1. s \in Seq(Token) /\ s # <<>>
    <3>1. n # 0
      BY <1>1
    <3> QED
      BY <1>4, <3>1, Zenon DEF Printed
  <2> HIDE DEF s
  <2> QED
    BY <2>1 DEF LastOf
<1>7. /\ \A i \in 1..Len(s) : s[i] = Root => i = 1
      /\ \A i \in 1..Len(s) : s[i] \in Segs => i < Len(s) /\ s[i + 1] = Dot
      /\ \A i \in 1..Len(s) : s[i] = Dot => i > 1 /\ s[i - 1] \in Segs
      /\ TurnFold(FALSE, s) = p
  BY <1>4, <1>5, Zenon DEF Printed
<1>8. s[Len(s)] = IF p[n] \in Segs THEN Dot ELSE p[n]
  BY <1>1, <1>4, Zenon DEF Printed
<1> HIDE DEF s, z
<1>9. CASE p[n] \in Segs
  <2>1. z = AllButLast(s) /\ s[Len(s)] = Dot /\ Len(s) > 1 /\ Len(s) \in 1..Len(s)
    BY <1>2, <1>6, <1>7, <1>8, <1>9
  <2>2. z \in Seq(Token) /\ Len(z) = Len(s) - 1 /\ \A i \in 1..Len(z) : z[i] = s[i] /\ i \in 1..Len(s)
    BY <1>6, <2>1 DEF AllButLast
  <2>3. s = Append(z, Dot)
    BY <1>6, <2>1 DEF AllButLast
  <2>4. TurnFold(FALSE, z) = p
    BY <1>7, <2>2, <2>3, ReadNext, TokenFacts, Zenon
  <2>5. z # <<>>
    BY <2>1, <2>2
  <2>6. \A i \in 1..Len(z) : z[i] \in Segs <=> (i = Len(z) \/ z[i + 1] = Dot)
    <3> SUFFICES ASSUME NEW i \in 1..Len(z) PROVE z[i] \in Segs <=> (i = Len(z) \/ z[i + 1] = Dot)
      OBVIOUS
    <3>1. i + 1 \in 1..Len(s) /\ (i + 1) - 1 = i /\ (i = Len(z) => i + 1 = Len(s))
      BY <1>6, <2>1, <2>2
    <3>2. s[i] \in Segs <=> s[i + 1] = Dot
      BY <1>7, <2>2, <3>1, Zenon
    <3>3. i = Len(z) => s[i + 1] = Dot
      BY <2>1, <3>1, SMTT(30)
    <3>4. i # Len(z) => z[i + 1] = s[i + 1]
      BY <2>2
    <3> QED
      BY <2>2, <3>2, <3>3, <3>4, Zenon
  <2>7. \A i \in 1..Len(z) : (z[i] = Root => i = 1) /\ (z[i] = Dot => i > 1 /\ z[i - 1] \in Segs)
    <3> SUFFICES ASSUME NEW i \in 1..Len(z) PROVE (z[i] = Root => i = 1) /\ (z[i] = Dot => i > 1 /\ z[i - 1] \in Segs)
      OBVIOUS
    <3>1. z[i] = s[i] /\ i \in 1..Len(s)
      BY <2>2
    <3>2. i > 1 => i - 1 \in 1..Len(z)
      BY <2>2
    <3> QED
      BY <1>7, <2>2, <3>1, <3>2, Zenon
  <2>8. Parted
    <3>1. CASE absolute
      <4>1. /\ rest \in Seq(Token) /\ Len(rest) = Len(z) - 1 /\ Len(z) \in Nat
            /\ \A i \in 1..Len(rest) : rest[i] = z[i + 1] /\ i + 1 \in 1..Len(z)
        BY <2>2, <2>5, <3>1
      <4>2. z[1] = Root
        BY <3>1
      <4> HIDE DEF rest, absolute
      <4> SUFFICES ASSUME NEW i \in 1..Len(rest)
                   PROVE  /\ rest[i] # Root
                          /\ i = 1 => rest[i] # Dot
                          /\ rest[i] \in Segs <=> (i = Len(rest) \/ rest[i + 1] = Dot)
        OBVIOUS
      <4>3. rest[i] = z[i + 1] /\ i + 1 \in 1..Len(z) /\ i + 1 # 1
        BY <4>1
      <4>4. rest[i] # Root
        BY <2>7, <4>3, Zenon
      <4>5. i = 1 => rest[i] # Dot
        <5> SUFFICES ASSUME i = 1, rest[i] = Dot PROVE FALSE
          OBVIOUS
        <5>1. (i + 1) - 1 = 1
          OBVIOUS
        <5>2. z[1] \in Segs
          BY <2>7, <4>3, <5>1, Zenon
        <5> QED
          BY <4>2, <5>2, TokenFacts, Zenon
      <4>6. rest[i] \in Segs <=> (i + 1 = Len(z) \/ z[(i + 1) + 1] = Dot)
        BY <2>6, <4>3, Zenon
      <4>7. i + 1 = Len(z) <=> i = Len(rest)
        BY <4>1
      <4>8. i # Len(rest) => rest[i + 1] = z[(i + 1) + 1]
        BY <4>1
      <4> QED
        BY <4>4, <4>5, <4>6, <4>7, <4>8, Zenon
    <3>2. CASE ~absolute
      <4>1. rest = z /\ z[1] # Root
        BY <2>5, <3>2
      <4> HIDE DEF rest, absolute
      <4>2. \A i \in 1..Len(z) : z[i] # Root
        BY <2>7, <4>1, Zenon
      <4>3. \A i \in 1..Len(z) : i = 1 => z[i] # Dot
        BY <2>7
      <4> QED
        BY <2>6, <4>1, <4>2, <4>3, Zenon
    <3> QED
      BY <3>1, <3>2, ZenonT(30)
  <2>9. p[n] # Prefix
    BY <1>9, TokenFacts, Zenon
  <2> HIDE DEF Parted
  <2>10. from_str(z) = Ok(TurnFold(FALSE, z))
    BY <1>3, <2>5, <2>8
  <2> QED
    BY <2>4, <2>9, <2>10, Zenon DEF z
<1>10. CASE p[n] \notin Segs
  <2>1. s[Len(s)] = p[n] /\ p[n] # Dot /\ Len(s) \in 1..Len(s)
    BY <1>1, <1>6, <1>8, <1>10, TokenFacts
  <2>2. z = s
    BY <1>2, <1>6, <2>1
  <2>3. CASE p[n] = Prefix
    <3>1. rest # <<>> /\ rest \in Seq(Token) /\ Len(rest) > 0 /\ rest[Len(rest)] = Prefix
      <4>1. CASE absolute
        <5>1. Len(z) # 1
          BY <2>1, <2>2, <2>3, <4>1, TokenFacts
        <5>2. rest = Tail(z)
          BY <4>1
        <5> HIDE DEF rest
        <5>3. Len(z) \in Nat /\ Len(z) > 1 /\ z \in Seq(Token) /\ z[Len(z)] = Prefix
          <6>1. Len(s) # 1
            BY <2>2, <5>1, Zenon
          <6>2. \A l \in Nat : l > 0 /\ l # 1 => l > 1
            OBVIOUS
          <6> QED
            BY <1>6, <2>1, <2>2, <2>3, <6>1, <6>2, Zenon
        <5>4. rest \in Seq(Token) /\ Len(rest) = Len(z) - 1 /\ \A i \in 1..Len(rest) : rest[i] = z[i + 1]
          BY <5>2, <5>3
        <5>5. Len(rest) > 0 /\ Len(rest) \in 1..Len(rest) /\ Len(rest) + 1 = Len(z)
          BY <5>3, <5>4
        <5>6. rest # <<>>
          BY <5>5
        <5> QED
          BY <5>3, <5>4, <5>5, <5>6, Zenon
      <4>2. CASE ~absolute
        <5>1. rest = z
          BY <4>2
        <5> HIDE DEF rest
        <5> QED
          BY <1>6, <2>1, <2>2, <2>3, <5>1
      <4> QED
        BY <4>1, <4>2
    <3> HIDE DEF rest
    <3>2. Len(rest) \in 1..Len(rest) /\ rest[Len(rest)] \notin Segs
      BY <3>1, TokenFacts
    <3>3. ~Parted
      BY <3>2, Zenon
    <3> HIDE DEF Parted
    <3>4. from_str(z) = Err("InvalidNameSeg")
      BY <1>3, <1>6, <2>2, <3>3, SMTT(30)
    <3> QED
      BY <2>3, <3>4, Zenon DEF z
  <2>4. CASE p[n] # Prefix
    <3>1. p[n] = Root
      BY <1>1, <1>10, <2>4 DEF Component
    <3>2. Len(s) = 1 /\ s[1] = Root
      BY <1>7, <2>1, <3>1, ZenonT(30)
    <3>3. rest = Tail(s)
      BY <1>6, <2>2, <3>2
    <3> HIDE DEF rest
    <3>4. Len(rest) = 0
      BY <1>6, <3>2, <3>3
    <3>5. Parted
      BY <3>4
    <3> HIDE DEF Parted
    <3>6. from_str(z) = Ok(TurnFold(FALSE, z))
      BY <1>3, <1>6, <2>2, <3>5
    <3> QED
      BY <1>7, <2>2, <2>4, <3>6, Zenon DEF z
  <2> QED
    BY <2>3, <2>4
<1> QED
  BY <1>9, <1>10

----------------------------------------------------------------------------
\* A key is a sequence, and dropping its last segment gives a key again.
LEMMA KeyFront ==
    ASSUME NEW p \in AbsoluteNormal
    PROVE  /\ p \in Seq(Segs \cup {Root}) /\ Len(p) \in Nat
           /\ Len(p) > 1 => AllButLast(p) \in AbsoluteNormal /\ Len(AllButLast(p)) = Len(p) - 1
<1>1. p \in Seq(Segs \cup {Root}) /\ Len(p) \in Nat
  BY DEF AbsoluteNormal
<1>2. ASSUME Len(p) > 1 PROVE AllButLast(p) \in AbsoluteNormal /\ Len(AllButLast(p)) = Len(p) - 1
  <2>1. /\ AllButLast(p) \in Seq(Segs \cup {Root}) /\ Len(AllButLast(p)) = Len(p) - 1
        /\ \A i \in 1..(Len(p) - 1) : AllButLast(p)[i] = p[i]
    <3>1. \A i \in 1..(Len(p) - 1) : p[i] \in Segs \cup {Root}
      BY <1>1, ElementOfSeq
    <3> QED
      BY <1>1, <1>2, <3>1, SubSeqProperties DEF AllButLast
  <2> QED
    BY <1>1, <1>2, <2>1 DEF AbsoluteNormal
<1> QED
  BY <1>1, <1>2

\* The root is a key; it is the only one of length one.
LEMMA RootIsKey ==
    /\ root \in AbsoluteNormal
    /\ \A p \in AbsoluteNormal : Len(p) > 0 /\ (Len(p) = 1 => p = root) /\ (Len(p) > 1 => p # root)
BY DEF AbsoluteNormal, root

\* Following the root by the segments of a key gives the key back.
LEMMA KeyPrefix ==
    ASSUME NEW p \in AbsoluteNormal, NEW i \in 1..Len(p)
    PROVE  root \o SubSeq(p, 2, i) = SubSeq(p, 1, i)
BY SubSeqRecursiveFirst DEF AbsoluteNormal, root

\* The level a key is put in is the key without its last segment, and it is
\* one of the levels there are.
LEMMA LevelIsFront ==
    ASSUME NEW n, Rooted(n), NEW p \in AbsoluteNormal, get_level_for_path(n, p).ok
    PROVE  Len(p) > 1 /\ AllButLast(p) \in DOMAIN n.levels
<1>1. Len(p) \in Nat /\ ~(Len(p) < 2)
  BY DEF get_level_for_path, Panic, Err, AbsoluteNormal
<1>2. Len(p) > 1
  BY <1>1
<1>3. ASSUME Len(p) = 2 PROVE AllButLast(p) \in DOMAIN n.levels
  <2>1. AllButLast(p) \in AbsoluteNormal /\ Len(AllButLast(p)) = Len(p) - 1
    BY <1>2, KeyFront
  <2>2. Len(AllButLast(p)) = 1
    BY <1>3, <2>1
  <2> QED
    BY <2>1, <2>2, RootIsKey DEF Rooted
<1>4. ASSUME Len(p) # 2 PROVE AllButLast(p) \in DOMAIN n.levels
  <2>1. Len(p) - 1 \in 2..(Len(p) - 1) /\ Len(p) - 1 \in 1..Len(p)
    <3>1. \A k \in Nat : ~(k < 2) /\ k # 2 => k - 1 \in 2..(k - 1) /\ k - 1 \in 1..k
      OBVIOUS
    <3> QED
      BY <1>1, <1>4, <3>1, Zenon
  <2>2. root \o SubSeq(p, 2, Len(p) - 1) \in DOMAIN n.levels
    BY <2>1 DEF get_level_for_path, Panic, Err
  <2>3. root \o SubSeq(p, 2, Len(p) - 1) = AllButLast(p)
    BY <2>1, KeyPrefix DEF AllButLast
  <2> QED
    BY <2>2, <2>3, Zenon
<1> QED
  BY <1>2, <1>3, <1>4

----------------------------------------------------------------------------
\* A namespace is a tree.
Tree(n, Objects) == NamespaceType(n, Objects) /\ Rooted(n)

(***************************************************************************)
(* Every call has one of five effects on the namespace.  The invariants     *)
(* are then shown effect by effect, without another look at the methods.    *)
(***************************************************************************)

\* The namespace with the four maps given.
Record(next_handle, object_map, levels, values) ==
    [next_handle |-> next_handle, object_map |-> object_map, levels |-> levels, values |-> values]

\* A level appears in a level that is there.
LevelAdded(n, t, p, typ) ==
    /\ p \in AbsoluteNormal /\ Len(p) > 1 /\ AllButLast(p) \in DOMAIN n.levels /\ p \notin DOMAIN n.levels
    /\ t = Record(n.next_handle, n.object_map, Insert(n.levels, p, typ), n.values)

\* A level disappears, with all there is below it.
LevelPruned(n, t, p) ==
    /\ p \in AbsoluteNormal /\ p # root /\ p \in DOMAIN n.levels
    /\ t = Record(n.next_handle, n.object_map,
                  Restrict(n.levels, {l \in DOMAIN n.levels : ~Begins(p, l)}),
                  Restrict(n.values, {v \in DOMAIN n.values : ~Begins(p, AllButLast(v))}))

\* An object is filed under the next handle, and bound to no name.
ObjectFiled(n, t, v) ==
    /\ OverflowChecks => n.next_handle + 1 # HandleSpace
    /\ t = Record((n.next_handle + 1) % HandleSpace, Insert(n.object_map, n.next_handle, v),
                  n.levels, n.values)

\* An object is filed and a name in a level that is there is bound to it.
ObjectBound(n, t, p, v) ==
    /\ OverflowChecks => n.next_handle + 1 # HandleSpace
    /\ p \in AbsoluteNormal /\ Len(p) > 1 /\ AllButLast(p) \in DOMAIN n.levels
    /\ t = Record((n.next_handle + 1) % HandleSpace, Insert(n.object_map, n.next_handle, v),
                  n.levels, Insert(n.values, p, n.next_handle))

\* An object gets another value.
ObjectStored(n, t, h, v) ==
    /\ h \in DOMAIN n.object_map
    /\ t = Record(n.next_handle, Insert(n.object_map, h, v), n.levels, n.values)

Effect(n, t, Objects) ==
    \/ t = n
    \/ \E p \in AbsoluteNormal, typ \in LevelTypes : LevelAdded(n, t, p, typ)
    \/ \E p \in AbsoluteNormal : LevelPruned(n, t, p)
    \/ \E v \in Objects : ObjectFiled(n, t, v)
    \/ \E p \in AbsoluteNormal, v \in Objects : ObjectBound(n, t, p, v)
    \/ \E h \in Handles, v \in Objects : ObjectStored(n, t, h, v)

\* The name a mutator works on is a key.
LEMMA AbsolutePathIsKey ==
    ASSUME NEW path \in WellFormed, AbsolutePath(path).ok
    PROVE  AbsolutePath(path).val \in AbsoluteNormal /\ AbsolutePath(path) = Ok(AbsolutePath(path).val)
<1>1. is_absolute(path) /\ AbsolutePath(path) = normalize(path)
  BY OkOrErr, Zenon DEF AbsolutePath, Panic
<1>2. PICK v \in AbsoluteNormal : normalize(path) = Ok(v)
  <2>1. IsKey(normalize(path)) /\ normalize(path).ok
    BY <1>1, NormalizeIsKey
  <2> QED
    BY <2>1, OkOrErr, Zenon DEF IsKey, Invalid
<1> QED
  BY <1>1, <1>2, OkOrErr, Zenon

\* add_level: nothing happens, or the level appears.
LEMMA AddLevelEffect ==
    ASSUME NEW n, NEW Objects, Tree(n, Objects), NEW path \in WellFormed, NEW typ, NEW t, t = add_level(n, path, typ).ns
    PROVE  t = n \/ \E p \in AbsoluteNormal : AbsolutePath(path) = Ok(p) /\ LevelAdded(n, t, p, typ)
<1>0. n = Record(n.next_handle, n.object_map, n.levels, n.values) /\ Rooted(n)
  BY DEF Tree, NamespaceType, Record
<1> DEFINE p == AbsolutePath(path)
<1>1. CASE p = Ok(root) \/ ~LevelFor(n, p).ok \/ p.val \in DOMAIN n.levels
  BY <1>1 DEF add_level
<1>2. CASE p # Ok(root) /\ LevelFor(n, p).ok /\ p.val \notin DOMAIN n.levels
  <2>1. p.ok /\ get_level_for_path(n, p.val).ok
    BY <1>2 DEF LevelFor
  <2>2. p.val \in AbsoluteNormal /\ p = Ok(p.val) /\ Len(p.val) > 1 /\ AllButLast(p.val) \in DOMAIN n.levels
    BY <1>0, <2>1, AbsolutePathIsKey, LevelIsFront
  <2>3. t = [n EXCEPT !.levels = Insert(n.levels, p.val, typ)]
    BY <1>2 DEF add_level
  <2>4. LevelAdded(n, t, p.val, typ)
    BY <1>0, <1>2, <2>2, <2>3 DEF LevelAdded, Record
  <2> QED
    BY <2>2, <2>4, Zenon
<1> QED
  BY <1>1, <1>2

\* remove_level: nothing happens, or the level disappears.
LEMMA RemoveLevelEffect ==
    ASSUME NEW n, NEW Objects, Tree(n, Objects), NEW path \in WellFormed, NEW t, t = remove_level(n, path).ns
    PROVE  t = n \/ \E p \in AbsoluteNormal : AbsolutePath(path) = Ok(p) /\ LevelPruned(n, t, p)
<1>0. n = Record(n.next_handle, n.object_map, n.levels, n.values) /\ Rooted(n)
  BY DEF Tree, NamespaceType, Record
<1> DEFINE p == AbsolutePath(path)
<1>1. CASE p = Ok(root) \/ ~LevelFor(n, p).ok \/ p.val \notin DOMAIN n.levels
  BY <1>1 DEF remove_level
<1>2. CASE p # Ok(root) /\ LevelFor(n, p).ok /\ p.val \in DOMAIN n.levels
  <2>1. p.ok /\ get_level_for_path(n, p.val).ok
    BY <1>2 DEF LevelFor
  <2>2. p.val \in AbsoluteNormal /\ p = Ok(p.val) /\ Len(p.val) > 1
    BY <1>0, <2>1, AbsolutePathIsKey, LevelIsFront
  <2>3. p.val # root
    BY <2>2, RootIsKey
  <2>4. t = Prune(n, p.val)
    BY <1>2 DEF remove_level
  <2>5. LevelPruned(n, t, p.val)
    BY <1>0, <1>2, <2>2, <2>3, <2>4, Zenon DEF LevelPruned, Prune, Record
  <2> QED
    BY <2>2, <2>5, Zenon
<1> QED
  BY <1>1, <1>2

\* add_value: nothing happens, or the object is filed, bound to the name
\* unless that has no level.
LEMMA AddValueEffect ==
    ASSUME NEW n, NEW Objects, Tree(n, Objects), NEW path \in WellFormed, NEW v, NEW t, t = add_value(n, path, v).ns
    PROVE  t = n \/ ObjectFiled(n, t, v) \/ \E p \in AbsoluteNormal : ObjectBound(n, t, p, v)
<1>0. n = Record(n.next_handle, n.object_map, n.levels, n.values) /\ Rooted(n)
  BY DEF Tree, NamespaceType, Record
<1> DEFINE p == AbsolutePath(path)
           filed == FileObject(n, v)
           full == OverflowChecks /\ n.next_handle + 1 = HandleSpace
<1>1. filed = Record((n.next_handle + 1) % HandleSpace, Insert(n.object_map, n.next_handle, v),
                     n.levels, n.values)
  <2>1. filed = [n EXCEPT !.next_handle = (n.next_handle + 1) % HandleSpace,
                          !.object_map = Insert(n.object_map, n.next_handle, v)]
    BY DEF FileObject
  <2> QED
    BY <1>0, <2>1, Zenon DEF Record
<1>2. CASE ~p.ok \/ full
  BY <1>2 DEF add_value
<1>3. CASE p.ok /\ ~full /\ ~LevelFor(filed, p).ok
  <2>1. t = filed
    BY <1>3 DEF add_value
  <2>2. ObjectFiled(n, t, v)
    BY <1>1, <1>3, <2>1 DEF ObjectFiled
  <2> QED
    BY <2>2
<1>4. CASE p.ok /\ ~full /\ LevelFor(filed, p).ok
  <2>1. t = [filed EXCEPT !.values = Insert(filed.values, p.val, n.next_handle)]
    BY <1>4 DEF add_value
  <2>2. t = Record((n.next_handle + 1) % HandleSpace, Insert(n.object_map, n.next_handle, v),
                   n.levels, Insert(n.values, p.val, n.next_handle))
    BY <1>1, <2>1 DEF Record
  <2>3. filed.levels = n.levels /\ filed.values = n.values
    BY <1>1 DEF Record
  <2>4. Rooted(filed)
    BY <1>0, <2>3 DEF Rooted
  <2>5. p.val \in AbsoluteNormal /\ Len(p.val) > 1 /\ AllButLast(p.val) \in DOMAIN n.levels
    BY <1>4, <2>3, <2>4, AbsolutePathIsKey, LevelIsFront DEF LevelFor
  <2>6. ObjectBound(n, t, p.val, v)
    BY <1>4, <2>2, <2>5 DEF ObjectBound
  <2> QED
    BY <2>5, <2>6
<1> QED
  BY <1>2, <1>3, <1>4

----------------------------------------------------------------------------
\* Whatever is above the parent of a level is above the level, so a level
\* that survives a removal has a parent that survives it.
LEMMA PrefixOfFront ==
    ASSUME NEW p \in AbsoluteNormal, NEW l \in AbsoluteNormal, Len(l) > 1, Begins(p, AllButLast(l))
    PROVE  Begins(p, l)
<1>1. /\ p \in Seq(Segs \cup {Root}) /\ Len(p) \in Nat /\ Len(p) > 0
      /\ l \in Seq(Segs \cup {Root}) /\ Len(l) \in Nat /\ Len(AllButLast(l)) = Len(l) - 1
  BY KeyFront, RootIsKey
<1>2. Len(p) <= Len(l) - 1 /\ SubSeq(p, 1, Len(p)) = SubSeq(AllButLast(l), 1, Len(p))
  BY <1>1 DEF Begins
<1>3. SubSeq(AllButLast(l), 1, Len(p)) = SubSeq(l, 1, Len(p))
  <2>1. \A k \in Nat, m \in Nat : m > 0 /\ m <= k - 1 /\ k > 1 =>
            /\ 1 \in 1..k /\ k - 1 \in 1..k
            /\ 1 \in 1..((k - 1) - 1 + 1) /\ m \in 1..((k - 1) - 1 + 1)
            /\ 1 + 1 - 1 = 1 /\ 1 + m - 1 = m
    OBVIOUS
  <2>2. /\ 1 \in 1..Len(l) /\ Len(l) - 1 \in 1..Len(l)
        /\ 1 \in 1..((Len(l) - 1) - 1 + 1) /\ Len(p) \in 1..((Len(l) - 1) - 1 + 1)
        /\ 1 + 1 - 1 = 1 /\ 1 + Len(p) - 1 = Len(p)
    BY <1>1, <1>2, <2>1
  <2>3. SubSeq(SubSeq(l, 1, Len(l) - 1), 1, Len(p)) = SubSeq(l, 1 + 1 - 1, 1 + Len(p) - 1)
    BY <1>1, <2>2, SubSeqOfSubSeq
  <2> QED
    BY <2>2, <2>3 DEF AllButLast
<1>4. Len(p) <= Len(l)
  BY <1>1, <1>2
<1> QED
  BY <1>2, <1>3, <1>4 DEF Begins

\* Nothing but the root is above the root.
LEMMA RootHasNoPrefix ==
    ASSUME NEW p \in AbsoluteNormal, p # root
    PROVE  ~Begins(p, root)
<1>1. Len(p) \in Nat /\ Len(p) > 0 /\ Len(p) # 1 /\ Len(root) = 1
  BY KeyFront, RootIsKey DEF root
<1> QED
  BY <1>1 DEF Begins

\* The effects preserve the type invariant.
LEMMA EffectType ==
    ASSUME NEW n, NEW t, NEW Objects, Tree(n, Objects), Effect(n, t, Objects)
    PROVE  Tree(t, Objects)
<1> USE DEF Tree
<1>h. HandleSpace \in Nat /\ HandleSpace > 0 /\ \A k \in Handles : (k + 1) % HandleSpace \in Handles
  BY HandleSpaceAssumption DEF Handles
<1>1. CASE t = n
  BY <1>1 DEF NamespaceType, Rooted
<1>2. ASSUME NEW p \in AbsoluteNormal, NEW typ \in LevelTypes, LevelAdded(n, t, p, typ) PROVE Tree(t, Objects)
  <2>1. NamespaceType(t, Objects)
    BY <1>2 DEF NamespaceType, LevelAdded, Record, Insert
  <2>2. Rooted(t)
    BY <1>2 DEF Rooted, LevelAdded, Record, Insert
  <2> QED
    BY <2>1, <2>2
<1>3. ASSUME NEW p \in AbsoluteNormal, LevelPruned(n, t, p) PROVE Tree(t, Objects)
  <2>1. NamespaceType(t, Objects)
    BY <1>3 DEF NamespaceType, LevelPruned, Record, Restrict
  <2>2. DOMAIN t.levels = {l \in DOMAIN n.levels : ~Begins(p, l)}
    BY <1>3 DEF LevelPruned, Record, Restrict
  <2>3. DOMAIN t.values = {v \in DOMAIN n.values : ~Begins(p, AllButLast(v))}
    BY <1>3 DEF LevelPruned, Record, Restrict
  <2>4. root \in DOMAIN t.levels
    BY <1>3, <2>2, RootHasNoPrefix DEF Rooted, LevelPruned
  <2>5. ASSUME NEW l \in DOMAIN t.levels \ {root} PROVE Len(l) > 1 /\ AllButLast(l) \in DOMAIN t.levels
    <3>1. l \in DOMAIN n.levels \ {root} /\ ~Begins(p, l)
      BY <2>2, <2>5
    <3>2. l \in AbsoluteNormal /\ Len(l) > 1 /\ AllButLast(l) \in DOMAIN n.levels
      BY <3>1 DEF Rooted, NamespaceType
    <3>3. ~Begins(p, AllButLast(l))
      BY <3>1, <3>2, PrefixOfFront
    <3> QED
      BY <2>2, <3>2, <3>3
  <2>6. ASSUME NEW v \in DOMAIN t.values PROVE Len(v) > 1 /\ AllButLast(v) \in DOMAIN t.levels
    BY <2>2, <2>3 DEF Rooted
  <2>7. Rooted(t)
    BY <2>4, <2>5, <2>6 DEF Rooted
  <2> QED
    BY <2>1, <2>7
<1>4. ASSUME NEW v \in Objects, ObjectFiled(n, t, v) PROVE Tree(t, Objects)
  <2>1. NamespaceType(t, Objects)
    BY <1>h, <1>4 DEF NamespaceType, ObjectFiled, Record, Insert
  <2>2. Rooted(t)
    BY <1>4 DEF Rooted, ObjectFiled, Record
  <2> QED
    BY <2>1, <2>2
<1>5. ASSUME NEW p \in AbsoluteNormal, NEW v \in Objects, ObjectBound(n, t, p, v) PROVE Tree(t, Objects)
  <2>1. NamespaceType(t, Objects)
    BY <1>h, <1>5 DEF NamespaceType, ObjectBound, Record, Insert
  <2>2. Rooted(t)
    BY <1>5 DEF Rooted, ObjectBound, Record, Insert
  <2> QED
    BY <2>1, <2>2
<1>6. ASSUME NEW h \in Handles, NEW v \in Objects, ObjectStored(n, t, h, v) PROVE Tree(t, Objects)
  <2>1. NamespaceType(t, Objects)
    BY <1>6 DEF NamespaceType, ObjectStored, Record, Insert
  <2>2. Rooted(t)
    BY <1>6 DEF Rooted, ObjectStored, Record
  <2> QED
    BY <2>1, <2>2
<1> QED
  BY <1>1, <1>2, <1>3, <1>4, <1>5, <1>6 DEF Effect

----------------------------------------------------------------------------
\* The levels around a level are there.
LEMMA AncestorsAreLevels ==
    ASSUME NEW n, NEW Objects, Tree(n, Objects), NEW l \in DOMAIN n.levels
    PROVE  \A k \in 1..Len(l) : SubSeq(l, 1, k) \in DOMAIN n.levels
<1>0. l \in AbsoluteNormal /\ l \in Seq(Segs \cup {Root}) /\ Len(l) \in Nat /\ Len(l) > 0
  BY RootIsKey, KeyFront DEF Tree, NamespaceType
<1> DEFINE S == {d \in Nat : d < Len(l) => SubSeq(l, 1, Len(l) - d) \in DOMAIN n.levels}
<1>1. 0 \in S
  <2>1. Len(l) - 0 = Len(l) /\ 0 \in Nat
    BY <1>0
  <2>2. SubSeq(l, 1, Len(l)) = l
    BY <1>0, SubSeqFull
  <2> QED
    BY <2>1, <2>2, Zenon
<1>2. ASSUME NEW d \in Nat, d \in S PROVE d + 1 \in S
  <2> SUFFICES ASSUME d + 1 < Len(l) PROVE SubSeq(l, 1, Len(l) - (d + 1)) \in DOMAIN n.levels
    OBVIOUS
  <2> DEFINE q == SubSeq(l, 1, Len(l) - d)
  <2>1. q \in DOMAIN n.levels /\ q \in AbsoluteNormal
    BY <1>0, <1>2 DEF Tree, NamespaceType
  <2>2. Len(q) = Len(l) - d
    BY <1>0
  <2>3. q # root
    BY <1>0, <2>2 DEF root
  <2>4. AllButLast(q) \in DOMAIN n.levels
    BY <2>1, <2>3, Zenon DEF Tree, Rooted
  <2>5. AllButLast(q) = SubSeq(q, 1, (Len(l) - d) - 1)
    BY <2>2 DEF AllButLast
  <2>6. SubSeq(q, 1, (Len(l) - d) - 1) = SubSeq(l, 1, Len(l) - (d + 1))
    <3>1. \A k \in Nat : d + 1 < k => /\ 1 \in 1..k /\ k - d \in 1..k
                                      /\ 1 \in 1..((k - d) - 1 + 1) /\ (k - d) - 1 \in 1..((k - d) - 1 + 1)
                                      /\ 1 + 1 - 1 = 1 /\ 1 + ((k - d) - 1) - 1 = k - (d + 1)
      OBVIOUS
    <3>2. SubSeq(q, 1, (Len(l) - d) - 1) = SubSeq(l, 1 + 1 - 1, 1 + ((Len(l) - d) - 1) - 1)
      BY <1>0, <3>1, SubSeqOfSubSeq
    <3> QED
      BY <1>0, <3>1, <3>2
  <2> QED
    BY <2>4, <2>5, <2>6, Zenon
<1> HIDE DEF S
<1>3. Nat \subseteq S
  BY <1>1, <1>2, SetInduction
<1>4. ASSUME NEW k \in 1..Len(l) PROVE SubSeq(l, 1, k) \in DOMAIN n.levels
  <2>1. Len(l) - k \in S /\ Len(l) - k < Len(l) /\ Len(l) - (Len(l) - k) = k
    BY <1>0, <1>3
  <2>2. SubSeq(l, 1, Len(l) - (Len(l) - k)) \in DOMAIN n.levels
    BY <2>1, Zenon DEF S
  <2> QED
    BY <2>1, <2>2, Zenon
<1> QED
  BY <1>4

\* A key is its level and its last segment.
LEMMA KeySplits ==
    ASSUME NEW p \in AbsoluteNormal, Len(p) > 1
    PROVE  /\ Append(AllButLast(p), LastOf(p)) = p /\ LastOf(p) \in Segs
           /\ \A i \in 1..(Len(p) - 1) : SubSeq(AllButLast(p), 1, i) = SubSeq(p, 1, i)
<1>0. p \in Seq(Segs \cup {Root}) /\ Len(p) \in Nat /\ \A i \in 2..Len(p) : p[i] \in Segs
  BY DEF AbsoluteNormal
<1>1. AllButLast(p) = SubSeq(p, 1, Len(p) - 1) /\ LastOf(p) = p[Len(p)] /\ LastOf(p) \in Segs
  BY <1>0 DEF AllButLast, LastOf
<1>2. Append(AllButLast(p), LastOf(p)) = p
  BY <1>0, <1>1
<1>3. ASSUME NEW i \in 1..(Len(p) - 1) PROVE SubSeq(AllButLast(p), 1, i) = SubSeq(p, 1, i)
  <2>1. \A k \in Nat : i \in 1..(k - 1) => /\ 1 \in 1..k /\ k - 1 \in 1..k
                                           /\ 1 \in 1..((k - 1) - 1 + 1) /\ i \in 1..((k - 1) - 1 + 1)
                                           /\ 1 + 1 - 1 = 1 /\ 1 + i - 1 = i
    OBVIOUS
  <2>2. SubSeq(SubSeq(p, 1, Len(p) - 1), 1, i) = SubSeq(p, 1 + 1 - 1, 1 + i - 1)
    BY <1>0, <2>1, SubSeqOfSubSeq
  <2> QED
    BY <1>0, <1>1, <2>1, <2>2
<1> QED
  BY <1>1, <1>2, <1>3

\* The level above a key is found if it is there.
LEMMA LevelIsFound ==
    ASSUME NEW n, NEW Objects, Tree(n, Objects), NEW p \in AbsoluteNormal, Len(p) > 1, AllButLast(p) \in DOMAIN n.levels
    PROVE  get_level_for_path(n, p) = Ok(AllButLast(p))
<1>0. Len(p) \in Nat /\ Len(AllButLast(p)) = Len(p) - 1
  BY KeyFront
<1>1. ASSUME NEW i \in 2..(Len(p) - 1) PROVE root \o SubSeq(p, 2, i) \in DOMAIN n.levels
  <2>1. i \in 1..Len(p) /\ i \in 1..(Len(p) - 1)
    BY <1>0
  <2>2. root \o SubSeq(p, 2, i) = SubSeq(p, 1, i)
    BY <1>0, <2>1, KeyPrefix
  <2>3. SubSeq(p, 1, i) = SubSeq(AllButLast(p), 1, i)
    BY <1>0, <2>1, KeySplits
  <2> QED
    BY <1>0, <2>1, <2>2, <2>3, AncestorsAreLevels
<1>2. root \o SubSeq(p, 2, Len(p) - 1) = AllButLast(p)
  <2>1. Len(p) - 1 \in 1..Len(p)
    BY <1>0
  <2> QED
    BY <1>0, <2>1, KeyPrefix DEF AllButLast
<1>3. LastOf(p) \in Segs
  BY <1>0, KeySplits
<1>4. ~(Len(p) < 2)
  BY <1>0
<1> QED
  BY <1>1, <1>2, <1>3, <1>4, Zenon DEF get_level_for_path

\* A name that is bound can be looked up.
LEMMA BoundIsFound ==
    ASSUME NEW n, NEW Objects, Tree(n, Objects), NEW p \in DOMAIN n.values
    PROVE  get_handle(n, p) = Ok(n.values[p])
<1>1. p \in AbsoluteNormal /\ Len(p) > 1 /\ AllButLast(p) \in DOMAIN n.levels
  BY DEF Tree, NamespaceType, Rooted
<1>2. Append(AllButLast(p), LastOf(p)) = p
  BY <1>1, KeySplits
<1>3. get_level_for_path(n, p) = Ok(AllButLast(p))
  BY <1>1, LevelIsFound
<1> QED
  BY <1>2, <1>3, OkOrErr, Zenon DEF get_handle, ValueAt

\* What can be looked up by an absolute name is bound to that name, which
\* is therefore normal.
LEMMA FoundIsBound ==
    ASSUME NEW n, NEW Objects, Tree(n, Objects), NEW path \in WellFormed, is_absolute(path), get_handle(n, path).ok
    PROVE  path \in DOMAIN n.values /\ path \in AbsoluteNormal /\ get_handle(n, path) = Ok(n.values[path])
<1>0. path \in Seq(Component) /\ Len(path) \in Nat /\ path[1] = Root
  BY DEF WellFormed, is_absolute
<1>1. get_level_for_path(n, path).ok
  BY DEF get_handle
<1>2. Len(path) >= 2 /\ get_level_for_path(n, path) = Ok(root \o SubSeq(path, 2, Len(path) - 1))
  <2>1. ~(Len(path) < 2)
    BY <1>1, OkOrErr, Zenon DEF get_level_for_path, Panic
  <2>2. get_level_for_path(n, path) = Ok(root \o SubSeq(path, 2, Len(path) - 1))
    BY <1>1, OkOrErr, Zenon DEF get_level_for_path, Panic
  <2> QED
    BY <1>0, <2>1, <2>2
<1>3. Append(root \o SubSeq(path, 2, Len(path) - 1), LastOf(path)) = path
  BY <1>0, <1>2 DEF root, LastOf
<1>4. path \in DOMAIN n.values
  BY <1>2, <1>3, OkOrErr, Zenon DEF get_handle, ValueAt
<1> QED
  BY <1>4, BoundIsFound DEF Tree, NamespaceType

----------------------------------------------------------------------------
\* The walk of `search` from the innermost scope outwards ends at the
\* innermost scope that has the segment.
LEMMA FirstEnclosingIsInnermost ==
    ASSUME NEW found, NEW seg, NEW scope, Len(scope) \in Nat, Len(scope) > 0
    PROVE  LET At(k) == Append(SubSeq(scope, 1, k), seg)
           IN  \/ /\ FirstEnclosing(found, seg, scope) = Err("NotFound")
                  /\ \A k \in 1..Len(scope) : At(k) \notin found
               \/ \E k \in 1..Len(scope) : /\ At(k) \in found /\ FirstEnclosing(found, seg, scope) = Ok(At(k))
                                           /\ \A j \in (k + 1)..Len(scope) : At(j) \notin found
<1> DEFINE At(k) == Append(SubSeq(scope, 1, k), seg)
           D(f, n) == [k \in 1..n |-> IF At(k) \in found THEN Ok(At(k))
                                      ELSE IF k = 1 THEN Err("NotFound") ELSE f[k - 1]]
           Defined == {n \in Nat : \E f : f = D(f, n)}
           Is(f, n) == \/ f[n] = Err("NotFound") /\ \A k \in 1..n : At(k) \notin found
                       \/ \E k \in 1..n : /\ At(k) \in found /\ f[n] = Ok(At(k))
                                          /\ \A j \in (k + 1)..n : At(j) \notin found
<1> HIDE DEF At
<1>1. 0 \in Defined
  <2> DEFINE f == [k \in 1..0 |-> Err("NotFound")]
  <2>1. \A k : k \notin 1..0
    OBVIOUS
  <2>2. f = D(f, 0)
    BY <2>1, Zenon
  <2> QED
    BY <2>2, Zenon
<1>2. ASSUME NEW n \in Nat, n \in Defined PROVE n + 1 \in Defined
  <2>1. PICK g : g = D(g, n)
    BY <1>2, Zenon
  <2> DEFINE f == [k \in 1..(n + 1) |-> IF k = n + 1 THEN IF At(k) \in found THEN Ok(At(k))
                                                          ELSE IF k = 1 THEN Err("NotFound") ELSE g[n]
                                        ELSE g[k]]
  <2>2. \A k \in 1..n : g[k] = IF At(k) \in found THEN Ok(At(k)) ELSE IF k = 1 THEN Err("NotFound") ELSE g[k - 1]
    BY <2>1, Zenon
  <2>3. \A k \in 1..(n + 1) : (k # n + 1 => k \in 1..n) /\ (k # 1 => k - 1 \in 1..n /\ k - 1 # n + 1 /\ k - 1 \in 1..(n + 1))
                              /\ (k = n + 1 => k - 1 = n)
    OBVIOUS
  <2>4. \A k \in 1..(n + 1) : f[k] = IF k = n + 1 THEN IF At(k) \in found THEN Ok(At(k))
                                                       ELSE IF k = 1 THEN Err("NotFound") ELSE g[n]
                                     ELSE g[k]
    BY Zenon
  <2>5. f = [k \in 1..(n + 1) |-> f[k]]
    BY Zenon
  <2> HIDE DEF f
  <2>6. ASSUME NEW k \in 1..(n + 1)
        PROVE  f[k] = IF At(k) \in found THEN Ok(At(k)) ELSE IF k = 1 THEN Err("NotFound") ELSE f[k - 1]
    <3>1. CASE k = n + 1
      BY <2>3, <2>4, <3>1, Zenon
    <3>2. CASE k # n + 1
      BY <2>2, <2>3, <2>4, <3>2, Zenon
    <3> QED
      BY <3>1, <3>2
  <2>7. f = D(f, n + 1)
    BY <2>5, <2>6, Zenon
  <2>8. n + 1 \in Nat
    OBVIOUS
  <2> QED
    BY <2>7, <2>8, Zenon
<1> HIDE DEF Defined
<1>3. Len(scope) \in Defined
  BY <1>1, <1>2, SetInduction
<1> USE DEF Defined
<1>4. \E f : f = D(f, Len(scope))
  BY <1>3, Zenon
<1> DEFINE from == CHOOSE f : f = D(f, Len(scope))
<1>5. FirstEnclosing(found, seg, scope) = from[Len(scope)]
  BY Zenon DEF FirstEnclosing, At
<1>6. from = D(from, Len(scope))
  BY <1>4, Zenon
<1> HIDE DEF from
<1>7. \A k \in 1..Len(scope) :
         from[k] = IF At(k) \in found THEN Ok(At(k)) ELSE IF k = 1 THEN Err("NotFound") ELSE from[k - 1]
  BY <1>6, Zenon
<1> DEFINE S == {n \in Nat : n + 1 <= Len(scope) => Is(from, n + 1)}
<1>8. 0 \in S
  <2>1. 1 \in 1..Len(scope) /\ 1..1 = {1} /\ 0 + 1 = 1 /\ \A j : j \notin (1 + 1)..1
    OBVIOUS
  <2>2. from[1] = IF At(1) \in found THEN Ok(At(1)) ELSE Err("NotFound")
    BY <1>7, <2>1, Zenon
  <2>3. Is(from, 1)
    BY <2>1, <2>2, Zenon
  <2> QED
    BY <2>1, <2>3, Zenon
<1>9. ASSUME NEW n \in Nat, n \in S PROVE n + 1 \in S
  <2> SUFFICES ASSUME (n + 1) + 1 <= Len(scope) PROVE Is(from, (n + 1) + 1)
    OBVIOUS
  <2>1. Is(from, n + 1)
    <3>1. n + 1 <= Len(scope)
      OBVIOUS
    <3> QED
      BY <1>9, <3>1, Zenon
  <2> DEFINE m == (n + 1) + 1
  <2>2. /\ m \in 1..Len(scope) /\ m - 1 = n + 1 /\ m # 1 /\ m \in 1..m /\ (\A j : j \notin (m + 1)..m)
        /\ \A k \in 1..m : k # m => k \in 1..(n + 1)
        /\ \A k \in 1..(n + 1) : k \in 1..m /\ \A j \in (k + 1)..m : j # m => j \in (k + 1)..(n + 1)
    OBVIOUS
  <2> HIDE DEF m
  <2>3. from[m] = IF At(m) \in found THEN Ok(At(m)) ELSE from[n + 1]
    BY <1>7, <2>2, Zenon
  <2>4. CASE At(m) \in found
    BY <2>2, <2>3, <2>4, Zenon DEF m
  <2>5. CASE At(m) \notin found
    <3>1. from[m] = from[n + 1]
      BY <2>3, <2>5
    <3>2. CASE from[n + 1] = Err("NotFound") /\ \A k \in 1..(n + 1) : At(k) \notin found
      BY <2>2, <2>5, <3>1, <3>2, Zenon DEF m
    <3>3. ASSUME NEW k \in 1..(n + 1), At(k) \in found, from[n + 1] = Ok(At(k)), \A j \in (k + 1)..(n + 1) : At(j) \notin found
          PROVE  Is(from, m)
      BY <2>2, <2>5, <3>1, <3>3, Zenon
    <3> QED
      BY <2>1, <3>2, <3>3, Zenon DEF m
  <2> QED
    BY <2>4, <2>5
<1> HIDE DEF S, Is
<1>10. Nat \subseteq S
  BY <1>8, <1>9, SetInduction
<1>11. Len(scope) - 1 \in S /\ (Len(scope) - 1) + 1 = Len(scope) /\ Len(scope) <= Len(scope)
  BY <1>10
<1>12. Is(from, Len(scope))
  BY <1>11, Zenon DEF S
<1> QED
  BY <1>5, <1>12, Zenon DEF Is, At
=============================================================================
