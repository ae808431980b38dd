-------------------------- MODULE NamespaceProofs --------------------------
(***************************************************************************)
(* Proofs about NamespaceClient, for every set of segments, names, values   *)
(* and handles.                                                             *)
(***************************************************************************)
EXTENDS NamespaceClient, AmlNameAlgorithms, NamespaceTheorems, FiniteSetTheorems

\* Every call on the namespace has one of the effects of NamespaceTheorems.
LEMMA StepEffect ==
    ASSUME TypeOK, [Next]_vars
    PROVE  Effect(ns, ns', Values)
<1>0. Tree(ns, Values)
  BY DEF TypeOK, Tree
<1>1. ASSUME NEW path \in Names, NEW typ \in LevelTypes, AddLevel(path, typ) PROVE Effect(ns, ns', Values)
  <2>1. path \in WellFormed /\ ns' = add_level(ns, path, typ).ns
    BY <1>1, NamesAssumption DEF AddLevel, Call
  <2> QED
    BY <1>0, <2>1, AddLevelEffect, Zenon DEF Effect
<1>2. ASSUME NEW path \in Names, RemoveLevel(path) PROVE Effect(ns, ns', Values)
  <2>1. path \in WellFormed /\ ns' = remove_level(ns, path).ns
    BY <1>2, NamesAssumption DEF RemoveLevel, Call
  <2> QED
    BY <1>0, <2>1, RemoveLevelEffect, Zenon DEF Effect
<1>3. ASSUME NEW path \in Names, NEW v \in Values, AddValue(path, v) PROVE Effect(ns, ns', Values)
  <2>1. path \in WellFormed /\ ns' = add_value(ns, path, v).ns
    BY <1>3, NamesAssumption DEF AddValue, Call
  <2> QED
    BY <1>0, <2>1, AddValueEffect, Zenon DEF Effect
<1>4. ASSUME NEW h \in Handles, NEW v \in Values, StoreObject(h, v) PROVE Effect(ns, ns', Values)
  <2>1. CASE h \in DOMAIN ns.object_map
    <3>1. ns' = [ns EXCEPT !.object_map = Insert(ns.object_map, h, v)]
      BY <1>4, <2>1 DEF StoreObject, Call
    <3>2. ns = Record(ns.next_handle, ns.object_map, ns.levels, ns.values)
      BY DEF TypeOK, NamespaceType, Record
    <3>3. ObjectStored(ns, ns', h, v)
      BY <2>1, <3>1, <3>2 DEF ObjectStored, Record
    <3> QED
      BY <3>3 DEF Effect
  <2>2. CASE h \notin DOMAIN ns.object_map
    BY <1>4, <2>2 DEF StoreObject, Call, Effect
  <2> QED
    BY <2>1, <2>2
<1>5. CASE UNCHANGED vars
  BY <1>5 DEF vars, Effect
<1> QED
  BY <1>1, <1>2, <1>3, <1>4, <1>5 DEF Next

\* So the namespace stays a tree.
LEMMA StepType ==
    ASSUME TypeOK, [Next]_vars
    PROVE  TypeOK'
<1>1. Tree(ns, Values) /\ Effect(ns, ns', Values)
  BY StepEffect DEF TypeOK, Tree
<1>2. Tree(ns', Values)
  BY <1>1, EffectType
<1> QED
  BY <1>2 DEF TypeOK, Tree

\* The new namespace, with only the root level, has the right type.
LEMMA InitType == Init => TypeOK
<1> SUFFICES ASSUME Init PROVE TypeOK
  OBVIOUS
<1>1. ns = Record(0, [h \in {} |-> 0], [l \in {root} |-> "Scope"], [n \in {} |-> 0])
  BY DEF Init, new, Record
<1>2. NamespaceType(ns, Values)
  BY <1>1, RootIsKey, HandleSpaceAssumption, ScopeAssumption DEF NamespaceType, Record, Handles
<1>3. Rooted(ns)
  BY <1>1 DEF Rooted, Record
<1> QED
  BY <1>2, <1>3 DEF TypeOK

\* The namespace keeps its type, and its maps stay a tree, whatever calls are
\* made on it and however they fail (add_level, remove_level, add_value and
\* writes through get_mut).
THEOREM TypeCorrect == Spec => []TypeOK
<1>1. TypeOK /\ [Next]_vars => TypeOK'
  BY StepType
<1> QED
  BY InitType, <1>1, PTL DEF Spec

\* A handle bound to a name is always a key of the object map, in a build
\* with overflow checks and in one without: the `unwrap` in `get` and
\* `get_mut` cannot fail on a handle that `search` or `get_handle` returned.
THEOREM BoundHandlesAlwaysExist == Spec => []BoundHandlesExist
<1>1. Init => BoundHandlesExist
  BY DEF Init, new, BoundHandlesExist
<1>2. TypeOK /\ BoundHandlesExist /\ [Next]_vars => BoundHandlesExist'
  <2> SUFFICES ASSUME TypeOK, BoundHandlesExist, Effect(ns, ns', Values) PROVE BoundHandlesExist'
    BY StepEffect
  <2>1. CASE ns' = ns
    BY <2>1 DEF BoundHandlesExist
  <2>2. ASSUME NEW p \in AbsoluteNormal, NEW typ \in LevelTypes, LevelAdded(ns, ns', p, typ) PROVE BoundHandlesExist'
    BY <2>2 DEF BoundHandlesExist, LevelAdded, Record
  <2>3. ASSUME NEW p \in AbsoluteNormal, LevelPruned(ns, ns', p) PROVE BoundHandlesExist'
    BY <2>3 DEF BoundHandlesExist, LevelPruned, Record, Restrict
  <2>4. ASSUME NEW v \in Values, ObjectFiled(ns, ns', v) PROVE BoundHandlesExist'
    BY <2>4 DEF BoundHandlesExist, ObjectFiled, Record, Insert
  <2>5. ASSUME NEW p \in AbsoluteNormal, NEW v \in Values, ObjectBound(ns, ns', p, v) PROVE BoundHandlesExist'
    BY <2>5 DEF BoundHandlesExist, ObjectBound, Record, Insert
  <2>6. ASSUME NEW h \in Handles, NEW v \in Values, ObjectStored(ns, ns', h, v) PROVE BoundHandlesExist'
    BY <2>6 DEF BoundHandlesExist, ObjectStored, Record, Insert
  <2> QED
    BY <2>1, <2>2, <2>3, <2>4, <2>5, <2>6, SMTT(30) DEF Effect
<1> QED
  BY TypeCorrect, <1>1, <1>2, PTL DEF Spec

----------------------------------------------------------------------------
(***************************************************************************)
(* With overflow checks the counter only moves forward, so every handle in  *)
(* the object map is below it, and the handle issued next is new.           *)
(***************************************************************************)

\* The induction hypothesis behind the handle properties.
HandleInv ==
    /\ TypeOK
    /\ BoundHandlesExist
    /\ \A h \in DOMAIN ns.object_map : h < ns.next_handle
    /\ HandlesUnique

\* The handle that is about to be issued has never been issued before.
LEMMA NextHandleIsNew ==
    ASSUME HandleInv
    PROVE  ns.next_handle \notin DOMAIN ns.object_map
BY HandleSpaceAssumption DEF HandleInv, TypeOK, NamespaceType, Handles

\* The handle invariant holds as long as the counter cannot wrap around.
THEOREM HandlesAreSafe ==
    ASSUME OverflowChecks
    PROVE  Spec => []HandleInv
<1>1. Init => HandleInv
  <2>1. Init => BoundHandlesExist /\ HandlesUnique /\ \A h \in DOMAIN ns.object_map : h < ns.next_handle
    BY DEF Init, new, BoundHandlesExist, HandlesUnique, IsInjective
  <2> QED
    BY <2>1, InitType DEF HandleInv
<1>2. HandleInv /\ [Next]_vars => HandleInv'
  <2> SUFFICES ASSUME HandleInv, [Next]_vars PROVE HandleInv'
    OBVIOUS
  <2>e. Effect(ns, ns', Values) /\ TypeOK'
    BY StepEffect, StepType DEF HandleInv
  <2>n. ns.next_handle \in Nat /\ ns.next_handle < HandleSpace /\ HandleSpace \in Nat
    BY HandleSpaceAssumption DEF HandleInv, TypeOK, NamespaceType, Handles
  <2>i. ns.next_handle + 1 # HandleSpace => (ns.next_handle + 1) % HandleSpace = ns.next_handle + 1
    BY <2>n
  <2>d. \A h \in DOMAIN ns.object_map \cup {ns.next_handle} : h < ns.next_handle + 1
    <3>1. DOMAIN ns.object_map \subseteq Nat
      BY HandleSpaceAssumption DEF HandleInv, TypeOK, NamespaceType, Handles
    <3>2. \A h \in Nat, k \in Nat : h < k \/ h = k => h < k + 1
      OBVIOUS
    <3> QED
      BY <2>n, <3>1, <3>2 DEF HandleInv
  <2> DEFINE Rest == /\ BoundHandlesExist
                     /\ \A h \in DOMAIN ns.object_map : h < ns.next_handle
                     /\ HandlesUnique
  <2>0. Rest
    BY DEF HandleInv
  <2>1. ASSUME ns' = ns PROVE Rest'
    BY <2>0, <2>1 DEF BoundHandlesExist, HandlesUnique
  <2>2. ASSUME NEW p \in AbsoluteNormal, NEW typ \in LevelTypes, LevelAdded(ns, ns', p, typ) PROVE Rest'
    BY <2>0, <2>2 DEF BoundHandlesExist, HandlesUnique, LevelAdded, Record
  <2>3. ASSUME NEW p \in AbsoluteNormal, LevelPruned(ns, ns', p) PROVE Rest'
    BY <2>0, <2>3 DEF BoundHandlesExist, HandlesUnique, IsInjective, LevelPruned, Record, Restrict
  <2>4. ASSUME NEW v \in Values, ObjectFiled(ns, ns', v) PROVE Rest'
    <3>1. /\ ns'.values = ns.values /\ ns'.next_handle = ns.next_handle + 1
          /\ DOMAIN ns'.object_map = DOMAIN ns.object_map \cup {ns.next_handle}
      BY <2>4, <2>i DEF ObjectFiled, Record, Insert
    <3>2. \A h \in DOMAIN ns'.object_map : h < ns'.next_handle
      BY <2>d, <3>1
    <3> QED
      BY <2>0, <3>1, <3>2 DEF BoundHandlesExist, HandlesUnique
  <2>5. ASSUME NEW p \in AbsoluteNormal, NEW v \in Values, ObjectBound(ns, ns', p, v) PROVE Rest'
    <3>1. /\ ns'.values = Insert(ns.values, p, ns.next_handle) /\ ns'.next_handle = ns.next_handle + 1
          /\ DOMAIN ns'.object_map = DOMAIN ns.object_map \cup {ns.next_handle}
      BY <2>5, <2>i DEF ObjectBound, Record, Insert
    <3>2. \A h \in DOMAIN ns'.object_map : h < ns'.next_handle
      BY <2>d, <3>1
    <3>3. \A n \in DOMAIN ns.values : ns.values[n] # ns.next_handle
      BY <2>0, NextHandleIsNew DEF BoundHandlesExist
    <3>4. BoundHandlesExist'
      BY <2>0, <3>1 DEF BoundHandlesExist, Insert
    <3>5. HandlesUnique'
      BY <2>0, <3>1, <3>3 DEF HandlesUnique, IsInjective, Insert
    <3> QED
      BY <3>2, <3>4, <3>5
  <2>6. ASSUME NEW h \in Handles, NEW v \in Values, ObjectStored(ns, ns', h, v) PROVE Rest'
    <3>1. /\ ns'.values = ns.values /\ ns'.next_handle = ns.next_handle
          /\ DOMAIN ns'.object_map = DOMAIN ns.object_map
      BY <2>6 DEF ObjectStored, Record, Insert
    <3> QED
      BY <2>0, <3>1 DEF BoundHandlesExist, HandlesUnique
  <2>7. Rest'
    BY <2>e, <2>1, <2>2, <2>3, <2>4, <2>5, <2>6 DEF Effect
  <2> QED
    BY <2>e, <2>7 DEF HandleInv
<1> QED
  BY <1>1, <1>2, PTL DEF Spec

\* With overflow checks no two names ever share an object.
THEOREM HandlesAlwaysUnique ==
    ASSUME OverflowChecks
    PROVE  Spec => []HandlesUnique
<1>1. HandleInv => HandlesUnique
  BY DEF HandleInv
<1> QED
  BY HandlesAreSafe, <1>1, PTL

\* With overflow checks, "the handle to a removed object will never be reused
\* to point to a new object" (namespace.rs:14): every name that a step binds
\* is bound to a handle not issued before.
THEOREM HandlesAreNeverReused ==
    ASSUME OverflowChecks
    PROVE  Spec => HandlesNeverReused
<1> DEFINE Keeps == \A n \in DOMAIN ns'.values :
                        \/ n \in DOMAIN ns.values /\ ns'.values[n] = ns.values[n]
                        \/ ns'.values[n] \notin DOMAIN ns.object_map
<1>1. HandleInv /\ [Next]_vars => [Keeps]_vars
  <2> SUFFICES ASSUME HandleInv, [Next]_vars PROVE Keeps
    OBVIOUS
  <2>e. Effect(ns, ns', Values)
    BY StepEffect DEF HandleInv
  <2>1. CASE ns' = ns
    BY <2>1
  <2>2. ASSUME NEW p \in AbsoluteNormal, NEW typ \in LevelTypes, LevelAdded(ns, ns', p, typ) PROVE Keeps
    BY <2>2 DEF LevelAdded, Record
  <2>3. ASSUME NEW p \in AbsoluteNormal, LevelPruned(ns, ns', p) PROVE Keeps
    BY <2>3 DEF LevelPruned, Record, Restrict
  <2>4. ASSUME NEW v \in Values, ObjectFiled(ns, ns', v) PROVE Keeps
    BY <2>4 DEF ObjectFiled, Record
  <2>5. ASSUME NEW p \in AbsoluteNormal, NEW v \in Values, ObjectBound(ns, ns', p, v) PROVE Keeps
    BY <2>5, NextHandleIsNew DEF ObjectBound, Record, Insert
  <2>6. ASSUME NEW h \in Handles, NEW v \in Values, ObjectStored(ns, ns', h, v) PROVE Keeps
    BY <2>6 DEF ObjectStored, Record
  <2> QED
    BY <2>e, <2>1, <2>2, <2>3, <2>4, <2>5, <2>6, SMTT(30) DEF Effect
<1> QED
  BY HandlesAreSafe, <1>1, PTL DEF Spec, HandlesNeverReused

\* With overflow checks the namespace implements the HandleStore: `add_value`
\* issues, `remove_level` forgets, and everything else is a stutter, also
\* when the call fails half-way.
THEOREM ImplementsHandleStore ==
    ASSUME OverflowChecks
    PROVE  Spec => IsHandleStore
<1> DEFINE Simulates == Store!Next \/ UNCHANGED <<DOMAIN ns.object_map, ns.values>>
<1>1. Init => Store!Init
  BY DEF Init, new, Store!Init
<1>2. HandleInv /\ [Next]_vars => Simulates
  <2> SUFFICES ASSUME HandleInv, [Next]_vars PROVE Simulates
    OBVIOUS
  <2>e. Effect(ns, ns', Values)
    BY StepEffect DEF HandleInv
  <2>n. ns.next_handle \in Handles \ DOMAIN ns.object_map
    BY NextHandleIsNew DEF HandleInv, TypeOK, NamespaceType
  <2>1. CASE ns' = ns
    BY <2>1
  <2>2. ASSUME NEW p \in AbsoluteNormal, NEW typ \in LevelTypes, LevelAdded(ns, ns', p, typ) PROVE Simulates
    BY <2>2 DEF LevelAdded, Record
  <2>3. ASSUME NEW p \in AbsoluteNormal, LevelPruned(ns, ns', p) PROVE Simulates
    <3>1. /\ DOMAIN ns'.object_map = DOMAIN ns.object_map
          /\ DOMAIN ns'.values \subseteq DOMAIN ns.values
          /\ ns'.values = [n \in DOMAIN ns'.values |-> ns.values[n]]
      BY <2>3 DEF LevelPruned, Record, Restrict
    <3>2. Store!Forget
      BY <3>1 DEF Store!Forget, Store!Restrict
    <3> QED
      BY <3>2 DEF Store!Next
  <2>4. ASSUME NEW v \in Values, ObjectFiled(ns, ns', v) PROVE Simulates
    <3>1. DOMAIN ns'.object_map = DOMAIN ns.object_map \cup {ns.next_handle} /\ ns'.values = ns.values
      BY <2>4 DEF ObjectFiled, Record, Insert
    <3>2. Store!Issue
      BY <2>n, <3>1 DEF Store!Issue
    <3> QED
      BY <3>2 DEF Store!Next
  <2>5. ASSUME NEW p \in AbsoluteNormal, NEW v \in Values, ObjectBound(ns, ns', p, v) PROVE Simulates
    <3>1. /\ DOMAIN ns'.object_map = DOMAIN ns.object_map \cup {ns.next_handle}
          /\ ns'.values = [m \in DOMAIN ns.values \cup {p} |-> IF m = p THEN ns.next_handle ELSE ns.values[m]]
      BY <2>5 DEF ObjectBound, Record, Insert
    <3>2. p \in DOMAIN ns'.values
      BY <3>1
    <3>3. Store!Issue
      BY <2>n, <3>1, <3>2 DEF Store!Issue
    <3> QED
      BY <3>3 DEF Store!Next
  <2>6. ASSUME NEW h \in Handles, NEW v \in Values, ObjectStored(ns, ns', h, v) PROVE Simulates
    BY <2>6 DEF ObjectStored, Record, Insert
  <2> QED
    BY <2>e, <2>1, <2>2, <2>3, <2>4, <2>5, <2>6, SMTT(30) DEF Effect
<1> QED
  BY HandlesAreSafe, <1>1, <1>2, PTL DEF Spec, IsHandleStore, Store!Spec

----------------------------------------------------------------------------
(***************************************************************************)
(* What a failing call may change, and what a new level may hold.           *)
(***************************************************************************)

\* A call on the namespace that fails, early or late, leaves the levels and
\* the set of names as they were (the early returns of add_level and
\* remove_level, and the three ways in which add_value fails).
THEOREM FailureNeverAddsName == Spec => FailureAddsNoName
<1> DEFINE Same == ns'.levels = ns.levels /\ DOMAIN ns'.values = DOMAIN ns.values
<1>1. TypeOK /\ [Next]_vars => [~result'.ok => Same]_vars
  <2> SUFFICES ASSUME TypeOK, Next, ~result'.ok PROVE Same
    OBVIOUS
  <2>o. Unit.ok /\ \A x : Ok(x).ok
    BY DEF Unit, Ok
  <2>1. ASSUME NEW path \in Names, NEW typ \in LevelTypes, AddLevel(path, typ) PROVE Same
    BY <2>1, <2>o DEF AddLevel, Call, add_level
  <2>2. ASSUME NEW path \in Names, RemoveLevel(path) PROVE Same
    BY <2>2, <2>o DEF RemoveLevel, Call, remove_level
  <2>3. ASSUME NEW path \in Names, NEW v \in Values, AddValue(path, v) PROVE Same
    <3> DEFINE p == AbsolutePath(path)
               filed == FileObject(ns, v)
    <3>1. filed.levels = ns.levels /\ filed.values = ns.values
      BY DEF FileObject, TypeOK, NamespaceType
    <3>2. \/ ns' = ns
          \/ ns' = filed
          \/ p.val \in DOMAIN ns.values /\ ns' = [filed EXCEPT !.values = Insert(filed.values, p.val, ns.next_handle)]
      BY <2>3, <2>o DEF AddValue, Call, add_value
    <3> QED
      BY <3>1, <3>2, Zenon DEF FileObject, TypeOK, NamespaceType, Insert
  <2>4. ASSUME NEW h \in Handles, NEW v \in Values, StoreObject(h, v) PROVE Same
    BY <2>4, <2>o DEF StoreObject, Call
  <2> QED
    BY <2>1, <2>2, <2>3, <2>4 DEF Next
<1> QED
  BY TypeCorrect, <1>1, PTL DEF Spec, FailureAddsNoName

\* Only remove_level makes names go away, one level with all that is below it;
\* add_level leaves a level that is there as it is, with its type and all that
\* is in it, and add_value takes nothing away.
THEOREM NamesOnlyGoByRemoval == Spec => OnlyRemovalForgets
<1> DEFINE gone == DOMAIN ns.levels \ DOMAIN ns'.levels
           Kept == \A l \in DOMAIN ns.levels \ gone : ns'.levels[l] = ns.levels[l]
           Inside == \A n \in DOMAIN ns.values \ DOMAIN ns'.values : AllButLast(n) \in gone
           Subtree == gone # {} => \E top \in gone : \A l \in gone : Begins(top, l)
<1>1. TypeOK /\ [Next]_vars => [Kept /\ Inside /\ Subtree]_vars
  <2> SUFFICES ASSUME TypeOK, Effect(ns, ns', Values) PROVE Kept /\ Inside /\ Subtree
    BY StepEffect
  <2>0. ASSUME DOMAIN ns.levels \subseteq DOMAIN ns'.levels, DOMAIN ns.values \subseteq DOMAIN ns'.values
        PROVE  Inside /\ Subtree
    BY <2>0, Zenon
  <2>1. CASE ns' = ns
    BY <2>1
  <2>2. ASSUME NEW q \in AbsoluteNormal, NEW typ \in LevelTypes, LevelAdded(ns, ns', q, typ)
        PROVE  Kept /\ Inside /\ Subtree
    <3>1. /\ q \notin DOMAIN ns.levels /\ DOMAIN ns'.values = DOMAIN ns.values
          /\ DOMAIN ns'.levels = DOMAIN ns.levels \cup {q}
      BY <2>2 DEF LevelAdded, Record, Insert
    <3>2. Kept
      BY <2>2 DEF LevelAdded, Record, Insert
    <3> QED
      BY <2>0, <3>1, <3>2, Zenon
  <2>3. ASSUME NEW q \in AbsoluteNormal, LevelPruned(ns, ns', q) PROVE Kept /\ Inside /\ Subtree
    <3>1. /\ q \in DOMAIN ns.levels
          /\ DOMAIN ns'.levels = {l \in DOMAIN ns.levels : ~Begins(q, l)}
          /\ DOMAIN ns'.values = {v \in DOMAIN ns.values : ~Begins(q, AllButLast(v))}
          /\ Kept
      BY <2>3 DEF LevelPruned, Record, Restrict
    <3>2. \A l \in DOMAIN ns.levels : l \in gone <=> Begins(q, l)
      BY <3>1, Zenon
    <3>3. Begins(q, q)
      <4>1. q \in Seq(Segs \cup {Root}) /\ Len(q) \in Nat
        BY KeyFront, RootIsKey
      <4> QED
        BY <4>1, SubSeqFull DEF Begins
    <3>4. Subtree
      BY <3>1, <3>2, <3>3, Zenon
    <3>5. Inside
      BY <3>1, <3>2 DEF TypeOK, Rooted
    <3> QED
      BY <3>1, <3>4, <3>5, Zenon
  <2>4. ASSUME NEW v \in Values, ObjectFiled(ns, ns', v) PROVE Kept /\ Inside /\ Subtree
    BY <2>0, <2>4 DEF ObjectFiled, Record
  <2>5. ASSUME NEW q \in AbsoluteNormal, NEW v \in Values, ObjectBound(ns, ns', q, v)
        PROVE  Kept /\ Inside /\ Subtree
    BY <2>0, <2>5 DEF ObjectBound, Record, Insert
  <2>6. ASSUME NEW h \in Handles, NEW v \in Values, ObjectStored(ns, ns', h, v) PROVE Kept /\ Inside /\ Subtree
    BY <2>0, <2>6 DEF ObjectStored, Record
  <2> QED
    BY <2>1, <2>2, <2>3, <2>4, <2>5, <2>6 DEF Effect
<1> QED
  BY TypeCorrect, <1>1, PTL DEF Spec, OnlyRemovalForgets

----------------------------------------------------------------------------
\* What is visible from a scope is what one of the scopes around it has
\* under that segment.
LEMMA VisibleIsEnclosing ==
    ASSUME NEW names, names \subseteq AbsoluteNormal, NEW seg \in Segs, NEW inner \in AbsoluteNormal
    PROVE  /\ \A n \in Visible(names, seg, inner) : \E k \in 1..Len(inner) : n = Append(SubSeq(inner, 1, k), seg)
           /\ \A k \in 1..Len(inner) : /\ Len(Append(SubSeq(inner, 1, k), seg)) = k + 1
                                       /\ Append(SubSeq(inner, 1, k), seg) \in names
                                          => Append(SubSeq(inner, 1, k), seg) \in Visible(names, seg, inner)
<1>0. inner \in Seq(Segs \cup {Root}) /\ Len(inner) \in Nat /\ Len(inner) > 0
  BY KeyFront, RootIsKey
<1>1. ASSUME NEW n \in Visible(names, seg, inner)
      PROVE  \E k \in 1..Len(inner) : n = Append(SubSeq(inner, 1, k), seg)
  <2>1. n \in AbsoluteNormal /\ LastOf(n) = seg /\ Begins(AllButLast(n), inner)
    BY DEF Visible
  <2>2. Len(n) > 1
    BY <2>1, SegsAssumption DEF AbsoluteNormal, LastOf
  <2>3. AllButLast(n) \in Seq(Segs \cup {Root}) /\ Len(n) \in Nat /\ Len(AllButLast(n)) = Len(n) - 1 /\ Append(AllButLast(n), seg) = n
    BY <2>1, <2>2, KeyFront, KeySplits
  <2>4. Len(AllButLast(n)) <= Len(inner) /\ SubSeq(AllButLast(n), 1, Len(AllButLast(n))) = SubSeq(inner, 1, Len(AllButLast(n)))
    BY <2>1 DEF Begins
  <2>5. AllButLast(n) = SubSeq(inner, 1, Len(AllButLast(n))) /\ Len(AllButLast(n)) \in 1..Len(inner)
    BY <1>0, <2>2, <2>3, <2>4, SubSeqFull
  <2> QED
    BY <2>3, <2>5, Zenon
<1>2. ASSUME NEW k \in 1..Len(inner)
      PROVE  /\ Len(Append(SubSeq(inner, 1, k), seg)) = k + 1
             /\ Append(SubSeq(inner, 1, k), seg) \in names
                => Append(SubSeq(inner, 1, k), seg) \in Visible(names, seg, inner)
  <2> DEFINE q == SubSeq(inner, 1, k)
             n == Append(q, seg)
  <2>1. q \in Seq(Segs \cup {Root}) /\ Len(q) = k
    BY <1>0
  <2>2. Len(n) = k + 1 /\ LastOf(n) = seg /\ AllButLast(n) = q
    <3> HIDE DEF q
    <3>1. seg \in Segs \cup {Root} /\ k \in Nat
      OBVIOUS
    <3>2. Len(n) = k + 1 /\ n[k + 1] = seg
      BY <2>1, <3>1, AppendProperties
    <3>3. SubSeq(n, 1, k) = q
      BY <2>1, <3>1
    <3> QED
      BY <3>1, <3>2, <3>3 DEF LastOf, AllButLast
  <2>3. SubSeq(q, 1, k) = q
    BY <2>1, SubSeqFull
  <2>4. Begins(q, inner)
    BY <1>0, <2>1, <2>3 DEF Begins
  <2> QED
    BY <2>2, <2>4, Zenon DEF Visible
<1> QED
  BY <1>1, <1>2, Zenon

\* The walk of the searches ends at the nearest of what is visible.
LEMMA WalkFindsNearest ==
    ASSUME NEW names, names \subseteq AbsoluteNormal, NEW seg \in Segs, NEW inner \in AbsoluteNormal
    PROVE  \/ Visible(names, seg, inner) = {} /\ FirstEnclosing(names, seg, inner) = Err("NotFound")
           \/ /\ Visible(names, seg, inner) # {}
              /\ \E n \in names : /\ FirstEnclosing(names, seg, inner) = Ok(n)
                                  /\ Nearest(n, Visible(names, seg, inner))
<1> DEFINE At(k) == Append(SubSeq(inner, 1, k), seg)
           hit == FirstEnclosing(names, seg, inner)
           visible == Visible(names, seg, inner)
<1>0. Len(inner) \in Nat /\ Len(inner) > 0
  BY KeysAreNormal
<1>1. \/ hit = Err("NotFound") /\ \A k \in 1..Len(inner) : At(k) \notin names
      \/ \E k \in 1..Len(inner) : /\ At(k) \in names /\ hit = Ok(At(k))
                                  /\ \A j \in (k + 1)..Len(inner) : At(j) \notin names
  BY <1>0, FirstEnclosingIsInnermost, Zenon
<1>2. /\ \A n \in visible : n \in names /\ \E k \in 1..Len(inner) : n = At(k)
      /\ \A k \in 1..Len(inner) : Len(At(k)) = k + 1 /\ (At(k) \in names => At(k) \in visible)
  <2>1. \A n \in visible : n \in names
    BY DEF Visible
  <2>2. /\ \A n \in visible : \E k \in 1..Len(inner) : n = At(k)
        /\ \A k \in 1..Len(inner) : Len(At(k)) = k + 1 /\ (At(k) \in names => At(k) \in visible)
    BY VisibleIsEnclosing, Zenon
  <2> HIDE DEF At, visible
  <2> QED
    BY <2>1, <2>2, Zenon
<1> HIDE DEF At, hit, visible
<1>3. CASE hit = Err("NotFound") /\ \A k \in 1..Len(inner) : At(k) \notin names
  <2>1. visible = {}
    BY <1>2, <1>3, Zenon
  <2> QED
    BY <1>3, <2>1 DEF hit, visible
<1>4. ASSUME NEW k \in 1..Len(inner), At(k) \in names, hit = Ok(At(k)),
             \A j \in (k + 1)..Len(inner) : At(j) \notin names
      PROVE  At(k) \in names /\ At(k) \in visible /\ hit = Ok(At(k)) /\ Nearest(At(k), visible)
  <2>1. At(k) \in visible
    BY <1>2, <1>4, Zenon
  <2>2. ASSUME NEW n \in visible PROVE Len(n) <= Len(At(k))
    <3>1. PICK j \in 1..Len(inner) : n = At(j) /\ At(j) \in names
      BY <1>2, Zenon
    <3>2. j <= k
      <4>1. j \notin (k + 1)..Len(inner)
        BY <1>4, <3>1, Zenon
      <4> QED
        BY <1>0, <4>1
    <3>3. Len(n) = j + 1 /\ Len(At(k)) = k + 1
      BY <1>2, <3>1, Zenon
    <3> QED
      BY <3>2, <3>3
  <2> QED
    BY <1>4, <2>1, <2>2, Zenon DEF Nearest
<1>5. ASSUME \E k \in 1..Len(inner) : /\ At(k) \in names /\ hit = Ok(At(k))
                                      /\ \A j \in (k + 1)..Len(inner) : At(j) \notin names
      PROVE  visible # {} /\ \E n \in names : hit = Ok(n) /\ Nearest(n, visible)
  <2>1. PICK k \in 1..Len(inner) : /\ At(k) \in names /\ hit = Ok(At(k))
                                   /\ \A j \in (k + 1)..Len(inner) : At(j) \notin names
    BY <1>5, Zenon
  <2>2. At(k) \in names /\ At(k) \in visible /\ hit = Ok(At(k)) /\ Nearest(At(k), visible)
    BY <1>4, <2>1, Zenon
  <2> QED
    BY <2>2, Zenon
<1> QED
  BY <1>1, <1>3, <1>5, Zenon DEF hit, visible

\* A search by a single segment, as the interpreter makes one for every name
\* it meets, and one for a level, finds what it looks for in the nearest
\* enclosing scope, whatever levels were removed, and fails only when no
\* enclosing scope has one.
THEOREM SearchAlwaysFindsNearest == Spec => []SearchFindsNearest
<1>1. ASSUME TypeOK, NEW seg \in Segs, NEW inner \in Names \cap AbsoluteNormal
      PROVE  LET values == Visible(DOMAIN ns.values, seg, inner)
                 found == search(ns, <<seg>>, inner)
             IN  IF values = {} THEN found = Err("ValueDoesNotExist")
                 ELSE /\ found.ok /\ Nearest(found.val.name, values)
                      /\ get_handle(ns, found.val.name) = Ok(found.val.handle)
  <2> DEFINE values == Visible(DOMAIN ns.values, seg, inner)
             name1 == Enclosing(DOMAIN ns.values, seg, AbsolutePath(inner), "ValueDoesNotExist")
             hit == FirstEnclosing(DOMAIN ns.values, seg, inner)
             found == search(ns, <<seg>>, inner)
  <2>0. DOMAIN ns.values \subseteq AbsoluteNormal /\ Tree(ns, Values)
    BY <1>1 DEF TypeOK, Tree, NamespaceType
  <2>1. search_rules_apply(<<seg>>) /\ <<seg>>[1] = seg
    BY DEF search_rules_apply
  <2>2. AbsolutePath(inner) = Ok(inner)
    BY KeysAreNormal DEF AbsolutePath
  <2>3. name1 = IF hit.ok THEN hit ELSE Err("ValueDoesNotExist")
    BY <2>2, OkOrErr, Zenon DEF Enclosing
  <2>4. found = IF ~name1.ok THEN name1
                ELSE IF ~get_handle(ns, name1.val).ok THEN get_handle(ns, name1.val)
                ELSE Ok([name |-> name1.val, handle |-> get_handle(ns, name1.val).val])
    BY <2>1, Zenon DEF search
  <2>5. \/ values = {} /\ hit = Err("NotFound")
        \/ values # {} /\ \E n \in DOMAIN ns.values : hit = Ok(n) /\ Nearest(n, values)
    BY <2>0, WalkFindsNearest, Zenon
  <2> HIDE DEF name1, hit, found, values
  <2>7. CASE values = {} /\ hit = Err("NotFound")
    <3>1. found = Err("ValueDoesNotExist")
      BY <2>3, <2>4, <2>7, OkOrErr, Zenon
    <3> QED
      BY <2>7, <3>1, Zenon DEF found, values
  <2>8. ASSUME values # {}, NEW n \in DOMAIN ns.values, hit = Ok(n), Nearest(n, values)
        PROVE  /\ found.ok /\ Nearest(found.val.name, values)
               /\ get_handle(ns, found.val.name) = Ok(found.val.handle)
    <3>1. name1 = Ok(n)
      BY <2>3, <2>8, OkOrErr, Zenon
    <3>2. get_handle(ns, n) = Ok(ns.values[n])
      BY <2>0, <2>8, BoundIsFound
    <3>3. found = Ok([name |-> n, handle |-> ns.values[n]])
      <4>1. name1.ok /\ name1.val = n
        BY <3>1, OkOrErr, Zenon
      <4>2. get_handle(ns, name1.val).ok /\ get_handle(ns, name1.val).val = ns.values[n]
        <5>1. Ok(ns.values[n]).ok /\ Ok(ns.values[n]).val = ns.values[n]
          BY OkOrErr, Zenon
        <5> QED
          BY <3>2, <4>1, <5>1
      <4> QED
        BY <2>4, <4>1, <4>2
    <3>4. found.ok /\ found.val.name = n /\ found.val.handle = ns.values[n]
      BY <3>3 DEF Ok
    <3> QED
      BY <2>8, <3>2, <3>4, Zenon
  <2> QED
    BY <2>5, <2>7, <2>8, Zenon DEF found, values
<1>2. ASSUME TypeOK, NEW seg \in Segs, NEW inner \in Names \cap AbsoluteNormal
      PROVE  LET levels == Visible(DOMAIN ns.levels, seg, inner)
                 level == search_for_level(ns, <<seg>>, inner)
             IN  IF levels = {} THEN level = Err("LevelDoesNotExist")
                 ELSE level.ok /\ Nearest(level.val, levels)
  <2> DEFINE levels == Visible(DOMAIN ns.levels, seg, inner)
             hit == FirstEnclosing(DOMAIN ns.levels, seg, inner)
             level == search_for_level(ns, <<seg>>, inner)
  <2>0. DOMAIN ns.levels \subseteq AbsoluteNormal
    BY <1>2 DEF TypeOK, NamespaceType
  <2>1. search_rules_apply(<<seg>>) /\ <<seg>>[1] = seg
    BY DEF search_rules_apply
  <2>2. NormalScope(inner) = Ok(inner)
    <3>1. normalize(inner) = Ok(inner) /\ inner # <<>> /\ is_absolute(inner)
      BY KeysAreNormal
    <3> QED
      BY <3>1, OkOrErr, Zenon DEF NormalScope
  <2>3. level = IF hit.ok THEN hit ELSE Err("LevelDoesNotExist")
    BY <2>1, <2>2, OkOrErr, Zenon DEF search_for_level, Enclosing
  <2>4. \/ levels = {} /\ hit = Err("NotFound")
        \/ levels # {} /\ \E n \in DOMAIN ns.levels : hit = Ok(n) /\ Nearest(n, levels)
    BY <2>0, WalkFindsNearest, Zenon
  <2> HIDE DEF hit, level, levels
  <2>5. IF levels = {} THEN level = Err("LevelDoesNotExist") ELSE level.ok /\ Nearest(level.val, levels)
    BY <2>3, <2>4, OkOrErr, Zenon
  <2> QED
    BY <2>5 DEF level, levels
<1>3. TypeOK => SearchFindsNearest
  BY <1>1, <1>2, Zenon DEF SearchFindsNearest
<1> QED
  BY <1>3, TypeCorrect, PTL

----------------------------------------------------------------------------
\* A relative name can be cut in two: entering the scope the first part leads
\* to and resolving the rest there comes to the same, for names and scopes of
\* any length.  And `parent` is where a `^` leads, and fails where it does.
THEOREM ResolveAlwaysComposes ==
    ASSUME name \in WellFormed \cup {<<>>}, scope \in WellFormed, is_absolute(scope)
    PROVE  ResolveComposes
<1>s. scope \in Seq(Component) /\ IsKey(normalize(scope))
  BY NormalizeIsKey DEF WellFormed
<1>1. ASSUME Picked, ~is_absolute(name), NEW i \in 1..(Len(name) - 1), resolve(SubSeq(name, 1, i), scope).ok
      PROVE  resolve(SubSeq(name, i + 1, Len(name)), resolve(SubSeq(name, 1, i), scope).val) = resolve(name, scope)
  <2> DEFINE p == SubSeq(name, 1, i)
             q == SubSeq(name, i + 1, Len(name))
  <2>1. name \in WellFormed /\ name \in Seq(Component) /\ Len(name) \in Nat /\ \A k \in 1..Len(name) : name[k] # Root
    BY <1>1 DEF Picked, WellFormed, is_absolute
  <2>2. p \in Seq(Component) /\ Len(p) = i /\ \A k \in 1..i : p[k] = name[k]
    BY <2>1
  <2>3. q \in Seq(Component) /\ Len(q) = Len(name) - i /\ \A k \in 1..(Len(name) - i) : q[k] = name[i + k]
    BY <2>1
  <2>4. p \o q = name
    <3>1. 1 \in 1..(Len(name) + 1) /\ i \in (1 - 1)..Len(name) /\ Len(name) \in i..Len(name)
      BY <2>1
    <3>2. p \o q = SubSeq(name, 1, Len(name))
      BY <2>1, <3>1, ConcatAdjacentSubSeq
    <3> QED
      BY <2>1, <3>2, SubSeqFull
  <2> HIDE DEF p, q
  <2>5. p \in WellFormed /\ ~is_absolute(p)
    BY <2>1, <2>2 DEF WellFormed, is_absolute
  <2>6. q \in WellFormed /\ ~is_absolute(q)
    <3>1. Len(q) \in Nat /\ Len(q) > 0 /\ i \in Nat /\ \A k \in 1..Len(q) : i + k \in 1..Len(name) /\ q[k] = name[i + k]
      BY <2>1, <2>3
    <3>2. q # <<>> /\ 1 \in 1..Len(q) /\ \A k \in 2..Len(q) : k \in 1..Len(q)
      BY <3>1
    <3>3. \A k \in 1..Len(q) : q[k] # Root
      BY <2>1, <3>1, Zenon
    <3> QED
      BY <2>3, <3>2, <3>3, Zenon DEF WellFormed, is_absolute
  <2>7. /\ resolve(p, scope) = normalize(scope \o p) /\ IsKey(normalize(scope \o p))
        /\ resolve(name, scope) = normalize(scope \o name)
    BY <1>1, <2>1, <2>5, ResolveIsAbsolute
  <2>8. PICK v \in AbsoluteNormal : resolve(p, scope) = Ok(v)
    <3>1. resolve(p, scope).ok
      BY <1>1 DEF p
    <3> QED
      BY <2>7, <3>1, OkOrErr, Zenon DEF IsKey, Invalid
  <2>9. v \in WellFormed /\ is_absolute(v) /\ v \in Normal
    BY KeysAreNormal
  <2>10. resolve(q, v) = normalize(v \o q)
    BY <2>6, <2>9, ResolveIsAbsolute
  <2>11. scope \o p \in Seq(Component) /\ (scope \o p) \o q = scope \o (p \o q)
    <3>1. p \in Seq(Component) /\ q \in Seq(Component)
      BY <2>2, <2>3
    <3>2. scope \o p \in Seq(Component)
      BY <1>s, <3>1, ConcatProperties, SMTT(30)
    <3>3. \A a, b, c \in Seq(Component) : (a \o b) \o c = a \o (b \o c)
      BY ConcatAssociative, SMTT(30)
    <3> QED
      BY <1>s, <3>1, <3>2, <3>3, Zenon
  <2>12. normalize((scope \o p) \o q) = normalize(v \o q)
    BY <2>3, <2>7, <2>8, <2>9, <2>11, NormalizeConcat, ZenonT(30)
  <2>13. resolve(q, v) = resolve(name, scope)
    BY <2>4, <2>7, <2>10, <2>11, <2>12, Zenon
  <2>14. resolve(p, scope).val = v
    BY <2>8, OkOrErr, Zenon
  <2> QED
    BY <2>13, <2>14, Zenon DEF p, q
<1>2. LET up == resolve(<<Prefix>>, scope) IN IF up.ok THEN parent(scope) = up ELSE ~parent(scope).ok
  <2> DEFINE up == resolve(<<Prefix>>, scope)
  <2>1. <<Prefix>> \in WellFormed /\ ~is_absolute(<<Prefix>>) /\ <<Prefix>> \in Seq(Component)
    BY DEF WellFormed, is_absolute, Component, Prefix, Root
  <2>2. up = normalize(scope \o <<Prefix>>)
    BY <2>1, ResolveIsAbsolute
  <2>3. CASE normalize(scope) = Invalid
    <3>1. up = Invalid
      BY <1>s, <2>1, <2>2, <2>3, NormalizeConcat, Zenon
    <3>2. parent(scope) = Invalid
      BY <2>3, OkOrErr, Zenon DEF parent, Invalid
    <3> QED
      BY <3>1, <3>2, OkOrErr, Zenon DEF Invalid
  <2>4. ASSUME NEW v \in AbsoluteNormal, normalize(scope) = Ok(v)
        PROVE  IF up.ok THEN parent(scope) = up ELSE ~parent(scope).ok
    <3>1. v \in Normal /\ v # <<>> /\ v \in Seq(Component) /\ Len(v) \in Nat /\ Len(v) > 0 /\ normalize(v) = Ok(v)
      BY KeysAreNormal, NormalIsName
    <3>2. up = normalize(v \o <<Prefix>>)
      BY <1>s, <2>1, <2>2, <2>4, <3>1, NormalizeConcat, Zenon
    <3>3. normalize(v \o <<Prefix>>) = NormalizeStep(Ok(v), Prefix)
      BY <3>1, <2>1, NormalizeAppend
    <3>4. LastOf(v) \in Segs \/ LastOf(v) = Root
      BY <3>1 DEF Normal, LastOf
    <3>5. up = IF LastOf(v) \in Segs THEN Ok(AllButLast(v)) ELSE Invalid
      BY <3>1, <3>2, <3>3, NormalizeTurn, Zenon
    <3>6. parent(scope) = IF LastOf(v) = Root THEN Err("RootHasNoParent") ELSE Ok(AllButLast(v))
      BY <2>4, <3>1, OkOrErr DEF parent
    <3>7. CASE LastOf(v) = Root
      BY <3>5, <3>6, <3>7, ComponentFacts, OkOrErr, Zenon DEF Invalid
    <3>8. CASE LastOf(v) \in Segs
      BY <3>5, <3>6, <3>8, ComponentFacts, OkOrErr, Zenon
    <3> QED
      BY <3>4, <3>7, <3>8
  <2> QED
    BY <1>s, <2>3, <2>4, Zenon DEF IsKey
<1> QED
  BY <1>1, <1>2, Zenon DEF ResolveComposes

----------------------------------------------------------------------------
(***************************************************************************)
(* What `normalize` computes.                                               *)
(***************************************************************************)

\* The components i..j of p that are in T, counted.
Among(p, T, i, j) == {k \in i..j : p[k] \in T}

Counts(p, T, i, j, c) ==
    /\ Cardinality(Among(p, T, i, j)) \in Nat
    /\ Cardinality(Among(p, T, i, j + 1)) = Cardinality(Among(p, T, i, j)) + (IF c \in T THEN 1 ELSE 0)

LEMMA CountNext ==
    ASSUME NEW p, NEW T, NEW i \in Nat, NEW j \in Nat, i <= j + 1
    PROVE  Counts(p, T, i, j, p[j + 1])
<1> DEFINE A == Among(p, T, i, j)
<1>1. IsFiniteSet(A) /\ Cardinality(A) \in Nat
  <2>1. IsFiniteSet(i..j)
    BY FS_Interval
  <2>2. A \in SUBSET (i..j)
    BY DEF Among
  <2> QED
    BY <2>1, <2>2, FS_Subset, FS_CardinalityType, Zenon
<1>2. j + 1 \notin A
  BY DEF Among
<1>3. Among(p, T, i, j + 1) = IF p[j + 1] \in T THEN A \cup {j + 1} ELSE A
  BY DEF Among
<1> HIDE DEF A
<1>4. Cardinality(A \cup {j + 1}) = Cardinality(A) + 1
  BY <1>1, <1>2, FS_AddElement, Zenon
<1>5. CASE p[j + 1] \in T
  <2>1. Among(p, T, i, j + 1) = A \cup {j + 1}
    BY <1>3, <1>5
  <2> QED
    BY <1>1, <1>4, <1>5, <2>1 DEF A, Counts
<1>6. CASE p[j + 1] \notin T
  <2>1. Among(p, T, i, j + 1) = A
    BY <1>3, <1>6
  <2> QED
    BY <1>1, <1>6, <2>1 DEF A, Counts
<1> QED
  BY <1>5, <1>6

\* How many levels down one component goes.
Down(c) == IF c \in Segs THEN 1 ELSE IF c = Prefix THEN -1 ELSE 0

Deepens(p, i, j) == Depth(p, i, j) \in Int /\ Depth(p, i, j + 1) = Depth(p, i, j) + Down(p[j + 1])

LEMMA DepthNext ==
    ASSUME NEW p, NEW i \in Nat, NEW j \in Nat, i <= j + 1
    PROVE  Deepens(p, i, j)
<1>1. \A m : Depth(p, i, m) = Cardinality(Among(p, Segs, i, m)) - Cardinality(Among(p, {Prefix}, i, m))
  <2>1. ASSUME NEW m PROVE Depth(p, i, m) = Cardinality(Among(p, Segs, i, m)) - Cardinality(Among(p, {Prefix}, i, m))
    <3>1. {k \in i..m : p[k] = Prefix} = Among(p, {Prefix}, i, m)
      BY DEF Among
    <3> QED
      BY <3>1, Zenon DEF Depth, Among
  <2> QED
    BY <2>1, Zenon
<1>2. Prefix \notin Segs
  BY ComponentFacts
<1> DEFINE s == Cardinality(Among(p, Segs, i, j))
           u == Cardinality(Among(p, {Prefix}, i, j))
           c == p[j + 1]
<1>3. s \in Nat /\ Cardinality(Among(p, Segs, i, j + 1)) = s + (IF c \in Segs THEN 1 ELSE 0)
  <2>1. Counts(p, Segs, i, j, c)
    BY CountNext, Zenon
  <2> QED
    BY <2>1, Zenon DEF Counts
<1>4. u \in Nat /\ Cardinality(Among(p, {Prefix}, i, j + 1)) = u + (IF c \in {Prefix} THEN 1 ELSE 0)
  <2>1. Counts(p, {Prefix}, i, j, c)
    BY CountNext, Zenon
  <2> QED
    BY <2>1, Zenon DEF Counts
<1>5. Depth(p, i, j) = s - u
  BY <1>1, Zenon
<1>6. Depth(p, i, j + 1) = (s + (IF c \in Segs THEN 1 ELSE 0)) - (u + (IF c \in {Prefix} THEN 1 ELSE 0))
  BY <1>1, <1>3, <1>4, Zenon
<1> HIDE DEF s, u, c
<1>7. Depth(p, i, j) \in Int
  BY <1>3, <1>4, <1>5
<1>8. Depth(p, i, j + 1) = Depth(p, i, j) + Down(c)
  BY <1>2, <1>3, <1>4, <1>5, <1>6 DEF Down
<1> QED
  BY <1>7, <1>8, Zenon DEF c, Deepens

LEMMA DepthOfNothing ==
    ASSUME NEW p, NEW i \in Nat
    PROVE  Depth(p, i + 1, i) = 0
<1>1. {k \in (i + 1)..i : p[k] \in Segs} = {} /\ {k \in (i + 1)..i : p[k] = Prefix} = {}
  OBVIOUS
<1>2. Cardinality({}) = 0
  BY FS_EmptySet
<1>3. Depth(p, i + 1, i) = 0 - 0
  BY <1>1, <1>2, Zenon DEF Depth
<1> QED
  BY <1>3

\* Whether component i is one that the first k components keep.
KeptOf(p, k) ==
    {i \in 1..k : p[i] = Root \/ (p[i] \in Segs /\ \A j \in i..k : Depth(p, i, j) > 0)}

\* v is made of the components that are kept, in order; h says where they are.
\* Each of the segments is as deep as there are components from it on.
Lists(p, k, v, m, h) ==
    /\ m \in Nat /\ h \in [1..m -> 1..k]
    /\ \A r, s \in 1..m : r < s => h[r] < h[s]
    /\ \A i \in 1..k : i \in KeptOf(p, k) <=> \E r \in 1..m : h[r] = i
    /\ v \in Normal /\ Len(v) = m /\ \A r \in 1..m : v[r] = p[h[r]]
    /\ \A r \in 1..m : p[h[r]] \in Segs => Depth(p, h[r], k) = m - r + 1

\* How many of the listed components are the root.
RootBit(p, k) == IF k > 0 /\ p[1] = Root THEN 1 ELSE 0

\* What the fold has made of the first k components.
Cancelled(p, k, outcome) ==
    \/ outcome = Invalid /\ \E j \in 1..k : Depth(p, 1, j) < 0
    \/ /\ \A j \in 1..k : Depth(p, 1, j) >= 0
       /\ \E v, m, h :
             /\ outcome = Ok(v) /\ Lists(p, k, v, m, h)
             /\ Depth(p, 1, k) = m - RootBit(p, k)

\* What one more component changes.
LEMMA KeptNext ==
    ASSUME NEW p, RootFirst(p), NEW k \in Nat, k + 1 <= Len(p)
    PROVE  /\ \A i \in 1..k : i \in KeptOf(p, k + 1) <=> i \in KeptOf(p, k) /\ (p[i] = Root \/ Depth(p, i, k + 1) > 0)
           /\ k + 1 \in KeptOf(p, k + 1) <=> p[k + 1] # Prefix
<1>1. ASSUME NEW i \in 1..k
      PROVE  i \in KeptOf(p, k + 1) <=> i \in KeptOf(p, k) /\ (p[i] = Root \/ Depth(p, i, k + 1) > 0)
  <2>1. i..(k + 1) = (i..k) \cup {k + 1}
    OBVIOUS
  <2>2. (\A j \in i..(k + 1) : Depth(p, i, j) > 0) <=> (\A j \in i..k : Depth(p, i, j) > 0) /\ Depth(p, i, k + 1) > 0
    BY <2>1, Zenon
  <2>3. i \in 1..(k + 1)
    OBVIOUS
  <2> QED
    BY <2>2, <2>3, Zenon DEF KeptOf
<1>2. k + 1 \in KeptOf(p, k + 1) <=> p[k + 1] # Prefix
  <2>1. p[k + 1] \in Component /\ k + 1 \in 1..(k + 1) /\ (k + 1)..(k + 1) = {k + 1}
    BY DEF RootFirst
  <2>2. Depth(p, k + 1, k) = 0
    BY DepthOfNothing
  <2>3. Depth(p, k + 1, k + 1) = 0 + Down(p[k + 1])
    BY <2>2, DepthNext DEF Deepens
  <2>4. p[k + 1] \in Segs => Depth(p, k + 1, k + 1) > 0
    BY <2>3 DEF Down
  <2>5. p[k + 1] # Prefix => p[k + 1] = Root \/ p[k + 1] \in Segs
    BY <2>1, ComponentFacts
  <2>6. p[k + 1] = Prefix => p[k + 1] # Root /\ p[k + 1] \notin Segs
    BY ComponentFacts
  <2> QED
    BY <2>1, <2>4, <2>5, <2>6, Zenon DEF KeptOf
<1> QED
  BY <1>1, <1>2, Zenon

\* A component that is not a prefix is listed after the others.
LEMMA ListsMore ==
    ASSUME NEW p, RootFirst(p), NEW k \in Nat, k + 1 <= Len(p), p[k + 1] # Prefix,
           NEW v, NEW m, NEW h, Lists(p, k, v, m, h)
    PROVE  Lists(p, k + 1, Append(v, p[k + 1]), m + 1, [r \in 1..(m + 1) |-> IF r = m + 1 THEN k + 1 ELSE h[r]])
<1> DEFINE c == p[k + 1]
           w == Append(v, c)
           g == [r \in 1..(m + 1) |-> IF r = m + 1 THEN k + 1 ELSE h[r]]
<1>1. /\ m \in Nat /\ h \in [1..m -> 1..k] /\ v \in Normal /\ Len(v) = m
      /\ \A r, s \in 1..m : r < s => h[r] < h[s]
      /\ \A i \in 1..k : i \in KeptOf(p, k) <=> \E r \in 1..m : h[r] = i
      /\ \A r \in 1..m : v[r] = p[h[r]]
      /\ \A r \in 1..m : p[h[r]] \in Segs => Depth(p, h[r], k) = m - r + 1
  BY Zenon DEF Lists
<1>2. c \in Component /\ c \in Segs \cup {Root} /\ (c = Root => k = 0)
  BY ComponentFacts DEF RootFirst
<1>3. m + 1 \in Nat /\ g \in [1..(m + 1) -> 1..(k + 1)]
  BY <1>1
<1>4. g[m + 1] = k + 1 /\ \A r \in 1..m : g[r] = h[r] /\ h[r] \in 1..k
  BY <1>1
<1>5. w \in Normal /\ Len(w) = m + 1 /\ \A r \in 1..(m + 1) : w[r] = p[g[r]]
  BY <1>1, <1>2, <1>4 DEF Normal
<1> HIDE DEF g, w
<1>6. \A r, s \in 1..(m + 1) : r < s => g[r] < g[s]
  <2> SUFFICES ASSUME NEW r \in 1..(m + 1), NEW s \in 1..(m + 1), r < s PROVE g[r] < g[s]
    BY Zenon
  <2>1. r \in 1..m /\ (s \in 1..m \/ s = m + 1)
    BY <1>1
  <2>2. CASE s \in 1..m
    <3>1. h[r] < h[s]
      BY <1>1, <2>1, <2>2, Zenon
    <3> QED
      BY <1>4, <2>1, <2>2, <3>1, Zenon
  <2>3. CASE s = m + 1
    <3>1. g[r] \in 1..k /\ g[s] = k + 1
      BY <1>4, <2>1, <2>3, Zenon
    <3> QED
      BY <3>1
  <2> QED
    BY <2>1, <2>2, <2>3
<1>7. \A i \in 1..k : i \in KeptOf(p, k) /\ p[i] # Root => Depth(p, i, k) > 0
  BY DEF KeptOf
<1>8. \A i \in 1..k : Depth(p, i, k) \in Int /\ Depth(p, i, k + 1) = Depth(p, i, k) + 1
  <2>1. ASSUME NEW i \in 1..k PROVE Depth(p, i, k) \in Int /\ Depth(p, i, k + 1) = Depth(p, i, k) + Down(c)
    BY DepthNext DEF Deepens
  <2>2. k > 0 => c \in Segs
    BY <1>2
  <2> QED
    BY <2>1, <2>2 DEF Down
<1>9. \A i \in 1..(k + 1) : i \in KeptOf(p, k + 1) <=> \E r \in 1..(m + 1) : g[r] = i
  <2>1. ASSUME NEW i \in 1..k PROVE i \in KeptOf(p, k + 1) <=> \E r \in 1..(m + 1) : g[r] = i
    <3>1. i \in KeptOf(p, k + 1) <=> i \in KeptOf(p, k)
      <4>1. i \in KeptOf(p, k + 1) <=> i \in KeptOf(p, k) /\ (p[i] = Root \/ Depth(p, i, k + 1) > 0)
        BY KeptNext
      <4>2. i \in KeptOf(p, k) /\ p[i] # Root => Depth(p, i, k + 1) > 0
        BY <1>7, <1>8
      <4> QED
        BY <4>1, <4>2, Zenon
    <3>2. (\E r \in 1..m : h[r] = i) <=> \E r \in 1..(m + 1) : g[r] = i
      BY <1>1, <1>4, SMTT(30)
    <3> QED
      BY <1>1, <3>1, <3>2, Zenon
  <2>2. k + 1 \in KeptOf(p, k + 1) /\ m + 1 \in 1..(m + 1)
    BY <1>1, KeptNext
  <2>3. 1..(k + 1) = (1..k) \cup {k + 1}
    OBVIOUS
  <2> QED
    BY <1>4, <2>1, <2>2, <2>3, Zenon
<1>10. \A r \in 1..(m + 1) : p[g[r]] \in Segs => Depth(p, g[r], k + 1) = (m + 1) - r + 1
  <2>1. ASSUME NEW r \in 1..m, p[h[r]] \in Segs PROVE Depth(p, h[r], k + 1) = (m + 1) - r + 1
    <3>1. Depth(p, h[r], k) = m - r + 1
      BY <1>1, <2>1, Zenon
    <3>2. Depth(p, h[r], k + 1) = Depth(p, h[r], k) + 1
      BY <1>4, <1>8, Zenon
    <3> QED
      BY <1>1, <3>1, <3>2
  <2>2. c \in Segs => Depth(p, k + 1, k + 1) = 1
    <3>1. Depth(p, k + 1, k) = 0
      BY DepthOfNothing
    <3>2. Deepens(p, k + 1, k)
      BY DepthNext
    <3> QED
      BY <3>1, <3>2 DEF Deepens, Down
  <2>3. (m + 1) - (m + 1) + 1 = 1 /\ 1..(m + 1) = (1..m) \cup {m + 1}
    BY <1>1
  <2> QED
    BY <1>4, <2>1, <2>2, <2>3, Zenon
<1>11. Lists(p, k + 1, w, m + 1, g)
  BY <1>3, <1>5, <1>6, <1>9, <1>10, Zenon DEF Lists
<1> QED
  BY <1>11, Zenon DEF w, g

\* A prefix takes the last of the listed components back, when it is a segment.
LEMMA ListsLess ==
    ASSUME NEW p, RootFirst(p), NEW k \in Nat, k + 1 <= Len(p), p[k + 1] = Prefix,
           NEW v, NEW m, NEW h, Lists(p, k, v, m, h), v # <<>>, LastOf(v) \in Segs
    PROVE  /\ Lists(p, k + 1, AllButLast(v), m - 1, [r \in 1..(m - 1) |-> h[r]])
           /\ m > 0 /\ h[m] \in 1..k /\ p[h[m]] \in Segs
<1> DEFINE w == AllButLast(v)
           g == [r \in 1..(m - 1) |-> h[r]]
<1>1. /\ m \in Nat /\ h \in [1..m -> 1..k] /\ v \in Normal /\ Len(v) = m
      /\ \A r, s \in 1..m : r < s => h[r] < h[s]
      /\ \A i \in 1..k : i \in KeptOf(p, k) <=> \E r \in 1..m : h[r] = i
      /\ \A r \in 1..m : v[r] = p[h[r]]
      /\ \A r \in 1..m : p[h[r]] \in Segs => Depth(p, h[r], k) = m - r + 1
  BY Zenon DEF Lists
<1>2. m > 0 /\ m \in 1..m
  BY <1>1 DEF Normal
<1>3. h[m] \in 1..k /\ p[h[m]] \in Segs
  <2>1. LastOf(v) = v[m]
    BY <1>1, Zenon DEF LastOf
  <2>2. v[m] = p[h[m]]
    BY <1>1, <1>2, Zenon
  <2> QED
    BY <1>1, <1>2, <2>1, <2>2
<1>4. m - 1 \in Nat /\ g \in [1..(m - 1) -> 1..(k + 1)] /\ \A r \in 1..(m - 1) : r \in 1..m /\ r # m /\ g[r] = h[r] /\ h[r] \in 1..k
  BY <1>1, <1>2
<1>5. w \in Normal /\ Len(w) = m - 1 /\ \A r \in 1..(m - 1) : w[r] = v[r]
  BY <1>1, <1>2 DEF Normal, AllButLast
<1> HIDE DEF g, w
<1>6. \A r, s \in 1..(m - 1) : r < s => g[r] < g[s]
  BY <1>1, <1>4, Zenon
<1>7. \A r \in 1..(m - 1) : w[r] = p[g[r]]
  BY <1>1, <1>4, <1>5, Zenon
<1>8. \A i \in 1..k : Depth(p, i, k) \in Int /\ Depth(p, i, k + 1) = Depth(p, i, k) - 1
  <2>1. ASSUME NEW i \in 1..k PROVE Depth(p, i, k) \in Int /\ Depth(p, i, k + 1) = Depth(p, i, k) - 1
    <3>1. Deepens(p, i, k)
      BY DepthNext
    <3> QED
      BY <3>1, ComponentFacts DEF Deepens, Down
  <2> QED
    BY <2>1, Zenon
<1>9. \A r \in 1..m : p[h[r]] \in Segs => Depth(p, h[r], k + 1) = m - r
  <2> SUFFICES ASSUME NEW r \in 1..m, p[h[r]] \in Segs PROVE Depth(p, h[r], k + 1) = m - r
    BY Zenon
  <2>1. Depth(p, h[r], k) = m - r + 1
    BY <1>1, Zenon
  <2>2. h[r] \in 1..k
    BY <1>1, Zenon
  <2>3. Depth(p, h[r], k + 1) = Depth(p, h[r], k) - 1
    BY <1>8, <2>2, Zenon
  <2> QED
    BY <1>1, <2>1, <2>3
<1>10. \A r \in 1..m : h[r] \in KeptOf(p, k + 1) <=> r # m
  <2> SUFFICES ASSUME NEW r \in 1..m PROVE h[r] \in KeptOf(p, k + 1) <=> r # m
    BY Zenon
  <2>1. h[r] \in 1..k /\ h[r] \in KeptOf(p, k)
    BY <1>1, Zenon
  <2>2. h[r] \in KeptOf(p, k + 1) <=> (p[h[r]] = Root \/ Depth(p, h[r], k + 1) > 0)
    BY <2>1, KeptNext, Zenon
  <2>3. p[h[r]] = Root \/ p[h[r]] \in Segs
    BY <2>1 DEF KeptOf
  <2>4. p[h[r]] \in Segs => (Depth(p, h[r], k + 1) > 0 <=> r # m)
    BY <1>1, <1>9
  <2>5. p[h[r]] = Root => r # m
    BY <1>3, ComponentFacts
  <2> QED
    BY <2>2, <2>3, <2>4, <2>5, Zenon
<1>11. \A i \in 1..(k + 1) : i \in KeptOf(p, k + 1) <=> \E r \in 1..(m - 1) : g[r] = i
  <2>1. ASSUME NEW i \in 1..k, i \in KeptOf(p, k + 1) PROVE \E r \in 1..(m - 1) : g[r] = i
    <3>1. i \in KeptOf(p, k)
      BY <2>1, KeptNext, Zenon
    <3>2. PICK r \in 1..m : h[r] = i
      BY <1>1, <3>1, Zenon
    <3>3. r # m
      BY <1>10, <2>1, <3>2, Zenon
    <3>4. r \in 1..(m - 1)
      BY <1>1, <3>3
    <3> QED
      BY <1>4, <3>2, <3>4, Zenon
  <2>2. k + 1 \notin KeptOf(p, k + 1)
    BY KeptNext, Zenon
  <2>3. ASSUME NEW r \in 1..(m - 1) PROVE g[r] \in KeptOf(p, k + 1)
    BY <1>4, <1>10, Zenon
  <2>4. 1..(k + 1) = (1..k) \cup {k + 1}
    OBVIOUS
  <2> QED
    BY <2>1, <2>2, <2>3, <2>4, Zenon
<1>12. \A r \in 1..(m - 1) : p[g[r]] \in Segs => Depth(p, g[r], k + 1) = (m - 1) - r + 1
  <2>1. \A r \in 1..(m - 1) : m - r = (m - 1) - r + 1
    BY <1>1
  <2> QED
    BY <1>4, <1>9, <2>1, Zenon
<1>13. Lists(p, k + 1, w, m - 1, g)
  BY <1>4, <1>5, <1>6, <1>7, <1>11, <1>12, Zenon DEF Lists
<1> QED
  BY <1>2, <1>3, <1>13, Zenon DEF w, g

\* The root, when there is one, is the first that is listed; where nothing
\* but it is listed, the name is back where it began.
LEMMA ListsRoot ==
    ASSUME NEW p, RootFirst(p), NEW k \in Nat, k <= Len(p),
           NEW v, NEW m, NEW h, Lists(p, k, v, m, h)
    PROVE  /\ RootBit(p, k) <= m
           /\ v = <<>> \/ LastOf(v) \notin Segs => m = RootBit(p, k)
           /\ m > 0 /\ p[h[m]] \in Segs => RootBit(p, k) < m
<1>1. /\ m \in Nat /\ h \in [1..m -> 1..k] /\ v \in Normal /\ Len(v) = m
      /\ \A r, s \in 1..m : r < s => h[r] < h[s]
      /\ \A i \in 1..k : i \in KeptOf(p, k) <=> \E r \in 1..m : h[r] = i
      /\ \A r \in 1..m : v[r] = p[h[r]]
  BY Zenon DEF Lists
<1>2. RootBit(p, k) \in {0, 1} /\ (RootBit(p, k) = 1 <=> k > 0 /\ p[1] = Root)
  BY DEF RootBit
<1>3. ASSUME k > 0, p[1] = Root PROVE \E r \in 1..m : h[r] = 1
  <2>1. 1 \in 1..k /\ 1 \in KeptOf(p, k)
    BY <1>3 DEF KeptOf
  <2> QED
    BY <1>1, <2>1, Zenon
<1>4. RootBit(p, k) <= m
  BY <1>1, <1>2, <1>3
<1>5. ASSUME v = <<>> PROVE m = RootBit(p, k)
  <2>1. m = 0
    BY <1>1, <1>5
  <2> QED
    BY <1>2, <1>4, <2>1
<1>6. ASSUME v # <<>>, LastOf(v) \notin Segs PROVE m = RootBit(p, k)
  <2>1. m > 0 /\ m \in 1..m /\ v[m] \in Segs \cup {Root} /\ LastOf(v) = v[m]
    BY <1>1, <1>6 DEF Normal, LastOf
  <2>2. p[h[m]] = Root /\ h[m] \in 1..k
    BY <1>1, <1>6, <2>1
  <2>3. h[m] = 1 /\ k > 0
    BY <2>2 DEF RootFirst
  <2>4. ~(1 < m)
    <3> SUFFICES ASSUME 1 < m PROVE FALSE
      OBVIOUS
    <3>1. 1 \in 1..m
      BY <1>1
    <3>2. h[1] < h[m] /\ h[1] \in 1..k
      BY <1>1, <2>1, <3>1, Zenon
    <3> QED
      BY <2>3, <3>2
  <2> QED
    BY <1>1, <1>2, <2>1, <2>2, <2>3, <2>4
<1>7. ASSUME m > 0, p[h[m]] \in Segs PROVE RootBit(p, k) < m
  <2>1. ASSUME k > 0, p[1] = Root PROVE m > 1
    <3>1. PICK r \in 1..m : h[r] = 1
      BY <1>3, <2>1
    <3>2. r # m
      BY <1>7, <2>1, <3>1, ComponentFacts
    <3> QED
      BY <1>1, <3>2
  <2> QED
    BY <1>1, <1>2, <1>7, <2>1, SMTT(30)
<1> QED
  BY <1>4, <1>5, <1>6, <1>7, Zenon

LEMMA CancelledNext ==
    ASSUME NEW p, RootFirst(p), NEW k \in Nat, k + 1 <= Len(p), NEW outcome, Cancelled(p, k, outcome)
    PROVE  Cancelled(p, k + 1, NormalizeStep(outcome, p[k + 1]))
<1> DEFINE c == p[k + 1]
<1>1. 1..(k + 1) = (1..k) \cup {k + 1} /\ k \in Nat /\ k + 1 \in Nat /\ k <= Len(p)
  BY DEF RootFirst
<1>2. CASE outcome = Invalid /\ \E j \in 1..k : Depth(p, 1, j) < 0
  <2>1. NormalizeStep(outcome, c) = Invalid
    BY <1>2, NormalizeTurn, Zenon DEF Invalid
  <2> QED
    BY <1>1, <1>2, <2>1, Zenon DEF Cancelled
<1>3. ASSUME \A j \in 1..k : Depth(p, 1, j) >= 0, NEW v, NEW m, NEW h,
             outcome = Ok(v), Lists(p, k, v, m, h), Depth(p, 1, k) = m - RootBit(p, k)
      PROVE  Cancelled(p, k + 1, NormalizeStep(outcome, c))
  <2>1. m \in Nat /\ RootBit(p, k) \in Nat /\ RootBit(p, k + 1) \in Nat
    BY <1>3 DEF Lists, RootBit
  <2>2. Depth(p, 1, k + 1) = m - RootBit(p, k) + Down(c)
    <3>1. Deepens(p, 1, k)
      BY DepthNext
    <3> QED
      BY <1>3, <3>1, Zenon DEF Deepens
  <2>3. k > 0 => RootBit(p, k + 1) = RootBit(p, k)
    BY DEF RootBit
  <2>4. CASE c # Prefix
    <3> DEFINE w == Append(v, c)
               g == [r \in 1..(m + 1) |-> IF r = m + 1 THEN k + 1 ELSE h[r]]
    <3>1. Lists(p, k + 1, w, m + 1, g)
      BY <1>3, <2>4, ListsMore
    <3> HIDE DEF w, g
    <3>2. NormalizeStep(outcome, c) = Ok(w)
      BY <1>3, <2>4, NormalizeTurn, Zenon DEF w
    <3>3. Depth(p, 1, k + 1) = (m + 1) - RootBit(p, k + 1)
      <4>1. c \in Component /\ (c = Root => k = 0)
        BY DEF RootFirst
      <4>2. c \in Segs \/ c = Root
        BY <2>4, <4>1, ComponentFacts, SMTT(30)
      <4>3. CASE c = Root
        <5>1. k = 0 /\ RootBit(p, k) = 0 /\ RootBit(p, k + 1) = 1 /\ Down(c) = 0
          BY <4>1, <4>3, ComponentFacts DEF RootBit, Down
        <5> QED
          BY <2>1, <2>2, <5>1
      <4>4. CASE c \in Segs
        <5>1. Down(c) = 1
          BY <4>4 DEF Down
        <5>2. k = 0 => RootBit(p, k) = 0 /\ RootBit(p, k + 1) = 0
          BY <4>4, ComponentFacts DEF RootBit
        <5> QED
          BY <2>1, <2>2, <2>3, <5>1, <5>2
      <4> QED
        BY <4>2, <4>3, <4>4
    <3>4. RootBit(p, k + 1) <= m + 1
      BY <1>1, <3>1, ListsRoot, Zenon
    <3>5. Depth(p, 1, k + 1) >= 0
      BY <2>1, <3>3, <3>4
    <3> QED
      BY <1>1, <1>3, <3>1, <3>2, <3>3, <3>5, Zenon DEF Cancelled
  <2>5. CASE c = Prefix /\ v # <<>> /\ LastOf(v) \in Segs
    <3> DEFINE w == AllButLast(v)
               g == [r \in 1..(m - 1) |-> h[r]]
    <3>1. Lists(p, k + 1, w, m - 1, g) /\ m > 0 /\ h[m] \in 1..k /\ p[h[m]] \in Segs
      BY <1>3, <2>5, ListsLess
    <3> HIDE DEF w, g
    <3>2. NormalizeStep(outcome, c) = Ok(w)
      BY <1>3, <2>5, NormalizeTurn, Zenon DEF w
    <3>3. RootBit(p, k) < m
      BY <1>1, <1>3, <3>1, ListsRoot, Zenon
    <3>4. k > 0 /\ Down(c) = -1
      BY <2>5, <3>1, ComponentFacts DEF Down
    <3>5. Depth(p, 1, k + 1) = (m - 1) - RootBit(p, k + 1) /\ Depth(p, 1, k + 1) >= 0
      BY <2>1, <2>2, <2>3, <3>3, <3>4
    <3> QED
      BY <1>1, <1>3, <3>1, <3>2, <3>5, Zenon DEF Cancelled
  <2>6. CASE c = Prefix /\ ~(v # <<>> /\ LastOf(v) \in Segs)
    <3>1. NormalizeStep(outcome, c) = Invalid
      BY <1>3, <2>6, NormalizeTurn, Zenon
    <3>2. m = RootBit(p, k)
      BY <1>1, <1>3, <2>6, ListsRoot, Zenon
    <3>3. Down(c) = -1
      BY <2>6, ComponentFacts DEF Down
    <3>4. Depth(p, 1, k + 1) < 0
      BY <2>1, <2>2, <3>2, <3>3
    <3> QED
      BY <1>1, <3>1, <3>4, Zenon DEF Cancelled
  <2> QED
    BY <2>4, <2>5, <2>6
<1> QED
  BY <1>2, <1>3, Zenon DEF Cancelled

LEMMA CancelledAll ==
    ASSUME NEW p, RootFirst(p), NEW a, Steps(a, p)
    PROVE  Cancelled(p, Len(p), a[Len(p)])
<1> DEFINE S == {k \in Nat : k <= Len(p) => Cancelled(p, k, a[k])}
<1>0. Len(p) \in Nat
  BY DEF RootFirst
<1>1. 0 \in S
  <2> DEFINE h == [r \in 1..0 |-> 0]
  <2>1. 1..0 = {} /\ h \in [1..0 -> 1..0] /\ <<>> \in Normal /\ Len(<<>>) = 0 /\ 0 \in Nat
    BY DEF Normal
  <2> HIDE DEF h
  <2>2. Lists(p, 0, <<>>, 0, h)
    BY <2>1, Zenon DEF Lists
  <2>3. Depth(p, 1, 0) = 0 - RootBit(p, 0)
    <3>1. Depth(p, 0 + 1, 0) = 0
      BY DepthOfNothing, Zenon
    <3> QED
      BY <3>1 DEF RootBit
  <2>4. Cancelled(p, 0, a[0])
    BY <2>1, <2>2, <2>3, Zenon DEF Cancelled, Steps
  <2> QED
    BY <2>4
<1>2. ASSUME NEW k \in Nat, k \in S PROVE k + 1 \in S
  <2> SUFFICES ASSUME k + 1 <= Len(p) PROVE Cancelled(p, k + 1, a[k + 1])
    OBVIOUS
  <2>1. Cancelled(p, k, a[k])
    BY <1>0, <1>2
  <2>2. k + 1 \in 1..Len(p) /\ (k + 1) - 1 = k
    BY <1>0
  <2>3. a[k + 1] = NormalizeStep(a[k], p[k + 1])
    BY <2>2, Zenon DEF Steps
  <2> QED
    BY <2>1, <2>3, CancelledNext, Zenon
<1> HIDE DEF S
<1>3. Len(p) \in S
  BY <1>0, <1>1, <1>2, SetInduction
<1> QED
  BY <1>0, <1>3 DEF S

\* The listed components are the kept ones, in the order of their ranks.
LEMMA ListedByRank ==
    ASSUME NEW p, NEW k \in Nat, NEW v, NEW m, NEW h, Lists(p, k, v, m, h)
    PROVE  /\ Cardinality(KeptOf(p, k)) = m
           /\ \A r \in 1..m : (CHOOSE i \in KeptOf(p, k) : Cardinality({j \in KeptOf(p, k) : j <= i}) = r) = h[r]
<1> DEFINE K == KeptOf(p, k)
           Upto(i) == {j \in K : j <= i}
<1>1. /\ m \in Nat /\ h \in [1..m -> 1..k]
      /\ \A r, s \in 1..m : r < s => h[r] < h[s]
      /\ \A i \in 1..k : i \in K <=> \E r \in 1..m : h[r] = i
  BY Zenon DEF Lists
<1>2. K \subseteq 1..k
  BY DEF KeptOf
<1> HIDE DEF K
<1>3. \A i \in K : \E r \in 1..m : h[r] = i
  BY <1>1, <1>2
<1>4. \A r \in 1..m : h[r] \in K /\ h[r] \in Nat
  BY <1>1
<1>5. ASSUME NEW n \in 0..m, NEW T, T = {i \in K : \E r \in 1..n : h[r] = i} PROVE Cardinality(T) = n
  <2> DEFINE f == [r \in 1..n |-> h[r]]
  <2>1. f \in [1..n -> T]
    BY <1>1, <1>4, <1>5, SMTT(30)
  <2>2. \A r, s \in 1..n : f[r] = f[s] => r = s
    <3> SUFFICES ASSUME NEW r \in 1..n, NEW s \in 1..n, h[r] = h[s] PROVE r = s
      OBVIOUS
    <3>1. r \in 1..m /\ s \in 1..m /\ h[r] \in Nat /\ h[s] \in Nat
      BY <1>1, <1>4
    <3>2. ~(r < s) /\ ~(s < r)
      BY <1>1, <3>1
    <3> QED
      BY <3>1, <3>2
  <2>3. \A i \in T : \E r \in 1..n : f[r] = i
    BY <1>5
  <2> HIDE DEF f
  <2>4. ExistsBijection(1..n, T)
    BY <2>1, <2>2, <2>3, Zenon DEF ExistsBijection, Bijection, Injection, Surjection, IsInjective
  <2>5. IsFiniteSet(1..n) /\ Cardinality(1..n) = n
    BY FS_Interval
  <2> QED
    BY <2>4, <2>5, FS_Bijection, Zenon
<1>6. Cardinality(K) = m
  <2>1. K = {i \in K : \E r \in 1..m : h[r] = i} /\ m \in 0..m
    BY <1>1, <1>3
  <2> QED
    BY <1>5, <2>1, Zenon
<1>7. \A r \in 1..m : Cardinality(Upto(h[r])) = r
  <2> SUFFICES ASSUME NEW r \in 1..m PROVE Cardinality(Upto(h[r])) = r
    BY Zenon
  <2>1. \A s \in 1..m : h[s] <= h[r] <=> s \in 1..r
    <3> SUFFICES ASSUME NEW s \in 1..m PROVE h[s] <= h[r] <=> s \in 1..r
      OBVIOUS
    <3>1. h[r] \in Nat /\ h[s] \in Nat /\ (r < s => h[r] < h[s]) /\ (s < r => h[s] < h[r])
      BY <1>1, <1>4
    <3> QED
      BY <1>1, <3>1
  <2>2. \A s \in 1..r : s \in 1..m
    BY <1>1
  <2>3. Upto(h[r]) = {i \in K : \E s \in 1..r : h[s] = i}
    BY <1>3, <2>1, <2>2
  <2>4. r \in 0..m
    BY <1>1
  <2> QED
    BY <1>5, <2>3, <2>4, Zenon
<1>8. ASSUME NEW r \in 1..m PROVE (CHOOSE i \in K : Cardinality(Upto(i)) = r) = h[r]
  <2>1. \A i \in K : Cardinality(Upto(i)) = r => i = h[r]
    <3> SUFFICES ASSUME NEW i \in K, Cardinality(Upto(i)) = r PROVE i = h[r]
      OBVIOUS
    <3>1. PICK s \in 1..m : h[s] = i
      BY <1>3
    <3>2. s = r
      BY <1>7, <3>1, Zenon
    <3> QED
      BY <3>1, <3>2
  <2>2. h[r] \in K /\ Cardinality(Upto(h[r])) = r
    BY <1>4, <1>7, Zenon
  <2> QED
    BY <2>1, <2>2, Zenon
<1> QED
  BY <1>6, <1>8, Zenon DEF K

LEMMA NamesAreRootFirst ==
    ASSUME NEW p \in WellFormed \cup {<<>>}
    PROVE  RootFirst(p)
<1>1. CASE p \in WellFormed
  <2>1. p \in Seq(Component) /\ Len(p) \in Nat /\ \A i \in 2..Len(p) : p[i] # Root
    BY <1>1 DEF WellFormed
  <2>2. \A i \in 1..Len(p) : i \in 2..Len(p) \/ i = 1
    BY <2>1
  <2> QED
    BY <2>1, <2>2, Zenon DEF RootFirst
<1>2. CASE p = <<>>
  BY <1>2 DEF RootFirst
<1> QED
  BY <1>1, <1>2

\* Every name that `from_str` or the `name_string` parser can build is
\* normalised to what the cancellation of segments by prefixes leaves of it,
\* however long it is; `normalize` fails exactly for the names that climb
\* above where they start.
THEOREM NormalizeAlwaysCancels ==
    ASSUME name \in WellFormed \cup {<<>>}
    PROVE  NormalizeIsCancellation
<1> DEFINE p == name
<1>1. RootFirst(p)
  BY NamesAreRootFirst
<1> HIDE DEF p
<1>2. p \in Seq(Component) /\ Len(p) \in Nat
  BY <1>1 DEF RootFirst
<1>3. PICK a : Steps(a, p) /\ normalize(p) = a[Len(p)]
  BY <1>2, NormalizeSteps, Zenon
<1>4. Cancelled(p, Len(p), normalize(p))
  BY <1>1, <1>3, CancelledAll, Zenon
<1> DEFINE K == KeptOf(p, Len(p))
           rank(i) == Cardinality({j \in K : j <= i})
<1>5. Normalized(p) = IF \E j \in 1..Len(p) : Depth(p, 1, j) < 0 THEN Invalid
                      ELSE Ok([r \in 1..Cardinality(K) |-> p[CHOOSE i \in K : rank(i) = r]])
  BY Zenon DEF Normalized, KeptOf, Invalid
<1> HIDE DEF K
<1>6. CASE normalize(p) = Invalid /\ \E j \in 1..Len(p) : Depth(p, 1, j) < 0
  BY <1>5, <1>6, Zenon DEF NormalizeIsCancellation, p
<1>7. ASSUME \A j \in 1..Len(p) : Depth(p, 1, j) >= 0, NEW v, NEW m, NEW h,
             normalize(p) = Ok(v), Lists(p, Len(p), v, m, h)
      PROVE  normalize(p) = Normalized(p)
  <2>1. Cardinality(K) = m /\ \A r \in 1..m : (CHOOSE i \in K : rank(i) = r) = h[r]
    BY <1>2, <1>7, ListedByRank, Zenon DEF K
  <2>2. ~\E j \in 1..Len(p) : Depth(p, 1, j) < 0
    <3>1. \A j \in 1..Len(p) : Depth(p, 1, j) \in Int
      <4>1. ASSUME NEW j \in 1..Len(p) PROVE Depth(p, 1, j) \in Int
        <5>1. Deepens(p, 1, j)
          BY DepthNext
        <5> QED
          BY <5>1, Zenon DEF Deepens
      <4> QED
        BY <4>1, Zenon
    <3> QED
      BY <1>7, <3>1
  <2>3. v \in Normal /\ Len(v) = m /\ \A r \in 1..m : v[r] = p[h[r]]
    BY <1>7, Zenon DEF Lists
  <2>4. v = [r \in 1..m |-> v[r]]
    BY <2>3 DEF Normal
  <2>5. [r \in 1..m |-> v[r]] = [r \in 1..m |-> p[CHOOSE i \in K : rank(i) = r]]
    BY <2>1, <2>3, ZenonT(30)
  <2> QED
    BY <1>5, <1>7, <2>1, <2>2, <2>4, <2>5, Zenon
<1> QED
  BY <1>4, <1>6, <1>7, Zenon DEF Cancelled, NormalizeIsCancellation, p

\* A name that `as_string` prints is read back by `from_str` as it was, unless
\* it ends in a prefix, and then it is refused: for every name, of any length.
THEOREM PrintedNamesAlwaysReadBack ==
    ASSUME name \in WellFormed \cup {<<>>}
    PROVE  PrintedNamesReadBack
<1>1. RootFirst(name)
  BY NamesAreRootFirst
<1>2. LastOf(name) = name[Len(name)]
  BY Zenon DEF LastOf
<1> QED
  BY <1>1, <1>2, PrintAndRead, Zenon DEF PrintedNamesReadBack, Picked
=============================================================================
