-------------------------- MODULE AmlLifetimeProofs --------------------------
(***************************************************************************)
(* Proofs about AmlContext, for all programs: how long what a method makes  *)
(* lives.  The level of a method's locals is gone when the last invocation  *)
(* of the method is, and the region of a field outlives the field.          *)
(***************************************************************************)
EXTENDS AmlContextProofs, NamespaceTheorems

\* The names a scope can have.
IsScope(s) == s \in WellFormed /\ is_absolute(s)

\* The keys of methods: `search` returns them, and they are never the root.
MethodKeys == AbsoluteNormal \ {root}

\* What the frames keep for later: a scope to go back to, the method to look
\* up or to leave.  Only parse_table starts from nothing.
Remembers(fs) ==
    \A i \in 1..Len(fs) :
        /\ IsScope(fs[i].scope)
        /\ fs[i].kind \in {"args", "method"} => fs[i].name \in MethodKeys
        /\ fs[i].kind = "table" => i = 1

\* The regions of the fields among these objects are objects, and older.
RegionsOf(objects) ==
    \A h \in DOMAIN objects : objects[h].type = "Field" => objects[h].region \in DOMAIN objects \cap 0..(h - 1)

\* The namespace is a tree whose names are bound to objects; while the
\* counter cannot wrap around, handles are issued in ascending order, and a
\* field is younger than its region.
Sound(n) ==
    /\ Tree(n, AmlValues)
    /\ \A v \in DOMAIN n.values : n.values[v] \in DOMAIN n.object_map
    /\ OverflowChecks => (\A h \in DOMAIN n.object_map : h < n.next_handle) /\ RegionsOf(n.object_map)

Locals(n) == {l \in DOMAIN n.levels : n.levels[l] = "MethodLocals"}
MethodsOn(fs) == {fs[i].name : i \in {j \in 1..Len(fs) : fs[j].kind = "method"}}

Lifetimes ==
    /\ program \in Programs
    /\ Sound(ns)
    /\ IsScope(current_scope)
    /\ Remembers(frames)
    /\ Locals(ns) \subseteq MethodsOn(frames)

----------------------------------------------------------------------------
(***************************************************************************)
(* What the calls on the namespace keep.                                    *)
(***************************************************************************)

\* What `search` returns is bound: the key and the handle it is bound to.
LEMMA SearchIsBound ==
    ASSUME NEW n, NEW Objects, Tree(n, Objects), NEW path \in WellFormed, NEW scope, IsScope(scope),
           search(n, path, scope).ok
    PROVE  /\ search(n, path, scope).val.name \in DOMAIN n.values \cap MethodKeys
           /\ search(n, path, scope).val.handle = n.values[search(n, path, scope).val.name]
<1> DEFINE name == IF search_rules_apply(path)
                   THEN Enclosing(DOMAIN n.values, path[1], AbsolutePath(scope), "ValueDoesNotExist")
                   ELSE resolve(path, scope)
           handle == get_handle(n, name.val)
<1>1. search(n, path, scope) = IF ~name.ok THEN name ELSE IF ~handle.ok THEN handle
                               ELSE Ok([name |-> name.val, handle |-> handle.val])
  BY Zenon DEF search
<1>2. name.ok /\ handle.ok /\ search(n, path, scope) = Ok([name |-> name.val, handle |-> handle.val])
  BY <1>1, Zenon
<1>3. name.val \in WellFormed /\ is_absolute(name.val)
  <2>1. CASE search_rules_apply(path)
    <3> DEFINE inner == AbsolutePath(scope)
               hit == FirstEnclosing(DOMAIN n.values, path[1], inner.val)
    <3>1. name = IF ~inner.ok THEN inner ELSE IF hit.ok THEN hit ELSE Err("ValueDoesNotExist")
      BY <2>1, Zenon DEF Enclosing
    <3>2. inner.ok /\ hit.ok /\ name = hit
      BY <1>2, <3>1, OkOrErr, Zenon
    <3>3. inner.val \in AbsoluteNormal
      BY <3>2, AbsolutePathIsKey DEF IsScope
    <3>4. Len(inner.val) \in Nat /\ Len(inner.val) > 0
      BY <3>3, KeysAreNormal
    <3> HIDE DEF inner
    <3>5. PICK v \in DOMAIN n.values : hit = Ok(v)
      <4> HIDE DEF name
      <4>1. \/ hit = Err("NotFound")
            \/ \E k \in 1..Len(inner.val) : /\ Append(SubSeq(inner.val, 1, k), path[1]) \in DOMAIN n.values
                                            /\ hit = Ok(Append(SubSeq(inner.val, 1, k), path[1]))
        BY <3>4, FirstEnclosingIsInnermost
      <4> HIDE DEF hit
      <4> QED
        BY <3>2, <4>1, OkOrErr, Zenon
    <3>6. name.val = v
      BY <3>2, <3>5, OkOrErr, Zenon
    <3>7. v \in AbsoluteNormal
      BY DEF Tree, NamespaceType
    <3> QED
      BY <3>6, <3>7, KeysAreNormal, Zenon
  <2>2. CASE ~search_rules_apply(path)
    <3>1. name = resolve(path, scope)
      BY <2>2, Zenon
    <3>2. name = Invalid \/ \E v \in WellFormed : is_absolute(v) /\ name = Ok(v)
      BY <3>1, ResolveIsAbsolute DEF IsScope
    <3> QED
      <4> HIDE DEF name
      <4>1. CASE name = Invalid
        BY <1>2, <4>1, OkOrErr, Zenon DEF Invalid
      <4>2. ASSUME NEW v \in WellFormed, is_absolute(v), name = Ok(v)
            PROVE  name.val \in WellFormed /\ is_absolute(name.val)
        <5>1. name.val = v
          BY <4>2, OkOrErr, Zenon
        <5> QED
          BY <4>2, <5>1
      <4> QED
        BY <3>2, <4>1, <4>2
  <2> QED
    BY <2>1, <2>2
<1> HIDE DEF name
<1>4. /\ name.val \in DOMAIN n.values /\ name.val \in AbsoluteNormal /\ handle = Ok(n.values[name.val])
  BY <1>2, <1>3, FoundIsBound
<1>5. name.val # root
  BY <1>4, RootIsKey DEF Tree, Rooted
<1>6. search(n, path, scope).val = [name |-> name.val, handle |-> handle.val] /\ handle.val = n.values[name.val]
  BY <1>2, <1>4, OkOrErr, Zenon
<1> QED
  BY <1>4, <1>5, <1>6 DEF MethodKeys

\* add_level keeps the namespace sound.  It makes no level but the one asked
\* for, and none when it fails.
LEMMA AddLevelKeeps ==
    ASSUME NEW n, Sound(n), NEW path \in WellFormed, NEW typ \in LevelTypes
    PROVE  /\ Sound(add_level(n, path, typ).ns)
           /\ typ # "MethodLocals" => Locals(add_level(n, path, typ).ns) \subseteq Locals(n)
           /\ path \in AbsoluteNormal => Locals(add_level(n, path, typ).ns) \subseteq Locals(n) \cup {path}
           /\ ~add_level(n, path, typ).res.ok => add_level(n, path, typ).ns = n
<1> DEFINE t == add_level(n, path, typ).ns
<1>1. t = n \/ \E p \in AbsoluteNormal : AbsolutePath(path) = Ok(p) /\ LevelAdded(n, t, p, typ)
  BY AddLevelEffect, Zenon DEF Sound
<1>2. ~add_level(n, path, typ).res.ok => t = n
  <2>1. Unit.ok
    BY DEF Unit, Ok
  <2> QED
    BY <2>1, Zenon DEF add_level
<1> HIDE DEF t
<1>3. ASSUME NEW p \in AbsoluteNormal, AbsolutePath(path) = Ok(p), LevelAdded(n, t, p, typ)
      PROVE  /\ Sound(t) /\ Locals(t) \subseteq Locals(n) \cup {p} /\ (typ # "MethodLocals" => Locals(t) \subseteq Locals(n))
             /\ path \in AbsoluteNormal => path = p
  <2>1. Tree(t, AmlValues)
    <3>1. Effect(n, t, AmlValues)
      BY <1>3, Zenon DEF Effect
    <3> QED
      BY <3>1, EffectType DEF Sound
  <2>2. t.object_map = n.object_map /\ t.next_handle = n.next_handle /\ t.values = n.values /\ t.levels = Insert(n.levels, p, typ)
    BY <1>3 DEF LevelAdded, Record
  <2>3. Sound(t)
    BY <2>1, <2>2 DEF Sound
  <2>4. Locals(t) \subseteq Locals(n) \cup {p} /\ (typ # "MethodLocals" => Locals(t) \subseteq Locals(n))
    BY <2>2 DEF Locals, Insert
  <2>5. path \in AbsoluteNormal => AbsolutePath(path) = Ok(path)
    BY KeysAreNormal, Zenon DEF AbsolutePath
  <2> QED
    BY <1>3, <2>3, <2>4, <2>5, OkOrErr, Zenon
<1> QED
  BY <1>1, <1>2, <1>3, Zenon DEF t

\* remove_level keeps the namespace sound.  Whether it fails or not, the
\* level is not there afterwards.
LEMMA RemoveLevelKeeps ==
    ASSUME NEW n, Sound(n), NEW path \in MethodKeys
    PROVE  /\ Sound(remove_level(n, path).ns)
           /\ Locals(remove_level(n, path).ns) \subseteq Locals(n) \ {path}
<1> DEFINE t == remove_level(n, path).ns
<1>0. /\ Tree(n, AmlValues) /\ path \in AbsoluteNormal /\ path # root /\ path \in WellFormed
      /\ AbsolutePath(path) = Ok(path)
  BY KeysAreNormal, Zenon DEF Sound, MethodKeys, AbsolutePath
<1>1. t = n \/ \E p \in AbsoluteNormal : AbsolutePath(path) = Ok(p) /\ LevelPruned(n, t, p)
  BY <1>0, RemoveLevelEffect, Zenon
<1>2. t = n => path \notin DOMAIN n.levels
  <2> SUFFICES ASSUME path \in DOMAIN n.levels PROVE t # n
    OBVIOUS
  <2>1. Len(path) > 1 /\ AllButLast(path) \in DOMAIN n.levels
    BY <1>0 DEF Tree, Rooted
  <2>2. LevelFor(n, Ok(path)) = Ok(AllButLast(path))
    BY <1>0, <2>1, LevelIsFound, OkOrErr, Zenon DEF LevelFor
  <2>3. t = Prune(n, path)
    <3> DEFINE p == AbsolutePath(path)
    <3>1. p # Ok(root) /\ LevelFor(n, p).ok /\ p.val = path
      BY <1>0, <2>2, OkOrErr, Zenon
    <3> QED
      BY <3>1 DEF remove_level
  <2>4. path \notin DOMAIN Prune(n, path).levels
    <3>1. Begins(path, path)
      BY <1>0 DEF Begins, WellFormed
    <3>2. Prune(n, path).levels = Restrict(n.levels, {l \in DOMAIN n.levels : ~Begins(path, l)})
      BY <1>0 DEF Prune, Tree, NamespaceType
    <3> QED
      BY <3>1, <3>2 DEF Restrict
  <2> QED
    BY <2>3, <2>4
<1> HIDE DEF t
<1>3. ASSUME NEW p \in AbsoluteNormal, AbsolutePath(path) = Ok(p), LevelPruned(n, t, p)
      PROVE  Sound(t) /\ Locals(t) \subseteq Locals(n) \ {path}
  <2>1. Tree(t, AmlValues)
    <3>1. Effect(n, t, AmlValues)
      BY <1>3, Zenon DEF Effect
    <3> QED
      BY <1>0, <3>1, EffectType, SMTT(30)
  <2>2. /\ t.object_map = n.object_map /\ t.next_handle = n.next_handle
        /\ t.values = Restrict(n.values, {v \in DOMAIN n.values : ~Begins(p, AllButLast(v))})
        /\ t.levels = Restrict(n.levels, {l \in DOMAIN n.levels : ~Begins(p, l)})
    BY <1>3 DEF LevelPruned, Record
  <2>3. Sound(t)
    BY <2>1, <2>2, SMTT(30) DEF Sound, Restrict
  <2>4. p = path
    BY <1>0, <1>3, OkOrErr, Zenon
  <2>5. Begins(path, path)
    BY <1>0 DEF Begins, WellFormed
  <2>6. Locals(t) \subseteq Locals(n) \ {path}
    BY <2>2, <2>4, <2>5, SMTT(30) DEF Locals, Restrict
  <2> QED
    BY <2>3, <2>6
<1>4. path \notin DOMAIN n.levels => Locals(n) \subseteq Locals(n) \ {path}
  BY DEF Locals
<1> QED
  BY <1>1, <1>2, <1>3, <1>4, Zenon DEF t

\* An object that may be filed: a field has its region.
Filable(n, v) == v \in AmlValues /\ (v.type = "Field" => v.region \in DOMAIN n.object_map)

\* What adding values may do: no level changes, no object goes.
Extends(n, t) == Sound(t) /\ t.levels = n.levels /\ DOMAIN n.object_map \subseteq DOMAIN t.object_map

LEMMA FiledKeeps ==
    ASSUME NEW n, Sound(n), NEW v, Filable(n, v), NEW t, Tree(t, AmlValues), t.levels = n.levels,
           t.next_handle = (n.next_handle + 1) % HandleSpace, OverflowChecks => n.next_handle + 1 # HandleSpace,
           t.object_map = Insert(n.object_map, n.next_handle, v),
           \A m \in DOMAIN t.values : t.values[m] = n.next_handle \/ (m \in DOMAIN n.values /\ t.values[m] = n.values[m])
    PROVE  Extends(n, t)
<1>1. /\ DOMAIN t.object_map = DOMAIN n.object_map \cup {n.next_handle} /\ t.object_map[n.next_handle] = v
      /\ \A h \in DOMAIN n.object_map \ {n.next_handle} : t.object_map[h] = n.object_map[h]
  BY DEF Insert
<1>2. \A m \in DOMAIN t.values : t.values[m] \in DOMAIN t.object_map
  BY <1>1 DEF Sound
<1>3. ASSUME OverflowChecks PROVE (\A h \in DOMAIN t.object_map : h < t.next_handle) /\ RegionsOf(t.object_map)
  <2>1. n.next_handle \in Nat /\ n.next_handle < HandleSpace /\ HandleSpace \in Nat /\ DOMAIN n.object_map \subseteq Nat
    BY HandleSpaceAssumption DEF Sound, Tree, NamespaceType, Handles
  <2>2. t.next_handle = n.next_handle + 1
    <3>1. \A a, b \in Nat : a < b /\ a + 1 # b => (a + 1) % b = a + 1
      OBVIOUS
    <3> QED
      BY <1>3, <2>1, <3>1, SMTT(30)
  <2>3. \A h \in DOMAIN n.object_map : h < n.next_handle /\ h # n.next_handle /\ h \in Nat
    BY <1>3, <2>1 DEF Sound
  <2>4. \A h \in DOMAIN t.object_map : h < t.next_handle
    <3>1. \A h \in Nat, k \in Nat : h < k \/ h = k => h < k + 1
      OBVIOUS
    <3> QED
      BY <1>1, <2>1, <2>2, <2>3, <3>1
  <2>5. RegionsOf(t.object_map)
    <3> SUFFICES ASSUME NEW h \in DOMAIN t.object_map, t.object_map[h].type = "Field"
                 PROVE  t.object_map[h].region \in DOMAIN t.object_map \cap 0..(h - 1)
      BY DEF RegionsOf
    <3>1. CASE h = n.next_handle
      <4>1. t.object_map[h].region \in DOMAIN n.object_map
        BY <1>1, <3>1 DEF Filable
      <4>2. \A r \in Nat : r < h => r \in 0..(h - 1)
        BY <2>1, <3>1
      <4> QED
        BY <1>1, <2>3, <3>1, <4>1, <4>2, SMTT(30)
    <3>2. CASE h \in DOMAIN n.object_map
      <4>1. t.object_map[h] = n.object_map[h]
        BY <1>1, <2>3, <3>2
      <4>2. n.object_map[h].region \in DOMAIN n.object_map \cap 0..(h - 1)
        BY <1>3, <3>2, <4>1 DEF Sound, RegionsOf
      <4> QED
        BY <1>1, <4>1, <4>2, SMTT(30)
    <3> QED
      BY <1>1, <3>1, <3>2, SMTT(30)
  <2> QED
    BY <2>4, <2>5
<1> QED
  BY <1>1, <1>2, <1>3, SMTT(30) DEF Sound, Extends

\* add_value keeps the namespace sound, also when it fails half-way.
LEMMA AddValueKeeps ==
    ASSUME NEW n, Sound(n), NEW path \in WellFormed, NEW v, Filable(n, v)
    PROVE  Extends(n, add_value(n, path, v).ns)
<1> DEFINE t == add_value(n, path, v).ns
<1>1. t = n \/ ObjectFiled(n, t, v) \/ \E p \in AbsoluteNormal : ObjectBound(n, t, p, v)
  BY AddValueEffect, Zenon DEF Sound
<1> HIDE DEF t
<1>2. Tree(t, AmlValues)
  <2>1. Effect(n, t, AmlValues)
    BY <1>1, Zenon DEF Effect, Filable
  <2> QED
    BY <2>1, EffectType DEF Sound
<1>3. ASSUME t = n PROVE Extends(n, t)
  BY <1>3 DEF Extends
<1>4. ASSUME ObjectFiled(n, t, v) PROVE Extends(n, t)
  BY <1>2, <1>4, FiledKeeps, SMTT(30) DEF ObjectFiled, Record
<1>5. ASSUME NEW p \in AbsoluteNormal, ObjectBound(n, t, p, v) PROVE Extends(n, t)
  <2>1. /\ t.levels = n.levels /\ t.next_handle = (n.next_handle + 1) % HandleSpace
        /\ OverflowChecks => n.next_handle + 1 # HandleSpace
        /\ t.object_map = Insert(n.object_map, n.next_handle, v)
        /\ t.values = Insert(n.values, p, n.next_handle)
    BY <1>5 DEF ObjectBound, Record
  <2>2. \A m \in DOMAIN t.values : t.values[m] = n.next_handle \/ (m \in DOMAIN n.values /\ t.values[m] = n.values[m])
    BY <2>1 DEF Insert
  <2> QED
    BY <1>2, <2>1, <2>2, FiledKeeps
<1> QED
  BY <1>1, <1>3, <1>4, <1>5, SMTT(30) DEF t

\* So does add_value_at_resolved_path, in any scope the interpreter is in.
LEMMA AddResolvedKeeps ==
    ASSUME NEW n, Sound(n), NEW path \in WellFormed, NEW scope, IsScope(scope), NEW v, Filable(n, v)
    PROVE  Extends(n, add_value_at_resolved_path(n, path, scope, v).ns)
<1> DEFINE p == resolve(path, scope)
<1>1. p = Invalid \/ \E q \in WellFormed : p = Ok(q)
  BY ResolveIsAbsolute DEF IsScope
<1> HIDE DEF p
<1>2. CASE p = Invalid
  <2>1. ~p.ok
    BY <1>2, OkOrErr DEF Invalid
  <2>2. add_value_at_resolved_path(n, path, scope, v).ns = n
    BY <2>1 DEF add_value_at_resolved_path, p
  <2> QED
    BY <2>2 DEF Extends
<1>3. ASSUME NEW q \in WellFormed, p = Ok(q) PROVE Extends(n, add_value_at_resolved_path(n, path, scope, v).ns)
  <2>1. p.ok /\ p.val = q
    BY <1>3, OkOrErr
  <2>2. add_value_at_resolved_path(n, path, scope, v) = add_value(n, q, v)
    BY <2>1, Zenon DEF add_value_at_resolved_path, p
  <2> QED
    BY <2>2, AddValueKeeps
<1> QED
  BY <1>1, <1>2, <1>3, SMTT(30)

\* The field list is gone through field by field.
LEMMA FieldListFold ==
    ASSUME NEW region, NEW p, NEW n \in Nat, DOMAIN p = 1..n
    PROVE  \E a : /\ FieldElements(p, region) = a[n]
                  /\ a[0] = [ns |-> ns, res |-> Unit] /\ \A k \in 1..n : a[k] = FieldElement(a[k - 1], p[k], region)
<1> DEFINE z == [ns |-> ns, res |-> Unit]
           D(it, k) == [s \in SUBSET (1..k) |-> IF s = {} THEN z
                                                ELSE FieldElement(it[s \ {Max(s)}], p[Max(s)], region)]
           Defined == {k \in Nat : \E it : it = D(it, k)}
<1>1. 0 \in Defined
  <2> DEFINE it == [s \in SUBSET (1..0) |-> z]
  <2>1. \A s \in SUBSET (1..0) : s = {}
    OBVIOUS
  <2>2. it = D(it, 0)
    BY <2>1, Zenon
  <2> QED
    BY <2>2, Zenon
<1>2. ASSUME NEW k \in Nat, k \in Defined PROVE k + 1 \in Defined
  <2>1. PICK g : g = D(g, k)
    BY <1>2, Zenon
  <2> DEFINE it == [s \in SUBSET (1..(k + 1)) |-> IF k + 1 \in s THEN FieldElement(g[s \ {k + 1}], p[k + 1], region) ELSE g[s]]
  <2>2. /\ \A s \in SUBSET (1..(k + 1)) : /\ k + 1 \in s => Max(s) = k + 1 /\ s # {}
                                          /\ k + 1 \notin s => s \in SUBSET (1..k)
                                          /\ s \ {k + 1} \in SUBSET (1..k)
        /\ \A s \in SUBSET (1..k) : k + 1 \notin s /\ s \in SUBSET (1..(k + 1)) /\ \A x : s \ {x} \in SUBSET (1..k)
    BY SubsetsUpTo, Zenon
  <2>3. \A s \in SUBSET (1..k) : it[s] = g[s] /\ s \in SUBSET (1..(k + 1)) /\ \A x : s \ {x} \in SUBSET (1..k)
    BY <2>2, Zenon
  <2>4. \A s \in SUBSET (1..k) : g[s] = IF s = {} THEN z ELSE FieldElement(g[s \ {Max(s)}], p[Max(s)], region)
    BY <2>1, Zenon
  <2>5. ASSUME NEW s \in SUBSET (1..(k + 1))
        PROVE  it[s] = IF s = {} THEN z ELSE FieldElement(it[s \ {Max(s)}], p[Max(s)], region)
    <3>1. CASE k + 1 \in s
      BY <2>2, <2>3, <3>1, Zenon
    <3>2. CASE k + 1 \notin s
      BY <2>2, <2>3, <2>4, <3>2, Zenon
    <3> QED
      BY <3>1, <3>2
  <2>6. it = [s \in SUBSET (1..(k + 1)) |-> it[s]]
    BY Zenon
  <2> HIDE DEF it
  <2>7. it = D(it, k + 1)
    BY <2>5, <2>6, Zenon
  <2>8. k + 1 \in Nat
    OBVIOUS
  <2> QED
    BY <2>7, <2>8, Zenon
<1> HIDE DEF Defined
<1>3. n \in Defined
  BY <1>1, <1>2, SetInduction, SMTT(30)
<1> USE DEF Defined
<1>4. \E it : it = D(it, n)
  BY <1>3, Zenon
<1> DEFINE f == CHOOSE it : it = D(it, n)
<1>5. FieldElements(p, region) = f[1..n]
  BY Zenon DEF FieldElements, FoldInOrder, MapThenFoldSet
<1>6. f = D(f, n)
  BY <1>4, Zenon
<1> HIDE DEF f
<1>7. \A s \in SUBSET (1..n) : f[s] = IF s = {} THEN z ELSE FieldElement(f[s \ {Max(s)}], p[Max(s)], region)
  BY <1>6, Zenon
<1> DEFINE a == [k \in 0..n |-> f[1..k]]
<1>8. a[n] = f[1..n] /\ a[0] = z
  <2>1. n \in 0..n /\ 0 \in 0..n /\ 1..0 = {} /\ {} \in SUBSET (1..n)
    OBVIOUS
  <2> QED
    BY <1>7, <2>1, Zenon
<1>9. ASSUME NEW k \in 1..n PROVE a[k] = FieldElement(a[k - 1], p[k], region)
  <2>1. 1..k \in SUBSET (1..n) /\ 1..k # {} /\ (1..k) \ {k} = 1..(k - 1)
    OBVIOUS
  <2>2. Max(1..k) = k
    BY MaxOfInterval
  <2>3. f[1..k] = FieldElement(f[1..(k - 1)], p[k], region)
    BY <1>7, <2>1, <2>2, Zenon
  <2>4. k \in 0..n /\ k - 1 \in 0..n
    OBVIOUS
  <2> QED
    BY <2>3, <2>4, Zenon
<1> HIDE DEF a
<1> QED
  BY <1>5, <1>8, <1>9, Zenon

\* def_field keeps the namespace sound, wherever its list of fields stops.
LEMMA FieldsKeep ==
    ASSUME NEW region \in DOMAIN ns.object_map, Sound(ns), IsScope(current_scope), NEW segs \in Seq(Segs)
    PROVE  Extends(ns, FieldElements(segs, region).ns)
<1> DEFINE n == Len(segs)
<1>0. n \in Nat /\ DOMAIN segs = 1..n /\ \A k \in 1..n : segs[k] \in Segs
  OBVIOUS
<1>1. PICK a : /\ FieldElements(segs, region) = a[n]
               /\ a[0] = [ns |-> ns, res |-> Unit] /\ \A k \in 1..n : a[k] = FieldElement(a[k - 1], segs[k], region)
  BY <1>0, FieldListFold, Zenon
<1> HIDE DEF n
<1> DEFINE S == {k \in Nat : k <= n => Extends(ns, a[k].ns)}
<1>2. 0 \in S
  <2>1. a[0].ns = ns
    BY <1>1
  <2> QED
    BY <2>1 DEF Extends
<1>3. ASSUME NEW k \in Nat, k \in S PROVE k + 1 \in S
  <2> SUFFICES ASSUME k + 1 <= n PROVE Extends(ns, a[k + 1].ns)
    OBVIOUS
  <2>1. k + 1 \in 1..n /\ k <= n /\ (k + 1) - 1 = k
    BY <1>0
  <2>2. Extends(ns, a[k].ns) /\ a[k + 1] = FieldElement(a[k], segs[k + 1], region)
    <3>1. a[k + 1] = FieldElement(a[(k + 1) - 1], segs[k + 1], region)
      BY <1>1, <2>1, Zenon
    <3> QED
      BY <1>3, <2>1, <3>1
  <2> DEFINE m == a[k].ns
             v == [type |-> "Field", region |-> region]
             path == <<segs[k + 1]>>
             r == add_value_at_resolved_path(m, path, current_scope, v)
  <2>3. path \in WellFormed
    <3>1. segs[k + 1] \in Segs
      BY <1>0, <2>1
    <3> QED
      BY <3>1, ComponentFacts, SMTT(30) DEF WellFormed, Component
  <2>4. Filable(m, v)
    <3>1. region \in Handles
      BY DEF Sound, Tree, NamespaceType
    <3>2. v \in AmlValues /\ v.region = region
      BY <3>1 DEF AmlValues
    <3> QED
      BY <2>2, <3>2, Zenon DEF Filable, Extends
  <2>5. Sound(m)
    BY <2>2 DEF Extends
  <2> HIDE DEF m, v, path
  <2>6. Extends(m, r.ns)
    BY <2>3, <2>4, <2>5, AddResolvedKeeps, SMTT(30)
  <2>7. a[k + 1] = IF a[k].res.ok THEN r ELSE a[k]
    BY <2>2, Zenon DEF FieldElement, m, v, path
  <2> HIDE DEF r
  <2>8. CASE a[k].res.ok
    <3>1. a[k + 1].ns = r.ns
      BY <2>7, <2>8, Zenon
    <3> QED
      BY <2>2, <2>6, <3>1, SMTT(30) DEF Extends, m
  <2>9. CASE ~a[k].res.ok
    BY <2>2, <2>7, <2>9, Zenon
  <2> QED
    BY <2>8, <2>9
<1> HIDE DEF S
<1>4. n \in S
  BY <1>0, <1>2, <1>3, SetInduction, SMTT(30)
<1> QED
  BY <1>0, <1>1, <1>4, SMTT(30) DEF S

----------------------------------------------------------------------------
(***************************************************************************)
(* What the frames remember.                                                *)
(***************************************************************************)

\* A frame is pushed in the scope the interpreter is in.
LEMMA PushRemembers ==
    ASSUME NEW fs, Stack(fs), Remembers(fs), IsScope(current_scope), NEW kind, NEW name, NEW args,
           kind \in {"args", "method"} => name \in MethodKeys, kind = "table" => Len(fs) = 0
    PROVE  /\ Remembers(Append(fs, Frame(kind, name, args)))
           /\ MethodsOn(fs) \subseteq MethodsOn(Append(fs, Frame(kind, name, args)))
           /\ kind = "method" => name \in MethodsOn(Append(fs, Frame(kind, name, args)))
<1> DEFINE f == Frame(kind, name, args)
           t == Append(fs, f)
<1>1. DOMAIN f = FrameFields /\ f.kind = kind /\ f.name = name /\ f.scope = current_scope
  BY FrameIs, SMTT(30)
<1> HIDE DEF f
<1>2. Len(t) = Len(fs) + 1 /\ Len(fs) \in Nat /\ t[Len(fs) + 1] = f /\ \A i \in 1..Len(fs) : t[i] = fs[i]
  BY <1>1, Pushed, SMTT(30)
<1> HIDE DEF t
<1>3. /\ \A i \in 1..Len(t) : i \in 1..Len(fs) \/ i = Len(fs) + 1
      /\ \A i \in 1..Len(fs) : i \in 1..Len(t)
      /\ Len(fs) + 1 \in 1..Len(t) /\ (Len(fs) = 0 => Len(fs) + 1 = 1)
  BY <1>2
<1>4. Remembers(t)
  BY <1>1, <1>2, <1>3, Zenon DEF Remembers
<1>5. MethodsOn(fs) \subseteq MethodsOn(t) /\ (kind = "method" => name \in MethodsOn(t))
  BY <1>1, <1>2, <1>3, Zenon DEF MethodsOn
<1> QED
  BY <1>4, <1>5, SMTT(30) DEF f, t

\* Popping loses the method of the frame popped, and no other.
LEMMA PopRemembers ==
    ASSUME NEW fs, Stack(fs), fs # <<>>, Remembers(fs)
    PROVE  /\ Remembers(AllButLast(fs)) /\ Stack(AllButLast(fs)) /\ IsScope(LastOf(fs).scope)
           /\ LastOf(fs).kind \in {"args", "method"} => LastOf(fs).name \in MethodKeys
           /\ LastOf(fs).kind = "table" => MethodsOn(fs) = {}
           /\ MethodsOn(fs) \subseteq MethodsOn(AllButLast(fs)) \cup {LastOf(fs).name}
           /\ LastOf(fs).kind # "method" => MethodsOn(fs) \subseteq MethodsOn(AllButLast(fs))
<1> DEFINE t == AllButLast(fs)
           f == LastOf(fs)
<1>1. /\ Stack(t) /\ Len(t) = Len(fs) - 1 /\ Len(fs) \in Nat /\ Len(fs) > 0 /\ f = fs[Len(fs)]
      /\ \A i \in 1..(Len(fs) - 1) : t[i] = fs[i]
  BY Popped
<1> HIDE DEF t, f
<1>2. /\ \A i \in 1..Len(t) : i \in 1..Len(fs) /\ t[i] = fs[i]
      /\ \A i \in 1..Len(fs) : i \in 1..Len(t) \/ i = Len(fs)
      /\ Len(fs) \in 1..Len(fs) /\ (Len(fs) = 1 => \A i \in 1..Len(fs) : i = Len(fs))
  BY <1>1
<1>3. Remembers(t) /\ IsScope(f.scope) /\ (f.kind \in {"args", "method"} => f.name \in MethodKeys)
  BY <1>1, <1>2, Zenon DEF Remembers
<1>4. ASSUME f.kind = "table" PROVE MethodsOn(fs) = {}
  <2>1. Len(fs) = 1
    BY <1>1, <1>2, <1>4, Zenon DEF Remembers
  <2>2. \A i \in 1..Len(fs) : fs[i].kind # "method"
    BY <1>1, <1>2, <1>4, <2>1
  <2> QED
    BY <2>2, Zenon DEF MethodsOn
<1>5. /\ MethodsOn(fs) \subseteq MethodsOn(t) \cup {f.name}
      /\ f.kind # "method" => MethodsOn(fs) \subseteq MethodsOn(t)
  BY <1>1, <1>2, Zenon DEF MethodsOn
<1> QED
  BY <1>1, <1>3, <1>4, <1>5 DEF t, f

LEMMA AlikeRemembers ==
    ASSUME NEW fs, NEW t, Alike(fs, t), Remembers(fs)
    PROVE  Remembers(t) /\ MethodsOn(t) = MethodsOn(fs) /\ Stack(t)
<1>1. Len(t) = Len(fs) /\ \A i \in 1..Len(fs) : t[i].kind = fs[i].kind /\ t[i].name = fs[i].name /\ t[i].scope = fs[i].scope
  BY DEF Alike
<1>2. Remembers(t)
  BY <1>1, Zenon DEF Remembers
<1>3. MethodsOn(t) = MethodsOn(fs)
  BY <1>1, Zenon DEF MethodsOn
<1> QED
  BY <1>2, <1>3, SMTT(30) DEF Alike

\* A call that ends leaves the frames below it.
LEMMA FinishRemembers ==
    ASSUME NEW below, NEW outcome, Finish(below, outcome)
    PROVE  frames' = below
BY DEF Finish

----------------------------------------------------------------------------
(***************************************************************************)
(* The steps of the interpreter.                                            *)
(***************************************************************************)

\* The names a program uses are names, and its values are values.
LEMMA ProgramIs ==
    ASSUME program \in Programs
    PROVE  /\ program.names \subseteq WellFormed /\ program.field_lists \subseteq Seq(Segs)
           /\ \A arg_count \in program.arg_counts : Method("Aml", arg_count) \in AmlValues
<1>1. program.names \subseteq WellFormed /\ program.field_lists \subseteq Seq(Segs) /\ program.arg_counts \subseteq 0..7
  BY ProgramsAssumption
<1> QED
  BY <1>1 DEF AmlValues

LEMMA PlainIsFilable ==
    /\ \A n : Filable(n, Data)
    /\ \A n : \A type \in {"Mutex", "OpRegion", "Device", "Processor", "PowerResource", "ThermalZone"} :
            Filable(n, [type |-> type])
    /\ \A n, arg_count : Method("Aml", arg_count) \in AmlValues => Filable(n, Method("Aml", arg_count))
BY DEF Filable, AmlValues, Data, Method

\* The definitions of plain objects add values, and nothing else.
LEMMA AddObjectKeepsLifetimes ==
    ASSUME Lifetimes, NEW added, AddObject(added), Extends(ns, added.ns)
    PROVE  Lifetimes'
<1>1. ns' = added.ns /\ UNCHANGED <<program, current_scope, frames>>
  BY DEF AddObject
<1>2. Sound(ns') /\ Locals(ns') = Locals(ns)
  BY <1>1 DEF Extends, Locals
<1> QED
  BY <1>1, <1>2 DEF Lifetimes, IsScope, Remembers, MethodsOn

\* DefName, DefMethod, DefMutex, DefOpRegion and DefField.
LEMMA ObjectsKeepLifetimes ==
    ASSUME Lifetimes, NEW name \in program.names,
           \/ DefName(name) \/ DefMutex(name) \/ \E arg_count \in program.arg_counts : DefMethod(name, arg_count)
           \/ \E needs_parent \in BOOLEAN : DefOpRegion(name, needs_parent)
           \/ \E segs \in program.field_lists : DefField(name, segs)
    PROVE  Lifetimes'
<1>0. Sound(ns) /\ IsScope(current_scope) /\ name \in WellFormed
  BY ProgramIs DEF Lifetimes
<1>1. ASSUME NEW v, Filable(ns, v), AddObject(add_value_at_resolved_path(ns, name, current_scope, v)) PROVE Lifetimes'
  BY <1>0, <1>1, AddResolvedKeeps, AddObjectKeepsLifetimes
<1>2. CASE DefName(name)
  BY <1>1, <1>2, PlainIsFilable, Zenon DEF DefName
<1>3. CASE DefMutex(name)
  BY <1>1, <1>3, PlainIsFilable DEF DefMutex
<1>4. ASSUME NEW arg_count \in program.arg_counts, DefMethod(name, arg_count) PROVE Lifetimes'
  <2>1. Filable(ns, Method("Aml", arg_count))
    BY ProgramIs, PlainIsFilable DEF Lifetimes
  <2> QED
    BY <1>1, <1>4, <2>1, Zenon DEF DefMethod
<1>5. ASSUME NEW needs_parent \in BOOLEAN, DefOpRegion(name, needs_parent) PROVE Lifetimes'
  <2>1. \/ \E res : AddObject([ns |-> ns, res |-> res])
        \/ AddObject(add_value_at_resolved_path(ns, name, current_scope, [type |-> "OpRegion"]))
    BY <1>5, Zenon DEF DefOpRegion
  <2>2. ASSUME NEW res, AddObject([ns |-> ns, res |-> res]) PROVE Lifetimes'
    <3>1. Extends(ns, [ns |-> ns, res |-> res].ns)
      BY <1>0 DEF Extends
    <3> QED
      BY <2>2, <3>1, AddObjectKeepsLifetimes, SMTT(30)
  <2> QED
    BY <1>1, <2>1, <2>2, PlainIsFilable, ZenonT(30)
<1>6. ASSUME NEW segs \in program.field_lists, DefField(name, segs) PROVE Lifetimes'
  <2> DEFINE found == search(ns, name, current_scope)
  <2>1. CASE ~found.ok
    <3>1. AddObject([ns |-> ns, res |-> found])
      BY <1>6, <2>1, Zenon DEF DefField
    <3>2. Extends(ns, [ns |-> ns, res |-> found].ns)
      BY <1>0 DEF Extends
    <3> QED
      BY <3>1, <3>2, AddObjectKeepsLifetimes, SMTT(30)
  <2>2. CASE found.ok
    <3>1. AddObject(FieldElements(segs, found.val.handle))
      BY <1>6, <2>2, Zenon DEF DefField
    <3>2. found.val.name \in DOMAIN ns.values /\ found.val.handle = ns.values[found.val.name]
      BY <1>0, <2>2, SearchIsBound, SMTT(30) DEF Sound
    <3> HIDE DEF found
    <3>3. found.val.handle \in DOMAIN ns.object_map
      BY <1>0, <3>2 DEF Sound
    <3>4. segs \in Seq(Segs)
      BY ProgramIs DEF Lifetimes
    <3>5. Extends(ns, FieldElements(segs, found.val.handle).ns)
      BY <1>0, <3>3, <3>4, FieldsKeep, SMTT(30)
    <3> QED
      BY <3>1, <3>5, AddObjectKeepsLifetimes, SMTT(30)
  <2> QED
    BY <2>1, <2>2, SMTT(30)
<1> QED
  BY <1>2, <1>3, <1>4, <1>5, <1>6, Zenon

\* A frame that is not a method's is pushed, after the namespace has changed.
LEMMA PushKeepsLifetimes ==
    ASSUME Lifetimes, NEW fs, Stack(fs), Remembers(fs), Locals(ns') \subseteq MethodsOn(fs),
           Sound(ns'), UNCHANGED program, IsScope(current_scope'),
           NEW kind, NEW name, NEW args, frames' = Append(fs, Frame(kind, name, args)),
           kind # "method", kind = "args" => name \in MethodKeys, kind = "table" => Len(fs) = 0
    PROVE  Lifetimes'
<1>1. IsScope(current_scope)
  BY DEF Lifetimes
<1>2. Remembers(frames') /\ MethodsOn(fs) \subseteq MethodsOn(frames')
  BY <1>1, PushRemembers, SMTT(30)
<1> QED
  BY <1>2, Zenon DEF Lifetimes

\* DefScope, and the objects that are scopes as well.
LEMMA BlocksKeepLifetimes ==
    ASSUME IInv, Lifetimes, NEW name \in program.names,
           DefScope(name) \/ DefDevice(name) \/ DefProcessor(name) \/ DefPowerRes(name) \/ DefThermalZone(name)
    PROVE  Lifetimes'
<1> DEFINE path == resolve(name, current_scope)
<1>0. /\ Sound(ns) /\ IsScope(current_scope) /\ name \in WellFormed /\ Stack(frames) /\ Remembers(frames)
      /\ Locals(ns) \subseteq MethodsOn(frames) /\ program \in Programs
  BY ProgramIs DEF Lifetimes, IInv
<1>1. path.ok => IsScope(path.val) /\ path.val \in WellFormed
  <2>1. path = Invalid \/ \E v \in WellFormed : is_absolute(v) /\ path = Ok(v)
    BY <1>0, ResolveIsAbsolute DEF IsScope
  <2> HIDE DEF path
  <2>2. ASSUME NEW v \in WellFormed, is_absolute(v), path = Ok(v) PROVE IsScope(path.val) /\ path.val \in WellFormed
    <3>1. path.val = v
      BY <2>2, OkOrErr, Zenon
    <3> QED
      BY <2>2, <3>1 DEF IsScope
  <2>3. path = Invalid => ~path.ok
    BY OkOrErr, Zenon DEF Invalid
  <2> QED
    BY <2>1, <2>2, <2>3, SMTT(30)
<1>2. ASSUME UNCHANGED <<program, ns, frames>>, IsScope(current_scope') PROVE Lifetimes'
  BY <1>0, <1>2, SMTT(30) DEF Lifetimes
<1>3. ASSUME path.ok, NEW added, Sound(added.ns), Locals(added.ns) \subseteq Locals(ns), ns' = added.ns, UNCHANGED program,
             \/ current_scope' = path.val /\ frames' = Append(frames, Frame("block", path.val, 0))
             \/ current_scope' \in {current_scope, path.val} /\ frames' = frames
      PROVE  Lifetimes'
  <2>1. IsScope(current_scope') /\ Sound(ns') /\ Locals(ns') \subseteq MethodsOn(frames)
    BY <1>0, <1>1, <1>3, SMTT(30)
  <2>2. CASE frames' = frames
    <3>1. program' \in Programs /\ Remembers(frames') /\ Locals(ns') \subseteq MethodsOn(frames')
      BY <1>0, <1>3, <2>1, <2>2, Zenon
    <3> QED
      BY <2>1, <3>1, Zenon DEF Lifetimes
  <2>3. CASE frames' = Append(frames, Frame("block", path.val, 0))
    <3> HIDE DEF path
    <3> QED
      BY <1>0, <1>3, <2>1, <2>3, PushKeepsLifetimes, SMTT(30)
  <2> QED
    BY <1>3, <2>2, <2>3
<1>4. CASE DefScope(name)
  <2> DEFINE added == add_level(ns, path.val, "Scope")
  <2>1. UNCHANGED program
    BY <1>4 DEF DefScope
  <2>2. \/ UNCHANGED <<ns, current_scope, frames>>
        \/ /\ path.ok /\ ns' = added.ns /\ current_scope' = path.val
           /\ frames' = Append(frames, Frame("block", path.val, 0)) \/ frames' = frames
    BY <1>4, Zenon DEF DefScope, Push
  <2>3. path.ok => Sound(added.ns) /\ Locals(added.ns) \subseteq Locals(ns)
    BY <1>0, <1>1, AddLevelKeeps, LevelTypesAssumption, ZenonT(30)
  <2> HIDE DEF path, added
  <2> QED
    BY <1>0, <1>2, <1>3, <2>1, <2>2, <2>3, SMTT(30)
<1>5. ASSUME NEW added, EnterObject(path, added),
             path.ok => Sound(added.ns) /\ Locals(added.ns) \subseteq Locals(ns)
      PROVE  Lifetimes'
  <2>1. UNCHANGED program
    BY <1>5 DEF EnterObject
  <2>2. \/ UNCHANGED <<ns, current_scope, frames>>
        \/ /\ path.ok /\ ns' = added.ns
           /\ \/ current_scope' = path.val /\ frames' = Append(frames, Frame("block", path.val, 0))
              \/ current_scope' = current_scope /\ frames' = frames
    BY <1>5, Zenon DEF EnterObject, Push
  <2> HIDE DEF path
  <2>3. CASE UNCHANGED <<ns, current_scope, frames>>
    <3>1. UNCHANGED <<program, ns, frames>> /\ IsScope(current_scope')
      BY <1>0, <2>1, <2>3, Zenon
    <3> QED
      BY <1>2, <3>1, Zenon
  <2>4. CASE path.ok /\ ns' = added.ns /\ current_scope' = path.val /\ frames' = Append(frames, Frame("block", path.val, 0))
    BY <1>3, <1>5, <2>1, <2>4, Zenon
  <2>5. CASE path.ok /\ ns' = added.ns /\ current_scope' = current_scope /\ frames' = frames
    BY <1>3, <1>5, <2>1, <2>5, Zenon
  <2> QED
    BY <2>2, <2>3, <2>4, <2>5, Zenon
<1>6. ASSUME path.ok, NEW type \in {"Device", "Processor", "PowerResource", "ThermalZone"}
      PROVE  /\ Sound(ValueThenLevel(path.val, type).ns) /\ Locals(ValueThenLevel(path.val, type).ns) \subseteq Locals(ns)
             /\ Sound(LevelThenValue(path.val, type).ns) /\ Locals(LevelThenValue(path.val, type).ns) \subseteq Locals(ns)
  <2> DEFINE p == path.val
             o == [type |-> type]
  <2>1. p \in WellFormed /\ type \in LevelTypes /\ type # "MethodLocals" /\ \A n : Filable(n, o)
    BY <1>1, <1>6, PlainIsFilable, LevelTypesAssumption
  <2> HIDE DEF p, o
  <2>2. ASSUME NEW n, Sound(n) PROVE /\ Sound(add_value(n, p, o).ns) /\ Locals(add_value(n, p, o).ns) = Locals(n)
                                     /\ Sound(add_level(n, p, type).ns) /\ Locals(add_level(n, p, type).ns) \subseteq Locals(n)
    <3>1. Extends(n, add_value(n, p, o).ns)
      BY <2>1, <2>2, AddValueKeeps, SMTT(30)
    <3> QED
      BY <2>1, <2>2, <3>1, AddLevelKeeps DEF Extends, Locals
  <2>3. /\ ValueThenLevel(p, type).ns \in {add_value(ns, p, o).ns, add_level(add_value(ns, p, o).ns, p, type).ns}
        /\ LevelThenValue(p, type).ns \in {add_level(ns, p, type).ns, add_value(add_level(ns, p, type).ns, p, o).ns}
    BY SMTT(30) DEF ValueThenLevel, LevelThenValue, o
  <2>4. /\ Sound(add_value(ns, p, o).ns) /\ Locals(add_value(ns, p, o).ns) = Locals(ns)
        /\ Sound(add_level(ns, p, type).ns) /\ Locals(add_level(ns, p, type).ns) \subseteq Locals(ns)
    <3>1. Sound(ns)
      BY <1>0, Zenon
    <3> QED
      BY <2>2, <3>1, Zenon
  <2> QED
    BY <2>2, <2>3, <2>4, ZenonT(30) DEF p
<1>7. CASE DefDevice(name)
  <2>1. EnterObject(path, ValueThenLevel(path.val, "Device"))
    BY <1>7, Zenon DEF DefDevice
  <2>2. "Device" \in {"Device", "Processor", "PowerResource", "ThermalZone"}
    OBVIOUS
  <2> HIDE DEF path
  <2> QED
    BY <1>5, <1>6, <2>1, <2>2, Zenon
<1>8. CASE DefProcessor(name)
  <2>1. EnterObject(path, LevelThenValue(path.val, "Processor"))
    BY <1>8, Zenon DEF DefProcessor
  <2>2. "Processor" \in {"Device", "Processor", "PowerResource", "ThermalZone"}
    OBVIOUS
  <2> HIDE DEF path
  <2> QED
    BY <1>5, <1>6, <2>1, <2>2, Zenon
<1>9. CASE DefPowerRes(name)
  <2>1. EnterObject(path, LevelThenValue(path.val, "PowerResource"))
    BY <1>9, Zenon DEF DefPowerRes
  <2>2. "PowerResource" \in {"Device", "Processor", "PowerResource", "ThermalZone"}
    OBVIOUS
  <2> HIDE DEF path
  <2> QED
    BY <1>5, <1>6, <2>1, <2>2, Zenon
<1>10. CASE DefThermalZone(name)
  <2>1. EnterObject(path, ValueThenLevel(path.val, "ThermalZone"))
    BY <1>10, Zenon DEF DefThermalZone
  <2>2. "ThermalZone" \in {"Device", "Processor", "PowerResource", "ThermalZone"}
    OBVIOUS
  <2> HIDE DEF path
  <2> QED
    BY <1>5, <1>6, <2>1, <2>2, Zenon
<1> QED
  BY <1>4, <1>7, <1>8, <1>9, <1>10

\* A step that leaves the namespace alone and loses no method.
LEMMA QuietKeepsLifetimes ==
    ASSUME Lifetimes, UNCHANGED <<program, ns>>, IsScope(current_scope'), Remembers(frames'),
           MethodsOn(frames) \subseteq MethodsOn(frames')
    PROVE  Lifetimes'
BY Zenon DEF Lifetimes

\* method_invocation up to its argument list: the frame keeps the key found.
LEMMA MethodInvocationKeepsLifetimes ==
    ASSUME IInv, Lifetimes, NEW name \in program.names, MethodInvocation(name)
    PROVE  Lifetimes'
<1> DEFINE found == search(ns, name, current_scope)
           object == ns.object_map[found.val.handle]
<1>1. /\ Running /\ UNCHANGED <<program, ns, current_scope>>
      /\ frames' = IF ~found.ok THEN frames
                   ELSE IF object.type # "Method" THEN ArgParsed
                   ELSE Append(ArgParsed, Frame("args", found.val.name, object.arg_count))
  BY DEF MethodInvocation, ExpectsTerm
<1>2. /\ Sound(ns) /\ IsScope(current_scope) /\ name \in WellFormed /\ Remembers(frames)
      /\ Locals(ns) \subseteq MethodsOn(frames)
  BY ProgramIs, SMTT(30) DEF Lifetimes
<1>3. found.ok => found.val.name \in MethodKeys
  BY <1>2, SearchIsBound, SMTT(30) DEF Sound
<1> HIDE DEF found, object
<1>4. Alike(frames, ArgParsed)
  BY <1>1, RunningFacts, ArgParsedIsAlike, SMTT(30)
<1>5. Remembers(ArgParsed) /\ MethodsOn(ArgParsed) = MethodsOn(frames) /\ Stack(ArgParsed)
  BY <1>2, <1>4, AlikeRemembers
<1>6. IsScope(current_scope')
  BY <1>1, <1>2, SMTT(30)
<1>7. CASE frames' = frames
  BY <1>1, <1>2, <1>6, <1>7, QuietKeepsLifetimes, ZenonT(30)
<1>8. CASE frames' = ArgParsed
  BY <1>1, <1>5, <1>6, <1>8, QuietKeepsLifetimes
<1>9. CASE found.ok /\ frames' = Append(ArgParsed, Frame("args", found.val.name, object.arg_count))
  <2>1. Locals(ns') \subseteq MethodsOn(ArgParsed) /\ Sound(ns') /\ found.val.name \in MethodKeys
    BY <1>1, <1>2, <1>3, <1>5, <1>9
  <2> QED
    BY <1>1, <1>5, <1>6, <1>9, <2>1, PushKeepsLifetimes, SMTT(30)
<1> QED
  BY <1>1, <1>7, <1>8, <1>9

\* invoke_method up to its first term.  The level of the locals is there only
\* if the frame of the method is.
LEMMA EnterKeepsLifetimes ==
    ASSUME Lifetimes, NEW path \in MethodKeys, NEW below, Stack(below), Remembers(below),
           Locals(ns) \subseteq MethodsOn(below), Enter(path, below), UNCHANGED program
    PROVE  Lifetimes'
<1> DEFINE found == get_by_path(ns, path)
           added == add_level(ns, path, "MethodLocals")
<1>0. /\ Sound(ns) /\ IsScope(current_scope) /\ path \in AbsoluteNormal /\ path \in WellFormed /\ IsScope(path)
      /\ program \in Programs
  BY KeysAreNormal, Zenon DEF Lifetimes, MethodKeys, IsScope
<1>1. /\ Sound(added.ns) /\ Locals(added.ns) \subseteq Locals(ns) \cup {path}
      /\ ~added.res.ok => added.ns = ns
  BY <1>0, AddLevelKeeps, LevelTypesAssumption
<1>2. Sound(remove_level(added.ns, path).ns) /\ Locals(remove_level(added.ns, path).ns) \subseteq Locals(ns)
  <2> HIDE DEF added
  <2>1. /\ Sound(remove_level(added.ns, path).ns)
        /\ Locals(remove_level(added.ns, path).ns) \subseteq Locals(added.ns) \ {path}
    BY <1>1, RemoveLevelKeeps
  <2> QED
    BY <1>1, <2>1, SMTT(30)
<1>3. \/ (\E outcome : Finish(below, outcome)) /\ UNCHANGED <<ns, current_scope>>
      \/ added.res.ok /\ ns' = added.ns /\ current_scope' = path /\ frames' = Append(below, Frame("method", path, 0))
      \/ ~added.res.ok /\ ns' = added.ns /\ current_scope' = path /\ \E outcome : Finish(below, outcome)
      \/ ns' = remove_level(added.ns, path).ns /\ UNCHANGED current_scope /\ \E outcome : Finish(below, outcome)
  BY Zenon DEF Enter
<1> HIDE DEF found, added
<1>4. ASSUME NEW outcome, Finish(below, outcome), Sound(ns'), Locals(ns') \subseteq Locals(ns), IsScope(current_scope')
      PROVE  Lifetimes'
  <2>1. frames' = below
    BY <1>4, FinishRemembers, SMTT(30)
  <2> QED
    BY <1>0, <1>4, <2>1, Zenon DEF Lifetimes
<1>5. CASE (\E outcome : Finish(below, outcome)) /\ UNCHANGED <<ns, current_scope>>
  BY <1>0, <1>4, <1>5
<1>6. CASE ns' = added.ns /\ current_scope' = path /\ frames' = Append(below, Frame("method", path, 0))
  <2>1. Remembers(frames') /\ MethodsOn(below) \subseteq MethodsOn(frames') /\ path \in MethodsOn(frames')
    BY <1>0, <1>6, PushRemembers, SMTT(30)
  <2> QED
    BY <1>0, <1>1, <1>6, <2>1, Zenon DEF Lifetimes
<1>7. CASE ~added.res.ok /\ ns' = added.ns /\ current_scope' = path /\ \E outcome : Finish(below, outcome)
  BY <1>0, <1>1, <1>4, <1>7, SMTT(30)
<1>8. CASE ns' = remove_level(added.ns, path).ns /\ UNCHANGED current_scope /\ \E outcome : Finish(below, outcome)
  BY <1>0, <1>2, <1>4, <1>8, SMTT(30)
<1> QED
  BY <1>3, <1>5, <1>6, <1>7, <1>8, Zenon

LEMMA CallsKeepLifetimes ==
    ASSUME IInv, Lifetimes, ParseTable \/ Invoke \/ (\E seg \in Segs : InvokeMethod(<<Root, seg>>))
    PROVE  Lifetimes'
<1>0. /\ Stack(frames) /\ Remembers(frames) /\ Locals(ns) \subseteq MethodsOn(frames) /\ IsScope(current_scope) /\ Sound(ns)
  BY DEF Lifetimes, IInv
<1>1. CASE Invoke
  <2>1. frames # <<>> /\ Top.kind = "args" /\ Enter(Top.name, AllButLast(frames)) /\ UNCHANGED program
    BY <1>1 DEF Invoke, Running
  <2>2. /\ Remembers(AllButLast(frames)) /\ Stack(AllButLast(frames)) /\ Top.name \in MethodKeys
        /\ MethodsOn(frames) \subseteq MethodsOn(AllButLast(frames))
    BY <1>0, <2>1, PopRemembers, SMTT(30) DEF Top
  <2>3. Locals(ns) \subseteq MethodsOn(AllButLast(frames))
    BY <1>0, <2>2, SMTT(30)
  <2> QED
    BY <2>1, <2>2, <2>3, EnterKeepsLifetimes
<1>2. ASSUME NEW seg \in Segs, InvokeMethod(<<Root, seg>>) PROVE Lifetimes'
  <2>1. frames = <<>> /\ Enter(<<Root, seg>>, <<>>) /\ UNCHANGED program
    BY <1>2 DEF InvokeMethod, Idle
  <2>2. <<Root, seg>> \in MethodKeys
    BY ComponentFacts, RootIsKey, SMTT(30) DEF MethodKeys, AbsoluteNormal, root
  <2>3. Stack(<<>>) /\ Remembers(<<>>) /\ Locals(ns) \subseteq MethodsOn(<<>>)
    BY <1>0, <2>1
  <2> QED
    BY <2>1, <2>2, <2>3, EnterKeepsLifetimes, SMTT(30)
<1>3. CASE ParseTable
  <2>1. frames = <<>> /\ UNCHANGED <<program, ns, current_scope>>
    BY <1>3 DEF ParseTable, Idle
  <2>2. frames' = frames \/ frames' = Append(frames, Frame("table", root, 0))
    BY <1>3, <2>1 DEF ParseTable
  <2>3. IsScope(current_scope') /\ Sound(ns') /\ Locals(ns') \subseteq MethodsOn(frames) /\ Len(frames) = 0
    BY <1>0, <2>1, SMTT(30)
  <2>4. CASE frames' = frames
    BY <1>0, <2>1, <2>3, <2>4, QuietKeepsLifetimes
  <2>5. CASE frames' = Append(frames, Frame("table", root, 0))
    BY <1>0, <2>1, <2>3, <2>5, PushKeepsLifetimes, SMTT(30)
  <2> QED
    BY <2>2, <2>4, <2>5
<1> QED
  BY <1>1, <1>2, <1>3, ZenonT(30)

\* The end of a method: whether its level was still there or not, it is gone.
LEMMA ExitMethodKeepsLifetimes ==
    ASSUME IInv, Lifetimes, frames # <<>>, Top.kind = "method", NEW outcome, ExitMethod(outcome), UNCHANGED program
    PROVE  Lifetimes'
<1> DEFINE removed == remove_level(ns, Top.name)
<1>0. /\ Stack(frames) /\ Remembers(frames) /\ Locals(ns) \subseteq MethodsOn(frames) /\ IsScope(current_scope) /\ Sound(ns)
      /\ program \in Programs
  BY DEF Lifetimes, IInv
<1>1. /\ Remembers(AllButLast(frames)) /\ IsScope(Top.scope) /\ Top.name \in MethodKeys
      /\ MethodsOn(frames) \subseteq MethodsOn(AllButLast(frames)) \cup {Top.name}
  BY <1>0, PopRemembers, SMTT(30) DEF Top
<1>2. Sound(removed.ns) /\ Locals(removed.ns) \subseteq Locals(ns) \ {Top.name}
  BY <1>0, <1>1, RemoveLevelKeeps
<1>3. ns' = removed.ns /\ current_scope' \in {Top.scope, current_scope} /\ \E o : Finish(AllButLast(frames), o)
  BY Zenon DEF ExitMethod
<1>4. frames' = AllButLast(frames)
  BY <1>3, FinishRemembers, SMTT(30)
<1> HIDE DEF removed
<1>5. IsScope(current_scope') /\ Locals(ns') \subseteq MethodsOn(frames') /\ Sound(ns') /\ Remembers(frames')
  BY <1>0, <1>1, <1>2, <1>3, <1>4, SMTT(30)
<1> QED
  BY <1>0, <1>5, Zenon DEF Lifetimes

LEMMA StatementsKeepLifetimes ==
    ASSUME IInv, Lifetimes, Statement \/ PlainArgument
    PROVE  Lifetimes'
<1>0. /\ Stack(frames) /\ Remembers(frames) /\ Locals(ns) \subseteq MethodsOn(frames) /\ IsScope(current_scope) /\ Sound(ns)
  BY DEF Lifetimes, IInv
<1>1. ASSUME NEW kind \in {"if", "while"}, DefNested(kind) PROVE Lifetimes'
  <2>1. frames' = Append(frames, Frame(kind, root, 0)) /\ UNCHANGED <<program, ns, current_scope>>
    BY <1>1 DEF DefNested, Push
  <2>2. /\ kind # "method" /\ kind # "args" /\ kind # "table"
        /\ IsScope(current_scope') /\ Sound(ns') /\ Locals(ns') \subseteq MethodsOn(frames)
    BY <1>0, <2>1
  <2> QED
    BY <1>0, <2>1, <2>2, PushKeepsLifetimes, SMTT(30)
<1>2. ASSUME UNCHANGED <<program, ns, current_scope>>, frames' = frames PROVE Lifetimes'
  BY <1>0, <1>2, QuietKeepsLifetimes, SMTT(30)
<1>3. CASE PlainArgument
  <2>1. Running /\ frames' = ArgParsed /\ UNCHANGED <<program, ns, current_scope>>
    BY <1>3 DEF PlainArgument, ExpectsTerm
  <2>2. Alike(frames, ArgParsed)
    BY <2>1, RunningFacts, ArgParsedIsAlike, SMTT(30)
  <2>3. Remembers(frames') /\ MethodsOn(frames') = MethodsOn(frames)
    BY <1>0, <2>1, <2>2, AlikeRemembers
  <2> QED
    BY <1>0, <2>1, <2>3, QuietKeepsLifetimes
<1>4. ASSUME NEW jump, DefJump(jump) PROVE Lifetimes'
  BY <1>2, <1>4 DEF DefJump
<1>5. CASE Failing
  BY <1>2, <1>5 DEF Failing
<1> QED
  BY <1>1, <1>3, <1>4, <1>5 DEF Statement

\* The other ends, and what propagates through the frames.
LEMMA EndsKeepLifetimes ==
    ASSUME IInv, Lifetimes, End \/ Unwind
    PROVE  Lifetimes'
<1>0. /\ Stack(frames) /\ Remembers(frames) /\ Locals(ns) \subseteq MethodsOn(frames) /\ IsScope(current_scope) /\ Sound(ns)
      /\ program \in Programs
  BY DEF Lifetimes, IInv
<1>1. frames # <<>>
  BY DEF End, EndOfTable, EndOfBlock, EndOfNested, EndOfMethod, InTermList, Running,
         Unwind, UnwindThrough, UnwindLoop, UnwindMethod, UnwindTable, Unwinding
<1>2. /\ Remembers(AllButLast(frames)) /\ IsScope(Top.scope)
      /\ Top.kind = "table" => MethodsOn(frames) = {}
      /\ Top.kind # "method" => MethodsOn(frames) \subseteq MethodsOn(AllButLast(frames))
  BY <1>0, <1>1, PopRemembers, SMTT(30) DEF Top
<1>3. ASSUME Top.kind # "method", UNCHANGED <<program, ns>>, current_scope' \in {current_scope, Top.scope},
             frames' \in {frames, AllButLast(frames)}
      PROVE  Lifetimes'
  <2>1. IsScope(current_scope') /\ Remembers(frames') /\ MethodsOn(frames) \subseteq MethodsOn(frames')
    BY <1>0, <1>2, <1>3, SMTT(30)
  <2> QED
    BY <1>3, <2>1, QuietKeepsLifetimes, SMTT(30)
<1>4. ASSUME Top.kind = "table", NEW outcome, Finish(<<>>, outcome), UNCHANGED <<program, ns, current_scope>>
      PROVE  Lifetimes'
  <2>1. frames' = <<>>
    BY <1>4, FinishRemembers, SMTT(30)
  <2>2. Remembers(<<>>) /\ MethodsOn(frames) \subseteq MethodsOn(<<>>)
    BY <1>2, <1>4 DEF Remembers
  <2> QED
    BY <1>0, <1>4, <2>1, <2>2, QuietKeepsLifetimes, SMTT(30)
<1>5. CASE EndOfTable
  BY <1>4, <1>5 DEF EndOfTable
<1>6. CASE EndOfBlock
  BY <1>3, <1>6, SMTT(30) DEF EndOfBlock, Pop
<1>7. CASE EndOfNested
  BY <1>3, <1>7, SMTT(30) DEF EndOfNested, Pop
<1>8. CASE EndOfMethod
  BY <1>1, <1>8, ExitMethodKeepsLifetimes DEF EndOfMethod
<1>9. CASE UnwindThrough
  BY <1>3, <1>9, SMTT(30) DEF UnwindThrough, Pop
<1>10. CASE UnwindLoop
  BY <1>3, <1>10, SMTT(30) DEF UnwindLoop, Pop
<1>11. CASE UnwindMethod
  BY <1>1, <1>11, ExitMethodKeepsLifetimes DEF UnwindMethod
<1>12. CASE UnwindTable
  BY <1>4, <1>12 DEF UnwindTable
<1> QED
  BY <1>5, <1>6, <1>7, <1>8, <1>9, <1>10, <1>11, <1>12 DEF End, Unwind

LEMMA TermsKeepLifetimes ==
    ASSUME IInv, Lifetimes, NEW name \in program.names, Term(name)
    PROVE  Lifetimes'
<1>1. \/ DefName(name) \/ DefMutex(name) \/ \E arg_count \in program.arg_counts : DefMethod(name, arg_count)
      \/ \E needs_parent \in BOOLEAN : DefOpRegion(name, needs_parent)
      \/ \E segs \in program.field_lists : DefField(name, segs)
      \/ DefScope(name) \/ DefDevice(name) \/ DefProcessor(name) \/ DefPowerRes(name) \/ DefThermalZone(name)
      \/ MethodInvocation(name)
  BY Zenon DEF Term
<1> QED
  BY <1>1, ObjectsKeepLifetimes, BlocksKeepLifetimes, MethodInvocationKeepsLifetimes, Zenon

LEMMA InitLifetimes == Init => Lifetimes
<1> SUFFICES ASSUME Init PROVE Lifetimes
  OBVIOUS
<1> DEFINE levels == [l \in {root} \cup Predefined |-> "Scope"]
           values == [n \in {OSI} |-> 0]
           objects == [h \in {0} |-> Method("Native", 1)]
<1>1. ns = Record(1, objects, levels, values) /\ program \in Programs /\ current_scope = root /\ frames = <<>>
  BY DEF Init, Record
<1>2. \A l \in Predefined \cup {OSI} : l \in AbsoluteNormal /\ Len(l) > 1 /\ AllButLast(l) = root
  <2>1. ASSUME NEW seg \in Segs
        PROVE  <<Root, seg>> \in AbsoluteNormal /\ Len(<<Root, seg>>) > 1 /\ AllButLast(<<Root, seg>>) = root
    <3>1. <<Root, seg>> \in AbsoluteNormal
      BY ComponentFacts DEF AbsoluteNormal
    <3>2. SubSeq(<<Root, seg>>, 1, 1) = <<Root>> /\ Len(<<Root, seg>>) = 2
      <4> DEFINE l == <<Root, seg>>
                 t == SubSeq(l, 1, 1)
      <4>1. l \in Seq({Root, seg}) /\ Len(l) = 2 /\ l[1] = Root
        OBVIOUS
      <4> HIDE DEF l
      <4>2. t \in Seq({Root, seg}) /\ Len(t) = 1 /\ t[1] = Root
        BY <4>1
      <4> HIDE DEF t
      <4>3. t = <<Root>>
        BY <4>2
      <4> QED
        BY <4>1, <4>3, SMTT(30) DEF l, t
    <3> QED
      BY <3>1, <3>2 DEF AllButLast, root
  <2> QED
    BY <2>1, PredefinedAssumption, Zenon
<1>3. root \in AbsoluteNormal /\ IsScope(root)
  BY RootIsKey, KeysAreNormal, SMTT(30) DEF IsScope
<1>4. Method("Native", 1) \in AmlValues /\ Method("Native", 1).type # "Field"
  BY DEF AmlValues, Method
<1>5. /\ ns.next_handle = 1 /\ ns.object_map = objects /\ ns.levels = levels /\ ns.values = values
  BY <1>1 DEF Record
<1>6. NamespaceType(ns, AmlValues)
  <2>1. 0 \in Handles /\ 1 \in Handles
    BY PredefinedAssumption, HandleSpaceAssumption, SMTT(30) DEF Handles
  <2>2. DOMAIN levels \subseteq AbsoluteNormal /\ DOMAIN values \subseteq AbsoluteNormal
    BY <1>2, <1>3, SMTT(30)
  <2>3. ns = [next_handle |-> ns.next_handle, object_map |-> ns.object_map, levels |-> ns.levels, values |-> ns.values]
    BY <1>1, <1>5, SMTT(30) DEF Record
  <2>4. objects \in [DOMAIN objects -> AmlValues] /\ DOMAIN objects \subseteq Handles
    BY <1>4, <2>1, Zenon
  <2>5. levels \in [DOMAIN levels -> LevelTypes] /\ values \in [DOMAIN values -> Handles]
    BY <2>1, ScopeAssumption, SMTT(30)
  <2> QED
    BY <1>5, <2>1, <2>2, <2>3, <2>4, <2>5, Zenon DEF NamespaceType
<1>7. Rooted(ns)
  BY <1>2, <1>5, SMTT(30) DEF Rooted
<1>8. RegionsOf(ns.object_map)
  BY <1>4, <1>5 DEF RegionsOf
<1>9. /\ \A v \in DOMAIN ns.values : ns.values[v] \in DOMAIN ns.object_map
      /\ \A h \in DOMAIN ns.object_map : h < ns.next_handle
  BY <1>5, SMTT(30)
<1>10. Locals(ns) = {} /\ Remembers(<<>>)
  BY <1>5 DEF Locals, Remembers
<1> QED
  BY <1>1, <1>3, <1>6, <1>7, <1>8, <1>9, <1>10, SMTT(30) DEF Lifetimes, Sound, Tree

----------------------------------------------------------------------------
\* However calls nest, return, fail and recurse, the interpreter remembers
\* scopes and methods by names that lead somewhere, its namespace is a tree,
\* and the levels with locals are those of methods on the stack.
THEOREM LifetimesInvariant == Spec => []Lifetimes
<1>1. IInv /\ Lifetimes /\ [Next]_vars => Lifetimes'
  <2> SUFFICES ASSUME IInv, Lifetimes, [Next]_vars PROVE Lifetimes'
    OBVIOUS
  <2>1. CASE UNCHANGED vars
    <3>1. UNCHANGED <<program, ns, current_scope, frames>>
      BY <2>1 DEF vars
    <3> QED
      BY <3>1, QuietKeepsLifetimes, SMTT(30) DEF Lifetimes
  <2>2. CASE Next
    BY <2>2, CallsKeepLifetimes, StatementsKeepLifetimes, EndsKeepLifetimes, TermsKeepLifetimes, Zenon DEF Next
  <2> QED
    BY <2>1, <2>2, SMTT(30)
<1> QED
  BY <1>1, InitLifetimes, InterpreterInvariant, PTL DEF Spec

\* A level of method locals exists only while an invocation of its method is
\* under way: invoke_method cleans up after a Return, a stray jump, an error
\* and a native method, and a recursive call that finds the level gone leaves
\* none behind.
THEOREM LocalsAlwaysBelong == Spec => []LocalsBelongToInvocation
<1>1. Lifetimes => LocalsBelongToInvocation
  BY Zenon DEF Lifetimes, Locals, MethodsOn, LocalsBelongToInvocation
<1> QED
  BY <1>1, LifetimesInvariant, PTL

\* With overflow checks, the region a field was declared over by def_field can
\* be looked up for as long as the field can, also when the name of the
\* region went with the locals of a method, and when a list of fields was cut
\* short by an error.
THEOREM FieldsAlwaysKeepRegion ==
    ASSUME OverflowChecks
    PROVE  Spec => []FieldsKeepRegion
<1>1. Lifetimes => FieldsKeepRegion
  BY DEF Lifetimes, Sound, RegionsOf, FieldsKeepRegion
<1> QED
  BY <1>1, LifetimesInvariant, PTL
=============================================================================
