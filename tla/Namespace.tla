----------------------------- MODULE Namespace -----------------------------
(***************************************************************************)
(* The AML namespace (aml/src/namespace.rs): a tree of levels, each with    *)
(* named values, a value being a handle into the object map.                *)
(*                                                                          *)
(* A `Namespace` struct is a record.  The tree is kept flat: `levels` maps  *)
(* the full name of a level to its type, `values` the full name of a value  *)
(* to its handle; a value (or a child level) belongs to the level that is   *)
(* its name without the last segment.  Each method of the struct is an      *)
(* operator from a namespace to the new namespace and the outcome:          *)
(* NamespaceClient calls them one at a time, AmlContext from the            *)
(* interpreter.                                                             *)
(***************************************************************************)
EXTENDS AmlName, Integers

CONSTANTS LevelTypes,      \* LevelType: Scope, Device, MethodLocals, ...
          Values,          \* the AML values
          HandleSpace,     \* number of handles: 2^32 in the code
          OverflowChecks   \* TRUE in a debug build: `+= 1` panics on overflow

ASSUME HandleSpaceAssumption == HandleSpace \in Nat \ {0}

ASSUME OverflowChecksAssumption == OverflowChecks \in BOOLEAN

ASSUME ScopeAssumption == "Scope" \in LevelTypes

Handles == 0..(HandleSpace - 1)

Unit == Ok("()")

\* BTreeMap::insert.
Insert(map, key, v) == [k \in DOMAIN map \cup {key} |-> IF k = key THEN v ELSE map[k]]

new ==
    [next_handle |-> 0,
     object_map |-> [h \in {} |-> 0],
     levels |-> [l \in {root} |-> "Scope"],
     values |-> [n \in {} |-> 0]]

\* The assertion and the normalisation every mutator starts with.
AbsolutePath(path) == IF is_absolute(path) THEN normalize(path) ELSE Panic

\* `get_level_for_path` and its `_mut` twin: the level that holds the last
\* segment.  The walk stops at the first level that is not there; the root
\* itself, and a component that is not a segment, are unwrapped into a panic.
get_level_for_path(n, path) ==
    LET At(i) == root \o SubSeq(path, 2, i)
        missing == {i \in 2..(Len(path) - 1) : At(i) \notin DOMAIN n.levels}
    IN  IF Len(path) < 2 \/ LastOf(path) \notin Segs THEN Panic
        ELSE IF missing = {} THEN Ok(At(Len(path) - 1))
        ELSE IF path[Min(missing)] \in Segs THEN Err("LevelDoesNotExist") ELSE Panic

\* The level a mutator works in, or why there is none.
LevelFor(n, p) == IF p.ok THEN get_level_for_path(n, p.val) ELSE p

\* The objects go with the names they had in the level.
Prune_FreesObjects(n, p) ==
    LET gone == {v \in DOMAIN n.values : Begins(p, AllButLast(v))}
    IN  [n EXCEPT !.levels = Restrict(@, {l \in DOMAIN @ : ~Begins(p, l)}),
                  !.values = Restrict(@, DOMAIN @ \ gone),
                  !.object_map = Restrict(@, DOMAIN @ \ {n.values[v] : v \in gone})]

\* Dropping the `NamespaceLevel` drops its values and its child levels.  The
\* objects stay in the object map.
Prune(n, p) ==
    [n EXCEPT !.levels = Restrict(@, {l \in DOMAIN @ : ~Begins(p, l)}),
              !.values = Restrict(@, {v \in DOMAIN @ : ~Begins(p, AllButLast(v))})]

\* A level that is there is not looked for: a new one takes its place.
add_level_Replaces(n, path, typ) ==
    LET p == AbsolutePath(path)
    IN  CASE p = Ok(root) -> [ns |-> n, res |-> Unit]
          [] p # Ok(root) /\ ~LevelFor(n, p).ok -> [ns |-> n, res |-> LevelFor(n, p)]
          [] OTHER -> [ns |-> [Prune(n, p.val) EXCEPT !.levels = Insert(@, p.val, typ)], res |-> Unit]

\* A level that is there already is left as it is.
add_level(n, path, typ) ==
    LET p == AbsolutePath(path)
    IN  CASE p = Ok(root) -> [ns |-> n, res |-> Unit]
          [] p # Ok(root) /\ ~LevelFor(n, p).ok -> [ns |-> n, res |-> LevelFor(n, p)]
          [] OTHER -> [ns |-> IF p.val \in DOMAIN n.levels THEN n
                              ELSE [n EXCEPT !.levels = Insert(@, p.val, typ)],
                       res |-> Unit]

remove_level(n, path) ==
    LET p == AbsolutePath(path)
    IN  CASE p = Ok(root) -> [ns |-> n, res |-> Err("TriedToRemoveRootNamespace")]
          [] p # Ok(root) /\ ~LevelFor(n, p).ok -> [ns |-> n, res |-> LevelFor(n, p)]
          [] OTHER -> IF p.val \notin DOMAIN n.levels THEN [ns |-> n, res |-> Err("LevelDoesNotExist")]
                      ELSE [ns |-> Prune(n, p.val), res |-> Unit]

\* A handle is issued without moving the counter on.
FileObject_NoIncrement(n, v) == [n EXCEPT !.object_map = Insert(@, n.next_handle, v)]

\* The counter moves on, and the object is lost.
FileObject_Unfiled(n, v) == [n EXCEPT !.next_handle = (@ + 1) % HandleSpace]

\* The next handle is taken and incremented, and the object filed under it.
FileObject(n, v) ==
    [n EXCEPT !.next_handle = (@ + 1) % HandleSpace, !.object_map = Insert(@, n.next_handle, v)]

\* The name is bound before anyone looks whether its level exists.
add_value_Unchecked(n, path, v) ==
    LET p == AbsolutePath(path)
        filed == FileObject(n, v)
    IN  IF ~p.ok THEN [ns |-> n, res |-> p]
        ELSE IF OverflowChecks /\ n.next_handle + 1 = HandleSpace THEN [ns |-> n, res |-> Panic]
        ELSE [ns |-> [filed EXCEPT !.values = Insert(@, p.val, n.next_handle)],
              res |-> IF LevelFor(filed, p).ok THEN Ok(n.next_handle) ELSE LevelFor(filed, p)]

\* The object is filed before the level is looked up, so it stays in the map
\* when that fails; a name that is taken is rebound and then reported.
add_value(n, path, v) ==
    LET p == AbsolutePath(path)
        filed == FileObject(n, v)
        level == LevelFor(filed, p)
    IN  IF ~p.ok THEN [ns |-> n, res |-> p]
        ELSE IF OverflowChecks /\ n.next_handle + 1 = HandleSpace THEN [ns |-> n, res |-> Panic]
        ELSE IF ~level.ok THEN [ns |-> filed, res |-> level]
        ELSE [ns |-> [filed EXCEPT !.values = Insert(@, p.val, n.next_handle)],
              res |-> IF p.val \in DOMAIN n.values THEN Err("NameCollision") ELSE Ok(n.next_handle)]

add_value_at_resolved_path(n, path, scope, v) ==
    LET p == resolve(path, scope) IN IF p.ok THEN add_value(n, p.val, v) ELSE [ns |-> n, res |-> p]

\* The value named by the last segment in the level that holds it.
ValueAt(n, level, seg) ==
    IF Append(level, seg) \in DOMAIN n.values THEN Ok(n.values[Append(level, seg)]) ELSE Err("ValueDoesNotExist")

get_handle(n, path) ==
    LET level == get_level_for_path(n, path) IN IF level.ok THEN ValueAt(n, level.val, LastOf(path)) ELSE level

\* `get(handle)` unwraps: a handle that was never issued is a panic.
get_by_path(n, path) ==
    LET handle == get_handle(n, path)
    IN  IF ~handle.ok THEN handle
        ELSE IF handle.val \in DOMAIN n.object_map THEN Ok(n.object_map[handle.val]) ELSE Panic

\* The walk goes from the root inwards.
FirstEnclosing_Outermost(found, seg, scope) ==
    LET from[k \in 1..Len(scope)] ==
            IF Append(SubSeq(scope, 1, k), seg) \in found THEN Ok(Append(SubSeq(scope, 1, k), seg))
            ELSE IF k = Len(scope) THEN Err("NotFound") ELSE from[k + 1]
    IN  from[1]

\* The loop of `search` and of `search_for_level`: from the innermost scope
\* outwards, the first scope in which the segment is among `found`.
FirstEnclosing(found, seg, scope) ==
    LET from[k \in 1..Len(scope)] ==
            IF Append(SubSeq(scope, 1, k), seg) \in found THEN Ok(Append(SubSeq(scope, 1, k), seg))
            ELSE IF k = 1 THEN Err("NotFound") ELSE from[k - 1]
    IN  from[Len(scope)]

\* The loop, on the outcome of preparing the scope for it.
Enclosing(found, seg, inner, missing) ==
    LET hit == FirstEnclosing(found, seg, inner.val)
    IN  IF ~inner.ok THEN inner ELSE IF hit.ok THEN hit ELSE Err(missing)

\* `search`: a name of one segment is looked for in the starting scope and
\* then in the scopes around it, missing levels being skipped; any other name
\* is resolved against the starting scope.
search(n, path, starting_scope) ==
    LET name == IF search_rules_apply(path)
                THEN Enclosing(DOMAIN n.values, path[1], AbsolutePath(starting_scope), "ValueDoesNotExist")
                ELSE resolve(path, starting_scope)
        handle == get_handle(n, name.val)
    IN  IF ~name.ok THEN name
        ELSE IF ~handle.ok THEN handle
        ELSE Ok([name |-> name.val, handle |-> handle.val])

\* The normalisation `search_for_level` starts with, and the assertion.
NormalScope(scope) ==
    LET p == normalize(scope) IN IF p.ok /\ (p.val = <<>> \/ ~is_absolute(p.val)) THEN Panic ELSE p

\* A name the search rules do not apply to comes back as it went in.
search_for_level(n, level_name, starting_scope) ==
    IF search_rules_apply(level_name)
    THEN Enclosing(DOMAIN n.levels, level_name[1], NormalScope(starting_scope), "LevelDoesNotExist")
    ELSE Ok(level_name)

----------------------------------------------------------------------------
\* The shape of the struct, with objects of the set given.
NamespaceType(n, Objects) ==
    /\ n = [next_handle |-> n.next_handle, object_map |-> n.object_map, levels |-> n.levels, values |-> n.values]
    /\ n.next_handle \in Handles
    /\ DOMAIN n.object_map \subseteq Handles /\ n.object_map \in [DOMAIN n.object_map -> Objects]
    /\ DOMAIN n.levels \subseteq AbsoluteNormal /\ n.levels \in [DOMAIN n.levels -> LevelTypes]
    /\ DOMAIN n.values \subseteq AbsoluteNormal /\ n.values \in [DOMAIN n.values -> Handles]

\* The flat maps are a tree: every level but the root, and every value, sits
\* in a level that is there.
Rooted(n) ==
    /\ root \in DOMAIN n.levels
    /\ \A l \in (DOMAIN n.levels \ {root}) \cup DOMAIN n.values : Len(l) > 1 /\ AllButLast(l) \in DOMAIN n.levels
=============================================================================
