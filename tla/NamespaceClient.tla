-------------------------- MODULE NamespaceClient --------------------------
(***************************************************************************)
(* A namespace and the calls made on it, by the AML interpreter and by the  *)
(* user of the library (aml/src/namespace.rs): one action per method that   *)
(* changes the namespace.  `result` is what the last call returned; a panic *)
(* ends the run, with the namespace as the call left it.                    *)
(***************************************************************************)
EXTENDS Namespace

CONSTANT Names   \* the names callers pass in

ASSUME NamesAssumption == Names \subseteq WellFormed

VARIABLES ns, result

vars == <<ns, result>>

Running == result # Panic

Call(outcome) == Running /\ ns' = outcome.ns /\ result' = outcome.res

AddLevel(path, typ) == Call(add_level(ns, path, typ))

RemoveLevel(path) == Call(remove_level(ns, path))

AddValue(path, v) == Call(add_value(ns, path, v))

\* A write through `get_mut`, which unwraps.
StoreObject(handle, v) ==
    Call(IF handle \in DOMAIN ns.object_map
         THEN [ns |-> [ns EXCEPT !.object_map = Insert(@, handle, v)], res |-> Unit]
         ELSE [ns |-> ns, res |-> Panic])

Init == ns = new /\ result = Unit

Next ==
    \/ \E path \in Names, typ \in LevelTypes : AddLevel(path, typ)
    \/ \E path \in Names : RemoveLevel(path)
    \/ \E path \in Names, v \in Values : AddValue(path, v)
    \/ \E handle \in Handles, v \in Values : StoreObject(handle, v)

Spec == Init /\ [][Next]_vars

----------------------------------------------------------------------------
\* The struct keeps its shape, and its flat maps keep describing a tree.
TypeOK == NamespaceType(ns, Values) /\ Rooted(ns)

\* Every handle that a name is bound to can be looked up: `get` and `get_mut`
\* never unwrap nothing for a handle that came out of `search`.
BoundHandlesExist == \A n \in DOMAIN ns.values : ns.values[n] \in DOMAIN ns.object_map

\* No two names share an object.
HandlesUnique == IsInjective(ns.values)

\* A step binds names only to a handle that was not in the object map
\* before it, so that a handle kept by the user of the library never comes
\* to mean another object.
HandlesNeverReused ==
    [][\A n \in DOMAIN ns'.values :
          \/ n \in DOMAIN ns.values /\ ns'.values[n] = ns.values[n]
          \/ ns'.values[n] \notin DOMAIN ns.object_map]_vars

\* The namespace is a HandleStore: the handles issued are the keys of the
\* object map, from which nothing is ever removed.
Store == INSTANCE HandleStore WITH Handle <- Handles, issued <- DOMAIN ns.object_map, bound <- ns.values

\* Every call either issues one new handle, for one name at most, or only
\* makes names go away.
IsHandleStore == Store!Spec

\* A call that fails leaves the levels and the set of names as they were,
\* whatever it had already done when it found out (`add_value` has filed the
\* object by then, and on a collision rebinds the name).
FailureAddsNoName ==
    [][~result'.ok => ns'.levels = ns.levels /\ DOMAIN ns'.values = DOMAIN ns.values]_vars

\* Only remove_level makes names go away, one level with all that is below it:
\* a level that a second table opens again, under whatever type, keeps its own
\* type and its contents, and a value goes only with the level it is in.
OnlyRemovalForgets ==
    [][LET gone == DOMAIN ns.levels \ DOMAIN ns'.levels
       IN  /\ \A l \in DOMAIN ns.levels \ gone : ns'.levels[l] = ns.levels[l]
           /\ \A n \in DOMAIN ns.values \ DOMAIN ns'.values : AllButLast(n) \in gone
           /\ gone # {} => \E top \in gone : \A l \in gone : Begins(top, l)]_vars

\* Where a search for the segment starting in the scope may find it, and the
\* nearest of those places.
Visible(names, seg, scope) == {n \in names : LastOf(n) = seg /\ Begins(AllButLast(n), scope)}

Nearest(n, names) == n \in names /\ \A m \in names : Len(m) <= Len(n)

\* A search by a single segment finds the value, or the level, in the nearest
\* enclosing scope, whether or not the starting scope still exists, and fails
\* only when no enclosing scope has one.  What `search` returns is what the
\* full name means.
SearchFindsNearest ==
    \A seg \in Segs, scope \in Names \cap AbsoluteNormal :
        LET values == Visible(DOMAIN ns.values, seg, scope)
            levels == Visible(DOMAIN ns.levels, seg, scope)
            found == search(ns, <<seg>>, scope)
            level == search_for_level(ns, <<seg>>, scope)
        IN  /\ IF values = {} THEN found = Err("ValueDoesNotExist")
               ELSE /\ found.ok /\ Nearest(found.val.name, values)
                    /\ get_handle(ns, found.val.name) = Ok(found.val.handle)
            /\ IF levels = {} THEN level = Err("LevelDoesNotExist")
               ELSE level.ok /\ Nearest(level.val, levels)
=============================================================================
