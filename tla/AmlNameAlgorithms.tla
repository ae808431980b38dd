------------------------- MODULE AmlNameAlgorithms -------------------------
(***************************************************************************)
(* What the algorithms on AML names compute, against reference definitions, *)
(* for every name of at most MaxLen components and every scope of at most   *)
(* MaxScope.  The root character can only come first, as in the names that  *)
(* `AmlName::from_str` and the `name_string` parser build.                  *)
(***************************************************************************)
EXTENDS AmlName, Integers

CONSTANTS MaxLen,    \* bound on the length of the name under test
          MaxScope   \* bound on the length of the scope it is resolved in

VARIABLES name,   \* the name under test, or the empty sequence
          scope   \* the scope it is resolved in

RelativeNames(n) == UNION {[1..k -> Segs \cup {Prefix}] : k \in 0..n}

BoundedScopes == {root \o p : p \in RelativeNames(MaxScope - 1)}

BoundedNames == {root \o p : p \in RelativeNames(MaxLen - 1)} \cup (RelativeNames(MaxLen) \ {<<>>})

\* How many levels down the components i..j of p go, net.
Depth(p, i, j) ==
    Cardinality({k \in i..j : p[k] \in Segs}) - Cardinality({k \in i..j : p[k] = Prefix})

\* The specification of normalisation without a loop: it fails when some
\* prefix climbs higher than the name has gone down, and otherwise keeps
\* the components that no later prefix takes back.
Normalized(p) ==
    LET Kept == {i \in 1..Len(p) : p[i] = Root \/ (p[i] \in Segs /\ \A j \in i..Len(p) : Depth(p, i, j) > 0)}
        Rank(i) == Cardinality({j \in Kept : j <= i})
    IN  IF \E j \in 1..Len(p) : Depth(p, 1, j) < 0
          THEN Err("InvalidNormalizedName")
          ELSE Ok([r \in 1..Cardinality(Kept) |-> p[CHOOSE i \in Kept : Rank(i) = r]])

Picked == name # <<>>

\* `normalize` rejects exactly the names that climb above their start, and
\* otherwise removes exactly the segments its prefixes take back.
NormalizeIsCancellation == normalize(name) = Normalized(name)

\* Entering the scope p and resolving q there is the same as resolving the
\* name p.q from outside, for every way of cutting a relative name in two:
\* `resolve` never loses or invents a level on the way.  And `parent` is where
\* a `^` leads, and fails where it does, at the root.
ResolveComposes ==
    /\ Picked /\ ~is_absolute(name) =>
        \A i \in 1..(Len(name) - 1) :
            LET outer == resolve(SubSeq(name, 1, i), scope)
            IN  outer.ok => resolve(SubSeq(name, i + 1, Len(name)), outer.val) = resolve(name, scope)
    /\ LET up == resolve(<<Prefix>>, scope)
       IN  IF up.ok THEN parent(scope) = up ELSE ~parent(scope).ok

\* A name printed by `as_string` is read back by `from_str` as the same name,
\* unless it ends in a prefix; then it is refused, never misread.
PrintedNamesReadBack ==
    Picked => from_str(as_string(name)) = IF LastOf(name) = Prefix THEN Err("InvalidNameSeg") ELSE Ok(name)

\* namespace.rs:510-511 says of `resolve`: "If the path is absolute, it is
\* returned directly. The path is also normalized."  Names that end in a
\* prefix are left out, because `from_str` does not accept them.  It does
\* not hold: an absolute name keeps its prefixes.
ResolveNormalizes ==
    Picked /\ LastOf(name) # Prefix =>
        LET r == resolve(name, scope) IN r.ok => is_normal(r.val)
=============================================================================
