------------------------------ MODULE AmlName ------------------------------
(***************************************************************************)
(* AML names: `AmlName` and `NameComponent` of aml/src/namespace.rs.        *)
(*                                                                          *)
(* A name is a non-empty sequence of components; a component is the root    *)
(* character, a parent prefix, or a name segment.  The operators return     *)
(* outcomes: the Ok and Err arms of a Rust `Result`, or Panic when the      *)
(* code would assert or unwrap its way out.                                 *)
(*                                                                          *)
(* An operator named X_Mistake is X with that mistake made in it; it is      *)
(* only used to show that the properties notice the mistake.                *)
(***************************************************************************)
EXTENDS SequenceParts

CONSTANT Segs   \* the name segments (four-character names in the code)

Root == "\\"
Prefix == "^"
Dot == "."

\* NameComponent is an enum: the kinds of component are distinct.
ASSUME SegsAssumption == {Root, Prefix, Dot} \cap Segs = {}

Component == Segs \cup {Root, Prefix}

\* The names that `AmlName::from_str` and the `name_string` parser build: the
\* root character can only come first.
WellFormed == {p \in Seq(Component) : p # <<>> /\ \A i \in 2..Len(p) : p[i] # Root}

Ok(v) == [ok |-> TRUE, val |-> v]
Err(e) == [ok |-> FALSE, err |-> e]
Panic == Err("panic")

root == <<Root>>

is_normal(p) == \A i \in 1..Len(p) : p[i] # Prefix

is_absolute(p) == p[1] = Root

search_rules_apply(p) == Len(p) = 1 /\ p[1] \in Segs

\* A prefix with no segment to take back is passed over.
NormalizeStep_Lenient(name, c) ==
    CASE ~name.ok -> name
      [] name.ok /\ c # Prefix -> Ok(Append(name.val, c))
      [] name.ok /\ c = Prefix /\ name.val # <<>> /\ LastOf(name.val) \in Segs -> Ok(AllButLast(name.val))
      [] OTHER -> name

\* One turn of the `try_fold` in `normalize`: a prefix character takes back
\* the segment before it, and there must be one.
NormalizeStep(name, c) ==
    CASE ~name.ok -> name
      [] name.ok /\ c # Prefix -> Ok(Append(name.val, c))
      [] name.ok /\ c = Prefix /\ name.val # <<>> /\ LastOf(name.val) \in Segs -> Ok(AllButLast(name.val))
      [] OTHER -> Err("InvalidNormalizedName")

normalize(p) == IF is_normal(p) THEN Ok(p) ELSE FoldInOrder(NormalizeStep, Ok(<<>>), p)

parent(p) ==
    LET n == normalize(p)
    IN  CASE ~n.ok -> n
          [] n.ok /\ (n.val = <<>> \/ LastOf(n.val) = Root) -> Err("RootHasNoParent")
          [] OTHER -> Ok(AllButLast(n.val))

\* The relative part is normalised on its own, before it meets the scope.
resolve_Eager(p, scope) ==
    CASE ~is_absolute(scope) -> Panic
      [] is_absolute(scope) /\ is_absolute(p) -> Ok(p)
      [] OTHER -> LET n == normalize(p) IN IF n.ok THEN normalize(scope \o n.val) ELSE n

\* An absolute name is returned as it is, prefixes and all.
resolve(p, scope) ==
    CASE ~is_absolute(scope) -> Panic
      [] is_absolute(scope) /\ is_absolute(p) -> Ok(p)
      [] OTHER -> normalize(scope \o p)

\* `AmlName::from_str`, on a string cut into the characters `\`, `^`, `.` and
\* whole segments.  Each part between dots is a run of prefixes and then a
\* segment, so the segments are the tokens that end a part, and no part is
\* empty; what is not a dot becomes a component.
from_str(string) ==
    LET absolute == string # <<>> /\ string[1] = Root
        rest == IF absolute THEN Tail(string) ELSE string
        EndsPart(i) == i = Len(rest) \/ rest[i + 1] = Dot
    IN  CASE string = <<>> -> Err("EmptyNamesAreInvalid")
          [] string # <<>> /\ \A i \in 1..Len(rest) :
                 /\ rest[i] # Root
                 /\ i = 1 => rest[i] # Dot
                 /\ rest[i] \in Segs <=> EndsPart(i)  ->
                    Ok(FoldInOrder(LAMBDA name, c : IF c = Dot THEN name ELSE Append(name, c), <<>>, string))
          [] OTHER -> Err("InvalidNameSeg")

\* The dot goes before a segment that follows another component.
as_string_DotBefore(p) ==
    FoldInOrder(LAMBDA name, c : IF c \in Segs /\ name # <<>> THEN name \o <<Dot, c>> ELSE Append(name, c), <<>>, p)

\* `AmlName::as_string`: a dot after every segment, and the last one trimmed.
as_string(p) ==
    LET name == FoldInOrder(LAMBDA name, c : IF c \in Segs THEN name \o <<c, Dot>> ELSE Append(name, c), <<>>, p)
    IN  IF LastOf(name) = Dot THEN AllButLast(name) ELSE name

\* The names the namespace is keyed by: absolute, and free of prefixes.
AbsoluteNormal ==
    {p \in Seq(Segs \cup {Root}) : Len(p) > 0 /\ p[1] = Root /\ \A i \in 2..Len(p) : p[i] \in Segs}
=============================================================================
