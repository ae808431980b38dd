---------------------------- MODULE MCRsdpSearch ----------------------------
(***************************************************************************)
(* RsdpSearch with areas of four slots and up to two structures in memory.  *)
(***************************************************************************)
EXTENDS RsdpSearch

CONSTANTS Slots, Contents

V1 == [signature |-> TRUE, revision |-> 0, oem |-> TRUE, sum20 |-> TRUE, length |-> "within", sum |-> FALSE]
V2 == [signature |-> TRUE, revision |-> 2, oem |-> TRUE, sum20 |-> TRUE, length |-> "exact", sum |-> TRUE]

Nothing == [V1 EXCEPT !.signature = FALSE]

\* Valid ones of both versions, ones that fail each of the tests, and lengths
\* that reach beyond the structure.
MCContents ==
    {V1, V2, [V1 EXCEPT !.oem = FALSE], [V1 EXCEPT !.sum20 = FALSE], [V2 EXCEPT !.sum = FALSE],
     [V2 EXCEPT !.sum20 = FALSE], [V2 EXCEPT !.length = "beyond"]}

MCMemories ==
    {[x \in Slots |-> IF x = s THEN p ELSE IF x = t THEN q ELSE Nothing] :
        s \in Slots, t \in Slots, p \in Contents, q \in Contents}

MCSlots == 2..12
=============================================================================
