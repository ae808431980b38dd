---------------------------- MODULE MCAmlParser ----------------------------
(***************************************************************************)
(* AmlParser on all tables made of a few terms: as the grammar has them, cut *)
(* off at every byte, with blocks of the wrong length, and with any         *)
(* structure of the wrong length.                                           *)
(***************************************************************************)
EXTENDS AmlParser

A == <<65, 95, 95, 95>>
B == <<66, 48, 95, 95>>
M == <<77, 95, 95, 95>>

\* The forms of a name: bytes and components.
Names ==
    {[name |-> A, components |-> <<A>>], [name |-> <<92>> \o B, components |-> <<RootComponent, B>>],
     [name |-> <<94, 94>> \o A, components |-> <<PrefixComponent, PrefixComponent, A>>],
     [name |-> <<46>> \o A \o B, components |-> <<A, B>>],
     [name |-> <<92, 47, 3>> \o A \o B \o A, components |-> <<RootComponent, A, B, A>>],
     [name |-> <<92, 0>>, components |-> <<RootComponent>>]}

MCKnown == {<<A>>}

Const(op, data) == [is |-> "Const", op |-> op, bytes |-> data]
Zero == Const(0, <<>>)
One == Const(1, <<>>)
NameOfA == [is |-> "Name", bytes |-> A, components |-> <<A>>]
Buffer(size, data) == [is |-> "Buffer", size |-> Const(10, <<size>>), bytes |-> data, follow |-> 0, off |-> 0]
Package(elements) == [is |-> "Package", elements |-> elements, follow |-> 0, off |-> 0]

Data ==
    {Zero, One, Const(255, <<>>), Const(10, <<7>>), Const(11, <<7, 1>>), Const(12, <<1, 2, 3, 4>>),
     Const(91, <<48>>), Const(14, <<1, 2, 3, 4, 5, 6, 7, 8>>), [is |-> "String", bytes |-> A], Buffer(0, <<>>), Buffer(3, <<8, 9>>),
     [Buffer(20, [i \in 1..18 |-> 163]) EXCEPT !.follow = 1],
     Package(<<>>), Package(<<One, NameOfA, Package(<<Buffer(1, <<0>>)>>)>>)}

Name(name, data) == [is |-> "Name", name |-> name.name, components |-> name.components, data |-> data]
NameA == Name([name |-> A, components |-> <<A>>], One)
NameB == Name([name |-> B, components |-> <<B>>], Buffer(2, <<163>>))
Noop == [is |-> "Jump", op |-> 163]
Break == [is |-> "Jump", op |-> 165]
Block(is, body, follow, off) ==
    LET name == IF is = "Scope" THEN B ELSE M
    IN  [is |-> is, name |-> name, components |-> <<name>>, body |-> body, follow |-> follow, off |-> off]
If(predicate, body, else, off) ==
    [is |-> "If", predicate |-> predicate, body |-> body, else |-> else, follow |-> 0, off |-> off]
While(predicate, body, off) == [is |-> "While", predicate |-> predicate, body |-> body, follow |-> 0, off |-> off]
Field(bits) ==
    [is |-> "Field", name |-> A, follow |-> 0, off |-> 0,
     units |-> <<[name |-> B, bits |-> 3], [name |-> <<0>>, bits |-> 1], [name |-> A, bits |-> bits]>>]

LevelObject(is, data, body, follow, off) ==
    [is |-> is, name |-> B, components |-> <<B>>, data |-> data, body |-> body, follow |-> follow, off |-> off]
DataOf == [Device |-> <<>>, Processor |-> <<1, 2, 3, 4, 5, 6>>, PowerResource |-> <<1, 2, 3>>, ThermalZone |-> <<>>]
Plain ==
    {[is |-> "Mutex", name |-> B, components |-> <<B>>, data |-> <<3>>], [is |-> "External", name |-> B, data |-> <<8, 0>>],
     [is |-> "OpRegion", name |-> B, components |-> <<B>>, space |-> 1, offset |-> Const(11, <<7, 1>>), length |-> One],
     [is |-> "Value", data |-> Buffer(3, <<8>>)]}

Bodies == {<<>>, <<NameA>>, <<Noop, NameB>>}
Nested(bodies, off) ==
    {Block(is, body, follow, off) : is \in {"Scope", "Method"}, body \in bodies, follow \in 0..2} \cup
    {If(predicate, body, else, off) : predicate \in {Zero, One}, body \in bodies, else \in {<<>>} \cup {<<b>> : b \in bodies}} \cup
    {LevelObject(is, DataOf[is], body, 0, off) : is \in DOMAIN DataOf, body \in bodies} \cup
    {While(Zero, body, off) : body \in bodies} \cup {While(One, Append(body, Break), off) : body \in bodies} \cup
    {While(One, <<NameA, If(One, <<Break>>, <<<<>>>>, 0), NameB>>, off)}

Table(list, cut, fault) == [list |-> list, cut |-> cut, fault |-> fault]

Singles == {<<Name(name, data)>> : name \in Names, data \in Data}
Level1 == Nested(Bodies, 0) \cup Plain \cup {Field(2)}
Inner ==
    {Block("Scope", <<NameA>>, 1, 0), If(Zero, <<NameB>>, <<<<NameA>>>>, 0), If(One, <<NameB>>, <<>>, 0),
     While(One, <<Noop, Break>>, 0), Field(2)}
Level2 == Nested({<<t>> : t \in Inner} \cup {<<t, Noop>> : t \in Inner}, 0)
WellFormed ==
    Singles \cup {<<t, u>> : t \in Level1, u \in {Noop, NameA} \cup Inner} \cup {<<t, Noop>> : t \in Level2}

Cuttable == Singles \cup {<<t, NameA>> : t \in Level1}

\* A buffer whose contents would do as a term.
Quoting == Name([name |-> M, components |-> <<M>>], Buffer(6, Encode(NameA)))

Offsets == (-6..3) \ {0}
Scopes(off) ==
    {Block("Scope", <<t, u>>, 0, off) :
        t \in {NameB, Block("Scope", <<NameB>>, 0, 0), Block("Scope", <<NameB>>, 0, off)}, u \in {NameA, Quoting}}

MCTables ==
    {Table(list, 0, "none") : list \in WellFormed} \cup
    UNION {{Table(list, cut, "cut") : cut \in 1..Len(EncodeList(list))} : list \in Cuttable} \cup
    UNION {{Table(<<t, u, Noop>>, 0, "block") : t \in Scopes(off), u \in Scopes(off) \cup {NameA, Noop}} : off \in Offsets} \cup
    UNION {{Table(<<t, NameA, Noop>>, 0, "length") : t \in Nested(Bodies, off)} : off \in Offsets} \cup
    {Table(<<Field(20)>>, 0, "length"),
     Table(<<Name([name |-> A, components |-> <<A>>], [Buffer(0, <<>>) EXCEPT !.off = -3])>>, 0, "length")} \cup
    {Table(<<While(NameOfA, body, 0), NameB>>, 0, "loop") : body \in Bodies \cup {<<[is |-> "Jump", op |-> 159]>>}} \cup
    {Table(<<[is |-> "OpRegion", name |-> B, space |-> space, offset |-> offset, length |-> One]>>, 0, "length") :
        space \in {1, 10}, offset \in {Zero, Package(<<>>)}} \cup
    {Table(<<If(NameOfA, <<NameB>>, <<<<NameA>>>>, 0), [is |-> "Jump", op |-> 164]>>, 0, "length")} \cup
    {Table(<<[is |-> "Fatal", code |-> <<1, 2, 3, 4, 5>>, arg |-> arg], NameA>>, cut, "length") :
        arg \in {One, Package(<<>>)}, cut \in {0, 8, 12}} \cup
    {Table(<<NameA, [is |-> "Value", data |-> Buffer(3, <<8>>)]>>, cut, "length") : cut \in 0..3} \cup
    {Table(<<NameA, [is |-> "Value", data |-> Const(op, bs)], Noop>>, 0, "length") :
        op \in {91, 66}, bs \in {<<99>>, <<48, 95, 95>>}}
=============================================================================
