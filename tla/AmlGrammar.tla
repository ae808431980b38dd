----------------------------- MODULE AmlGrammar -----------------------------
(***************************************************************************)
(* AML as it is written: term lists as trees, their encoding by the grammar *)
(* quoted above each parser of aml/src, and what they mean.  This is the    *)
(* reference the parsers of AmlParser are measured against.                 *)
(*                                                                          *)
(* Every structure with a PkgLength has two fields on its encoding: the     *)
(* number of bytes that follow the lead byte, and how far the length is off *)
(* the mark.  Trees are finite, so the definitions recurse over them.       *)
(***************************************************************************)
EXTENDS SequencesExt, Integers

\* A structure: its PkgLength is the first thing after the opcode, and counts
\* itself.
Packaged(opcode, follow, off, content) ==
    LET length == 1 + follow + Len(content) + off
        high == length \div 16
    IN  opcode \o (CASE follow = 0 -> <<length>>
                     [] follow = 1 -> <<64 + (length % 16), high>>
                     [] follow = 2 -> <<128 + (length % 16), high % 256, high \div 256>>) \o content

EncodeAll(seqs) == FlattenSeq(seqs)

RECURSIVE EncodeData(_)
EncodeData(data) ==
    CASE data.is = "Const" -> <<data.op>> \o data.bytes
      [] data.is = "String" -> <<13>> \o data.bytes \o <<0>>
      [] data.is = "Buffer" -> Packaged(<<17>>, data.follow, data.off, EncodeData(data.size) \o data.bytes)
      [] data.is = "Package" ->
            Packaged(<<18>>, data.follow, data.off,
                     <<Len(data.elements)>> \o
                     EncodeAll([i \in 1..Len(data.elements) |-> EncodeData(data.elements[i])]))
      [] data.is = "Name" -> data.bytes

\* The opcodes of the objects that have a level, behind the extension prefix.
ObjectOpcode == [Device |-> 130, Processor |-> 131, PowerResource |-> 132, ThermalZone |-> 133]

RECURSIVE Encode(_)
EncodeList(list) == EncodeAll([i \in 1..Len(list) |-> Encode(list[i])])
Encode(term) ==
    CASE term.is = "Name" -> <<8>> \o term.name \o EncodeData(term.data)
      [] term.is = "Scope" -> Packaged(<<16>>, term.follow, term.off, term.name \o EncodeList(term.body))
      [] term.is \in DOMAIN ObjectOpcode ->
            Packaged(<<91, ObjectOpcode[term.is]>>, term.follow, term.off, term.name \o term.data \o EncodeList(term.body))
      [] term.is = "OpRegion" ->
            <<91, 128>> \o term.name \o <<term.space>> \o EncodeData(term.offset) \o EncodeData(term.length)
      [] term.is = "Mutex" -> <<91, 1>> \o term.name \o term.data
      [] term.is = "External" -> <<21>> \o term.name \o term.data
      [] term.is = "Method" -> Packaged(<<20>>, term.follow, term.off, term.name \o <<0>> \o EncodeList(term.body))
      [] term.is = "Field" ->
            Packaged(<<91, 129>>, term.follow, term.off, term.name \o <<0>> \o
                     EncodeAll([i \in 1..Len(term.units) |-> term.units[i].name \o <<term.units[i].bits>>]))
      [] term.is = "If" ->
            Packaged(<<160>>, term.follow, term.off, EncodeData(term.predicate) \o EncodeList(term.body)) \o
            (IF term.else = <<>> THEN <<>> ELSE Packaged(<<161>>, term.follow, term.off, EncodeList(term.else[1])))
      [] term.is = "While" ->
            Packaged(<<162>>, term.follow, term.off, EncodeData(term.predicate) \o EncodeList(term.body))
      [] term.is = "Jump" -> <<term.op>>
      [] term.is = "Value" -> EncodeData(term.data)
      [] term.is = "Fatal" -> <<91, 50>> \o term.code \o EncodeData(term.arg)

----------------------------------------------------------------------------
\* Integers have eight bytes, least significant byte first.
Pad(bytes) == bytes \o [i \in 1..(8 - Len(bytes)) |-> 0]

RECURSIVE Value(_)
Value(data) ==
    CASE data.is = "Const" -> [type |-> "Integer", val |-> IF data.op = 255 THEN [i \in 1..8 |-> 255]
                                                          ELSE IF data.op = 1 THEN Pad(<<1>>)
                                                          ELSE IF data.op = 91 THEN Pad(<<>>) ELSE Pad(data.bytes)]
      [] data.is = "String" -> [type |-> "String", val |-> data.bytes]
      [] data.is = "Buffer" ->
            [type |-> "Buffer",
             val |-> [i \in 1..Value(data.size).val[1] |-> IF i <= Len(data.bytes) THEN data.bytes[i] ELSE 0]]
      [] data.is = "Package" -> [type |-> "Package", val |-> [i \in 1..Len(data.elements) |-> Value(data.elements[i])]]
      [] data.is = "Name" -> [type |-> "String", val |-> data.components]

\* Of at most three bytes.
Number(data) == LET val == Value(data).val IN val[1] + 256 * val[2] + 65536 * val[3]

IsTrue(data) == \E i \in 1..8 : Value(data).val[i] # 0

\* What the terms of a list declare, in order, and whether a jump ended it.
\* A loop with a true predicate is taken to jump out in its first round.
RECURSIVE Meaning(_, _, _)
MeaningOf(term, scope) ==
    CASE term.is = "Name" ->
            [declared |-> <<[scope |-> scope, name |-> term.components, value |-> Value(term.data)]>>, jump |-> FALSE]
      [] term.is = "Scope" -> Meaning(term.body, Append(scope, term.components), 1)
      [] term.is \in DOMAIN ObjectOpcode ->
            LET inside == Meaning(term.body, Append(scope, term.components), 1)
            IN  [inside EXCEPT !.declared = <<[scope |-> scope, name |-> term.components,
                                               value |-> [type |-> term.is, val |-> term.data]]>> \o @]
      [] term.is = "OpRegion" ->
            [declared |-> <<[scope |-> scope, name |-> term.components,
                             value |-> [type |-> "OpRegion",
                                        val |-> <<term.space, Number(term.offset), Number(term.length)>>]]>>,
             jump |-> FALSE]
      [] term.is = "Mutex" ->
            [declared |-> <<[scope |-> scope, name |-> term.components, value |-> [type |-> "Mutex", val |-> term.data]]>>,
             jump |-> FALSE]
      [] term.is \in {"External", "Value"} -> [declared |-> <<>>, jump |-> FALSE]
      [] term.is = "Method" ->
            [declared |-> <<[scope |-> scope, name |-> term.components,
                             value |-> [type |-> "Method", val |-> EncodeList(term.body)]]>>, jump |-> FALSE]
      [] term.is = "Field" ->
            [declared |-> FlattenSeq([i \in 1..Len(term.units) |->
                IF term.units[i].name = <<0>> THEN <<>>
                ELSE <<[scope |-> scope, name |-> <<term.units[i].name>>,
                        value |-> [type |-> "Field",
                                   val |-> <<FoldLeft(LAMBDA sum, u : sum + u.bits, 0, SubSeq(term.units, 1, i - 1)),
                                             term.units[i].bits>>]]>>]),
             jump |-> FALSE]
      [] term.is = "If" ->
            IF IsTrue(term.predicate) THEN Meaning(term.body, scope, 1)
            ELSE IF term.else = <<>> THEN [declared |-> <<>>, jump |-> FALSE] ELSE Meaning(term.else[1], scope, 1)
      [] term.is = "While" ->
            [declared |-> IF IsTrue(term.predicate) THEN Meaning(term.body, scope, 1).declared ELSE <<>>, jump |-> FALSE]
      [] term.is = "Jump" -> [declared |-> <<>>, jump |-> term.op # 163]
Meaning(list, scope, i) ==
    IF i > Len(list) THEN [declared |-> <<>>, jump |-> FALSE]
    ELSE LET first == MeaningOf(list[i], scope)
             others == Meaning(list, scope, i + 1)
         IN  IF first.jump THEN first ELSE [declared |-> first.declared \o others.declared, jump |-> others.jump]
=============================================================================
