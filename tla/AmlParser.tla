----------------------------- MODULE AmlParser -----------------------------
(***************************************************************************)
(* The parsers of aml/src at work on one table: term lists, named objects   *)
(* (term_object.rs) and statements (statement.rs), built from those of      *)
(* AmlSyntax.  The terms of a list are parsed and executed one by one.      *)
(*                                                                          *)
(* `input` is the slice the parsers hand on, `frames` the lists that are    *)
(* open, `propagate` an error or a jump on its way up.  Which objects there *)
(* are is AmlContext's subject; here they are logged as they are declared.  *)
(***************************************************************************)
EXTENDS AmlSyntax

CONSTANT Tables   \* [list, cut, fault]: a term list, bytes cut off its end, what is wrong with it

VARIABLES table, input, frames, scope, declared, propagate, outcome

vars == <<table, bytes, input, frames, scope, declared, propagate, outcome>>

Running == frames # <<>> /\ propagate = "none"
Top == Last(frames)

\* One turn of the loop of term_list, at a byte with this opcode.
AtTerm == Running /\ Top.kind # "fields" /\ still_parsing(Top.length, input)
AtOpcode(op) == AtTerm /\ first(input) = op
Body == Drop(input, 1)

\* ext_opcode.
AtExtOpcode(op) == AtOpcode(91) /\ len(input) > 1 /\ first(Body) = op
ExtBody == Drop(input, 2)

\* A list in the slice at hand, up to the end of its package, and one in a
\* slice of its own, behind which the parser goes on.
ListHere(kind, length) ==
    [kind |-> kind, length |-> length, scope |-> scope, body |-> input, after |-> input, predicate |-> input, offset |-> 0]
ListIn(kind, slice, after, predicate) ==
    [ListHere(kind, WholeOf(slice)) EXCEPT !.body = slice, !.after = after, !.predicate = predicate]

Fail(error) ==
    /\ propagate' = error
    /\ UNCHANGED <<table, bytes, input, frames, scope, declared, outcome>>

GoOn(rest, lists) ==
    /\ input' = rest /\ frames' = lists
    /\ UNCHANGED <<table, bytes, scope, declared, propagate, outcome>>

\* The namespace is asked to take an object.  What it makes of the name is the
\* subject of Namespace: here it may refuse any object, and does refuse a name
\* that is taken.
Declared(name, value) ==
    /\ \A i \in 1..Len(declared) : declared[i].scope # scope \/ declared[i].name # name
    /\ declared' = Append(declared, [scope |-> scope, name |-> name, value |-> value])

Declare(name, value, rest, lists) ==
    \/ /\ Declared(name, value)
       /\ input' = rest /\ frames' = lists
       /\ UNCHANGED <<table, bytes, scope, propagate, outcome>>
    \/ Fail("Refused")

\* A term that has been parsed declares an object, or the parse has failed.
DeclareParsed(parsed) ==
    IF parsed.ok THEN Declare(parsed.val.name, parsed.val.value, parsed.rest, frames) ELSE Fail(parsed.error)

Object(in, name, type, val) == Ok(in, [name |-> name, value |-> [type |-> type, val |-> val]])

----------------------------------------------------------------------------
\* A byte that begins no data makes the parser of the whole term the wrong one;
\* the last alternative of term_object then fails on the byte of the opcode.
DefName ==
    /\ AtOpcode(8)
    /\ DeclareParsed(
          Feed(name_string(Body), LAMBDA in1, name :
              Feed(Or(data_object(in1), Err("UnexpectedByte")), LAMBDA in2, data :
                  Ok(in2, [name |-> name, value |-> data]))))

\* The body is kept, not parsed.
DefMethod ==
    /\ AtOpcode(20)
    /\ DeclareParsed(
          Feed(NamedHeader(Body), LAMBDA in1, header :
              Feed(take(in1), LAMBDA in2, flags :
                  Feed(take_to_end_of_pkglength(in2, header.length), LAMBDA in3, code :
                      Object(in3, header.name, "Method", Slice(code))))))

DefOpRegion ==
    /\ AtExtOpcode(128)
    /\ DeclareParsed(
          Feed(name_string(ExtBody), LAMBDA in1, name :
              Feed(take(in1), LAMBDA in2, space :
                  Feed(term_arg(in2), LAMBDA in3, offset :
                      Feed(term_arg(in3), LAMBDA in4, length :
                          IF space \in 10..127 THEN Err("InvalidRegionSpace")
                          ELSE Feed(as_integer(in4, offset), LAMBDA in5, o :
                                   Feed(as_integer(in5, length), LAMBDA in6, l :
                                       Object(in6, name, "OpRegion", <<space, o, l>>))))))))

DefMutex ==
    /\ AtExtOpcode(1)
    /\ DeclareParsed(
          Feed(name_string(ExtBody), LAMBDA in1, name :
              Feed(take(in1), LAMBDA in2, sync_level : Object(in2, name, "Mutex", <<sync_level>>))))

DefExternal ==
    LET parsed == Feed(name_string(Body), LAMBDA in1, name : take_n(in1, 2))
    IN  AtOpcode(21) /\ IF parsed.ok THEN GoOn(parsed.rest, frames) ELSE Fail(parsed.error)

\* The terms that follow, up to the end of the package, are in another scope.
EnterBlock(rest, header) ==
    /\ frames' = Append(frames, ListHere("block", header.length))
    /\ input' = rest
    /\ scope' = Append(scope, header.name)
    /\ UNCHANGED <<table, bytes, propagate, outcome>>

DefScope ==
    LET parsed == NamedHeader(Body)
    IN  /\ AtOpcode(16)
        /\ \/ ~parsed.ok /\ Fail(parsed.error)
           \/ parsed.ok /\ Fail("Refused")
           \/ parsed.ok /\ EnterBlock(parsed.rest, parsed.val) /\ UNCHANGED declared

\* What is between the name of an object that has a level, and its terms.
DataWidth == [Device |-> 0, Processor |-> 6, PowerResource |-> 3, ThermalZone |-> 0]

\* def_device, def_processor, def_power_res, def_thermal_zone.
DefObject(type) ==
    LET parsed == Feed(NamedHeader(ExtBody), LAMBDA in1, header :
                      Feed(take_n(in1, DataWidth[type]), LAMBDA in2, data : Ok(in2, [header |-> header, data |-> data])))
    IN  /\ AtExtOpcode(ObjectOpcode[type])
        /\ \/ ~parsed.ok /\ Fail(parsed.error)
           \/ parsed.ok /\ Fail("Refused")
           \/ /\ parsed.ok
              /\ Declared(parsed.val.header.name, [type |-> type, val |-> Slice(parsed.val.data)])
              /\ EnterBlock(parsed.rest, parsed.val.header)

\* def_field, up to its list.
DefField ==
    LET parsed == Feed(NamedHeader(ExtBody), LAMBDA in1, header :
                      IF header.name \notin Known THEN Err("ObjectDoesNotExist")
                      ELSE Feed(take(in1), LAMBDA in2, flags : Ok(in2, header.length)))
    IN  /\ AtExtOpcode(129)
        /\ IF parsed.ok THEN GoOn(parsed.rest, Append(frames, ListHere("fields", parsed.val))) ELSE Fail(parsed.error)

\* One turn of the loop over the list: a gap, or a name.  The length of the
\* field, in bits, is parsed as the PkgLength of a structure.
FieldElement ==
    LET reserved == first(input) = 0
        parsed == Feed(IF reserved THEN Ok(Body, <<>>) ELSE name_seg(input), LAMBDA in1, name :
                      Feed(pkg_length(in1), LAMBDA in2, length :
                          Object(in2, name, "Field", <<Top.offset, length.raw_length>>)))
        lists == [frames EXCEPT ![Len(frames)].offset = @ + parsed.val.value.val[2]]
    IN  /\ Running /\ Top.kind = "fields" /\ still_parsing(Top.length, input)
        /\ IF ~parsed.ok THEN Fail(parsed.error)
           ELSE IF reserved THEN GoOn(parsed.rest, lists)
           ELSE Declare(parsed.val.name, parsed.val.value, parsed.rest, lists)

----------------------------------------------------------------------------
\* The choice in def_if_else: `opcode` fails at the end of the stream, and not
\* with WrongParser; without the opcode the branch is empty.
DefElse(in) ==
    IF len(in) = 0 THEN Err("UnexpectedEndOfStream")
    ELSE IF first(in) # 161 THEN Ok(in, [from |-> in.from, to |-> in.from])
    ELSE Feed(pkg_length(Drop(in, 1)), LAMBDA in1, length : take_to_end_of_pkglength(in1, length))

\* The head of an If or a While: the predicate, where it is, and the rest of
\* the package, cut out.
Guarded(in, object) ==
    Feed(pkg_length(in), LAMBDA in1, length :
        Feed(term_arg(in1), LAMBDA in2, predicate :
            Feed(take_to_end_of_pkglength(in2, length), LAMBDA in3, slice :
                Feed(as_bool(in3, predicate, object), LAMBDA in4, holds :
                    Ok(in4, [holds |-> holds, predicate |-> [in1 EXCEPT !.to = in2.from], slice |-> slice])))))

\* Both branches are cut out; the one chosen is parsed as a list.
DefIfElse(object) ==
    LET parsed == Feed(Guarded(Body, object), LAMBDA in1, guarded :
                      Feed(DefElse(in1), LAMBDA in2, else_branch :
                          Ok(in2, IF guarded.holds THEN guarded.slice ELSE else_branch)))
    IN  /\ AtOpcode(160)
        /\ IF parsed.ok
           THEN GoOn(parsed.val, Append(frames, ListIn("branch", parsed.val, parsed.rest, parsed.val)))
           ELSE Fail(parsed.error)

\* The bytes of the predicate are kept (`extract`), to be parsed again.
DefWhile(object) ==
    LET parsed == Guarded(Body, object)
    IN  /\ AtOpcode(162)
        /\ IF ~parsed.ok THEN Fail(parsed.error)
           ELSE IF parsed.val.holds
           THEN GoOn(parsed.val.slice,
                     Append(frames, ListIn("loop", parsed.val.slice, parsed.rest, parsed.val.predicate)))
           ELSE GoOn(parsed.rest, frames)

\* def_noop, def_breakpoint.
DefNoop == (AtOpcode(163) \/ AtOpcode(204)) /\ GoOn(Body, frames)

\* def_break, def_continue, def_return.
DefJump ==
    \/ AtOpcode(165) /\ Fail("Break")
    \/ AtOpcode(159) /\ Fail("Continue")
    \/ AtOpcode(164) /\ Fail(Feed(term_arg(Body), LAMBDA in1, value : Err("Return")).error)

\* The handler is told, and the term fails in any case.
DefFatal ==
    /\ AtExtOpcode(50)
    /\ Fail(Feed(take_n(ExtBody, 5), LAMBDA in1, code :
                Feed(term_arg(in1), LAMBDA in2, arg :
                    Feed(as_integer(in2, arg), LAMBDA in3, val : Err("FatalError")))).error)

\* def_buffer and def_package; the value is not used.
DefData ==
    LET parsed == data_object(input)
    IN  /\ AtOpcode(17) \/ AtOpcode(18)
        /\ IF parsed.ok THEN GoOn(parsed.rest, frames) ELSE Fail(parsed.error)

Opcodes == {8, 16, 17, 18, 20, 21, 91, 159, 160, 162, 163, 164, 165, 204}
ExtOpcodes == {1, 50, 128, 129, 130, 131, 132, 133}

\* Another byte, or none, behind the prefix.
UnknownExtOpcode ==
    /\ AtOpcode(91)
    /\ \/ len(input) = 1 /\ Fail("UnexpectedEndOfStream")
       \/ len(input) > 1 /\ first(Body) \notin ExtOpcodes /\ Fail("UnexpectedByte")

\* The last alternative of term_object takes any other byte for the beginning
\* of a name.  It depends on the search rules whether an object declared in
\* this table is found.  (None is a method that is called; the opcodes of the
\* operators do not occur.)
MethodInvocation ==
    LET parsed == name_string(input)
    IN  /\ AtTerm /\ first(input) \notin Opcodes
        /\ \/ ~parsed.ok /\ Fail(parsed.error)
           \/ /\ parsed.ok
              /\ parsed.val \in Known \/ \E i \in 1..Len(declared) : declared[i].name = parsed.val
              /\ GoOn(parsed.rest, frames)
           \/ parsed.ok /\ parsed.val \notin Known /\ Fail("ObjectDoesNotExist")

----------------------------------------------------------------------------
Return(res) ==
    /\ outcome' = res /\ frames' = <<>>
    /\ UNCHANGED <<table, bytes, input, scope, declared, propagate>>

AtEnd(kind) == Running /\ Top.kind = kind /\ ~still_parsing(Top.length, input)

\* Back to the list that this one is part of.
Close(rest, jump) ==
    /\ frames' = Front(frames) /\ input' = rest /\ propagate' = jump
    /\ UNCHANGED <<table, bytes, declared, outcome>>

EndOfTable == AtEnd("table") /\ Return("Ok")

\* The parser goes on where the package ends.
EndOfBlock_Cut ==
    AtEnd("block") /\ Close([input EXCEPT !.from = @ + len(input) - Top.length.end_offset], "none") /\ scope' = Top.scope

\* The parser goes on where the last term of the list ended.
EndOfBlock == AtEnd("block") /\ Close(input, "none") /\ scope' = Top.scope

EndOfFields == AtEnd("fields") /\ Close(input, "none") /\ UNCHANGED scope

\* The slice is parsed; the parser goes on at its beginning.
EndOfBranch_Again == AtEnd("branch") /\ Close(Top.body, "none") /\ UNCHANGED scope

\* The parser goes on behind the slices, wherever in its slice it is.
EndOfBranch == AtEnd("branch") /\ Close(Top.after, "none") /\ UNCHANGED scope

\* The predicate is parsed again; if it still holds the body is, too.
NextRound(object) ==
    LET parsed == Feed(term_arg(Top.predicate), LAMBDA in1, predicate : as_bool(in1, predicate, object))
    IN  IF ~parsed.ok THEN Fail(parsed.error)
        ELSE IF parsed.val
        THEN /\ input' = Top.body /\ propagate' = "none"
             /\ UNCHANGED <<table, bytes, frames, scope, declared, outcome>>
        ELSE Close(Top.after, "none") /\ UNCHANGED scope

EndOfLoop(object) == AtEnd("loop") /\ NextRound(object)

Unwinding == frames # <<>> /\ propagate # "none"

\* A loop ends on Break and goes on on Continue; everything else passes
\* through, and parse_table makes an error of it.
Unwind(object) ==
    /\ Unwinding
    /\ \/ Top.kind = "loop" /\ propagate = "Break" /\ Close(Top.after, "none") /\ UNCHANGED scope
       \/ Top.kind = "loop" /\ propagate = "Continue" /\ NextRound(object)
       \/ Top.kind = "loop" /\ propagate \notin {"Break", "Continue"} /\ Close(input, propagate) /\ UNCHANGED scope
       \/ Top.kind \in {"block", "fields", "branch"} /\ Close(input, propagate) /\ UNCHANGED scope
       \/ Top.kind = "table" /\ Return(IF propagate \in {"Break", "Continue", "Return"} THEN "MalformedStream" ELSE propagate)

\* parse_table.
Init ==
    /\ table \in Tables
    /\ bytes = LET encoded == EncodeList(table.list) IN SubSeq(encoded, 1, Len(encoded) - table.cut)
    /\ input = [from |-> 1, to |-> Len(bytes) + 1]
    /\ scope = <<>> /\ declared = <<>> /\ propagate = "none"
    /\ IF bytes = <<>> THEN frames = <<>> /\ outcome = "UnexpectedEndOfStream"
       ELSE frames = <<ListHere("table", WholeOf(input))>> /\ outcome = "none"

Next ==
    \/ DefName \/ DefScope \/ DefMethod \/ DefOpRegion \/ DefMutex \/ DefExternal \/ DefField \/ FieldElement
    \/ \E type \in DOMAIN ObjectOpcode : DefObject(type)
    \/ DefNoop \/ DefJump \/ DefFatal \/ DefData \/ MethodInvocation \/ UnknownExtOpcode
    \/ EndOfTable \/ EndOfBlock \/ EndOfFields \/ EndOfBranch
    \/ \E object \in Objects : DefIfElse(object) \/ DefWhile(object) \/ EndOfLoop(object) \/ Unwind(object)

Spec == Init /\ [][Next]_vars

----------------------------------------------------------------------------
Written == Meaning(table.list, <<>>, 1).declared

DeclaredSoFar == Len(declared) <= Len(Written) /\ declared = SubSeq(Written, 1, Len(declared))

\* The two things a proper table can fail at: an If without Else that ends its
\* list, and a field with more bits than there are bytes left in the slice.
IfAtEnd == outcome = "UnexpectedEndOfStream" /\ first(input) = 160
LongField ==
    /\ outcome = "InvalidPkgLength"
    /\ is_lead_name_char(first(input)) /\ len(input) > 4 /\ bytes[input.from + 4] > len(input) - 4

\* A table that is as the grammar has it is parsed to its end, unless the
\* namespace refuses an object, and declares what is written in it, where and
\* in the order it is written: structures nested in each other, with lengths of
\* any width, branches, loops left in the middle, names of every form.  (The
\* exceptions are stated below as IfNeedsNoElse and FieldsMayBeLong.)
DeclaresWhatIsWritten ==
    table.fault = "none" =>
        /\ DeclaredSoFar
        /\ outcome = "Ok" => declared = Written
        /\ outcome \in {"none", "Ok", "Refused"} \/ IfAtEnd \/ LongField

\* An If in front of its Else is a whole If: statement.rs:125 has "DefElse :=
\* Nothing | <0xa1 PkgLength TermList>".
WithoutElse(term) == IF term.is = "If" THEN [term EXCEPT !.else = <<>>] ELSE term

\* A table that ends too early never declares anything it would not declare
\* whole, and is accepted only if it ends between two terms, or in front of an
\* Else: no value is made of the part of it that is there.
CutDeclaresPrefix ==
    table.fault = "cut" =>
        /\ DeclaredSoFar
        /\ outcome = "Ok" => \E i \in 1..Len(table.list) :
              LET before == SubSeq(table.list, 1, i - 1)
              IN  bytes \in {EncodeList(Append(before, term)) : term \in {table.list[i], WithoutElse(table.list[i])}}

\* The length of a block only decides in which scope its terms are declared:
\* whatever it is, none is left out, declared twice or taken for another.
BlockLengthsOnlyMoveNames ==
    LET Unscoped(list) == [i \in 1..Len(list) |-> [name |-> list[i].name, value |-> list[i].value]]
    IN  table.fault = "block" /\ outcome = "Ok" => Unscoped(declared) = Unscoped(Written)

\* Whatever the lengths in the table are, every step reads on, ends a list or
\* fails, and the cursor never goes back, except for another round of a loop.
\* So nothing but a loop whose predicate stays true keeps a parse from ending.
AlwaysForward ==
    [][\/ frames # <<>> /\ Top.kind = "loop" /\ input' = Top.body /\ frames' = frames
       \/ /\ input'.from >= input.from
          /\ \/ input'.from > input.from
             \/ Len(frames') < Len(frames)
             \/ propagate = "none" /\ propagate' # "none"]_vars

----------------------------------------------------------------------------
\* statement.rs:148 says "This path parses an DefIfElse that doesn't have an
\* else branch."
IfNeedsNoElse == table.fault = "none" => ~IfAtEnd

\* term_object.rs:508-509 says that field_element "returns the length of the
\* field element parsed", which is a number of bits of the region and has
\* nothing to do with the length of the stream.
FieldsMayBeLong == table.fault = "none" => ~LongField

\* parser.rs:181-182 says of invalid lengths "I would've thought we would pick up
\* all invalid lengths there", when the PkgLength is constructed: where the rest
\* of the package is taken, there is one.
LengthsPickedUpEarly ==
    AtTerm /\ first(input) \in {160, 162} /\ pkg_length(Body).ok =>
        LET length == pkg_length(Body)
            predicate == term_arg(length.rest)
        IN  predicate.ok => len(predicate.rest) >= length.val.end_offset

\* expression.rs:122-124 says of "zero-length buffers (e.g. the PkgLength is 0)"
\* that "we return an empty buffer in these cases".
EmptyBuffersAccepted ==
    \A i \in 1..Len(bytes) - 3 :
        bytes[i] = 17 /\ bytes[i + 1] = 0 =>
            def_buffer([from |-> i + 1, to |-> Len(bytes) + 1]).ok
=============================================================================
