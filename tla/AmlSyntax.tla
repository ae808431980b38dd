----------------------------- MODULE AmlSyntax -----------------------------
(***************************************************************************)
(* The parsers of aml/src that only read: the cursor and the combinators    *)
(* (parser.rs), PkgLength (pkg_length.rs), names (name_object.rs) and data   *)
(* objects (term_object.rs, expression.rs).                                 *)
(*                                                                          *)
(* The slice a parser is given is the positions of its first byte and of    *)
(* the one behind its last.  A parser returns the rest of the slice and     *)
(* what it has read, or an error; what an error carries beyond its kind is  *)
(* left out, and so is the input returned with it, which no caller uses.    *)
(***************************************************************************)
EXTENDS AmlGrammar

CONSTANT Known   \* the objects in the namespace before the table is loaded

VARIABLE bytes   \* of the table

Ok(in, val) == [ok |-> TRUE, rest |-> in, val |-> val]
Err(error) == [ok |-> FALSE, error |-> error]

\* Parser::then and Parser::feed: on success, the next parser goes on.
Feed(parsed, next(_, _)) == IF parsed.ok THEN next(parsed.rest, parsed.val) ELSE parsed

\* choice!: the other parser, if the first one is not meant for this input.
Or(parsed, other) == IF ~parsed.ok /\ parsed.error = "WrongParser" THEN other ELSE parsed

len(in) == in.to - in.from
first(in) == bytes[in.from]
Drop(in, n) == [in EXCEPT !.from = @ + n]
Slice(in) == SubSeq(bytes, in.from, in.to - 1)

take(in) == IF len(in) = 0 THEN Err("UnexpectedEndOfStream") ELSE Ok(Drop(in, 1), first(in))

\* take_n, take_u16, take_u32, take_u64: what is read is a slice.
take_n(in, n) ==
    IF len(in) < n THEN Err("UnexpectedEndOfStream")
    ELSE Ok(Drop(in, n), [from |-> in.from, to |-> in.from + n])

\* The bytes that follow are shifted by whole bytes.
LengthOf_Wide(lead, follow) == FoldRight(LAMBDA byte, sum : sum * 256 + byte, follow, 0) * 256 + (lead % 16)

\* Four bits of the lead byte, and the bytes that follow it.
LengthOf(lead, follow) == FoldRight(LAMBDA byte, sum : sum * 256 + byte, follow, 0) * 16 + (lead % 16)

raw_pkg_length(in) ==
    Feed(take(in), LAMBDA in1, lead :
        IF lead \div 64 = 0 THEN Ok(in1, lead % 64)
        ELSE Feed(take_n(in1, lead \div 64), LAMBDA in2, follow : Ok(in2, LengthOf(lead, Slice(follow)))))

from_raw_length(in, raw_length) ==
    IF raw_length > len(in) THEN Err("InvalidPkgLength")
    ELSE Ok(in, [raw_length |-> raw_length, end_offset |-> len(in) - raw_length])

\* The length counts from the first of its own bytes.
pkg_length(in) ==
    Feed(raw_pkg_length(in), LAMBDA in1, raw_length :
        Feed(from_raw_length(in, raw_length), LAMBDA in0, length : Ok(in1, length)))

still_parsing(length, in) == len(in) > length.end_offset

\* A PkgLength for all of a slice.
WholeOf(in) == from_raw_length(in, len(in)).val

\* The rest of the package is taken to be what its length says.
take_to_end_of_pkglength_Raw(in, length) == take_n(in, length.raw_length)

\* The length does not count what was read since.
take_to_end_of_pkglength(in, length) ==
    IF len(in) < length.end_offset THEN Err("InvalidPkgLength") ELSE take_n(in, len(in) - length.end_offset)

----------------------------------------------------------------------------
RootComponent == <<92>>
PrefixComponent == <<94>>

is_lead_name_char(byte) == byte \in 65..90 \cup {95}
is_name_char(byte) == is_lead_name_char(byte) \/ byte \in 48..57

\* consume, four times; a name of one segment.
name_seg(in) ==
    LET Fits(i) == IF i = 0 THEN is_lead_name_char(bytes[in.from]) ELSE is_name_char(bytes[in.from + i])
    IN  IF \E i \in 0..3 : i < len(in) /\ ~Fits(i) THEN Err("UnexpectedByte")
        ELSE Feed(take_n(in, 4), LAMBDA in1, seg : Ok(in1, <<Slice(seg)>>))

\* One turn of the loop of n_of.
OneMore(segs) ==
    Feed(segs, LAMBDA in1, before : Feed(name_seg(in1), LAMBDA in2, seg : Ok(in2, before \o seg)))

\* n_of(name_seg(), n).
NameSegs(in, n) == FoldLeft(LAMBDA segs, i : OneMore(segs), Ok(in, <<>>), [i \in 1..n |-> i])

\* null_name, dual_name_path, multi_name_path, name_seg.
name_path(in) ==
    Feed(take(in), LAMBDA in1, char :
        CASE char = 0 -> Ok(in1, <<>>)
          [] char = 46 -> NameSegs(in1, 2)
          [] char = 47 -> Feed(take(in1), LAMBDA in2, seg_count : NameSegs(in2, seg_count))
          [] OTHER -> name_seg(in))

\* take_while(opcode(PREFIX_CHAR)): the number of prefixes in front.
PrefixCount(in) == Min({i \in 0..len(in) : i = len(in) \/ bytes[in.from + i] # 94})

\* A name made of these prefixes and the path behind them.
PrefixedPath(in, prefixes) ==
    Feed(name_path(Drop(in, Len(prefixes))), LAMBDA in1, path :
        IF prefixes \o path = <<>> THEN Err("EmptyNamesAreInvalid") ELSE Ok(in1, prefixes \o path))

name_string(in) ==
    Feed(take(in), LAMBDA in1, char :
        PrefixedPath(in, IF char = 92 THEN <<RootComponent>> ELSE [i \in 1..PrefixCount(in) |-> PrefixComponent]))

\* What most structures begin with: pkg_length().then(name_string()).
NamedHeader(in) ==
    Feed(pkg_length(in), LAMBDA in1, length :
        Feed(name_string(in1), LAMBDA in2, name : Ok(in2, [length |-> length, name |-> name])))

----------------------------------------------------------------------------
Integer(val) == [type |-> "Integer", val |-> val]

\* ByteConst, WordConst, DWordConst and QWordConst.
IntegerConst(in, width) == Feed(take_n(in, width), LAMBDA in1, data : Ok(in1, Integer(Pad(Slice(data)))))

\* The string ends at the next NUL; it is ASCII.
StringConst(in) ==
    LET nul == {i \in in.from..(in.to - 1) : bytes[i] = 0}
    IN  IF nul = {} THEN Err("UnterminatedStringConstant")
        ELSE Ok([in EXCEPT !.from = Min(nul) + 1], [type |-> "String", val |-> SubSeq(bytes, in.from, Min(nul) - 1)])

\* AmlValue::as_integer, of at most eight bytes.  (The size of a buffer is small.)
as_integer(in, value) ==
    IF value.type \notin {"Integer", "Buffer"} THEN Err("IncompatibleValueConversion")
    ELSE Ok(in, FoldRight(LAMBDA byte, sum : sum * 256 + byte, SubSeq(value.val, 1, Min({8, Len(value.val)})), 0))

\* What the object named by a predicate may come to, whenever it is looked at.
Objects == {"zero", "one", "error"}

\* AmlValue::as_bool.
as_bool(in, value, object) ==
    CASE value.type = "Integer" -> Ok(in, \E i \in 1..8 : value.val[i] # 0)
      [] value.type = "Object" /\ object # "error" -> Ok(in, object = "one")
      [] OTHER -> Err("IncompatibleValueConversion")

RECURSIVE data_object(_)

\* The name of an object, which evaluates to it.
NamedValue(in) ==
    Feed(name_string(in), LAMBDA in1, name :
        IF name \in Known THEN Ok(in1, [type |-> "Object", val |-> name]) ELSE Err("ObjectDoesNotExist"))

\* An operand: data or an object.  (For operands that are computed, see AmlStore.)
term_arg(in) == Or(data_object(in), NamedValue(in))

BufferOf(in, size, contents) ==
    IF size < Len(contents) THEN Err("MalformedBuffer")
    ELSE Ok(in, [type |-> "Buffer", val |-> [i \in 1..size |-> IF i <= Len(contents) THEN contents[i] ELSE 0]])

\* The size is an operand; behind it are the first bytes of the buffer.
def_buffer(in) ==
    Feed(pkg_length(in), LAMBDA in1, length :
        Feed(term_arg(in1), LAMBDA in2, size :
            Feed(take_to_end_of_pkglength(in2, length), LAMBDA in3, contents :
                Feed(as_integer(in3, size), LAMBDA in4, buffer_size : BufferOf(in4, buffer_size, Slice(contents))))))

\* A name is kept as a string.
package_element(in) ==
    Or(data_object(in), Feed(name_string(in), LAMBDA in1, name : Ok(in1, [type |-> "String", val |-> name])))

RECURSIVE PackageElements(_, _, _)
PackageElements(in, length, elements) ==
    IF ~still_parsing(length, in) THEN Ok(in, elements)
    ELSE Feed(package_element(in), LAMBDA in1, element : PackageElements(in1, length, Append(elements, element)))

PackageOf(in, num_elements, elements) ==
    IF Len(elements) # num_elements THEN Err("MalformedPackage") ELSE Ok(in, [type |-> "Package", val |-> elements])

def_package(in) ==
    Feed(pkg_length(in), LAMBDA in1, length :
        Feed(take(in1), LAMBDA in2, num_elements :
            Feed(PackageElements(in2, length, <<>>), LAMBDA in3, elements : PackageOf(in3, num_elements, elements))))

\* RevisionOp, behind the extension prefix.
AML_INTERPRETER_REVISION == 0
RevisionOp(in) ==
    IF len(in) = 0 THEN Err("UnexpectedEndOfStream")
    ELSE IF first(in) = 48 THEN Ok(Drop(in, 1), Integer(Pad(<<AML_INTERPRETER_REVISION>>))) ELSE Err("WrongParser")

\* data_object and computational_data; the alternatives begin with different bytes.
data_object(in) ==
    Feed(take(in), LAMBDA in1, op :
        CASE op = 18 -> def_package(in1)
          [] op = 17 -> def_buffer(in1)
          [] op = 10 -> IntegerConst(in1, 1)
          [] op = 11 -> IntegerConst(in1, 2)
          [] op = 12 -> IntegerConst(in1, 4)
          [] op = 14 -> IntegerConst(in1, 8)
          [] op = 13 -> StringConst(in1)
          [] op = 0 -> Ok(in1, Integer(Pad(<<>>)))
          [] op = 1 -> Ok(in1, Integer(Pad(<<1>>)))
          [] op = 255 -> Ok(in1, Integer([i \in 1..8 |-> 255]))
          [] op = 91 -> RevisionOp(in1)
          [] OTHER -> Err("WrongParser"))
=============================================================================
