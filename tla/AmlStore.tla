------------------------------ MODULE AmlStore ------------------------------
(***************************************************************************)
(* Stores, buffers and buffer fields (AmlContext::store in aml/src/lib.rs,  *)
(* value.rs, the DefCreate...Field of term_object.rs and the operators of   *)
(* expression.rs that end in a store).                                      *)
(*                                                                          *)
(* A buffer is behind an `Arc<Spinlock<..>>`: `heap` is what those point to *)
(* and a value of type Buffer or BufferField only has an index into it, so  *)
(* that values share contents exactly when they do in the program.  The     *)
(* contents of a buffer are the sequence of its bits, the least significant *)
(* bit of a byte first (Lsb0).  A byte has ByteBits bits and an integer     *)
(* eight bytes.                                                             *)
(***************************************************************************)
EXTENDS SequencesExt, Integers

CONSTANTS
    Names,            \* the names objects may have
    Locals,           \* the locals of the running method
    ByteBits,         \* bits in a byte (8 in the code)
    IntegerConstants, \* the integer constants of the programs
    Programs,         \* the sorts of program: the operators they are made of,
                      \* the contents of their DefBuffers, as sequences of
                      \* bits, the indices and lengths they use, and a bound
                      \* on the number of terms executed
    OverflowChecks,   \* whether arithmetic overflow panics or wraps
    KeepsHead         \* whether bits copied out of the middle of a byte stay
                      \* at their place in it (`to_bitvec` of the bitvec crate)

ASSUME StoreAssumption ==
    ByteBits \in Nat \ {0} /\ IntegerConstants \subseteq Nat /\ OverflowChecks \in BOOLEAN /\ KeepsHead \in BOOLEAN

ASSUME ProgramsAssumption ==
    \A p \in Programs : p.indices \subseteq Nat /\ \A bytes \in p.byte_lists : bytes \in Seq({0, 1})

VARIABLES program, heap, objects, locals, last, steps

vars == <<program, heap, objects, locals, last, steps>>

IntBits == 8 * ByteBits

None == [type |-> "None"]
Integer(n) == [type |-> "Integer", value |-> n]
Bool(b) == [type |-> "Boolean", value |-> b]
Str == [type |-> "String"]   \* which string it is makes no difference here
Buffer(data) == [type |-> "Buffer", data |-> data]
BufferField(data, offset, length) ==
    [type |-> "BufferField", data |-> data, offset |-> offset, length |-> length]

\* AmlValue::type_of.
type_of(value) == IF value.type = "Boolean" THEN "Integer" ELSE value.type

Ok(value) == [ok |-> TRUE, value |-> value]
Err(error) == [ok |-> FALSE, error |-> error]
Panic == Err("panic")
Hang == Err("hang")   \* waiting for a spinlock the interpreter holds itself

\* An error that is returned.
IsError(res) == ~res.ok /\ res \notin {Panic, Hang}

Minimum(m, n) == IF m <= n THEN m ELSE n

Bits(n, length) == [i \in 1..length |-> (n \div 2^(i - 1)) % 2]
Number(bits) == FoldRight(LAMBDA bit, sum : 2 * sum + bit, bits, 0)
Zeros(length) == [i \in 1..length |-> 0]

\* What the last operation did: its name, target, value and result.
Done(op, target, value, res) == [op |-> op, target |-> target, value |-> value, res |-> res]

\* A term is executed, unless the interpreter has panicked or hangs.
Executes(op) ==
    /\ op \in program.operators /\ UNCHANGED program
    /\ last.res \notin {Panic, Hang}
    /\ steps < program.max_steps /\ steps' = steps + 1

----------------------------------------------------------------------------
(* Conversions, on the contents h of the heap.                              *)

\* The bits of a buffer field; more than an integer holds are a new buffer.
read_buffer_field(h, field) ==
    IF field.offset + field.length > Len(h[field.data]) THEN Err("BufferFieldIndexesOutOfBounds")
    ELSE Ok(SubSeq(h[field.data], field.offset + 1, field.offset + field.length))

\* The first eight bytes of a buffer, least significant byte first.
FirstBytes(bits) == Number(SubSeq(bits, 1, Minimum(Len(bits), IntBits)))

as_integer(h, value) ==
    CASE value.type = "Integer" -> Ok(value.value)
      [] value.type = "Boolean" -> Ok(IF value.value THEN 2^IntBits - 1 ELSE 0)
      [] value.type = "Buffer" -> Ok(FirstBytes(h[value.data]))
      [] value.type = "BufferField" ->
            LET read == read_buffer_field(h, value) IN IF read.ok THEN Ok(FirstBytes(read.value)) ELSE read
      [] OTHER -> Err("IncompatibleValueConversion")

\* Whole bytes: `into_vec` after clearing what is uninitialised, in front of
\* the bits of the field and behind them.
WholeBytes(field, bits) ==
    LET aligned == Zeros(IF KeepsHead THEN field.offset % ByteBits ELSE 0) \o bits
    IN  aligned \o Zeros((ByteBits - (Len(aligned) % ByteBits)) % ByteBits)

\* The heap and the index of the buffer in it; only what a long buffer field
\* holds is copied into a new buffer.
as_buffer(h, value) ==
    IF value.type = "Buffer" THEN [heap |-> h, res |-> Ok(value.data)]
    ELSE IF value.type # "BufferField" THEN [heap |-> h, res |-> Err("IncompatibleValueConversion")]
    ELSE LET read == read_buffer_field(h, value)
         IN  IF ~read.ok THEN [heap |-> h, res |-> read]
             ELSE IF value.length <= IntBits THEN [heap |-> h, res |-> Err("IncompatibleValueConversion")]
             ELSE [heap |-> Append(h, WholeBytes(value, read.value)), res |-> Ok(Len(h) + 1)]

\* Values are stored as they are.
as_type_Unconverted(h, value, type) == [heap |-> h, res |-> Ok(value)]

as_type(h, value, type) ==
    IF type_of(value) = type THEN [heap |-> h, res |-> Ok(value)]
    ELSE IF type = "Integer"
    THEN LET n == as_integer(h, value) IN [heap |-> h, res |-> IF n.ok THEN Ok(Integer(n.value)) ELSE n]
    ELSE IF type = "Buffer"
    THEN LET b == as_buffer(h, value) IN [heap |-> b.heap, res |-> IF b.res.ok THEN Ok(Buffer(b.res.value)) ELSE b.res]
    ELSE [heap |-> h, res |-> Err("IncompatibleValueConversion")]

----------------------------------------------------------------------------
(* Writing a buffer field.                                                  *)

\* The bits [first, first + Len(bits)) of a buffer replaced.
Overwrite(buffer, first, bits) ==
    [i \in 1..Len(buffer) |->
        IF first < i /\ i <= first + Len(bits) THEN bits[i - first] ELSE buffer[i]]

\* The bits beyond those that are copied are left as they are.
CopyInto_NotExtended(h, field, bits) ==
    LET copied == SubSeq(bits, 1, Minimum(field.length, Len(bits)))
    IN  IF field.offset + Len(copied) > Len(h[field.data]) THEN [heap |-> h, res |-> Panic]
        ELSE [heap |-> [h EXCEPT ![field.data] = Overwrite(@, field.offset, copied)], res |-> Ok(None)]

\* Copies what fits, and then fills up with zeros; slices beyond the buffer
\* panic, that of the zeros when the bits have been copied.
CopyInto(h, field, bits) ==
    LET copied == SubSeq(bits, 1, Minimum(field.length, Len(bits)))
        written == Overwrite(h[field.data], field.offset, copied)
    IN  IF field.offset + Len(copied) > Len(h[field.data]) THEN [heap |-> h, res |-> Panic]
        ELSE IF field.offset + field.length > Len(h[field.data])
        THEN [heap |-> [h EXCEPT ![field.data] = written], res |-> Panic]
        ELSE [heap |-> [h EXCEPT ![field.data] =
                          Overwrite(written, field.offset + Len(copied), Zeros(field.length - Len(copied)))],
              res |-> Ok(None)]

\* The field is cleared before it is known whether the value can be written.
write_buffer_field_ClearsFirst(h, field, value) ==
    LET cleared == CopyInto(h, field, <<>>)
    IN  IF ~cleared.res.ok THEN cleared
        ELSE CASE value.type = "Integer" -> CopyInto(h, field, Bits(value.value, IntBits))
               [] value.type = "Boolean" -> CopyInto(h, field, <<IF value.value THEN 1 ELSE 0>>)
               [] value.type = "Buffer" -> CopyInto(h, field, h[value.data])
               [] OTHER -> [heap |-> cleared.heap, res |-> Err("TypeCannotBeWrittenToBufferField")]

\* The lock of the field's buffer is held throughout; a Buffer is locked too.
write_buffer_field(h, field, value) ==
    CASE value.type = "Integer" -> CopyInto(h, field, Bits(value.value, IntBits))
      [] value.type = "Boolean" ->
            IF field.offset >= Len(h[field.data]) THEN [heap |-> h, res |-> Panic]
            ELSE [heap |-> [h EXCEPT ![field.data][field.offset + 1] = IF value.value THEN 1 ELSE 0],
                  res |-> Ok(None)]
      [] value.type = "Buffer" ->
            IF value.data = field.data THEN [heap |-> h, res |-> Hang] ELSE CopyInto(h, field, h[value.data])
      [] OTHER -> [heap |-> h, res |-> Err("TypeCannotBeWrittenToBufferField")]

----------------------------------------------------------------------------
(* Targets and AmlContext::store.                                           *)

Null == [kind |-> "Null"]
Debug == [kind |-> "Debug"]
Targets == {Null, Debug} \cup [kind : {"Name"}, name : Names] \cup [kind : {"Local"}, local : Locals]

store(h, target, value) ==
    LET result(h2, o, l, res) == [heap |-> h2, objects |-> o, locals |-> l, res |-> res]
    IN  CASE target.kind = "Null" -> result(h, objects, locals, Ok(value))
          [] target.kind = "Debug" -> result(h, objects, locals, Panic)
          [] target.kind = "Local" -> result(h, objects, [locals EXCEPT ![target.local] = value], Ok(value))
          [] target.kind = "Name" ->
                LET object == objects[target.name]
                IN  IF object = None THEN result(h, objects, locals, Err("ValueDoesNotExist"))
                    ELSE IF object.type = "BufferField"
                    THEN LET written == write_buffer_field(h, object, value)
                         IN  result(written.heap, objects, locals,
                                    IF written.res.ok THEN Ok(value) ELSE written.res)
                    ELSE LET converted == as_type(h, value, type_of(object))
                         IN  IF ~converted.res.ok THEN result(h, objects, locals, converted.res)
                             ELSE result(converted.heap, [objects EXCEPT ![target.name] = converted.res.value],
                                         locals, converted.res)

\* An operator's last step: the result goes to the target, and is returned.
StoreResult(op, h, target, value) ==
    LET stored == store(h, target, value)
    IN  /\ heap' = stored.heap /\ objects' = stored.objects /\ locals' = stored.locals
        /\ last' = Done(op, target, value, IF stored.res.ok THEN Ok(value) ELSE stored.res)

\* An operator that fails before it stores anything, or has nothing to store.
Returns(op, res) ==
    /\ last' = Done(op, Null, None, res)
    /\ UNCHANGED <<heap, objects, locals>>

\* What a TermArg may evaluate to: a constant, the result of a comparison, an
\* object or a local.  The value of a name is cloned, not read.
TermArgs ==
    {Integer(n) : n \in IntegerConstants} \cup {Bool(TRUE)} \cup
    (({objects[n] : n \in Names} \cup {locals[l] : l \in Locals}) \ {None})

----------------------------------------------------------------------------
(* Declarations.                                                            *)

Declare(op, name, h, value) ==
    /\ heap' = h
    /\ objects' = [objects EXCEPT ![name] = value]
    /\ last' = Done(op, Null, None, Ok(None))
    /\ UNCHANGED locals

\* Name(name, n) and Name(name, Buffer() {..}).
DefName(name) ==
    /\ Executes("DefName") /\ objects[name] = None
    /\ \/ \E n \in IntegerConstants : Declare("DefName", name, heap, Integer(n))
       \/ \E bytes \in program.byte_lists : Declare("DefName", name, Append(heap, bytes), Buffer(Len(heap) + 1))

\* What the six operators that create buffer fields share.
CreateField(op, name, source, offset, length) ==
    /\ Executes(op) /\ objects[name] = None
    /\ LET buffer == as_buffer(heap, source)
       IN  IF buffer.res.ok
           THEN Declare(op, name, buffer.heap, BufferField(buffer.res.value, offset, length))
           ELSE Returns(op, buffer.res)

DefCreateBitField(name, source, index) == CreateField("DefCreateBitField", name, source, index, 1)
DefCreateByteField(name, source, index) == CreateField("DefCreateByteField", name, source, index * ByteBits, ByteBits)
DefCreateWordField(name, source, index) == CreateField("DefCreateWordField", name, source, index * ByteBits, 2 * ByteBits)
DefCreateDwordField(name, source, index) == CreateField("DefCreateDwordField", name, source, index * ByteBits, 4 * ByteBits)
DefCreateQwordField(name, source, index) == CreateField("DefCreateQwordField", name, source, index * ByteBits, 8 * ByteBits)
DefCreateField(name, source, index, num_bits) == CreateField("DefCreateField", name, source, index, num_bits)

----------------------------------------------------------------------------
(* Operators.                                                               *)

\* What is returned is what `store` returns, not the value.
DefStore(value, target) ==
    /\ Executes("DefStore") /\ target # Null
    /\ LET stored == store(heap, target, value)
       IN  /\ heap' = stored.heap /\ objects' = stored.objects /\ locals' = stored.locals
           /\ last' = Done("DefStore", target, value, stored.res)

\* The type of value DefConcat goes by: of types other than these it is the
\* name of the type that is concatenated.  A Boolean is left as it is.
as_concat_type(value) == IF value.type = "BufferField" THEN "String" ELSE value.type

DefConcat(left, right, target) ==
    /\ Executes("DefConcat")
    /\ CASE as_concat_type(left) = "Integer" ->
              LET l == as_integer(heap, left)
                  r == as_integer(heap, right)
              IN  IF ~r.ok THEN Returns("DefConcat", r)
                  ELSE StoreResult("DefConcat", Append(heap, Bits(l.value, IntBits) \o Bits(r.value, IntBits)),
                                   target, Buffer(Len(heap) + 1))
         [] as_concat_type(left) = "Buffer" ->
              LET r == as_buffer(heap, right)
              IN  IF ~r.res.ok THEN Returns("DefConcat", r.res)
                  ELSE StoreResult("DefConcat", Append(r.heap, r.heap[left.data] \o r.heap[r.res.value]),
                                   target, Buffer(Len(r.heap) + 1))
         [] as_concat_type(left) = "String" /\ as_concat_type(right) # "Boolean" ->
              IF as_concat_type(right) = "String" THEN StoreResult("DefConcat", heap, target, Str)
              ELSE Returns("DefConcat", Err("IncompatibleValueConversion"))
         [] OTHER -> Returns("DefConcat", Panic)

\* The resources of both buffers without their end tags of two bytes, and an
\* end tag; both buffers are locked at once.
DefConcatRes(left, right, target) ==
    /\ Executes("DefConcatRes")
    /\ LET lb == as_buffer(heap, left)
           rb == as_buffer(lb.heap, right)
           l == rb.heap[lb.res.value]
           r == rb.heap[rb.res.value]
           stripped(bits) == SubSeq(bits, 1, Len(bits) - 2 * ByteBits)
       IN  IF ~lb.res.ok THEN Returns("DefConcatRes", lb.res) ELSE IF ~rb.res.ok THEN Returns("DefConcatRes", rb.res)
           ELSE IF Len(l) = ByteBits \/ Len(r) = ByteBits
           THEN Returns("DefConcatRes", Err("ResourceDescriptorTooShort"))
           ELSE IF lb.res.value = rb.res.value THEN Returns("DefConcatRes", Hang)
           ELSE StoreResult("DefConcatRes", Append(rb.heap, stripped(l) \o stripped(r) \o Zeros(2 * ByteBits)),
                            target, Buffer(Len(rb.heap) + 1))

\* The bytes from index on, at most length of them.
DefMid(source, index, length, target) ==
    /\ Executes("DefMid")
    /\ IF source.type = "String" THEN StoreResult("DefMid", heap, target, Str)
       ELSE IF source.type # "Buffer" THEN Returns("DefMid", Err("TypeCannotBeSliced"))
       ELSE LET bits == heap[source.data]
                end == Minimum((index + length) * ByteBits, Len(bits))
            IN  StoreResult("DefMid", Append(heap, SubSeq(bits, index * ByteBits + 1, end)),
                            target, Buffer(Len(heap) + 1))

\* The operators on two integers; `result` is what they make of them.
Arithmetic(op, left, right, target, result(_, _)) ==
    /\ Executes(op)
    /\ LET l == as_integer(heap, left)
           r == as_integer(heap, right)
           res == result(l.value, r.value)
       IN  IF ~l.ok THEN Returns(op, l) ELSE IF ~r.ok THEN Returns(op, r) ELSE IF ~res.ok THEN Returns(op, res)
           ELSE StoreResult(op, heap, target, Integer(res.value))

DefAdd(left, right, target) ==
    Arithmetic("DefAdd", left, right, target, LAMBDA l, r : Ok((l + r) % 2^IntBits))

DefAnd(left, right, target) ==
    Arithmetic("DefAnd", left, right, target,
               LAMBDA l, r : Ok(Number([i \in 1..IntBits |-> Bits(l, IntBits)[i] * Bits(r, IntBits)[i]])))

DefShiftLeft(left, right, target) ==
    Arithmetic("DefShiftLeft", left, right, target,
               LAMBDA l, r : IF r < IntBits THEN Ok((l * 2^r) % 2^IntBits) ELSE Err("InvalidShiftLeft"))

DefShiftRight(left, right, target) ==
    Arithmetic("DefShiftRight", left, right, target,
               LAMBDA l, r : IF r < IntBits THEN Ok(l \div 2^r) ELSE Err("InvalidShiftRight"))

\* read_target: the value a name or a local stands for.
ReadTarget(target) == IF target.kind = "Name" THEN objects[target.name] ELSE locals[target.local]

\* Unlike additions, these steps overflow.
Step(op, target, by) ==
    /\ Executes(op) /\ target \notin {Null, Debug}
    /\ LET n == as_integer(heap, ReadTarget(target))
       IN  IF ~n.ok THEN Returns(op, n)
           ELSE IF n.value + by \notin 0..(2^IntBits - 1) /\ OverflowChecks THEN Returns(op, Panic)
           ELSE StoreResult(op, heap, target, Integer((n.value + by) % 2^IntBits))

DefIncrement(target) == Step("DefIncrement", target, 1)
DefDecrement(target) == Step("DefDecrement", target, -1)

\* The strings there are here, which DefConcat made, are not numbers.
DefToInteger(operand, target) ==
    /\ Executes("DefToInteger")
    /\ IF operand.type \notin {"Integer", "Buffer"}
       THEN Returns("DefToInteger", Err("IncompatibleValueConversion"))
       ELSE StoreResult("DefToInteger", heap, target, Integer(as_integer(heap, operand).value))

Bytes(bits) == [i \in 1..(Len(bits) \div ByteBits) |-> Number(SubSeq(bits, (i - 1) * ByteBits + 1, i * ByteBits))]

\* The order of two integers, and that of two byte strings: the first byte in
\* which they differ decides, or else the lengths.
OrderOf(m, n) == IF m < n THEN "Less" ELSE IF m = n THEN "Equal" ELSE "Greater"
Lexicographic(s, t) ==
    LET differing == {i \in 1..Minimum(Len(s), Len(t)) : s[i] # t[i]}
    IN  IF differing = {} THEN OrderOf(Len(s), Len(t))
        ELSE LET i == CHOOSE i \in differing : \A j \in differing : i <= j IN OrderOf(s[i], t[i])

\* AmlValue::cmp: the left buffer is locked while the right one is converted.
cmp(left, right) ==
    CASE type_of(left) = "Integer" ->
            LET l == as_integer(heap, left)
                r == as_integer(heap, right)
            IN  IF r.ok THEN Ok(OrderOf(l.value, r.value)) ELSE r
      [] left.type = "Buffer" ->
            LET r == as_buffer(heap, right)
            IN  IF right.type \in {"Buffer", "BufferField"} /\ right.data = left.data THEN Hang
                ELSE IF ~r.res.ok THEN r.res
                ELSE Ok(Lexicographic(Bytes(heap[left.data]), Bytes(r.heap[r.res.value])))
      [] left.type = "String" ->
            IF right.type = "String" THEN Ok("Equal") ELSE Err("IncompatibleValueConversion")
      [] OTHER -> Err("TypeCannotBeCompared")

\* The logical operators return a Boolean that depends on the order.
Compare(left, right) == Executes("Compare") /\ Returns("Compare", cmp(left, right))

\* A Boolean, or an integer that is tested for zero.
as_bool(value) ==
    CASE value.type = "Boolean" -> Ok(value.value)
      [] value.type = "Integer" -> Ok(value.value # 0)
      [] OTHER -> Err("IncompatibleValueConversion")

DefLOr(left, right) ==
    LET l == as_bool(left)
        r == as_bool(right)
    IN  /\ Executes("DefLOr")
        /\ Returns("DefLOr", IF l.ok /\ r.ok THEN Ok(Bool(l.value \/ r.value)) ELSE Err("IncompatibleValueConversion"))

----------------------------------------------------------------------------
Init ==
    /\ program \in Programs
    /\ heap = <<>>
    /\ objects = [n \in Names |-> None] /\ locals = [l \in Locals |-> None]
    /\ last = Done("none", Null, None, Ok(None))
    /\ steps = 0

Declaration ==
    \E name \in Names :
        \/ DefName(name)
        \/ \E source \in TermArgs, index \in program.indices :
              \/ DefCreateBitField(name, source, index) \/ DefCreateByteField(name, source, index)
              \/ DefCreateWordField(name, source, index) \/ DefCreateDwordField(name, source, index)
              \/ DefCreateQwordField(name, source, index)
              \/ \E num_bits \in program.indices : DefCreateField(name, source, index, num_bits)

Operator ==
    \/ \E target \in Targets :
          \/ DefIncrement(target) \/ DefDecrement(target)
          \/ \E value \in TermArgs :
                \/ DefStore(value, target)
                \/ DefToInteger(value, target)
                \/ \E index \in program.indices, length \in program.indices : DefMid(value, index, length, target)
                \/ \E right \in TermArgs :
                      \/ DefConcat(value, right, target) \/ DefConcatRes(value, right, target)
                      \/ DefAdd(value, right, target) \/ DefAnd(value, right, target)
                      \/ DefShiftLeft(value, right, target) \/ DefShiftRight(value, right, target)
    \/ \E left \in TermArgs, right \in TermArgs : Compare(left, right) \/ DefLOr(left, right)

Next == Declaration \/ Operator

Spec == Init /\ [][Next]_vars

----------------------------------------------------------------------------
\* What a buffer field holds after value is written into it.
Written(buffer, field, bits) ==
    [i \in 1..Len(buffer) |->
        IF i - 1 \in field.offset..(field.offset + field.length - 1)
        THEN IF i - field.offset <= Len(bits) THEN bits[i - field.offset] ELSE 0
        ELSE buffer[i]]

IntoField == last'.target.kind = "Name" /\ objects[last'.target.name].type = "BufferField"

\* An integer or a buffer stored into a buffer field replaces its bits and no
\* other bit of any buffer: zero-extended when it is shorter than the field,
\* truncated when it is longer (value.rs:546, value.rs:563).
FieldsWrittenExactly ==
    [][LET field == objects[last'.target.name]
           bits == IF last'.value.type = "Integer" THEN Bits(last'.value.value, IntBits) ELSE heap'[last'.value.data]
       IN  IntoField /\ last'.value.type \in {"Integer", "Buffer"} /\ last'.res.ok =>
              \A d \in DOMAIN heap :
                  heap'[d] = IF d = field.data THEN Written(heap[d], field, bits) ELSE heap[d]]_vars

\* A store converts to the type of the object it goes to, and never changes it;
\* a buffer field goes on referring to the same bits of the same buffer.
NamesKeepType ==
    [][\A n \in Names :
        objects[n] # None =>
            /\ type_of(objects'[n]) = type_of(objects[n])
            /\ objects[n].type = "BufferField" => objects'[n] = objects[n]]_vars

\* An operator that returns an error has changed no object, no local and no
\* buffer, although it may have converted and computed before it failed.  (One
\* that panics may: write_buffer_field copies before it fills up.)
ErrorsChangeNothing ==
    [][IsError(last'.res) =>
        UNCHANGED <<objects, locals>> /\ \A d \in DOMAIN heap : heap'[d] = heap[d]]_vars

----------------------------------------------------------------------------
(* What comments in the code say of it, and does not hold.                  *)

\* lib.rs:328: stores "are semantically equivalent to a `CopyObject`", so
\* that no two objects have one buffer.
StoresCopyBuffers ==
    \A m, n \in Names :
        m # n /\ objects[m].type = "Buffer" /\ objects[n].type = "Buffer" => objects[m].data # objects[n].data

Contents(h, value) ==
    CASE value.type = "Buffer" -> h[value.data]
      [] value.type = "BufferField" -> LET read == read_buffer_field(h, value) IN IF read.ok THEN read.value ELSE <<>>
      [] OTHER -> <<>>

\* lib.rs:379: "Stores into `Local` objects are always simply copied into
\* the destination", so that a local keeps what was stored in it.
LocalsAreCopies ==
    [][\A l \in Locals : locals'[l] = locals[l] => Contents(heap', locals'[l]) = Contents(heap, locals[l])]_vars

StoredIntoField(types) ==
    /\ last.op = "DefStore" /\ last.target.kind = "Name" /\ last.value.type \in types
    /\ objects[last.target.name].type = "BufferField"

\* expression.rs:611: "We must also make sure to return a copy of the data
\* that is in the destination after the store (as opposed to the data we think
\* we put into it)".
StoreReturnsDestination ==
    StoredIntoField({"Integer"}) /\ last.res.ok =>
        as_integer(heap, objects[last.target.name]) = Ok(last.res.value.value)

\* value.rs:546: "When an `Integer` is written into a `BufferField`, the entire
\* contents are overwritten"; the results of comparisons are Integers.
IntegersOverwriteField ==
    StoredIntoField({"Integer", "Boolean"}) /\ last.res.ok =>
        LET field == objects[last.target.name]
        IN  as_integer(heap, field) = Ok(as_integer(heap, last.value).value % 2^field.length)

\* value.rs:563: "When a `Buffer` is written into a `BufferField`, the entire
\* contents are copied into the field."
BuffersAreCopiedIntoFields == StoredIntoField({"Buffer"}) => last.res # Hang

\* value.rs:588: "`String`s and `Buffer`s are compared lexicographically".
BuffersAreCompared == last.op = "Compare" => last.res # Hang

\* expression.rs:221: the two buffers are concatenated "into a new, single
\* buffer containing all of the descriptors from the source buffers".
ResourcesAreConcatenated == last.op = "DefConcatRes" => last.res # Hang

\* value.rs:325 says of as_concat_type "This will always produce a
\* `AmlValue::Integer`, `AmlValue::String`, or `AmlValue::Buffer`": DefConcat,
\* which panics on anything else, does not panic.
ConcatTypesCovered == last.op = "DefConcat" /\ last.target # Debug => last.res # Panic
=============================================================================
