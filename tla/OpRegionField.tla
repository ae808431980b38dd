---------------------------- MODULE OpRegionField ---------------------------
(***************************************************************************)
(* Fields of operation regions: how def_field lays them out, which bytes    *)
(* of the region read_field, write_field, read_region and write_region      *)
(* access, and what becomes of the bits around a field.                     *)
(*                                                                          *)
(* A byte has ByteBits bits; `memory` holds the bytes of the address space  *)
(* of the region.  The field's offset is the number of bits before it in    *)
(* the field list, and read_region adds it to an address.                   *)
(***************************************************************************)
EXTENDS SequencesExt, Integers

CONSTANTS
    ByteBits,     \* bits in a byte (8 in the code)
    Regions,      \* the regions: space, base and length in bytes, and whether
                  \* the device they belong to has an address
    MaxPort,      \* the last I/O port and the last offset in PCI configuration space
    FieldLists,   \* sequences of [named, length], lengths in bits
    FlagBytes,    \* the values of the FieldFlags byte
    Stored,       \* the values that are stored
    Memories      \* what the address space may hold at first

ASSUME FieldAssumption == ByteBits \in Nat \ {0} /\ Stored \subseteq Nat /\ FlagBytes \subseteq 0..255

VARIABLES region, flags, fields, memory, last

vars == <<region, flags, fields, memory, last>>

Addresses == DOMAIN memory

Ok(value) == [ok |-> TRUE, value |-> value]
Err(error) == [ok |-> FALSE, error |-> error]
Panic == Err("panic")

IntBits == 8 * ByteBits

Maximum(m, n) == IF m >= n THEN m ELSE n

\* The access a handler was last asked for, in bytes, and with what result.
Done(op, field, value, access, res) ==
    [op |-> op, field |-> field, value |-> value, access |-> access, res |-> res]

NoAccess == {}

----------------------------------------------------------------------------
\* FieldFlags::access_type: bits 0 to 3, as the bytes it accesses.
AccessTypes == <<1, 1, 2, 4, 8, 1>>   \* Any, Byte, Word, DWord, QWord, Buffer
access_type(f) == IF f % 16 < 6 THEN Ok(AccessTypes[(f % 16) + 1]) ELSE Err("InvalidFieldFlags")

\* FieldFlags::field_update_rule: bits 5 and 6.
UpdateRules == <<"Preserve", "WriteAsOnes", "WriteAsZeros">>
field_update_rule(f) ==
    IF (f \div 32) % 4 < 3 THEN Ok(UpdateRules[((f \div 32) % 4) + 1]) ELSE Err("InvalidFieldFlags")

\* The fields of a list, each with the bits before it.
Layout(list) ==
    LET before(i) == FoldLeft(LAMBDA sum, e : sum + e.length, 0, SubSeq(list, 1, i - 1))
    IN  {[offset |-> before(i), length |-> list[i].length] : i \in {j \in DOMAIN list : list[j].named}}

NextPowerOfTwo(n) == CHOOSE p \in {2^k : k \in 0..(n + 1)} : n <= p /\ (n <= p \div 2 => p = 1)

\* Only the least access of the region is made.
AccessBits_Minimum(minimum, length) == minimum * ByteBits

\* The larger of the minimum and the length, rounded up to a power of two.
AccessBits(minimum, length) == Maximum(minimum * ByteBits, NextPowerOfTwo(length))

\* The accesses read_region and write_region let through, in bytes.
SizesOf(space) == IF space = "SystemMemory" THEN {1, 2, 4, 8} ELSE {1, 2, 4}

\* The spaces whose fields can be accessed; for others there is no code yet.
Implemented == {"SystemMemory", "SystemIo", "PciConfig"}

\* The addresses read_region or write_region hand to the handler, if they do.
\* In PCI configuration space the device must have an `_ADR`.
Access(offset, bits) ==
    LET first == region.base + offset
    IN  IF region.space = "PciConfig" /\ ~region.adr THEN Err("ValueDoesNotExist")
        ELSE IF region.space # "SystemMemory" /\ first > MaxPort THEN Err("FieldInvalidAddress")
        ELSE IF bits \notin {ByteBits * size : size \in SizesOf(region.space)} THEN Err("FieldInvalidAccessSize")
        ELSE Ok(first..(first + bits \div ByteBits - 1))

\* Little endian, the first address lowest.
First(addresses) == CHOOSE a \in addresses : \A b \in addresses : a <= b

Value(mem, addresses) ==
    MapThenSumSet(LAMBDA a : mem[a] * 2^(ByteBits * (a - First(addresses))), addresses)

Write(mem, addresses, value) ==
    [a \in DOMAIN mem |->
        IF a \in addresses THEN (value \div 2^(ByteBits * (a - First(addresses)))) % 2^ByteBits ELSE mem[a]]

----------------------------------------------------------------------------
\* The result, and the addresses read.  get_bits panics on an empty range.
read_field(mem, field) ==
    LET type == access_type(flags)
        access == Access(field.offset, AccessBits(type.value, field.length))
    IN  IF region.space \notin Implemented THEN [access |-> NoAccess, res |-> Panic]
        ELSE IF ~type.ok THEN [access |-> NoAccess, res |-> type]
        ELSE IF ~access.ok THEN [access |-> NoAccess, res |-> access]
        ELSE IF field.length = 0 THEN [access |-> access.value, res |-> Panic]
        ELSE [access |-> access.value, res |-> Ok(Value(mem, access.value) % 2^field.length)]

\* The bits beyond those of the field are written as zeros, whatever the rule.
Background_Zeros(rule, old) == 0

\* What the bits of the field are set in; `old` is what the field held.
Background(rule, old) ==
    CASE rule = "Preserve" -> old
      [] rule = "WriteAsOnes" -> 2^IntBits - 1
      [] rule = "WriteAsZeros" -> 0

\* The memory afterwards, the addresses written and the result.  set_bits
\* panics if the value does not fit into the field.
write_field(mem, field, value) ==
    LET rule == field_update_rule(flags)
        old == IF rule.ok /\ rule.value = "Preserve" THEN read_field(mem, field) ELSE [access |-> {}, res |-> Ok(0)]
        type == access_type(flags)
        access == Access(field.offset, AccessBits(type.value, field.length))
        background == Background(rule.value, old.res.value)
        new == (background \div 2^field.length) * 2^field.length + value
        fails(res) == [memory |-> mem, access |-> NoAccess, res |-> res]
    IN  IF ~rule.ok THEN fails(rule)
        ELSE IF ~old.res.ok THEN fails(old.res)
        ELSE IF region.space \notin Implemented THEN fails(Panic)
        ELSE IF ~type.ok THEN fails(type)
        ELSE IF field.length \notin 1..IntBits \/ value >= 2^field.length THEN fails(Panic)
        ELSE IF ~access.ok THEN fails(access)
        ELSE [memory |-> Write(mem, access.value, new), access |-> access.value, res |-> Ok(value)]

Alive == last.res # Panic

\* A name that is a field, evaluated.
ReadField(field) ==
    /\ Alive
    /\ LET read == read_field(memory, field)
       IN  last' = Done("read", field, 0, read.access, read.res)
    /\ UNCHANGED <<region, flags, fields, memory>>

\* AmlContext::store into a field: it is written, and read back.
StoreField(field, value) ==
    /\ Alive
    /\ LET written == write_field(memory, field, value)
       IN  /\ memory' = written.memory
           /\ last' = Done("store", field, value, written.access,
                           IF written.res.ok THEN read_field(written.memory, field).res ELSE written.res)
    /\ UNCHANGED <<region, flags, fields>>

Init ==
    /\ region \in Regions /\ flags \in FlagBytes
    /\ \E list \in FieldLists : fields = Layout(list)
    /\ memory \in Memories
    /\ last = Done("none", [offset |-> 0, length |-> 0], 0, NoAccess, Ok(0))

Next == \E field \in fields : ReadField(field) \/ \E value \in Stored : StoreField(field, value)

Spec == Init /\ [][Next]_vars

----------------------------------------------------------------------------
\* A store into a field of a region that behaves like memory returns what was
\* stored: what is written and what is read back are the same bits.
StoresReadBack == last.op = "store" /\ last.res.ok => last.res.value = last.value

\* Under WriteAsOnes and WriteAsZeros the other bits of the access become ones
\* and zeros; under every rule the bytes outside the access stay as they are.
OtherBitsFollowRule ==
    [][last'.op = "store" /\ last'.res.ok =>
        LET rule == field_update_rule(flags).value
            rest(mem) == Value(mem, last'.access) \div 2^last'.field.length
            width == Maximum(0, ByteBits * Cardinality(last'.access) - last'.field.length)
        IN  /\ \A a \in Addresses \ last'.access : memory'[a] = memory[a]
            /\ rule = "WriteAsOnes" => rest(memory') = 2^width - 1
            /\ rule = "WriteAsZeros" => rest(memory') = 0]_vars

----------------------------------------------------------------------------
\* value.rs:189: "Describes a field unit within an operation region."
AccessesWithinRegion == last.access \subseteq region.base..(region.base + region.length - 1)

\* value.rs:453-455: "If the field's update rule is `Preserve`, we need to read
\* the initial value of the field, so we can overwrite the correct bits."
PreserveKeepsOtherBits ==
    [][last'.op = "store" /\ last'.res.ok /\ field_update_rule(flags).value = "Preserve" =>
        Value(memory', last'.access) \div 2^last'.field.length =
        Value(memory, last'.access) \div 2^last'.field.length]_vars
=============================================================================
