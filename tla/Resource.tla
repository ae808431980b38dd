------------------------------ MODULE Resource ------------------------------
(***************************************************************************)
(* Resource templates: the buffers that `_CRS` methods return, and their    *)
(* parser in aml/src/resource.rs.  Bytes are numbers.  A template holds the *)
(* descriptors in `listed`, written by Encode as the tables in the comments *)
(* of the parser lay them out, and ends in some way; the parser has to read *)
(* back what was listed.                                                    *)
(***************************************************************************)
EXTENDS SequencesExt, Integers

VARIABLES listed,        \* what the template was made of
          ending,        \* the bytes after it
          bytes,         \* the slice still to be parsed
          descriptors,   \* the result so far
          outcome        \* "parsing", or how the call ended

Ok(v) == [ok |-> TRUE, val |-> v]
Err(e) == [ok |-> FALSE, err |-> e]
Panic == Err("panic")   \* also unimplemented!()

get_bit(byte, i) == (byte \div 2^i) % 2 = 1
get_bits(byte, lo, hi) == (byte \div 2^lo) % 2^(hi - lo + 1)

\* LittleEndian::read_uint on the `size` bytes at the offset.
read_uint(b, offset, size) ==
    FoldRight(LAMBDA byte, n : byte + 256 * n, SubSeq(b, offset + 1, offset + size), 0)

\* Every descriptor of a fixed size compares its length with it.
Exactly(b, size, resource) ==
    IF Len(b) < size THEN Err("ResourceDescriptorTooShort")
    ELSE IF Len(b) > size THEN Err("ResourceDescriptorTooLong") ELSE Ok(resource)

Trigger(edge) == IF edge THEN "Edge" ELSE "Level"
Polarity(low) == IF low THEN "ActiveLow" ELSE "ActiveHigh"

fixed_memory_descriptor(b) ==
    IF Len(b) # 12 THEN Exactly(b, 12, 0)
    ELSE Ok([kind |-> "MemoryRange", is_writable |-> get_bit(b[4], 0),
             base_address |-> read_uint(b, 4, 4), range_length |-> read_uint(b, 8, 4)])

\* Five fields of `size` bytes each, behind the six bytes of the header.
address_space_descriptor(b, size) ==
    LET Field(i) == read_uint(b, 6 + i * size, size)
    IN  CASE Len(b) < 6 + size * 5 -> Err("ResourceDescriptorTooShort")
          [] Len(b) >= 6 + size * 5 /\ b[4] \in 3..191 -> Err("ReservedResourceType")
          [] Len(b) >= 6 + size * 5 /\ b[4] > 191 -> Panic
          [] OTHER -> Ok([kind |-> "AddressSpace", resource_type |-> b[4],
                          is_maximum_address_fixed |-> get_bit(b[5], 3),
                          is_minimum_address_fixed |-> get_bit(b[5], 2),
                          subtractive |-> get_bit(b[5], 1), granularity |-> Field(0),
                          address_range |-> <<Field(1), Field(2)>>, translation_offset |-> Field(3),
                          length |-> Field(4)])

\* The IRQ mask is kept as it is; without the information byte the interrupt
\* is edge-triggered, active-high and not shared.
irq_format_descriptor(b) ==
    LET info == IF Len(b) = 4 THEN b[4] ELSE 1
    IN  IF Len(b) \notin {3, 4} THEN Exactly(b, 3, 0)
        ELSE Ok([kind |-> "Irq", is_consumer |-> FALSE, trigger |-> Trigger(get_bit(info, 0)),
                 polarity |-> Polarity(get_bit(info, 3)), is_shared |-> get_bit(info, 4),
                 is_wake_capable |-> get_bit(info, 5), irq |-> read_uint(b, 1, 2)])

dma_format_descriptor(b) ==
    IF Len(b) # 3 THEN Exactly(b, 3, 0)
    ELSE IF get_bits(b[3], 0, 1) = 3 THEN Panic
    ELSE Ok([kind |-> "Dma", channel_mask |-> b[2], supported_speeds |-> get_bits(b[3], 5, 6),
             is_bus_master |-> get_bit(b[3], 2), transfer_type_preference |-> get_bits(b[3], 0, 1)])

io_port_descriptor(b) ==
    IF Len(b) # 8 THEN Exactly(b, 8, 0)
    ELSE Ok([kind |-> "IOPort", decodes_full_address |-> get_bit(b[2], 0),
             memory_range |-> <<read_uint(b, 2, 2), read_uint(b, 4, 2)>>,
             base_alignment |-> b[7], range_length |-> b[8]])

\* More than one interrupt number is asserted away; what follows the first
\* (a resource source) is ignored.
extended_interrupt_descriptor(b) ==
    IF Len(b) < 9 THEN Err("ResourceDescriptorTooShort")
    ELSE IF b[5] # 1 THEN Panic
    ELSE Ok([kind |-> "Irq", is_consumer |-> get_bit(b[4], 0), trigger |-> Trigger(get_bit(b[4], 1)),
             polarity |-> Polarity(get_bit(b[4], 2)), is_shared |-> get_bit(b[4], 3),
             is_wake_capable |-> get_bit(b[4], 4), irq |-> read_uint(b, 5, 4)])

LargeDescriptor(type, b) ==
    CASE type = 6 -> fixed_memory_descriptor(b)
      [] type = 7 -> address_space_descriptor(b, 4)
      [] type = 8 -> address_space_descriptor(b, 2)
      [] type = 9 -> extended_interrupt_descriptor(b)
      [] type = 10 -> address_space_descriptor(b, 8)
      [] type = 0 \/ type > 18 -> Err("ReservedResourceType")
      [] OTHER -> Panic

SmallDescriptor(type, b) ==
    CASE type = 4 -> irq_format_descriptor(b)
      [] type = 5 -> dma_format_descriptor(b)
      [] type = 8 -> io_port_descriptor(b)
      [] type \in 0..3 \cup 11..13 -> Err("ReservedResourceType")
      [] type = 15 -> Ok([kind |-> "EndTag"])
      [] OTHER -> Panic

\* The length of a large descriptor is taken to include its header.
Size_WithoutHeader(b) ==
    IF get_bit(b[1], 7) THEN IF Len(b) < 3 THEN 3 ELSE read_uint(b, 1, 2)
    ELSE get_bits(b[1], 0, 2) + 1

\* How many bytes the first descriptor claims; the slice of a large one's
\* length must itself be there.
Size(b) ==
    IF get_bit(b[1], 7) THEN IF Len(b) < 3 THEN 3 ELSE read_uint(b, 1, 2) + 3
    ELSE get_bits(b[1], 0, 2) + 1

\* `resource_descriptor`: slicing beyond the buffer panics.
resource_descriptor(b) ==
    LET first == SubSeq(b, 1, Size(b))
    IN  IF Size(b) > Len(b) THEN Panic
        ELSE IF get_bit(b[1], 7) THEN LargeDescriptor(get_bits(b[1], 0, 6), first)
        ELSE SmallDescriptor(get_bits(b[1], 3, 6), first)

----------------------------------------------------------------------------
\* How descriptors are laid out in bytes, from the tables in the comments.
Bit(b, i) == IF b THEN 2^i ELSE 0
LittleEndian(n, size) == [i \in 1..size |-> (n \div 256^(i - 1)) % 256]
Wide(n, size) == [i \in 1..size |-> IF i > 2 THEN 0 ELSE LittleEndian(n, 2)[i]]

Encode(item) ==
    LET r == item.resource
        vector == <<Bit(r.is_consumer, 0) + Bit(r.trigger = "Edge", 1) + Bit(r.polarity = "ActiveHigh", 2)
                       + Bit(r.is_shared, 3) + Bit(r.is_wake_capable, 4), 1>>
        info == <<Bit(r.trigger = "Edge", 0) + Bit(r.polarity = "ActiveLow", 3) + Bit(r.is_shared, 4)
                       + Bit(r.is_wake_capable, 5)>>
        flags == <<Bit(r.is_maximum_address_fixed, 3) + Bit(r.is_minimum_address_fixed, 2) + Bit(r.subtractive, 1), 0>>
        fields == <<r.granularity, r.address_range[1], r.address_range[2], r.translation_offset, r.length>>
    IN  CASE item.form = "IRQ" -> <<34>> \o LittleEndian(r.irq, 2)
          [] item.form = "IRQ with information" -> <<35>> \o LittleEndian(r.irq, 2) \o info
          [] item.form = "Extended Interrupt" -> <<137, 6, 0>> \o vector \o Wide(r.irq, 4)
          [] item.form = "DMA" ->
                <<42, r.channel_mask, r.supported_speeds * 32 + Bit(r.is_bus_master, 2) + r.transfer_type_preference>>
          [] item.form = "IO Port" ->
                <<71, Bit(r.decodes_full_address, 0)>> \o LittleEndian(r.memory_range[1], 2)
                   \o LittleEndian(r.memory_range[2], 2) \o <<r.base_alignment, r.range_length>>
          [] item.form = "Fixed Memory" ->
                <<134, 9, 0, Bit(r.is_writable, 0)>> \o Wide(r.base_address, 4) \o Wide(r.range_length, 4)
          [] item.form = "Address Space" ->
                <<CASE item.size = 2 -> 136 [] item.size = 4 -> 135 [] item.size = 8 -> 138,
                  3 + 5 * item.size, 0, r.resource_type>> \o flags
                   \o FlattenSeq([i \in 1..5 |-> Wide(fields[i], item.size)])

\* A buffer made of these descriptors, with these bytes behind them, is handed
\* to `resource_descriptor_list`.
Receive(items, end) ==
    /\ listed' = items /\ ending' = end
    /\ bytes' = FlattenSeq([i \in 1..Len(items) |-> Encode(items[i])]) \o end
    /\ descriptors' = <<>> /\ outcome' = "parsing"

\* The end tag does not leave the loop.
Descriptor_NoBreak ==
    LET d == resource_descriptor(bytes)
    IN  /\ outcome = "parsing" /\ bytes # <<>>
        /\ \/ /\ d.ok /\ d.val.kind # "EndTag"
              /\ descriptors' = Append(descriptors, d.val)
              /\ bytes' = SubSeq(bytes, Size(bytes) + 1, Len(bytes))
              /\ UNCHANGED outcome
           \/ d.ok /\ d.val.kind = "EndTag" /\ UNCHANGED <<outcome, bytes, descriptors>>
           \/ ~d.ok /\ outcome' = d.err /\ UNCHANGED <<bytes, descriptors>>
        /\ UNCHANGED <<listed, ending>>

\* One turn of the loop of `resource_descriptor_list`.
Descriptor ==
    LET d == resource_descriptor(bytes)
    IN  /\ outcome = "parsing" /\ bytes # <<>>
        /\ \/ /\ d.ok /\ d.val.kind # "EndTag"
              /\ descriptors' = Append(descriptors, d.val)
              /\ bytes' = SubSeq(bytes, Size(bytes) + 1, Len(bytes))
              /\ UNCHANGED outcome
           \/ d.ok /\ d.val.kind = "EndTag" /\ outcome' = "ok" /\ UNCHANGED <<bytes, descriptors>>
           \/ ~d.ok /\ outcome' = d.err /\ UNCHANGED <<bytes, descriptors>>
        /\ UNCHANGED <<listed, ending>>

\* The buffer is used up, with or without an end tag.
Exhausted ==
    /\ outcome = "parsing" /\ bytes = <<>>
    /\ outcome' = "ok"
    /\ UNCHANGED <<listed, ending, bytes, descriptors>>

Next == Descriptor \/ Exhausted

----------------------------------------------------------------------------
\* A descriptor is read as it was meant.  The polarity of an extended interrupt
\* is left out: see PolarityAsDocumented.
Means(descriptor, item) ==
    IF item.form = "Extended Interrupt"
    THEN descriptor.kind = "Irq" /\ descriptor = [item.resource EXCEPT !.polarity = descriptor.polarity]
    ELSE descriptor = item.resource

\* Whatever is wrong behind them, the descriptors in front are read as they
\* were meant: `resource_descriptor_list` stays aligned with the template
\* through descriptors of every size, and an Ok result is the whole list, up
\* to the end tag and no further.
ReadsBack ==
    /\ Len(descriptors) <= Len(listed)
    /\ \A i \in 1..Len(descriptors) : Means(descriptors[i], listed[i])
    /\ outcome # "parsing" => Len(descriptors) = Len(listed)
    /\ outcome \notin {"ok", "parsing"} => ending # <<>>

\* "Bit 2: 1 = active-high, 0 = active-low" (the table over
\* `extended_interrupt_descriptor`).  It does not hold: the code reads the bit
\* the other way round, as it does in the other interrupt descriptor.
PolarityAsDocumented ==
    \A i \in 1..Len(descriptors) :
        listed[i].form = "Extended Interrupt" => descriptors[i].polarity = listed[i].resource.polarity
=============================================================================
