---------------------------- MODULE MCPciRouting ----------------------------
(***************************************************************************)
(* PciRouting with every template of up to three descriptors, of every form *)
(* and size the parser knows, and the ways a buffer can go on behind them;  *)
(* and with tables of up to two packages, sound and not, while link devices *)
(* of the same name come and go.                                            *)
(***************************************************************************)
EXTENDS PciRouting, SequencesExt

Irq(consumer, trigger, polarity, shared, wake, n) ==
    [kind |-> "Irq", is_consumer |-> consumer, trigger |-> trigger, polarity |-> polarity,
     is_shared |-> shared, is_wake_capable |-> wake, irq |-> n]

AddressSpace(type, max_fixed, min_fixed, subtractive) ==
    [kind |-> "AddressSpace", resource_type |-> type, is_maximum_address_fixed |-> max_fixed,
     is_minimum_address_fixed |-> min_fixed, subtractive |-> subtractive, granularity |-> 15,
     address_range |-> <<256, 4351>>, translation_offset |-> 3, length |-> 4096]

MCItems ==
    {[form |-> "IRQ", resource |-> Irq(FALSE, "Edge", "ActiveHigh", FALSE, FALSE, 32)],
     [form |-> "IRQ with information", resource |-> Irq(FALSE, "Level", "ActiveLow", TRUE, FALSE, 512)],
     [form |-> "IRQ with information", resource |-> Irq(FALSE, "Edge", "ActiveHigh", FALSE, TRUE, 2)],
     [form |-> "Extended Interrupt", resource |-> Irq(TRUE, "Level", "ActiveHigh", FALSE, TRUE, 265)],
     [form |-> "Extended Interrupt", resource |-> Irq(FALSE, "Edge", "ActiveLow", TRUE, FALSE, 9)],
     [form |-> "DMA", resource |-> [kind |-> "Dma", channel_mask |-> 4, supported_speeds |-> 2,
                                    is_bus_master |-> TRUE, transfer_type_preference |-> 1]],
     [form |-> "IO Port", resource |-> [kind |-> "IOPort", decodes_full_address |-> TRUE,
                                        memory_range |-> <<96, 864>>, base_alignment |-> 1, range_length |-> 8]],
     [form |-> "Fixed Memory", resource |-> [kind |-> "MemoryRange", is_writable |-> TRUE,
                                             base_address |-> 4096, range_length |-> 1024]],
     [form |-> "Address Space", size |-> 2, resource |-> AddressSpace(2, TRUE, FALSE, TRUE)],
     [form |-> "Address Space", size |-> 4, resource |-> AddressSpace(0, FALSE, TRUE, FALSE)],
     [form |-> "Address Space", size |-> 8, resource |-> AddressSpace(1, TRUE, TRUE, FALSE)]}

EndTag == <<121, 0>>
MCEndings ==
    {EndTag, <<>>,                    \* the end tag, and none
     <<121, 0, 34, 1, 0>>,            \* bytes behind the end tag
     <<8, 0>>, <<147, 0, 0>>,         \* reserved types
     <<48>>, <<133, 0, 0>>,           \* types not implemented
     <<34, 1>>, <<136, 13>>,          \* a descriptor cut short
     <<33, 1>>, <<134, 8, 0, 0, 0, 0, 0, 0, 0, 0, 0>>,   \* a length too small
     <<137, 10, 0, 0, 2, 1, 0, 0, 0, 2, 0, 0, 0>>}       \* two interrupts in one

Template(items, end) == [type |-> "Buffer", listed |-> items, ending |-> end]
MCTemplates ==
    {Template(items, end) : items \in UNION {[1..n -> MCItems] : n \in 0..2}, end \in MCEndings} \cup
    {Template(items, EndTag) : items \in [1..3 -> MCItems]}

----------------------------------------------------------------------------
Integer(n) == [type |-> "Integer", val |-> n]
String(name) == [type |-> "String", val |-> as_string(name)]
\* A name in a package is kept as it is printed.
Pin(address, pin, source, index, name) ==
    [type |-> "Package", val |-> <<Integer(address), Integer(pin), source, index>>, written |-> name]
ToLink(address, pin, name) == Pin(address, pin, String(name), Integer(0), name)
ToGsi(address, pin, gsi) == Pin(address, pin, Integer(0), Integer(gsi), <<>>)

LNKA == <<"LNKA">>
InRoot == <<Root, "LNKA">>
InBridge == <<Root, "PCI0", "LNKA">>
MCSegs == {"PCI0", "_PRT", "_CRS", "LNKA"}

MCPackages ==
    {ToGsi(65536 + AnyFunction, 0, 20), ToGsi(65536, 0, 21), ToGsi(65536 + 1, 3, 22), ToGsi(65536, 0, 300),
     ToLink(65536 + AnyFunction, 0, LNKA), ToLink(65536, 0, InRoot), ToLink(65536 + AnyFunction, 3, InBridge),
     ToLink(65536, 0, <<Prefix, "LNKA">>), ToLink(65536, 3, <<"PCI0", "LNKA">>), ToLink(65536, 0, <<"_PRT">>),
     Pin(65536, 4, Integer(0), Integer(20), <<>>), Pin(65536, 0, Integer(1), Integer(20), <<>>),
     Pin(65536, 0, [type |-> "String", val |-> <<>>], Integer(20), <<>>),
     [type |-> "Package", val |-> <<Integer(65536), Integer(0)>>],
     [type |-> "Package", val |-> <<Integer(65536), Integer(0), Integer(0)>>],
     [type |-> "Package", val |-> <<String(LNKA)>>], [type |-> "Package", val |-> <<Integer(65536), String(LNKA)>>],
     Pin(65536, 0, Integer(0), String(LNKA), <<>>), Integer(7)}

OneIrq(n) == Template(<<[form |-> "IRQ", resource |-> Irq(FALSE, "Edge", "ActiveHigh", FALSE, FALSE, n)]>>, EndTag)
MCLinks == InRoot :> OneIrq(1) @@ InBridge :> OneIrq(2)
MCQuestions ==
    {[device |-> 1, function |-> 0, pin |-> 0], [device |-> 1, function |-> 1, pin |-> 0],
     [device |-> 1, function |-> 1, pin |-> 3], [device |-> 2, function |-> 0, pin |-> 0]}

Firmware(prt_, links, calls_, changes_) == [prt |-> prt_, links |-> links, calls |-> calls_, changes |-> changes_]
Package(values_) == [type |-> "Package", val |-> values_]
MCLinkSets == {<<>>, <<[path |-> InRoot, crs |-> OneIrq(1)]>>,
               <<[path |-> InRoot, crs |-> OneIrq(1)], [path |-> InBridge, crs |-> OneIrq(2)]>>}

MCFirmwares ==
    {Firmware(Package(<<ToLink(65536, 0, LNKA)>>), <<[path |-> InRoot, crs |-> crs]>>, 1, 0) :
        crs \in MCTemplates \cup {[type |-> "error"], Integer(1)}} \cup
    {Firmware(Package(packages), links, 2, 2) : packages \in BoundedSeq(MCPackages, 2), links \in MCLinkSets} \cup
    {Firmware([type |-> "error"], <<>>, 1, 0), Firmware(Integer(0), <<>>, 1, 0)}
=============================================================================
