----------------------------- MODULE MCPlatform -----------------------------
(***************************************************************************)
(* Platform on every MADT of up to MaxEntries entries, with an entry of     *)
(* each type the parser tells apart, sound and not; on FADTs of both        *)
(* revisions with good and bad blocks; and on MCFGs of up to two regions.   *)
(***************************************************************************)
EXTENDS Platform, SequencesExt

CONSTANT MaxEntries

Plain(type) == [type |-> type, bus |-> 0, flags |-> 0, line |-> 0, length |-> "good"]

MCEntries ==
    {Plain(type) : type \in ApicTypes \cup {"IoSapic", "Gicc", "MultiprocessorWakeup", "Reserved"}} \cup
    {[Plain("InterruptSourceOverride") EXCEPT !.bus = 1], [Plain("NmiSource") EXCEPT !.flags = 8],
     [Plain("LocalApicNmi") EXCEPT !.line = 2]} \cup
    {[Plain(type) EXCEPT !.length = length] : type \in {"LocalApic", "Reserved"}, length \in {"zero", "beyond"}}

MCMadts == {[entries |-> es] : es \in BoundedSeq(MCEntries, MaxEntries)}

\* The same for all blocks.
Lengths(length) ==
    [pm1_event |-> length, pm1_control |-> length + 1, pm2_control |-> length, pm_timer |-> length, gpe0 |-> length,
     gpe1 |-> length + 1]
Raw(space, access_size, address) == [space |-> space, bit_width |-> 16, access_size |-> access_size, address |-> address]
Fadt(revision, length, address, raw) ==
    [revision |-> revision, length |-> Lengths(length), address |-> [b \in Blocks |-> address], x |-> [b \in Blocks |-> raw]]

MCFadts ==
    {Fadt(revision, length, address, Raw(space, access_size, x)) : revision \in {1, 2}, length \in {4, 31, 32},
        address \in {0, 7}, space \in {0, 1, 11, 127, 128, 192}, access_size \in {4, 5}, x \in {0, 9}}

Region(segment, start, end, base) == [segment |-> segment, start |-> start, end |-> end, base |-> base]
MCRegions ==
    {Region(0, 0, 1, 0), Region(0, 2, 2, 512), Region(0, 1, 3, 768), Region(1, 0, 0, 768), Region(1, 1, 255, 1024)}
MCMcfgs == {[entries |-> es, missing |-> m] : es \in BoundedSeq(MCRegions, 2), m \in {0, 1}}
MCPcieFunctions ==
    [segment : {0, 1}, bus : {0, 1, 2, 3, 255}, device : {0, 31}, function : {0, 7}]

Firmware(call, fadt, madt, mcfg) == [call |-> call, fadt |-> fadt, madt |-> madt, mcfg |-> mcfg]
GoodFadt == Fadt(2, 4, 7, Raw(1, 1, 9))

MCFirmwares ==
    {Firmware("fadt", GoodFadt, madt, Missing) : madt \in MCMadts} \cup
    {Firmware("fadt", fadt, madt, Missing) :
        fadt \in MCFadts \cup {Missing}, madt \in {Missing, [entries |-> <<>>], [entries |-> <<Plain("LocalApic")>>]}} \cup
    {Firmware("blocks", fadt, Missing, Missing) : fadt \in MCFadts} \cup
    {Firmware("mcfg", Missing, Missing, mcfg) :
        mcfg \in {m \in MCMcfgs : m.entries # <<>> \/ m.missing = 0} \cup {Missing}}
=============================================================================
