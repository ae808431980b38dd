----------------------------- MODULE RsdpSearch -----------------------------
(***************************************************************************)
(* Looking for the RSDP on a BIOS system (rsdp/src/lib.rs): the two areas   *)
(* are mapped and scanned one after the other, in steps of 16 bytes.        *)
(*                                                                          *)
(* Addresses are counted in slots of 16 bytes, the unit of the scan and of  *)
(* the segment pointer in the BIOS data area.  What the scan can meet in a  *)
(* slot is the signature or not, and behind it a structure that passes the  *)
(* tests `validate` makes or not.                                           *)
(***************************************************************************)
EXTENDS Sequences, Integers

CONSTANTS
    BiosFirst, BiosLast,   \* RSDP_BIOS_AREA_START, RSDP_BIOS_AREA_END
    EbdaFirst, EbdaLast,   \* EBDA_EARLIEST_START, EBDA_END
    PointerSlot,           \* that of EBDA_START_SEGMENT_PTR
    KiB,                   \* slots in a kibibyte
    Segments,              \* what the BIOS data area may hold at 40:0e
    Memories               \* the contents memory may have, from slot to Rsdp

ASSUME AreaAssumption ==
    /\ {BiosFirst, BiosLast, EbdaFirst, EbdaLast, PointerSlot, KiB} \subseteq Nat /\ Segments \subseteq Nat
    /\ PointerSlot < EbdaFirst /\ EbdaFirst <= EbdaLast /\ EbdaLast < BiosFirst /\ BiosFirst <= BiosLast /\ KiB > 0

VARIABLES memory, segment, areas, area, slot, mapped, read, outcome

search_vars == <<memory, segment, areas, area, slot, mapped, read, outcome>>

\* The structure takes 36 bytes, and so reaches into the second slot after its own.
RsdpSlots == 3

\* The bytes that `length` covers, compared with the 36 bytes of the structure.
Lengths == {"within", "exact", "beyond"}

Rsdp == [signature : BOOLEAN, revision : {0, 2}, oem : BOOLEAN, sum20 : BOOLEAN, length : Lengths, sum : BOOLEAN]

\* There is memory wherever the search may look.
ASSUME MemoriesAssumption ==
    \A m \in Memories : \A s \in (BiosFirst..BiosLast) \cup (EbdaFirst..(EbdaLast + KiB - 1)) : m[s] \in Rsdp

Region(first, last) == <<first, last>>
NoRead == <<>>

\* Where the BIOS keeps the segment of the EBDA.
Pointer == Region(PointerSlot, PointerSlot)

----------------------------------------------------------------------------
find_search_areas(seg) ==
    <<Region(BiosFirst, BiosLast),
      IF EbdaFirst <= seg /\ seg <= EbdaLast THEN Region(seg, seg + KiB - 1) ELSE Region(EbdaFirst, EbdaLast)>>

\* The results `validate` may have: it runs on a copy of the structure on the
\* stack, so that beyond its 36 bytes it sums whatever the stack holds.
ValidateResults(rsdp) ==
    IF ~rsdp.oem THEN {FALSE}
    ELSE IF rsdp.revision = 0 THEN {rsdp.sum20}
    ELSE IF rsdp.length = "beyond" THEN BOOLEAN
    ELSE {rsdp.sum}

----------------------------------------------------------------------------
\* The PhysicalMappings there are, by their regions, are in `mapped`: a call of
\* map_physical_region adds one, and the end of its variable's scope drops it.
MapPointer ==
    /\ outcome = "none" /\ area = 0 /\ Pointer \notin mapped
    /\ mapped' = mapped \cup {Pointer}
    /\ UNCHANGED <<memory, segment, areas, area, slot, read, outcome>>

\* The pointer is read, and its mapping dropped on return.
FindAreas ==
    /\ outcome = "none" /\ area = 0 /\ Pointer \in mapped
    /\ areas' = find_search_areas(segment)
    /\ area' = 1 /\ slot' = areas'[1][1]
    /\ mapped' = mapped \ {Pointer}
    /\ UNCHANGED <<memory, segment, read, outcome>>

MapArea ==
    /\ outcome = "none" /\ area # 0 /\ areas[area] \notin mapped
    /\ mapped' = mapped \cup {areas[area]}
    /\ UNCHANGED <<memory, segment, areas, area, slot, read, outcome>>

Scanning == outcome = "none" /\ area # 0 /\ areas[area] \in mapped

\* The search goes on with the next area even after a find.
FoundRsdp_GoesOn ==
    /\ IF area < Len(areas) THEN area' = area + 1 /\ slot' = areas[area + 1][1] /\ UNCHANGED outcome
       ELSE outcome' = "found" /\ UNCHANGED <<area, slot>>
    /\ mapped' = mapped \ {areas[area]}
    /\ UNCHANGED <<memory, segment, areas>>

\* The mapping of the area lives on until the function returns.
FoundRsdp_AreaMapped ==
    /\ outcome' = "found"
    /\ UNCHANGED <<memory, segment, areas, area, slot, mapped>>

\* `break 'areas` drops the mapping of the area.
FoundRsdp ==
    /\ outcome' = "found"
    /\ mapped' = mapped \ {areas[area]}
    /\ UNCHANGED <<memory, segment, areas, area, slot>>

Missed ==
    /\ slot' = slot + 1
    /\ UNCHANGED <<memory, segment, areas, area, mapped, outcome>>

\* One round of the inner loop: the signature, and behind it the structure.
Probe ==
    /\ Scanning /\ slot <= areas[area][2]
    /\ IF ~memory[slot].signature
       THEN read' = Region(slot, slot) /\ Missed
       ELSE /\ read' = Region(slot, slot + RsdpSlots - 1)
            /\ \E valid \in ValidateResults(memory[slot]) : IF valid THEN FoundRsdp ELSE Missed

\* The end of the outer loop's body drops the mapping too.
NextArea ==
    /\ Scanning /\ slot > areas[area][2]
    /\ mapped' = mapped \ {areas[area]}
    /\ IF area < Len(areas)
       THEN area' = area + 1 /\ slot' = areas[area + 1][1] /\ UNCHANGED outcome
       ELSE outcome' = "NoValidRsdp" /\ UNCHANGED <<area, slot>>
    /\ UNCHANGED <<memory, segment, areas, read>>

\* The structure is mapped again, by itself, and the mapping returned.
MapRsdp ==
    /\ outcome = "found"
    /\ mapped' = mapped \cup {Region(slot, slot + RsdpSlots - 1)}
    /\ outcome' = "Ok"
    /\ UNCHANGED <<memory, segment, areas, area, slot, read>>

SearchInit ==
    /\ memory \in Memories /\ segment \in Segments
    /\ areas = <<>> /\ area = 0 /\ slot = 0
    /\ mapped = {} /\ read = NoRead
    /\ outcome = "none"

SearchNext == MapPointer \/ FindAreas \/ MapArea \/ Probe \/ NextArea \/ MapRsdp

SearchSpec == SearchInit /\ [][SearchNext]_search_vars

----------------------------------------------------------------------------
\* The slots of the areas in the order of the search: the BIOS area first.
SearchOrder ==
    LET range(r) == [i \in 1..(r[2] - r[1] + 1) |-> r[1] + i - 1]
    IN  range(<<BiosFirst, BiosLast>>) \o
        range(IF segment \in EbdaFirst..EbdaLast THEN <<segment, segment + KiB - 1>> ELSE <<EbdaFirst, EbdaLast>>)

MayPass(s) == memory[s].signature /\ TRUE \in ValidateResults(memory[s])
MayFail(s) == ~memory[s].signature \/ FALSE \in ValidateResults(memory[s])

\* The search returns the first RSDP that passes validation, the BIOS area
\* before the EBDA, whatever invalid ones lie before it; it fails only if none
\* passes.
FindsFirstValid ==
    /\ outcome = "Ok" =>
          \E i \in 1..Len(SearchOrder) :
             /\ SearchOrder[i] = slot /\ MayPass(slot)
             /\ \A j \in 1..(i - 1) : MayFail(SearchOrder[j])
    /\ outcome = "NoValidRsdp" => \A i \in 1..Len(SearchOrder) : MayFail(SearchOrder[i])

Overlap(r, s) == r[1] <= s[2] /\ s[1] <= r[2]

\* No memory is ever mapped twice at a time, although the RSDP lies in an area
\* that was mapped to find it; and of all the mappings that were made only that
\* of the RSDP is left when the search returns, and none when it fails.
MappingsAreDropped ==
    /\ \A r, s \in mapped : r # s => ~Overlap(r, s)
    /\ outcome = "Ok" => mapped = {Region(slot, slot + RsdpSlots - 1)}
    /\ outcome = "NoValidRsdp" => mapped = {}

----------------------------------------------------------------------------
Within(r, s) == r # NoRead => s[1] <= r[1] /\ r[2] <= s[2]

\* rsdp/src/lib.rs:66-69: "This function probes memory in three locations": the
\* pointer to the EBDA, "The first 1KiB of the EBDA", and "The BIOS memory area
\* at `0xe0000..=0xfffff`".
ProbesDocumentedLocations ==
    \/ Within(read, Region(BiosFirst, BiosLast))
    \/ Within(read, Region(segment, segment + KiB - 1))

\* rsdp/src/lib.rs:118-121: "Checks that: 1) The signature is correct 2) The
\* checksum is correct 3) For Version 2.0+, that the extension checksum is
\* correct".
BothChecksumsChecked ==
    outcome = "Ok" => memory[slot].sum20 /\ (memory[slot].revision > 0 => memory[slot].sum)
=============================================================================
