----------------------------- MODULE PciConfig -----------------------------
(***************************************************************************)
(* PciConfigRegions (acpi/src/mcfg.rs): where the configuration space of a  *)
(* PCIe function is.  Addresses are counted in the 4 KiB of one function.   *)
(***************************************************************************)
EXTENDS FiniteSetsExt, Sequences, Integers

\* Mcfg::entries: a last entry that is not all there is left out.
EntrySize == 16
entries(mcfg) == SubSeq(mcfg.entries, 1, (EntrySize * Len(mcfg.entries) - mcfg.missing) \div EntrySize)

\* `region.bus_number_start..=region.bus_number_end`, of this segment group.
Manages(region, fn) == region.segment = fn.segment /\ fn.bus \in region.start..region.end

\* The bitwise or of the parts of an offset, which may overlap.
Or[x \in Nat] ==
    [y \in Nat |-> IF x = 0 THEN y ELSE 2 * Or[x \div 2][y \div 2] + (IF x % 2 = 1 \/ y % 2 = 1 THEN 1 ELSE 0)]

\* The buses are counted from zero, not from the first one of the region.
Offset_FromBusZero(region, fn) == Or[fn.bus * 256][Or[fn.device * 8][fn.function]]

Offset(region, fn) == Or[(fn.bus - region.start) * 256][Or[fn.device * 8][fn.function]]

NotManaged == -1

physical_address(regions, fn) ==
    LET managing == {i \in 1..Len(regions) : Manages(regions[i], fn)}
    IN  IF managing = {} THEN NotManaged
        ELSE regions[Min(managing)].base + Offset(regions[Min(managing)], fn)
=============================================================================
