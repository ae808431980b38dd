---------------------------- MODULE MCAcpiTables ----------------------------
(***************************************************************************)
(* AcpiTables over a memory that has a table of each kind that matters: one *)
(* to be found twice, one corrupt and one sound with the same signature,    *)
(* SSDTs, and a DSDT that is sound or corrupt.  The root table has up to    *)
(* MaxEntries of them in any order.  The handler maps exactly, or in chunks *)
(* that cover any table.                                                    *)
(***************************************************************************)
EXTENDS AcpiTables, SequencesExt

CONSTANT MaxEntries

Table(signature, length, valid) == [signature |-> signature, length |-> length, valid |-> valid]

\* The FADT is that of ACPI 1.0, of 29 words; its type has 69.
MCSdts ==
    (101 :> Table("FACP", 29, TRUE)) @@ (102 :> Table("FACP", 29, FALSE)) @@ (103 :> Table("SSDT", 12, TRUE)) @@
    (104 :> Table("SSDT", 16, TRUE)) @@ (105 :> Table("DSDT", 20, TRUE)) @@ (106 :> Table("DSDT", 20, FALSE))

MCTypeWords == ("FACP" :> 69) @@ ("SSDT" :> 0)

\* No DSDT, a corrupt one, a sound one in the 64-bit field, and the same with
\* a revision at which that field does not count.
MCFadts ==
    {[revision |-> 1, x_dsdt |-> 105, dsdt |-> 0], [revision |-> 3, x_dsdt |-> 0, dsdt |-> 106],
     [revision |-> 3, x_dsdt |-> 105, dsdt |-> 106]}

Wide(entries) == [i \in 1..(2 * Len(entries)) |-> IF i % 2 = 1 THEN entries[(i + 1) \div 2] ELSE 0]

MCMachines ==
    {[rsdp_valid |-> rsdp_valid, revision |-> revision, root_valid |-> root_valid, fadt |-> fadt,
      words |-> IF revision = 0 THEN entries ELSE Wide(entries), granule |-> granule] :
        granule \in {1, 1024}, rsdp_valid \in BOOLEAN, revision \in {0, 2}, root_valid \in BOOLEAN, fadt \in MCFadts,
        entries \in BoundedSeq(101..104, MaxEntries)}

\* What MappingsNeverOverlap assumes.
ASSUME MachinesPointElsewhere == PointsElsewhere
=============================================================================
