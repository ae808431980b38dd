-------------------------------- MODULE Madt --------------------------------
(***************************************************************************)
(* Parsing the MADT (acpi/src/madt.rs) into slices of a size that has to be *)
(* known beforehand: a pass over the entries finds the interrupt model, a   *)
(* second one counts, and a third one fills the `ManagedSlice`s allocated   *)
(* in between.  One step is one entry of one pass.                          *)
(*                                                                          *)
(* The table is a sequence of entries; the slices hold their positions.     *)
(* The length an entry gives for itself is `good`, or it is zero, or more   *)
(* than is left of the table.  Arithmetic is checked for overflow.          *)
(***************************************************************************)
EXTENDS Functions, Sequences, Integers

VARIABLES table, pass, pos, count, capacity, filled, boot_processor, local_apic_address, outcome

vars == <<table, pass, pos, count, capacity, filled, boot_processor, local_apic_address, outcome>>

None == 0

Slices == {"io_apics", "interrupt_source_overrides", "nmi_sources", "local_apic_nmi_lines", "application_processors"}

\* MadtEntry: the types that belong to the APIC model, those of the two models
\* that are not implemented, and the types the iterator steps over.
ApicTypes ==
    {"LocalApic", "LocalX2Apic", "IoApic", "InterruptSourceOverride", "NmiSource", "LocalApicNmi", "X2ApicNmi",
     "LocalApicAddressOverride"}
SapicTypes == {"IoSapic", "LocalSapic", "PlatformInterruptSource"}
GicTypes == {"Gicc", "Gicd", "GicMsiFrame", "GicRedistributor", "GicInterruptTranslationService"}
SkippedTypes == {"Reserved", "Oem"}

Entry == table[pos]
Exhausted == pos > Len(table)
AtEntry == ~Exhausted /\ Entry.length # "beyond"

\* MadtEntryIter::next; an entry without a length is met again.
Advance == pos' = IF Entry.length = "zero" THEN pos ELSE pos + 1
Rewind == pos' = 1

\* The bound of the counters, which an entry without a length would pass.
CountBound == Len(table) + 1

Zero == [s \in Slices |-> 0]

Stop(res) ==
    /\ outcome' = res /\ pass' = "done"
    /\ UNCHANGED <<table, pos, count, capacity, filled, boot_processor, local_apic_address>>

----------------------------------------------------------------------------
\* `remaining_length -= header.length` in the first pass that gets there.
Overrun == pass \in {"model", "count"} /\ ~Exhausted /\ Entry.length = "beyond" /\ Stop("panic")

\* parse_interrupt_model_in: the first entry of some model decides.
FindModel ==
    /\ pass = "model"
    /\ \/ /\ AtEntry /\ Entry.type \in ApicTypes
          /\ pass' = "count" /\ Rewind
          /\ UNCHANGED <<table, count, capacity, filled, boot_processor, local_apic_address, outcome>>
       \/ AtEntry /\ Entry.type \in SapicTypes \cup GicTypes /\ Stop("panic")
       \/ /\ AtEntry /\ Entry.type \in SkippedTypes \cup {"MultiprocessorWakeup"}
          /\ Advance
          /\ UNCHANGED <<table, pass, count, capacity, filled, boot_processor, local_apic_address, outcome>>
       \/ Exhausted /\ Stop("Unknown")

\* The overrides are stored, but not counted.
CountedFor_NoOverrides(entry) ==
    CASE entry.type = "IoApic" -> {"io_apics"}
      [] entry.type = "NmiSource" -> {"nmi_sources"}
      [] entry.type = "LocalApicNmi" -> {"local_apic_nmi_lines"}
      [] entry.type = "LocalApic" -> {"application_processors"}
      [] OTHER -> {}

\* The slice an entry is counted for: the entries of the X2APIC are not.
CountedFor(entry) ==
    CASE entry.type = "IoApic" -> {"io_apics"}
      [] entry.type = "InterruptSourceOverride" -> {"interrupt_source_overrides"}
      [] entry.type = "NmiSource" -> {"nmi_sources"}
      [] entry.type = "LocalApicNmi" -> {"local_apic_nmi_lines"}
      [] entry.type = "LocalApic" -> {"application_processors"}
      [] OTHER -> {}

Count ==
    /\ pass = "count" /\ AtEntry
    /\ count' = [s \in Slices |-> IF s \in CountedFor(Entry) /\ count[s] < CountBound THEN count[s] + 1 ELSE count[s]]
    /\ Advance
    /\ UNCHANGED <<table, pass, capacity, filled, boot_processor, local_apic_address, outcome>>

\* One slot less for the processors: the first one is the boot processor.
Capacities(counts) == [counts EXCEPT !["application_processors"] = IF @ = 0 THEN 0 ELSE @ - 1]

\* ManagedSlice::new_in, five times; the allocator may have no memory left.
Allocate ==
    /\ pass = "count" /\ Exhausted
    /\ \/ /\ capacity' = Capacities(count)
          /\ pass' = "fill" /\ Rewind
          /\ UNCHANGED <<table, count, filled, boot_processor, local_apic_address, outcome>>
       \/ Stop("AllocError")

----------------------------------------------------------------------------
\* parse_mps_inti_flags fails on the reserved encoding, 2 of 0..3.
MpsIntiFlagsValid(flags) == flags % 4 # 2 /\ (flags \div 4) % 4 # 2

\* The entry is written to the next slot of the slice; there may be none.
Store(s) ==
    IF Len(filled[s]) < capacity[s]
    THEN /\ filled' = [filled EXCEPT ![s] = Append(@, pos)]
         /\ Advance
         /\ UNCHANGED <<table, pass, count, capacity, boot_processor, local_apic_address, outcome>>
    ELSE Stop("panic")

\* The processors of the X2APIC do not look for a boot processor already found.
FillProcessor_X2ApicIsBsp ==
    /\ pass = "fill" /\ AtEntry /\ Entry.type \in {"LocalApic", "LocalX2Apic"}
    /\ IF boot_processor # None /\ Entry.type = "LocalApic"
       THEN Store("application_processors")
       ELSE /\ boot_processor' = pos
            /\ Advance
            /\ UNCHANGED <<table, pass, count, capacity, filled, local_apic_address, outcome>>

\* LocalApic and LocalX2Apic.
FillProcessor ==
    /\ pass = "fill" /\ AtEntry /\ Entry.type \in {"LocalApic", "LocalX2Apic"}
    /\ IF boot_processor # None
       THEN Store("application_processors")
       ELSE /\ boot_processor' = pos
            /\ Advance
            /\ UNCHANGED <<table, pass, count, capacity, filled, local_apic_address, outcome>>

FillIoApic == pass = "fill" /\ AtEntry /\ Entry.type = "IoApic" /\ Store("io_apics")

FillInterruptSourceOverride ==
    /\ pass = "fill" /\ AtEntry /\ Entry.type = "InterruptSourceOverride"
    /\ IF Entry.bus = 0 /\ MpsIntiFlagsValid(Entry.flags) THEN Store("interrupt_source_overrides")
       ELSE Stop("InvalidMadt")

FillNmiSource ==
    /\ pass = "fill" /\ AtEntry /\ Entry.type = "NmiSource"
    /\ IF MpsIntiFlagsValid(Entry.flags) THEN Store("nmi_sources") ELSE Stop("InvalidMadt")

\* LocalApicNmi and X2ApicNmi.  The line is looked at before the slot.
FillLocalNmi ==
    /\ pass = "fill" /\ AtEntry /\ Entry.type \in {"LocalApicNmi", "X2ApicNmi"}
    /\ IF Entry.line \in {0, 1} THEN Store("local_apic_nmi_lines") ELSE Stop("InvalidMadt")

FillAddressOverride ==
    /\ pass = "fill" /\ AtEntry /\ Entry.type = "LocalApicAddressOverride"
    /\ local_apic_address' = pos
    /\ Advance
    /\ UNCHANGED <<table, pass, count, capacity, filled, boot_processor, outcome>>

\* An entry that is skipped is met again.
FillOther_Stays ==
    /\ pass = "fill" /\ AtEntry /\ Entry.type \notin ApicTypes
    /\ IF Entry.type \in SkippedTypes THEN UNCHANGED vars ELSE Stop("InvalidMadt")

FillOther ==
    /\ pass = "fill" /\ AtEntry /\ Entry.type \notin ApicTypes
    /\ IF Entry.type \in SkippedTypes
       THEN /\ Advance
            /\ UNCHANGED <<table, pass, count, capacity, filled, boot_processor, local_apic_address, outcome>>
       ELSE Stop("InvalidMadt")

\* `boot_processor.unwrap()`.
Finish == pass = "fill" /\ Exhausted /\ Stop(IF boot_processor = None THEN "panic" ELSE "Ok")

\* The call, for a table with these entries.
Start(entries) ==
    /\ table = entries
    /\ pass = "model" /\ pos = 1
    /\ count = Zero /\ capacity = Zero /\ filled = [s \in Slices |-> <<>>]
    /\ boot_processor = None /\ local_apic_address = None
    /\ outcome = "none"

Next ==
    \/ FindModel \/ Count \/ Overrun \/ Allocate
    \/ FillProcessor \/ FillIoApic \/ FillInterruptSourceOverride \/ FillNmiSource \/ FillLocalNmi
    \/ FillAddressOverride \/ FillOther \/ Finish

----------------------------------------------------------------------------
\* The positions of the entries of these types ...
Positions(types) == {i \in 1..Len(table) : table[i].type \in types}

\* ... in table order.
Lists(s, positions) == Range(s) = positions /\ \A a, b \in 1..Len(s) : a < b => s[a] < s[b]

\* What comes out holds every entry of the table once, in table order: the
\* first processor is the boot processor, and the order of the others is the
\* one in which they are to be brought up.  The slices are allocated
\* uninitialised, and every slot handed out was written.
SlicesFilledInOrder ==
    outcome = "Ok" =>
        /\ Lists(<<boot_processor>> \o filled["application_processors"], Positions({"LocalApic", "LocalX2Apic"}))
        /\ Lists(filled["local_apic_nmi_lines"], Positions({"LocalApicNmi", "X2ApicNmi"}))
        /\ Lists(filled["io_apics"], Positions({"IoApic"}))
        /\ Lists(filled["interrupt_source_overrides"], Positions({"InterruptSourceOverride"}))
        /\ Lists(filled["nmi_sources"], Positions({"NmiSource"}))
        /\ \A s \in Slices : Len(filled[s]) = capacity[s]

\* A table of the APIC model with at least one processor, and without X2APIC
\* entries, is never too much for the slices: what the second pass counts is
\* enough for what the third one stores.
XapicFits ==
    outcome = "panic" =>
        \/ Positions({"LocalX2Apic", "X2ApicNmi"} \cup SapicTypes \cup GicTypes) # {}
        \/ Positions({"LocalApic"}) = {}
        \/ \E i \in 1..Len(table) : table[i].length = "beyond"

----------------------------------------------------------------------------
\* madt.rs:129 says "Do a pass over the entries so we know how much space we
\* should reserve in the vectors": there is a slot for every entry stored.
ReservedEnough ==
    pass = "fill" /\ AtEntry =>
        /\ Entry.type = "LocalX2Apic" /\ boot_processor # None =>
              Len(filled["application_processors"]) < capacity["application_processors"]
        /\ Entry.type = "X2ApicNmi" => Len(filled["local_apic_nmi_lines"]) < capacity["local_apic_nmi_lines"]
=============================================================================
