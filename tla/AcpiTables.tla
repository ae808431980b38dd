----------------------------- MODULE AcpiTables -----------------------------
(***************************************************************************)
(* Finding ACPI tables in physical memory: `AcpiTables`, `read_table` and   *)
(* `SsdtIterator` of acpi/src/lib.rs, over the `PhysicalMapping`s of        *)
(* rsdp/src/handler.rs.                                                     *)
(*                                                                          *)
(* A call is taken apart into the steps in which it maps, reads and unmaps  *)
(* memory.  `call.owned` are the mappings its local variables own; they are *)
(* dropped, which unmaps them, when it returns.  `held` are the mappings    *)
(* that were handed to the user.  Sizes and addresses are in 32-bit words.  *)
(***************************************************************************)
EXTENDS SequenceParts, Integers

CONSTANTS Sdts,            \* address -> [signature, length, valid]
          RsdpAddress, RootAddress,
          Machines,        \* the machines: memory and handler
          TypeWords,       \* signature -> size of the table's type
          MaxHeld,         \* bound on the mappings the user holds
          OverflowChecks   \* TRUE in a debug build: `-= 1` panics on underflow

ASSUME BoundAssumption == {MaxHeld, RsdpAddress, RootAddress} \subseteq Nat

VARIABLES machine,      \* [rsdp_valid, revision, root_valid, fadt, words, granule]:
                        \* the handler maps multiples of `granule` words
          live,         \* the regions the handler has mapped
          root_table,   \* the mapping in the AcpiTables, or None
          held, call, ssdt_remaining,
          result        \* the AmlTable a call returned last, and for which table

vars == <<machine, live, root_table, held, call, ssdt_remaining, result>>

None == 0
HeaderWords == 9
PointerWords == 2   \* of a usize
WordSpace == 1000   \* 2^32 in the code: no address is that large
UsizeMax == 100     \* 2^64 - 1 in the code: no counter gets there by itself

NoCall == [op |-> "none", pc |-> "idle", signature |-> "none", index |-> 0, address |-> 0, owned |-> <<>>]
Idle == call = NoCall
At(pc) == call.pc = pc
Goto(pc) == [call EXCEPT !.pc = pc]

----------------------------------------------------------------------------
\* AcpiHandler::map_physical_region: a region that is not in use, of the size
\* asked for and padded to the granule of the handler.
FreshRegion == CHOOSE id \in 1..(MaxHeld + 4) : id \notin DOMAIN live \cup held \cup Range(call.owned)

Mapped(regions, id, address, size) ==
    LET granule == machine.granule
    IN  [r \in DOMAIN regions \cup {id} |->
            IF r = id THEN [start |-> address, region_length |-> size,
                            mapped_length |-> ((size + granule - 1) \div granule) * granule]
            ELSE regions[r]]

\* Drop for PhysicalMapping: AcpiHandler::unmap_physical_region.
Unmapped(regions, ids) == Restrict(regions, DOMAIN regions \ ids)

\* The call maps another region and keeps it.
MapNext(address, size, pc) ==
    /\ live' = Mapped(live, FreshRegion, address, size)
    /\ call' = [call EXCEPT !.pc = pc, !.address = address, !.owned = Append(@, FreshRegion)]

\* What the call owns is forgotten, not dropped.
Return_Forgets(res) == live' = live /\ call' = NoCall /\ result' = res

\* The call returns, and drops what it owns.
Return(res) ==
    /\ live' = Unmapped(live, Range(call.owned))
    /\ call' = NoCall
    /\ result' = res

Failed == [table |-> None, address |-> 0, length |-> 0]

\* The length still counts the header.
AmlTable_WholeLength(address, length) ==
    [table |-> address, address |-> address + HeaderWords, length |-> length]

\* AmlTable::new, from the address and the length with the header.
AmlTable(address, length) ==
    [table |-> address, address |-> address + HeaderWords, length |-> length - HeaderWords]

\* SdtHeader::validate: the signature, the two names and the checksum.
validate(address, signature) == Sdts[address].signature = signature /\ Sdts[address].valid

\* The entries of the root table, which are 32 or 64 bits wide.
Entry32(i) == machine.words[i]
Entry64(i) == machine.words[2 * i - 1] + WordSpace * machine.words[2 * i]

EntryWords == IF machine.revision = 0 THEN 1 ELSE 2
num_tables == Len(machine.words) \div EntryWords
Entry(i) == IF machine.revision = 0 THEN Entry32(i) ELSE Entry64(i)

----------------------------------------------------------------------------
\* from_rsdp.
FromRsdp ==
    /\ Idle /\ root_table = None
    /\ live' = Mapped(live, FreshRegion, RsdpAddress, HeaderWords)
    /\ call' = [NoCall EXCEPT !.op = "new", !.pc = "rsdp", !.owned = <<FreshRegion>>]
    /\ UNCHANGED <<machine, root_table, held, ssdt_remaining, result>>

\* from_validated_rsdp, once the RSDP is found to be valid.
FromValidatedRsdp ==
    /\ At("rsdp")
    /\ IF machine.rsdp_valid
       THEN MapNext(RootAddress, HeaderWords, "root") /\ UNCHANGED result
       ELSE Return(Failed)
    /\ UNCHANGED <<machine, root_table, held, ssdt_remaining>>

CheckRoot ==
    /\ At("root")
    /\ live' = Unmapped(live, Range(IF machine.root_valid THEN AllButLast(call.owned) ELSE call.owned))
    /\ root_table' = IF machine.root_valid THEN LastOf(call.owned) ELSE None
    /\ call' = NoCall
    /\ UNCHANGED <<machine, held, ssdt_remaining, result>>

\* The user drops the AcpiTables; an SsdtIterator borrows it.
DropTables ==
    /\ Idle /\ root_table # None
    /\ live' = Unmapped(live, {root_table})
    /\ root_table' = None /\ ssdt_remaining' = 0
    /\ UNCHANGED <<machine, held, call, result>>

DropHeld ==
    /\ Idle
    /\ \E id \in held : held' = held \ {id} /\ live' = Unmapped(live, {id})
    /\ UNCHANGED <<machine, root_table, call, ssdt_remaining, result>>

----------------------------------------------------------------------------
\* find_table and dsdt, which starts by finding the FADT.
StartFind(op, signature) ==
    /\ Idle /\ root_table # None /\ Cardinality(held) < MaxHeld
    /\ call' = [NoCall EXCEPT !.op = op, !.pc = "scan", !.signature = signature, !.index = 1]
    /\ UNCHANGED <<machine, live, root_table, held, ssdt_remaining, result>>

FindTable == \E signature \in DOMAIN TypeWords : StartFind("find", signature)

Dsdt == StartFind("dsdt", "FACP")

\* The loop stops one entry early.
Scan_OffByOne ==
    /\ At("scan")
    /\ \/ call.index >= num_tables /\ Return(Failed)
       \/ call.index < num_tables /\ call' = [call EXCEPT !.pc = "peek", !.address = Entry(call.index)]
                                  /\ UNCHANGED <<live, result>>
    /\ UNCHANGED <<machine, root_table, held, ssdt_remaining>>

\* The loop over the entries.
Scan ==
    /\ At("scan")
    /\ \/ call.index > num_tables /\ Return(Failed)
       \/ call.index <= num_tables /\ call' = [call EXCEPT !.pc = "peek", !.address = Entry(call.index)]
                                   /\ UNCHANGED <<live, result>>
    /\ UNCHANGED <<machine, root_table, held, ssdt_remaining>>

\* The first half of read_table: the header is mapped ...
Peek ==
    /\ At("peek")
    /\ MapNext(call.address, HeaderWords, "check")
    /\ UNCHANGED <<machine, root_table, held, ssdt_remaining, result>>

\* ... and validated.  When it is not valid its mapping is dropped, and
\* find_table goes on to the next entry; for the DSDT there is no next one.
CheckFails ==
    /\ At("check") /\ ~validate(call.address, call.signature)
    /\ IF call.op = "dsdt" /\ call.signature = "DSDT"
       THEN Return(Failed)
       ELSE /\ live' = Unmapped(live, {LastOf(call.owned)})
            /\ call' = [call EXCEPT !.pc = "scan", !.index = @ + 1, !.owned = AllButLast(@)]
            /\ UNCHANGED result
    /\ UNCHANGED <<machine, root_table, held, ssdt_remaining>>

\* Fadt::dsdt_address: the 64-bit field of newer tables if it is not zero,
\* else the 32-bit one.
dsdt_address(fadt) == IF fadt.revision >= 2 /\ fadt.x_dsdt # 0 THEN fadt.x_dsdt ELSE fadt.dsdt

\* The handler maps at least what it is asked to.  The addresses in the root
\* table and in the FADT are those of tables, which have more than a header.
ASSUME MachinesAssumption ==
    /\ DOMAIN Sdts \subseteq Nat /\ \A a \in DOMAIN Sdts : Sdts[a].length \in Nat /\ Sdts[a].length > HeaderWords
    /\ \A m \in Machines :
          /\ m.granule \in Nat \ {0} /\ m.revision \in Nat /\ m.words \in Seq(Nat)
          /\ m.revision = 0 => Range(m.words) \subseteq DOMAIN Sdts
          /\ m.revision # 0 => \A i \in 1..(Len(m.words) \div 2) :
                                  m.words[2 * i - 1] + WordSpace * m.words[2 * i] \in DOMAIN Sdts
          /\ m.fadt.revision \in Nat /\ dsdt_address(m.fadt) \in {0} \cup DOMAIN Sdts

\* The table's mapping is dropped on the way out of find_table.
Found_Dangling(id, regions, rest) ==
    /\ held' = held \cup {id}
    /\ live' = Unmapped(regions, {id} \cup Range(rest))
    /\ call' = NoCall
    /\ UNCHANGED result

\* read_table returns the mapping `id` to find_table or dsdt, which own it
\* from here; `regions` are those still mapped, `rest` the others they own.
Found(id, regions, rest) ==
    \/ /\ call.op = "find"
       /\ held' = held \cup {id}
       /\ live' = Unmapped(regions, Range(rest))
       /\ call' = NoCall
       /\ UNCHANGED result
    \/ /\ call.op = "dsdt" /\ call.signature = "FACP" /\ dsdt_address(machine.fadt) # 0
       /\ call' = [call EXCEPT !.pc = "peek", !.signature = "DSDT", !.address = dsdt_address(machine.fadt),
                               !.owned = Append(rest, id)]
       /\ live' = regions
       /\ UNCHANGED <<held, result>>
    \/ /\ call.op = "dsdt" /\ (call.signature = "DSDT" \/ dsdt_address(machine.fadt) = 0)
       /\ live' = Unmapped(regions, {id} \cup Range(rest))
       /\ call' = NoCall
       /\ result' = IF call.signature = "DSDT" THEN AmlTable(call.address, Sdts[call.address].length) ELSE Failed
       /\ UNCHANGED held

\* The header's mapping covers the table: a second owner of the same region
\* is made and returned, and the first is dropped at the end of read_table.
Reuse ==
    LET id == LastOf(call.owned)
    IN  /\ At("check") /\ validate(call.address, call.signature)
        /\ live[id].mapped_length >= Sdts[call.address].length
        /\ Found(id, Unmapped(live, {id}), AllButLast(call.owned))
        /\ UNCHANGED <<machine, root_table, ssdt_remaining>>

\* The whole table is mapped while the header still is.
DropPeek_Late ==
    /\ At("check") /\ validate(call.address, call.signature)
    /\ live[LastOf(call.owned)].mapped_length < Sdts[call.address].length
    /\ call' = Goto("remap")
    /\ UNCHANGED <<machine, live, root_table, held, ssdt_remaining, result>>

\* Otherwise the header's mapping is dropped, and the whole table mapped.
DropPeek ==
    /\ At("check") /\ validate(call.address, call.signature)
    /\ live[LastOf(call.owned)].mapped_length < Sdts[call.address].length
    /\ live' = Unmapped(live, {LastOf(call.owned)})
    /\ call' = [call EXCEPT !.pc = "remap", !.owned = AllButLast(@)]
    /\ UNCHANGED <<machine, root_table, held, ssdt_remaining, result>>

Remap ==
    /\ At("remap")
    /\ Found(FreshRegion, Mapped(live, FreshRegion, call.address, Sdts[call.address].length), call.owned)
    /\ UNCHANGED <<machine, root_table, ssdt_remaining>>

----------------------------------------------------------------------------
\* ssdts: the entries are taken to be pointers, whatever the root table is.
Ssdts ==
    /\ Idle /\ root_table # None
    /\ ssdt_remaining' = Len(machine.words) \div PointerWords
    /\ UNCHANGED <<machine, live, root_table, held, call, result>>

\* SsdtIterator::next, on an iterator that has not come to its end.
SsdtNext ==
    /\ Idle /\ root_table # None /\ ssdt_remaining > 0
    /\ call' = [NoCall EXCEPT !.op = "ssdt", !.pc = "ssdt"]
    /\ UNCHANGED <<machine, live, root_table, held, ssdt_remaining, result>>

\* One turn of its loop, up to the validation: the header at the first entry is
\* mapped, and the counter goes down, which panics at 0 if overflow is checked.
SsdtPeek ==
    /\ At("ssdt")
    /\ LET panics == ssdt_remaining = 0 /\ OverflowChecks
       IN  /\ MapNext(Entry64(1), HeaderWords, IF panics THEN "panic" ELSE "ssdt_check")
           /\ ssdt_remaining' = IF panics THEN 0 ELSE IF ssdt_remaining = 0 THEN UsizeMax ELSE ssdt_remaining - 1
    /\ UNCHANGED <<machine, root_table, held, result>>

\* An address that is not that of a table does not read as an SSDT.
SsdtCheck ==
    /\ At("ssdt_check")
    /\ IF call.address \in DOMAIN Sdts /\ validate(call.address, "SSDT")
       THEN Return([table |-> call.address, address |-> call.address, length |-> Sdts[call.address].length])
       ELSE /\ live' = Unmapped(live, Range(call.owned))
            /\ call' = [call EXCEPT !.pc = "ssdt", !.owned = <<>>]
            /\ UNCHANGED result
    /\ UNCHANGED <<machine, root_table, held, ssdt_remaining>>
----------------------------------------------------------------------------
Init ==
    /\ machine \in Machines
    /\ live = [r \in {} |-> 0] /\ root_table = None /\ held = {}
    /\ call = NoCall /\ ssdt_remaining = 0 /\ result = Failed

\* What the user does, and the steps of the call under way.
User == FromRsdp \/ DropTables \/ DropHeld \/ FindTable \/ Dsdt \/ Ssdts \/ SsdtNext

Step ==
    \/ FromValidatedRsdp \/ CheckRoot
    \/ Scan \/ Peek \/ CheckFails \/ Reuse \/ DropPeek \/ Remap
    \/ SsdtPeek \/ SsdtCheck

Next == User \/ Step

Spec == Init /\ [][Next]_vars

----------------------------------------------------------------------------
\* The handler maps what it is asked for and no more, so that read_table has
\* no mapping to reuse.
Exact == machine.granule = 1

\* What a call works on is mapped until it is done with it, and a table that
\* was handed out is mapped until the user drops it.
HeldMapped == Exact => held \cup Range(call.owned) \subseteq DOMAIN live

\* Between calls, and on every path out of them, errors included, the only
\* regions still mapped are the root table and those the user holds.
NothingLeaks == Idle => DOMAIN live \subseteq held \cup ({root_table} \ {None})

\* The RSDP is not the root table, and the FADT's DSDT is not an FADT.
PointsElsewhere ==
    /\ RsdpAddress # RootAddress
    /\ \A m \in Machines : dsdt_address(m.fadt) # 0 => Sdts[dsdt_address(m.fadt)].signature # "FACP"

\* lib.rs:359 says "Drop the old mapping here, to ensure it's unmapped in
\* software before requesting an overlapping mapping": a call never owns two
\* mappings of the same memory.
NoOverlap ==
    [][\A old \in Range(call.owned) \cap DOMAIN live, new \in DOMAIN live' \ DOMAIN live :
          old \in DOMAIN live' => live'[new].start # live[old].start]_vars

\* The entries at which a valid table with this signature is found.
Valid(address, signature) == Sdts[address].signature = signature /\ Sdts[address].valid
Matches(signature) == {i \in 1..num_tables : Valid(Entry(i), signature)}

\* find_table hands out the first valid table with the signature, mapped in
\* full, past tables that are corrupt; it fails only when there is none.
FindsFirst ==
    [][call.op = "find" /\ call' = NoCall =>
          IF Matches(call.signature) = {} THEN held' = held
          ELSE \E id \in held' \ held : Exact =>
                  /\ id \in DOMAIN live'
                  /\ live'[id].start = Entry(Min(Matches(call.signature)))
                  /\ live'[id].region_length >= Sdts[live'[id].start].length]_vars

\* dsdt succeeds exactly when there is a valid FADT and it points to a valid
\* DSDT, and then returns the AML in it, without the header.
DsdtOfFadt ==
    [][call.op = "dsdt" /\ call' = NoCall =>
          LET fadt == machine.fadt
              address == IF fadt.revision < 2 \/ fadt.x_dsdt = 0 THEN fadt.dsdt ELSE fadt.x_dsdt
          IN  IF Matches("FACP") # {} /\ address # 0 /\ Valid(address, "DSDT")
              THEN result' = [table |-> address, address |-> address + HeaderWords,
                              length |-> Sdts[address].length - HeaderWords]
              ELSE result' = Failed]_vars

----------------------------------------------------------------------------
\* lib.rs:340 says "If possible (if the existing mapping covers enough memory),
\* resuse the existing physical mapping": what is handed out stays mapped then
\* as well.
ReusedStaysMapped == held \subseteq DOMAIN live

\* sdt.rs:117 says of validate "This assumes that the whole SDT is mapped."
ValidateSeesWholeTable ==
    At("check") /\ Sdts[call.address].signature = call.signature =>
        live[LastOf(call.owned)].mapped_length >= Sdts[call.address].length

\* lib.rs:221 says of the entries of the root table "Table pointer is
\* known-good for these offsets and types."
EntriesMapped ==
    At("scan") /\ call.index <= num_tables =>
        live[root_table].mapped_length >= HeaderWords + call.index * EntryWords

\* handler.rs:99 says "`size` must be at least `size_of::<T>()`" of the size
\* passed to map_physical_region.
MappingCoversType ==
    \A id \in held \cap DOMAIN live : live[id].region_length >= TypeWords[Sdts[live[id].start].signature]

\* lib.rs:367 says "Iterator that steps through all of the tables": the k-th
\* turn of the loop looks at the k-th entry.
SsdtsStepThrough ==
    At("ssdt_check") => call.address = Entry64(Len(machine.words) \div PointerWords - ssdt_remaining)

\* lib.rs:401 says of the address the iterator maps that it is valid "or the
\* ACPI tables are malformed (not a software issue)": the address is one of
\* those in the root table.
SsdtsFromTable ==
    At("ssdt_check") => \E i \in 1..num_tables : call.address = Entry(i)

\* lib.rs:314 says of AmlTable::address "Physical address of the start of the
\* AML stream (excluding the table header)."
AmlTableExcludesHeader == result # Failed => result.address = result.table + HeaderWords
=============================================================================
