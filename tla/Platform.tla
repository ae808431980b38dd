------------------------------ MODULE Platform ------------------------------
(***************************************************************************)
(* What a kernel asks of the tables once they can be found: PlatformInfo    *)
(* (platform/mod.rs), which reads the FADT and has the MADT parsed (Madt);  *)
(* the register blocks of the FADT (Fadt); or the PCIe configuration space  *)
(* (PciConfig).  How a table is found and mapped is AcpiTables' subject.    *)
(***************************************************************************)
EXTENDS Madt, Fadt, PciConfig

CONSTANTS Firmwares,      \* [call, fadt, madt, mcfg]: what is asked, and the tables, or Missing for one that is not found
          PcieFunctions,  \* what a kernel may ask the MCFG for
          MaxQuestions    \* the bound of the number of questions

VARIABLES firmware, step, pm_timer, regions, answers, result

platformVars == <<firmware, step, pm_timer, regions, answers, result>>
allVars == <<table, pass, pos, count, capacity, filled, boot_processor, local_apic_address, outcome,
             firmware, step, pm_timer, regions, answers, result>>

Missing == [found |-> FALSE]

\* Each call is made of tables that have what it reads, or are missing.
ASSUME FirmwaresAssumption ==
    \A f \in Firmwares :
        /\ f.call \in {"fadt", "blocks", "mcfg"} /\ (f.call = "blocks" => f.fadt # Missing)
        /\ f.fadt # Missing =>
              /\ f.fadt.revision \in Nat
              /\ \A block \in Blocks : LengthOfBlock(f.fadt, block) \in Nat /\ f.fadt.x[block].access_size \in Nat
        /\ f.madt # Missing =>
              /\ f.madt.entries \in Seq(Range(f.madt.entries))
              /\ \A entry \in Range(f.madt.entries) :
                    /\ entry.type \in ApicTypes \cup SapicTypes \cup GicTypes \cup SkippedTypes \cup {"MultiprocessorWakeup"}
                    /\ entry.length \in {"good", "zero", "beyond"}
        /\ f.mcfg # Missing =>
              /\ f.mcfg.entries \in Seq([segment : Nat, start : Nat, end : Nat, base : Nat])
              /\ f.mcfg.missing \in 0..(EntrySize * Len(f.mcfg.entries))

\* A bus has 32 devices, and a device 8 functions.
ASSUME FunctionsAssumption == PcieFunctions \subseteq [segment : Nat, bus : Nat, device : 0..31, function : 0..7]

Done(res) ==
    /\ step' = "done" /\ result' = res
    /\ UNCHANGED <<vars, firmware, pm_timer, regions, answers>>

GoTo(next) ==
    /\ step' = next
    /\ UNCHANGED <<vars, firmware, pm_timer, regions, answers, result>>

----------------------------------------------------------------------------
\* PlatformInfo::new_in, up to its first table.
FindFadt == step = "fadt" /\ IF firmware.fadt = Missing THEN Done("TableMissing") ELSE GoTo("madt")

\* Without an MADT, or with one that is corrupt, the interrupt model is unknown.
FindMadt ==
    /\ step = "madt"
    /\ IF firmware.madt = Missing
       THEN /\ step' = "timer" /\ pass' = "done" /\ outcome' = "Unknown"
            /\ UNCHANGED <<table, pos, count, capacity, filled, boot_processor, local_apic_address,
                           firmware, pm_timer, regions, answers, result>>
       ELSE GoTo("parse")

\* madt.parse_interrupt_model_in(allocator)?
ParseMadt ==
    /\ step = "parse"
    /\ \/ pass # "done" /\ Next /\ UNCHANGED platformVars
       \/ pass = "done" /\ outcome \in {"Ok", "Unknown"} /\ GoTo("timer")
       \/ pass = "done" /\ outcome \notin {"Ok", "Unknown"} /\ Done(outcome)

\* A timer with a bad address is taken for no timer.
FindPmTimer_IgnoresError ==
    /\ step = "timer"
    /\ pm_timer' = PmTimer(firmware.fadt) /\ step' = "done" /\ result' = "Ok"
    /\ UNCHANGED <<vars, firmware, regions, answers>>

\* PmTimer::new(&fadt)?, and the result.
FindPmTimer ==
    LET timer == PmTimer(firmware.fadt)
    IN  /\ step = "timer"
        /\ IF timer = InvalidGenericAddress THEN Done("InvalidGenericAddress")
           ELSE /\ pm_timer' = timer /\ step' = "done" /\ result' = "Ok"
                /\ UNCHANGED <<vars, firmware, regions, answers>>

----------------------------------------------------------------------------
\* A register block of the FADT.
AskBlock(block) ==
    /\ step = "blocks" /\ Len(answers) < MaxQuestions
    /\ answers' = Append(answers, [asked |-> block, answer |-> RegisterBlock(firmware.fadt, block)])
    /\ UNCHANGED <<vars, firmware, step, pm_timer, regions, result>>

\* PciConfigRegions::new_in: the entries are copied.
FindMcfg ==
    /\ step = "mcfg"
    /\ \/ firmware.mcfg = Missing /\ Done("TableMissing")
       \/ firmware.mcfg # Missing /\ Done("AllocError")
       \/ /\ firmware.mcfg # Missing
          /\ regions' = entries(firmware.mcfg) /\ step' = "functions"
          /\ UNCHANGED <<vars, firmware, pm_timer, answers, result>>

\* PciConfigRegions::physical_address.
AskFunction(fn) ==
    /\ step = "functions" /\ Len(answers) < MaxQuestions
    /\ answers' = Append(answers, [asked |-> fn, answer |-> physical_address(regions, fn)])
    /\ UNCHANGED <<vars, firmware, step, pm_timer, regions, result>>

PlatformInit ==
    /\ firmware \in Firmwares
    /\ step = firmware.call
    /\ Start(IF firmware.madt = Missing THEN <<>> ELSE firmware.madt.entries)
    /\ pm_timer = NoBlock /\ regions = <<>> /\ answers = <<>> /\ result = "none"

Working == FindFadt \/ FindMadt \/ ParseMadt \/ FindPmTimer \/ FindMcfg

PlatformNext ==
    \/ Working
    \/ \E block \in Blocks : AskBlock(block)
    \/ \E fn \in PcieFunctions : AskFunction(fn)

\* A call that has begun is not interrupted.
PlatformSpec == PlatformInit /\ [][PlatformNext]_allVars /\ WF_allVars(Working)

----------------------------------------------------------------------------
\* PlatformInfo::new_in comes to an end, however many passes over the MADT it
\* makes, unless an entry of the MADT gives its length as zero (and then the
\* iterator does not get past it).
PlatformInfoEnds ==
    step = "fadt" /\ (\A i \in 1..Len(table) : table[i].length # "zero") ~> step = "done"

\* A platform is reported with all its parts or not at all: with processors
\* and an interrupt model if the MADT has any, with a timer if the FADT has a
\* good one; and it is not reported if one of the two tables is bad.
ReportedInFull ==
    step = "done" /\ result = "Ok" =>
        /\ boot_processor # None <=> Positions(ApicTypes) # {}
        /\ outcome = "Unknown" => \A s \in Slices : capacity[s] = 0
        /\ firmware.fadt.length.pm_timer = 4 /\ firmware.fadt.address["pm_timer"] # 0 => pm_timer.is = "Some"
        /\ pm_timer.is = "Some" => pm_timer.address # 0 /\ pm_timer.access_size <= 4

\* "In cases where the FADT contains both a 32-bit and 64-bit field for the same
\* address, we should always prefer the 64-bit one" (fadt.rs): whatever block is
\* asked for, the address is that one if there is one, its width is that of the
\* block it is the address of, and no question panics but one about a block of
\* 32 bytes or more, the width of which does not fit.
BlocksAsDocumented ==
    step = "blocks" => \A i \in 1..Len(answers) :
        LET block == answers[i].asked
            answer == answers[i].answer
            extended == firmware.fadt.revision >= 2 /\ firmware.fadt.x[block].address # 0
        IN  /\ answer.is = "Some" =>
                  /\ answer.address = IF extended THEN firmware.fadt.x[block].address ELSE firmware.fadt.address[block]
                  /\ ~extended => answer.space = SystemIo /\ answer.bit_width = LengthOfBlock(firmware.fadt, block) * 8
                  /\ extended => answer.space \notin 11..126 /\ answer.space \notin 128..191
            /\ answer.is = "panic" => LengthOfBlock(firmware.fadt, block) >= 32

\* The windows of two regions, in functions.
Overlap(r, s) == r.base < s.base + (s.end - s.start + 1) * 256 /\ s.base < r.base + (r.end - r.start + 1) * 256

\* "Each function has 4096 bytes of configuration space in PCIe" (mcfg.rs): two
\* functions never share theirs, if the windows of the regions do not overlap
\* in memory, and each is in the window of a region for its bus; there is an
\* answer for every bus that some region manages, the last one included.
FunctionsApart ==
    step = "functions" /\ (\A i, j \in 1..Len(regions) : i # j => ~Overlap(regions[i], regions[j])) =>
        \A i, j \in 1..Len(answers) :
            LET fn == answers[i].asked
                at == answers[i].answer
                managing == {r \in Range(regions) : r.segment = fn.segment /\ fn.bus \in r.start..r.end}
            IN  /\ at = NotManaged <=> managing = {}
                /\ at # NotManaged => \E r \in managing : at >= r.base /\ at < r.base + (r.end - r.start + 1) * 256
                /\ at # NotManaged /\ at = answers[j].answer => fn = answers[j].asked
=============================================================================
