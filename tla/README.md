# A TLA+ model of the acpi-rs crates

This directory holds TLA+ modules that model the `rsdp`, `acpi` and `aml` crates,
TLC configurations that check them on small instances, and TLAPS proofs about the
namespace, the interpreter, stores, the initialisation of objects, the tables and their
mappings, the platform and the RSDP search that hold for every instance. `PROJECT.json` lists the components, the
runs, the source lines behind every definition, the hazards and the theorems.

## The system

The library is sequential. A kernel calls it, it calls back into two traits the
kernel implements (`AcpiHandler` to map physical memory, `Handler` to read and
write memory, ports and PCI configuration space), and it runs AML, a byte code
supplied by the firmware. What makes it hard to test is therefore not threads but
long sequences of legal calls, calls that fail half-way, control flow that leaves
several blocks at once, firmware code that changes what the interpreter is
walking, handlers that return more than they were asked for, and boundaries.

| Part | State | Operations | Module |
|---|---|---|---|
| RSDP search (`rsdp/src/lib.rs`) | the areas, the slot scanned, the mappings | `search_for_on_bios`, `find_search_areas`, `validate` | `RsdpSearch`, `AcpiTablesProofs` |
| Tables and mappings (`acpi/src/lib.rs`, `sdt.rs`, `fadt.rs`, `rsdp/src/handler.rs`) | what is mapped, who owns it, the SSDT iterator | `from_rsdp`, `find_table`, `dsdt`, `ssdts`, `read_table`, `Drop` | `AcpiTables`, `AcpiTablesProofs` |
| MADT (`acpi/src/madt.rs`, `managed_slice.rs`) | entry iterator, counters, slices | the three passes of `parse_interrupt_model_in` | `Madt` |
| FADT registers, MCFG (`fadt.rs`, `address.rs`, `mcfg.rs`) | none | the register blocks, `from_raw`, `physical_address` | `Fadt`, `PciConfig` |
| Platform (`acpi/src/platform/`) | what has been found so far | `PlatformInfo::new_in`, `PciConfigRegions::new_in`, questions about blocks and functions | `Platform`, `PlatformProofs` |
| Parser (`parser.rs`, `pkg_length.rs`, `name_object.rs`, `term_object.rs`, `statement.rs`) | the slice at hand, open lists, scope, `Propagate` | one action per term | `AmlSyntax`, `AmlParser`; `AmlGrammar` for reference |
| AML names (`aml/src/namespace.rs`) | none | `normalize`, `resolve`, `parent`, `from_str`, `as_string` | `AmlName`, `AmlNameAlgorithms`, `NamespaceTheorems`, `NamespaceProofs` |
| Namespace (`aml/src/namespace.rs`) | levels, values, object map, next handle | `add_level`, `remove_level`, `add_value`, `get_mut`, `search`, `search_for_level` | `Namespace`, `NamespaceClient`, `HandleStore`, `NamespaceProofs` |
| Interpreter (`aml/src/lib.rs`, `term_object.rs`, `statement.rs`, `expression.rs`) | namespace, current scope, method context, call stack, `Propagate` | `parse_table`, `invoke_method`, the parsers of named objects and statements | `AmlContext`, `AmlContextProofs`, `AmlLifetimeProofs` |
| Values (`value.rs`, `lib.rs`, `expression.rs`) | objects, locals, shared buffers | `store`, the buffer fields, the operators | `AmlStore`, `AmlStoreProofs` |
| Region fields (`value.rs`, `lib.rs`, `term_object.rs`) | region, fields, memory | `def_field`, `read_field`, `write_field`, `read_region`, `write_region` | `OpRegionField` |
| Object initialisation (`lib.rs`, `namespace.rs`) | traversal, statuses | `initialize_objects`, `traverse` | `InitObjects`, `InitObjectsProofs` |
| Resources (`resource.rs`) | the slice, the descriptors | `resource_descriptor_list` | `Resource` |
| PCI routing (`pci_routing.rs`) | the `_PRT`, the routes, the namespace | `from_prt_path`, `route` | `PciRouting` |

The parts meet as follows. `AcpiTables` uses the mappings the RSDP search returns
and hands tables to `Platform` and AML streams to the interpreter. `Platform`
EXTENDS `Madt`, `Fadt` and `PciConfig` and runs the MADT parser as part of
`PlatformInfo::new_in`. `PciRouting` EXTENDS `Namespace`, in which it looks up link
devices, and runs an instance of `Resource` on what their `_CRS` holds. `AmlContext`
EXTENDS `Namespace`, and so composes the interpreter with the namespace: every
declaration, invocation and exit of a method is a call of an operator that
`NamespaceClient` also drives on its own. `AmlStore`, `OpRegionField` and
`InitObjects` look at the data side of the interpreter and keep of the namespace
what they need.

## Modules and the code

**AmlName** has the operations on names as operators. A name is a sequence of
components: segments, the root and the prefix `^`. `normalize` is a fold, as in
the code, and so is what `from_str` makes of a string. Outcomes are `Ok`, `Err` or `Panic`
(an assertion or `unwrap` that fails).
**AmlNameAlgorithms** states what they compute, with reference definitions that
count depths instead of keeping a stack. `MCNamespaceClient` picks a name and a
scope in its initial states, or none, and then makes calls on the namespace instead.

**Namespace** is the struct as a record, with one operator per method, from a
namespace to the new namespace and the outcome. The tree is kept flat: `levels`
and `values` are functions on full names. This is the tree of the code as long as
the parent of everything is a level (`Rooted`, part of the type invariant, which
is proved). **NamespaceClient** has one action per method that changes the struct.
`add_value` files the object and advances the counter first and only then looks
for the level, so a call that fails changes the state. A panic stops the run.
`HandleSpace` is 2^32 in the code. `OverflowChecks` says whether the counter
panics or wraps.

**HandleStore** is the abstract promise of the comment at `namespace.rs:13`:
handles are issued once, and names are bound only to new ones.

**AmlContext** has the parsers' call stack as `frames`. One frame is a table, a
block (Scope, Device, ...), the arguments of an invocation, an If, a While or a
method. Which term comes next, and what an operand evaluates to, is left open:
the model ranges over all programs made of the chosen kinds of term.
`propagate` is the `Propagate` on its way up; `Unwind` pops one frame of it per
step and does what the code does at that frame (a block does not restore the
scope, a loop catches Break and Continue, a method restores and converts).
`ExitMethod` removes the level of locals before it restores scope and context, in
that order, and returns early if the removal fails. Noop, BreakPoint and External
change nothing and are left out. A native method returns at once.

**AmlSyntax** and **AmlParser** work on bytes. A slice is a pair of positions in
`bytes`, which is how the code's slices share one stream, and a `PkgLength` holds the
end offset counted from the end of the slice it was read in. `AmlSyntax` has the
parsers that run without touching the context (lengths, names, constants, strings,
buffers, packages) as operators from a slice to a result and the rest of the slice;
`AmlParser` has an action for every term of a term list, with the lists that are open
as frames. Branches and loop bodies are parsed in slices of their own, as in the code.
The namespace is left open: it may refuse any object. **AmlGrammar** is the reference:
it encodes a term list as the comments of the parsers have the grammar, and says what
it declares. A term can be given a wrong length on purpose.

**AcpiTables** takes a call apart into the steps at which it maps, reads and
unmaps. `call.owned` are the mappings in its local variables, dropped when it
returns; `held` are those given to the user. Addresses and lengths are in 32-bit
words, so that entries of an RSDT and an XSDT are told apart and a read of one as
the other is modelled by what it yields. A table's bytes are abstracted to its
signature, its length and whether its checksum holds. The SSDT iterator maps a header
before its counter goes down, so a panic of the counter finds the header mapped.

**RsdpSearch** counts in slots of 16 bytes, and has the set of mappings there are: of the
segment pointer, of an area, of the RSDP. Each is made by a step and dropped by the one
that ends its scope. **Madt** has one step per entry and
pass; slices hold the positions of entries, and an index out of bounds is a panic.
An entry has the length of its type, none, or one that reaches beyond the table.
**Fadt** keeps the 8-bit width of the lengths it multiplies, which panics from 32 bytes
on with overflow checks. **PciConfig** counts addresses in functions of 4096 bytes; `Or` is
the `|` of the code, bit by bit.
**Platform** is `PlatformInfo::new_in`, one step per table it finds and per entry the
MADT parser looks at; or a few questions about register blocks or PCIe functions.

**PciRouting** has one step per package of the `_PRT`, and `route` in the steps of the
resource parser. A method is what it evaluates to. Between the calls link devices come
and go.

**AmlStore** keeps buffers in a heap, because the code keeps them behind `Arc`:
values share contents exactly when they do in the program. Contents are bits.
A byte has `ByteBits` bits and an integer eight bytes, which keeps every proportion
of the code. A write into a buffer field that panics has copied bits by then. `KeepsHead`
says whether `to_bitvec` keeps the unaligned head of a slice: a field of more than 64 bits then
reads with zeros in front. Taking a spinlock twice is the outcome `Hang`. Strings are opaque,
packages and references are left out, Args behave as Locals, and DefBuffer is
the value it yields.

**OpRegionField** has the layout of a field list, the accesses made for a field
and the memory behind the region. **InitObjects** has the traversal, on a copy of
the namespace taken at its start (`Walked`); what `_STA` and `_INI` do (return any status,
fail, declare a device) is the firmware's choice. **Resource** works on bytes: an
encoder written from the tables in the parser's comments makes the template, and
the parser has to read it back, but for the polarity of an extended interrupt, which it
reads the other way round. The checksum of the end tag is not looked at by
the code, nor by the model. What is not a buffer is refused, in `PciRouting`.

## Runs

| Run | Checks | Bounds |
|---|---|---|
| `namespace` | handles, failure, removal and reopening of levels, both searches, refinement of `HandleStore`; the algorithms on names | 2 segments, 9 names (three levels deep, with the root, a name to normalise, one that cannot be, a relative one), 4 handles; all names of up to 5 components and all scopes of up to 4 |
| `context` | scope, method context, locals, field regions, propagation | 4 sorts of program, up to 4 frames and 3 or 4 objects |
| `context_resume` | violated: a recursive method does not resume its caller | 6 frames |
| `tables` | mappings neither leaked nor used after they are gone; first valid table; DSDT of the FADT | root tables of up to 2 entries, exact and chunked handlers, RSDT and XSDT |
| `tables_reuse` | violated: a reused mapping is unmapped | the same |
| `parser` | what is written is what is declared; tables cut short or with wrong lengths; the cursor only moves on | terms in terms in terms, every form of name and data, every cut, lengths wrong by up to 6 |
| `platform` | order, initialisation and size of the slices of the MADT; what is reported, and that the call ends; register blocks; PCIe functions | all MADTs of up to 3 entries, 288 FADTs, MCFGs of up to 2 regions, 2 questions |
| `rsdp` | first valid RSDP, every mapping dropped before the next | areas of 4 slots, up to two structures |
| `init_objects` | order and completeness of the initialisation, and that devices declared meanwhile are not waited for | trees of 6 levels, 4 deep, 2 devices declared on the way |
| `store` | buffer fields to the bit, types kept, errors without effect | 3 names, 1 local, 3 sorts of program of 3 or 4 operators, bytes of 2 bits |
| `region_field` | stores read back, other bits follow the rule | 6 field lists, 8 flag bytes, 4 values, 8 regions |
| `pci_routing` | a pin is routed as listed, templates are read back up to the end tag, calls end | up to 2 of 19 packages, 2 link devices of the same name, 2 changes and 2 calls; up to 3 of 11 descriptors, 12 endings |

Why the bounds are enough to be interesting:

- `namespace`: four handles are few enough for the counter to reach its limit, and
  enough to bind a name, remove its level, make it again and bind it once more. Two types
  of level are what it takes to open one again as another. The names include every kind on which a method errs or panics.
- `context`: three frames hold a method called in a block of a table and a block
  inside the method; four hold a method that calls itself within the evaluation of
  its own argument. Calls follow each other without limit, so failed calls and what
  they leave behind are followed by others.
- `tables`: two entries are a table to be passed over and one to be found; the user
  holds two mappings at once.
- `parser`: three levels of nesting put a length inside a length inside a length, with
  one to three bytes each; an offset of up to 6 moves the end of a block from within
  its last term to behind the next one.
- `platform`: three entries are a boot processor, another one, and an entry in between.
  Lengths of 31 and 32 bytes are on both sides of the limit of a register block. Two
  questions are what it takes for two functions to share an address.
- `rsdp`: an invalid and a valid structure in any two slots of the two areas, at their
  ends too; the segment pointer is inside, at the ends of and outside the EBDA.
- `store`: four operators declare a buffer, a field of it and another object and store
  between them; with three, an operator that computes works on two objects declared before
  it. Fields are shorter and longer than integers and need not fit.
- `pci_routing`: two packages are one that shadows the other or one that fails after
  it; two changes remove a device and make it again. Three descriptors put every size
  behind and in front of every other.

Fairness. `AmlContext` assumes weak fairness of unwinding,
`Platform` and `PciRouting` of the steps of a call that is under way (`Working`):
a call of a sequential library keeps executing. No fairness is assumed of firmware or of
the user, who may never call again. `InitObjects` assumes none: that the traversal ends
if the methods return is stated as a bound, `TraversalIsBounded`: at most two invocations for
each device that was there when it began. `AmlParser` assumes no fairness: a loop in AML may go on for
ever, and `AlwaysForward` says that nothing else does.

Deadlock is checked for the interpreter. It is off elsewhere, because the system
really stops there: a single call that has returned (`platform`, `rsdp`, `init_objects`,
`parser`), a panic or a hang (`namespace`, `store`, `region_field`, `tables`) or
the bound on the number of operators, calls or questions (`store`, `pci_routing`,
`platform`).

Every property has a mutant in `PROJECT.json`: the name of a definition and of an
operator, defined just above it, that gets it wrong in a way the code might have.
With the mutant in place TLC reports the property as violated.

## What is proved

Eight modules hold proofs, each for every value of the constants of its component, so for
trees, names, programs, tables, buffers, memories and areas of every size. Most theorems state a
property that a run checks on a small instance; the inductive invariants were checked by TLC,
too, before they were proved.

`SequenceParts` has the four operators on sequences that the specifications with proofs share.
They could come from `SequencesExt`, but the prover carries every definition in scope through
every step, and proofs take two to four times as long with that module in scope.

`NamespaceTheorems` has what the others need about `AmlName` and `Namespace`: that `normalize`,
a fold, makes a normal name of an absolute one, what `parent`, `resolve` and the two
searches compute, and what `from_str` makes of what `as_string` prints. The prover has no induction over data. `SetInduction` stands in for it: a
set of naturals that has 0 and the successor of each member has them all. It is proved
with a least counterexample, and a claim about a recursive definition becomes one about the
set of lengths for which it holds. So nothing is assumed about `normalize`.

`NamespaceProofs`, about `NamespaceClient`:

- `TypeCorrect`: the type invariant, with `Rooted` in it: the parent of every level
  and of every value is a level. It is the strengthening without which neither the
  flat maps nor `remove_level` make sense: it says that pruning leaves no orphans.
- `BoundHandlesAlwaysExist`: `get` on a handle that a name is bound to never panics.
  It holds with and without overflow checks.
- `HandlesAlwaysUnique`, `HandlesAreNeverReused`, `ImplementsHandleStore`: with overflow
  checks no two names share a handle, no handle ever issued is bound again, and the
  namespace implements `HandleStore`.
- `FailureNeverAddsName` and `NamesOnlyGoByRemoval` (`OnlyRemovalForgets`): a call that fails
  adds no name, and names go away only by `remove_level`, which takes one level that was there
  and all that is below it. The second needs `Rooted`: a value that goes was in a level.
- `SearchAlwaysFindsNearest` and `ResolveAlwaysComposes`: `search` returns what the nearest
  enclosing scope has, `search_for_level` the level in the nearest one, and a path may be resolved
  in one go or step by step. Both are about names of every length, by induction on the number
  of scopes searched (`WalkFindsNearest`) or components folded.
- `NormalizeAlwaysCancels` (`NormalizeIsCancellation`): the stack `normalize` keeps is what the
  reference definition says by counting depths. The reference looks at the whole name, the
  fold at one component more each time, so `Cancelled` says what the fold holds after k
  components: the positions not cancelled so far, in order, as many as the depth reached. A
  segment adds a position at the end (`ListsMore`), a prefix cancels the last one
  (`ListsLess`), and none is left to cancel exactly when the name climbs above its start.
- `PrintedNamesAlwaysReadBack` (`PrintedNamesReadBack`): printing puts a dot after every segment
  and takes away the last one, reading drops the dots, and each is a fold. `Printed` says of the
  first k components, printed, that dots stand right after segments and nowhere else, and that
  reading gives the components back; `PrintedNext` adds one.

The argument: `StepEffect` shows that each of the four actions, with all its early
returns, has one of five effects on the record (or none). Invariants are then shown
effect by effect. The handle theorems need the inductive invariant `HandleInv`, which
adds that every key of the object map is below `next_handle`; it holds only if
the counter does not wrap, hence the assumption `OverflowChecks`.

`AmlContextProofs`, about `AmlContext`: `ContextAlwaysInnermost` and, for programs without
loops, `ScopeAlwaysLexical`. The property looks at the innermost frame only, and a step
that leaves it uncovers another; so the inductive invariant `IInv` says of every frame
that the context and the scope it has saved are those of the frames below it, and that
the interpreter is in those of the innermost one unless an error is on its way up. Errors
are left out because a block does not restore the scope when one passes through it, and a
method restores nothing when its `remove_level` fails. The proof has one lemma per action
or group of actions that push or pop a frame.

`AmlLifetimeProofs`, about how long things live in `AmlContext`: `LocalsAlwaysBelong` (`LocalsBelongToInvocation`)
and, with overflow checks, `FieldsAlwaysKeepRegion` (`FieldsKeepRegion`). The invariant
`Lifetimes` says that the namespace is a tree, that the scopes and methods the frames
remember are absolute names, and that every level of locals is that of a method on
the stack. `ExitMethod` is the step that could break it: it removes the level before it
restores anything, and fails if a recursive call has removed the level already. The second
theorem rests on handles being issued in ascending order: the handle of a field's region is older
than the field, so no later object takes its place, and `remove_level` takes names away but not objects.

`AcpiTablesProofs`, about `AcpiTables`: `CallsUnmapWhatTheyMap` (`NothingLeaks`) and
`HeldTablesStayMapped` (`HeldMapped`). `IInv` has three parts. `Shape` says how many mappings
are in the local variables of a call at each of its steps. `Owners` says that the mappings
of the root table, of the call and of the user are different ones. `Mappings` says
that all that is mapped belongs to one of them and, if the handler maps exactly what it is
asked for, that all that belongs to one of them is mapped. With other handlers the
second half does not hold: `read_table` hands out a mapping that is gone (run
`tables_reuse`).

A second invariant, `Progress`, says what a call knows at each step: which entry of the root
table it is at, that none before it was what it looks for, and, past the FADT, that the table
at hand is the one the FADT points to. From it follow `FirstTableIsFound` (`FindsFirst`) and
`DsdtIsThatOfFadt` (`DsdtOfFadt`). `MappingsNeverOverlap` (`NoOverlap`) has a hypothesis,
`PointsElsewhere`: the RSDP is not the root table, and the DSDT is not an FADT. An FADT that points
to itself would be mapped twice. TLC evaluates the hypothesis in `MCAcpiTables`.

The last part of `AcpiTablesProofs` is about `RsdpSearch`: `SearchDropsMappings`
(`MappingsAreDropped`) and `FirstValidIsFound`. The inductive invariant `SearchInv` says what is
mapped at each step, and that no slot in front of the one looked at holds an RSDP that validates. The names
of that specification (`SearchInit`, `SearchNext`, `SearchSpec`) differ from those of `AcpiTables`
so that one module can be about both.

`PlatformProofs`, about `Platform` and with it `Madt`, `Fadt` and `PciConfig`:
`SlicesAlwaysFilledInOrder`, `XapicAlwaysFits`, `AlwaysReportedInFull`, `BlocksAlwaysAsDocumented` and
`FunctionsAlwaysApart`. What comes out of the third
pass over the MADT depends on what the second one counted, so `Passes` says of each pass what it
has established: the first, that no entry so far is of the APIC model; the second, that the
counters are the numbers of entries so far (or that it is stuck at an entry without a
length, and the pass never ends); the third, that each slice lists the entries so far, in
order, in no more slots than there are, and that no fewer have been stored than were counted. Without
entries of the X2APIC the last two numbers are the same, and there is always a slot; when the
table ends, the slices are full. `Calling` says what `PlatformInfo::new_in` knows of the parser.

`FunctionsAlwaysApart` (`FunctionsApart`) is about the bits of an offset. `Or` is defined bit by bit;
by induction, the or of a multiple of 8 and a number below 8 is their sum, and so for 256,
which makes an offset bus, device and function in one number. Two functions with the same offset
in the same region are therefore one, an offset is less than the window of its region is
long, and windows that do not overlap keep the rest apart. `Asking` is the invariant: every
answer is that of `physical_address` for the regions read from the MCFG.

`AmlStoreProofs`, about `AmlStore`: `FieldsAlwaysWrittenExactly`, `NamesAlwaysKeepType` and
`ErrorsNeverChangeAnything`. The invariant `StoreInv` says that every value refers to a buffer there
is. `StoreIsWell` is about `store` alone, on any heap that has the buffers of the present one
and perhaps new ones; every operator ends in a store, a declaration or nothing, and has one
short lemma that says in which. A panic and a hang are no errors: a panic may come after bits
were copied (`FilledUpIsWritten`), and only errors that are returned are shown to change nothing.
Integers may be anything there: that they fit 64 bits is not needed.

`InitObjectsProofs`, about `InitObjects`: `AlwaysInitializedOnceInOrder` (`InitializedOnceInOrder`), for
namespaces of any shape. `Before` is the order in which a traversal comes to the paths: a level
before what is below it (`Above`), and a subtree before the next one (`Aside`). It is transitive,
nothing is before itself, and what lies between a level and something below it is below the level
(`SubtreesInOnePiece`), which is what `ParentsFirst` says of the log. The invariant `TraversalInv` has
four parts. `StackOK`: the levels that wait are reached, and each stands aside of the next.
`StatusOK`: statuses are those of devices that were passed, or of the one at hand, so none is found
twice. `LogOK`: each invocation precedes the next in that order, is of a device that is reached, and
is the last if it failed. `GoingOK`: unless something failed, every device that is to be reached
waits, itself or below a level that does, or is finished. A step replaces the first level that waits by its
children or by nothing (`Enter`). A status that is found opens what is below the device and nothing
else (`StatusMore`), and what is below it still waits. When nothing waits, all are finished.
`TraversalAlwaysBounded` (`TraversalIsBounded`) follows from `LogOK`: a `_STA` and an `_INI` at most for each
device of the copy (`FewInvocations`), for methods that may declare any number of devices.

Assumptions on constants, all evaluated by TLC in the runs, say what kind of value the
constants are: `SegsAssumption` (segments differ from the special characters),
`NamesAssumption`, `HandleSpaceAssumption`, `OverflowChecksAssumption`, `ScopeAssumption`,
`BoundAssumption`, `PredefinedAssumption` and `LevelTypesAssumption` (the predefined objects and the types of levels),
`ProgramsAssumption` (in `AmlContext` and in `AmlStore`), `StoreAssumption`, `MachinesAssumption`,
`FirmwaresAssumption` (the numbers in an FADT and an MCFG are naturals, the entries of an MADT are of
the types there are), `FunctionsAssumption` (a bus has 32 devices and a device 8 functions),
`NamespacesAssumption` (a namespace is a finite tree), `NewDevicesAssumption`, `FieldAssumption`,
`AreaAssumption` and `MemoriesAssumption`.

Only model-checked:

- liveness (`PropagationEnds`, `PlatformInfoEnds`, `CallsEnd`), for which the
  prover has no rules;
- the parser, whose operators are RECURSIVE as those of the code are, and with it
  `DeclaresWhatIsWritten`, `CutDeclaresPrefix`, `BlockLengthsOnlyMoveNames` and `AlwaysForward`;
- `StoresReadBack` and `OtherBitsFollowRule`, which rest on sums of powers of two with variable
  exponents: the prover's arithmetic does not know them;
- `ReadsBack` and `RoutesAsListed`, which are about bytes that are encoded and read back.

## Where code and comments disagree

Two disagreements have runs of their own: `ResumesCaller` and `ReusedStaysMapped`. The
following are stated in the modules, next to the quotation
they come from, and TLC refutes each of them when it is named in the configuration of
the module instead of its other properties:

| Property | What the code does | Where the text is |
|---|---|---|
| `ResolveNormalizes` | an absolute name is returned unnormalised | `namespace.rs:510` |
| `LoopKeepsScope` | Continue out of a Scope leaves the loop in that scope | `statement.rs:243` |
| `OnlyLocalsDestroyed` | leaving a method named like a level takes what is below it along | `aml/src/lib.rs:211` |
| `ValidateSeesWholeTable` | the checksum runs past the mapping | `sdt.rs:117` |
| `EntriesMapped` | the root table's entries lie behind its mapping | `acpi/src/lib.rs:221` |
| `MappingCoversType` | a short table is mapped for a longer type | `handler.rs:99` |
| `SsdtsStepThrough` | the iterator looks at the first entry each time | `acpi/src/lib.rs:367` |
| `SsdtsFromTable` | 32-bit entries are read as 64-bit ones | `acpi/src/lib.rs:401` |
| `AmlTableExcludesHeader` | SSDTs are returned with their header | `acpi/src/lib.rs:314` |
| `ReservedEnough` | x2APIC entries are stored but not counted | `madt.rs:129` |
| `ProbesDocumentedLocations` | structures are read past the ends of the areas | `rsdp/src/lib.rs:66` |
| `BothChecksumsChecked` | one checksum is tested | `rsdp/src/lib.rs:118` |
| `StoresCopyBuffers`, `LocalsAreCopies` | a stored buffer is shared | `aml/src/lib.rs:328`, `:379` |
| `StoreReturnsDestination` | a store into a field returns its operand | `expression.rs:611` |
| `IntegersOverwriteField` | a Boolean overwrites one bit | `value.rs:546` |
| `BuffersAreCopiedIntoFields`, `BuffersAreCompared`, `ResourcesAreConcatenated` | a buffer is locked twice | `value.rs:563`, `:588`, `expression.rs:221` |
| `ConcatTypesCovered` | concatenating a Boolean panics | `value.rs:325` |
| `PreserveKeepsOtherBits` | Preserve clears the bits around the field | `value.rs:453` |
| `AccessesWithinRegion` | offsets in bits are added to addresses in bytes, and accesses leave the region | `value.rs:189` |
| `IfNeedsNoElse` | an If without Else at the end of its list fails | `statement.rs:148` |
| `FieldsMayBeLong` | a field of more bits than there are bytes left fails | `term_object.rs:508` |
| `LengthsPickedUpEarly` | a length that ends before the predicate is found out late | `parser.rs:181` |
| `EmptyBuffersAccepted` | a buffer of length zero is refused | `expression.rs:122` |
| `LinkNamesResolved` | a relative path to a link device is kept as it is | `pci_routing.rs:33` |
| `PolarityAsDocumented` | the bit is read the other way round | the table above `extended_interrupt_descriptor` |

The properties of the passing runs are worded so as to leave these cases out, and their
comments say where: `LexicalScope` leaves out programs with
loops, `DeclaresWhatIsWritten` the If and the fields of the table above, `CutDeclaresPrefix` a
table that is cut in front of an Else, `ReadsBack` and `RoutesAsListed` the polarity of an extended
interrupt, `ErrorsChangeNothing` panics, `PlatformInfoEnds`
an MADT with an entry of length zero, `HeldMapped` handlers that map more than they are asked for, `XapicFits` tables
with x2APIC entries or without a processor, and `OtherBitsFollowRule` the rule Preserve.

## What is not modelled

- HPET and BGRT, `facs_address`, the reset and sleep registers, the power profile and the
  flags of the FADT, and `PciConfigEntryIterator`: they copy fields of a table.
- The command-line tools and the fuzz target: file and process I/O.
- MADT entries shorter than their type, and an MADT or MCFG shorter than its header: the
  code reads memory that is not of the table, and what it finds there is anything.
- Allocators that return more than they are asked for: what `ManagedSlice` makes of the
  surplus depends on alignment.
- Strings beyond their being strings, and operators on packages and references (there are
  none in the code yet).
- `comment_scope` and the rest of the logging.
