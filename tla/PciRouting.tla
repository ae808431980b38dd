----------------------------- MODULE PciRouting -----------------------------
(***************************************************************************)
(* PCI interrupt routing (aml/src/pci_routing.rs): a `_PRT` object becomes  *)
(* a table of routes, and a pin is routed to an interrupt, which is in the  *)
(* table or in the resources (Resource) that the `_CRS` of a link device    *)
(* has at that time.  Between the calls other code changes the namespace    *)
(* (Namespace).                                                             *)
(*                                                                          *)
(* The value of an object that is evaluated is what it evaluates to, or an  *)
(* error; a buffer is given by what its template was made of.               *)
(***************************************************************************)
EXTENDS Namespace

CONSTANTS Firmwares,   \* [prt, links, calls, changes]: what _PRT comes to, the link devices [path, crs], and the
                       \* bounds of the calls to route and of the changes in between
          Questions,   \* [device, function, pin]: what a kernel may ask for
          Links,       \* the link devices that come and go, each with its _CRS
          GsiSpace     \* 2^32 in the code

VARIABLES prt,        \* the value of _PRT
          entries,    \* of the PciRoutingTable
          ns,         \* the namespace
          step, asked, answer,
          calls, changes,   \* how many are left
          found_in,   \* the namespace the table was made in, for the properties
          listed, ending, bytes, descriptors, outcome   \* of Resource

R == INSTANCE Resource

resourceVars == <<listed, ending, bytes, descriptors, outcome>>
vars == <<prt, entries, ns, step, asked, answer, changes, calls, found_in, listed, ending, bytes, descriptors, outcome>>

prt_path == <<Root, "PCI0", "_PRT">>
AnyFunction == 65535
Pins == 0..3

Stop(res) ==
    /\ step' = "stopped" /\ answer' = res
    /\ UNCHANGED <<prt, entries, ns, asked, changes, calls, found_in, resourceVars>>

----------------------------------------------------------------------------
\* AmlValue::as_integer, on what is in such packages.
as_integer(value) == IF value.type = "Integer" THEN Ok(value.val) ELSE Err("IncompatibleValueConversion")

\* Where the interrupt comes from: a number, or a link device, looked for from
\* the _PRT outwards.
RouteType(n, source, index) ==
    LET name == from_str(source.val)
        level == search_for_level(n, name.val, prt_path)
    IN  CASE source.type = "Integer" /\ source.val = 0 ->
                IF ~as_integer(index).ok THEN as_integer(index)
                ELSE IF index.val >= GsiSpace THEN Err("PrtInvalidGsi") ELSE Ok([is |-> "Gsi", gsi |-> index.val])
          [] source.type = "String" ->
                IF ~name.ok THEN name ELSE IF ~level.ok THEN level ELSE Ok([is |-> "LinkObject", name |-> level.val])
          [] OTHER -> Err("PrtInvalidSource")

\* A package of the _PRT; one that is too short is indexed beyond its end.
Entry(n, value) ==
    LET field(i) == IF i > Len(value.val) THEN Panic ELSE as_integer(value.val[i])
        gsi == Len(value.val) > 2 /\ value.val[3].type = "Integer" /\ value.val[3].val = 0
        route == IF Len(value.val) < 3 \/ (gsi /\ Len(value.val) < 4) THEN Panic
                 ELSE RouteType(n, value.val[3], IF gsi THEN value.val[4] ELSE value.val[3])
    IN  IF value.type # "Package" THEN Err("IncompatibleValueConversion")
        ELSE IF ~field(1).ok THEN field(1)
        ELSE IF ~field(2).ok THEN field(2)
        ELSE IF field(2).val \notin Pins THEN Err("PrtInvalidPin")
        ELSE IF ~route.ok THEN route
        ELSE Ok([device |-> (field(1).val \div 65536) % 65536, function |-> field(1).val % 65536,
                 pin |-> field(2).val, route |-> route.val])

\* One turn of the loop of from_prt_path.
BuildEntry ==
    LET entry == Entry(ns, prt.val[Len(entries) + 1])
    IN  /\ step = "build" /\ prt.type = "Package" /\ Len(entries) < Len(prt.val)
        /\ IF ~entry.ok THEN Stop(entry)
           ELSE /\ entries' = Append(entries, entry.val)
                /\ UNCHANGED <<prt, ns, step, asked, answer, changes, calls, found_in, resourceVars>>

\* The table is complete, or there is no package to make it of.
Built ==
    /\ step = "build"
    /\ \/ prt.type = "error" /\ Stop(Err("error"))
       \/ prt.type \notin {"error", "Package"} /\ Stop(Err("IncompatibleValueConversion"))
       \/ /\ prt.type = "Package" /\ Len(entries) = Len(prt.val)
          /\ step' = "idle"
          /\ UNCHANGED <<prt, entries, ns, asked, answer, changes, calls, found_in, resourceVars>>

----------------------------------------------------------------------------
\* An entry for all functions of a device is found for none.
Matches_Exactly(entry, q) == entry.device = q.device /\ entry.function = q.function /\ entry.pin = q.pin

\* `find` takes the first of these.
Matches(entry, q) ==
    entry.device = q.device /\ entry.function \in {AnyFunction, q.function} /\ entry.pin = q.pin

Answer(q, res) ==
    /\ asked' = q /\ answer' = res /\ step' = "idle" /\ calls' = calls - 1
    /\ UNCHANGED <<prt, entries, ns, changes, found_in, resourceVars>>

\* The interrupts of PCI are level-triggered, active-low and shared.
GsiDescriptor(gsi) ==
    [kind |-> "Irq", is_consumer |-> TRUE, trigger |-> "Level", polarity |-> "ActiveLow", is_shared |-> TRUE,
     is_wake_capable |-> FALSE, irq |-> gsi]

\* The _CRS of the link device, evaluated.
Crs(n, name) ==
    LET path == resolve(<<"_CRS">>, name)
        value == get_by_path(n, path.val)
    IN  IF ~path.ok THEN path ELSE IF ~value.ok THEN value
        ELSE IF value.val.type = "error" THEN Err("error")
        ELSE IF value.val.type # "Buffer" THEN Err("IncompatibleValueConversion")
        ELSE value

\* A buffer is handed to resource_descriptor_list.
ParseTemplate(q, template) ==
    /\ asked' = q /\ step' = "crs" /\ R!Receive(template.listed, template.ending)
    /\ UNCHANGED <<prt, entries, ns, answer, changes, calls, found_in>>

\* route, up to the resources of the link device.
Route(q) ==
    LET matching == {i \in 1..Len(entries) : Matches(entries[i], q)}
        route == entries[Min(matching)].route
        crs == Crs(ns, route.name)
    IN  /\ step = "idle" /\ calls > 0
        /\ \/ matching = {} /\ Answer(q, Err("PrtNoEntry"))
           \/ matching # {} /\ route.is = "Gsi" /\ Answer(q, Ok(GsiDescriptor(route.gsi)))
           \/ matching # {} /\ route.is = "LinkObject" /\ crs = Panic /\ Stop(crs)
           \/ matching # {} /\ route.is = "LinkObject" /\ ~crs.ok /\ crs # Panic /\ Answer(q, crs)
           \/ matching # {} /\ route.is = "LinkObject" /\ crs.ok /\ ParseTemplate(q, crs.val)

ParseCrs == step = "crs" /\ R!Next /\ UNCHANGED <<prt, entries, ns, step, asked, answer, changes, calls, found_in>>

\* `[Resource::Irq(descriptor)]`: one resource, and an interrupt.
OnlyInterrupt(resources) ==
    IF Len(resources) = 1 /\ resources[1].kind = "Irq" THEN Ok(resources[1]) ELSE Err("UnexpectedResourceType")

\* The end of route.
Routed ==
    /\ step = "crs" /\ outcome # "parsing"
    /\ \/ outcome = "panic" /\ Stop(Panic)
       \/ outcome = "ok" /\ Answer(asked, OnlyInterrupt(descriptors))
       \/ outcome \notin {"ok", "panic"} /\ Answer(asked, Err(outcome))

----------------------------------------------------------------------------
\* Other code, between the calls: a link device comes, with its _CRS, or goes.
\* A call that is refused leaves the namespace as it was.
Change ==
    /\ step = "idle" /\ changes > 0
    /\ \E link \in DOMAIN Links :
          LET added == add_level(ns, link, "Device")
              removed == remove_level(ns, link)
          IN  \/ /\ added.res.ok /\ link \notin DOMAIN ns.levels
                 /\ ns' = add_value(added.ns, Append(link, "_CRS"), Links[link]).ns
              \/ removed.res.ok /\ ns' = removed.ns
    /\ changes' = changes - 1
    /\ UNCHANGED <<prt, entries, step, asked, answer, calls, found_in, resourceVars>>

\* The devices, each in a level that is there, with their _CRS.
Load(n, links) ==
    FoldInOrder(LAMBDA m, link : add_value(add_level(m, link.path, "Device").ns, Append(link.path, "_CRS"), link.crs).ns, n, links)

Init ==
    /\ \E firmware \in Firmwares :
          /\ prt = firmware.prt
          /\ calls = firmware.calls /\ changes = firmware.changes
          /\ ns = Load(add_level(new, <<Root, "PCI0">>, "Device").ns, firmware.links)
    /\ entries = <<>> /\ step = "build"
    /\ asked = [device |-> 0, function |-> 0, pin |-> 0] /\ answer = Err("none")
    /\ found_in = ns
    /\ listed = <<>> /\ ending = <<>> /\ bytes = <<>> /\ descriptors = <<>> /\ outcome = "ok"

Working == BuildEntry \/ Built \/ ParseCrs \/ Routed

Next == Working \/ Change \/ \E q \in Questions : Route(q)

\* A call that has begun is not interrupted.
Spec == Init /\ [][Next]_vars /\ WF_vars(Working)

----------------------------------------------------------------------------
\* The package for a pin: the first one with its address.
IsPackageFor(value, q) ==
    /\ value.val[1].val \div 65536 = q.device /\ value.val[1].val % 65536 \in {q.function, AnyFunction}
    /\ value.val[2].val = q.pin

\* The device a name in a package denotes, seen from the _PRT.
Denotes(n, name, path) ==
    IF Len(name) > 1 \/ name[1] = Root THEN path = name
    ELSE \E k \in 1..Len(prt_path) :
            /\ path = SubSeq(prt_path, 1, k) \o name /\ path \in DOMAIN n.levels
            /\ \A j \in (k + 1)..Len(prt_path) : SubSeq(prt_path, 1, j) \o name \notin DOMAIN n.levels

\* A pin is routed as the first package for it says: to the interrupt with the
\* number given there; or to the one interrupt that is listed by the _CRS, as it
\* is at the time of the call, of the device that the name given there denoted
\* when the table was made, whatever devices have come and gone since.
RoutesAsListed ==
    [][calls' < calls /\ answer'.ok =>
        \E i \in 1..Len(prt.val) :
            /\ IsPackageFor(prt.val[i], asked') /\ \A j \in 1..(i - 1) : ~IsPackageFor(prt.val[j], asked')
            /\ \/ /\ prt.val[i].val[3].type = "Integer"
                  /\ answer'.val.irq = prt.val[i].val[4].val
                  /\ answer'.val.trigger = "Level" /\ answer'.val.polarity = "ActiveLow" /\ answer'.val.is_shared
               \/ /\ prt.val[i].val[3].type = "String"
                  /\ \E path \in DOMAIN ns.levels :
                        /\ Denotes(found_in, prt.val[i].written, path)
                        /\ LET crs == ns.object_map[ns.values[Append(path, "_CRS")]]
                           IN  Len(crs.listed) = 1 /\ R!Means(answer'.val, crs.listed[1])]_vars

\* Whatever the _CRS of a device has in it, and whatever follows it, a template
\* is read back as it was meant, but for the polarity of an extended interrupt
\* (see Resource).
ReadsBack == R!ReadsBack

\* A table is made, and a pin routed, in a finite number of steps: no list of
\* packages and no buffer, ended or not, keeps a call from returning.
CallsEnd == step \in {"build", "crs"} ~> step \in {"idle", "stopped"}

\* pci_routing.rs:33-34 says of a link object "we just store the resolved name
\* here".  A relative path is stored as it is, and resolving the path of its
\* _CRS against it panics.
LinkNamesResolved ==
    \A i \in 1..Len(entries) : entries[i].route.is = "LinkObject" => is_absolute(entries[i].route.name)
=============================================================================
