----------------------------- MODULE InitObjects ----------------------------
(***************************************************************************)
(* AmlContext::initialize_objects and Namespace::traverse: the `_INI`       *)
(* methods of the devices are run in an order and under conditions the ACPI *)
(* specification lays down, on a copy of the namespace, while the methods   *)
(* that are run go on changing the namespace itself.                        *)
(*                                                                          *)
(* A path is a sequence of numbers, which stand for name segments in the    *)
(* order of the BTreeMap; a level has its type and says which of `_STA` and *)
(* `_INI` it holds.  What a method does is the firmware's: it returns any   *)
(* status, fails, or declares a new device.                                 *)
(***************************************************************************)
EXTENDS SequenceParts, Integers

CONSTANTS
    Namespaces,   \* the namespaces the tables leave behind: path -> level
    SB,           \* the path \_SB
    Statuses,     \* what the _STA methods may return
    NewDevices    \* the devices that methods may declare, which may be
                  \* without end: path -> level

LevelTypes == {"Scope", "Device", "Processor", "PowerResource", "ThermalZone", "MethodLocals"}

\* A namespace is a finite tree of levels.
IsNamespace(levels) ==
    /\ IsFiniteSet(DOMAIN levels) /\ DOMAIN levels \subseteq Seq(Nat)
    /\ <<>> \in DOMAIN levels /\ \A p \in DOMAIN levels \ {<<>>} : AllButLast(p) \in DOMAIN levels
    /\ \A p \in DOMAIN levels : levels[p] \in [typ : LevelTypes, sta : BOOLEAN, ini : BOOLEAN]

ASSUME NamespacesAssumption == \A levels \in Namespaces : IsNamespace(levels)

ASSUME NewDevicesAssumption ==
    \A p \in DOMAIN NewDevices :
        p \in Seq(Nat) \ {<<>>} /\ NewDevices[p] \in [typ : LevelTypes, sta : BOOLEAN, ini : BOOLEAN]

VARIABLES namespace, traversed, pending, at, log, status, outcome

vars == <<namespace, traversed, pending, at, log, status, outcome>>

Errors == {"ValueDoesNotExist", "AnotherError"}

\* Integers that stand for a status; the bits above the fifth are reserved.
ValidStatus(value) == value < 32
as_status(value) == [present |-> value % 2 = 1, functional |-> (value \div 8) % 2 = 1]

\* StatusObject::default.
Default == [present |-> TRUE, functional |-> TRUE]

Invocation(path, method, ok) == [path |-> path, method |-> method, ok |-> ok]

Insert(map, key, v) == [k \in DOMAIN map \cup {key} |-> IF k = key THEN v ELSE map[k]]

\* What a method leaves of the namespace.
MayDeclare ==
    \/ UNCHANGED namespace
    \/ \E path \in DOMAIN NewDevices \ DOMAIN namespace :
          /\ AllButLast(path) \in DOMAIN namespace
          /\ namespace' = Insert(namespace, path, NewDevices[path])

\* The levels right below a level, in the order of the map.
Children(levels, path) ==
    LET below == {p \in DOMAIN levels : p # <<>> /\ AllButLast(p) = path}
    IN  CHOOSE s \in [1..Cardinality(below) -> below] : \A i, j \in DOMAIN s : i < j => LastOf(s[i]) < LastOf(s[j])

----------------------------------------------------------------------------
\* `\_SB._INI` is run if it is there; an error that says it is not is ignored,
\* even when the method itself raised it.  The namespace is copied afterwards.
RunSystemBus ==
    /\ outcome = "none" /\ at = "start"
    /\ \/ /\ SB \in DOMAIN namespace /\ namespace[SB].ini
          /\ MayDeclare
          /\ \/ log' = Append(log, Invocation(SB, "_INI", TRUE)) /\ UNCHANGED outcome
             \/ \E err \in Errors :
                   /\ log' = Append(log, Invocation(SB, "_INI", FALSE))
                   /\ outcome' = IF err = "ValueDoesNotExist" THEN outcome ELSE err
       \/ /\ ~(SB \in DOMAIN namespace /\ namespace[SB].ini)
          /\ UNCHANGED <<namespace, log, outcome>>
    /\ traversed' = namespace'
    /\ pending' = <<<<>>>> /\ at' = "level"
    /\ UNCHANGED status

Level == Head(pending)

\* The traversal walks the namespace itself.
Walked_Live == namespace

\* The levels it walks are those of the copy.
Walked == traversed

\* Only levels of present devices are entered.
EnterChildren_PresentOnly(enter) ==
    pending' = (IF enter /\ (Level \in DOMAIN status => status[Level].present)
                THEN Children(Walked, Level) ELSE <<>>) \o Tail(pending)

EnterChildren(enter) ==
    pending' = (IF enter THEN Children(Walked, Level) ELSE <<>>) \o Tail(pending)

\* Levels other than devices: only scopes are looked into.
VisitOther ==
    /\ outcome = "none" /\ at = "level" /\ pending # <<>>
    /\ Walked[Level].typ # "Device"
    /\ EnterChildren(Walked[Level].typ = "Scope")
    /\ UNCHANGED <<namespace, traversed, at, log, status, outcome>>

\* A device without `_STA` is there and works.
VisitWithoutStatus ==
    /\ outcome = "none" /\ at = "level" /\ pending # <<>>
    /\ Walked[Level].typ = "Device" /\ ~Walked[Level].sta
    /\ status' = Insert(status, Level, Default)
    /\ at' = "ini"
    /\ UNCHANGED <<namespace, traversed, pending, log, outcome>>

\* `_STA` is evaluated; its value may not be a status.
EvaluateStatus ==
    /\ outcome = "none" /\ at = "level" /\ pending # <<>>
    /\ Walked[Level].typ = "Device" /\ Walked[Level].sta
    /\ MayDeclare
    /\ \/ \E value \in Statuses :
             /\ ValidStatus(value)
             /\ log' = Append(log, Invocation(Level, "_STA", TRUE))
             /\ status' = Insert(status, Level, as_status(value))
             /\ at' = "ini"
             /\ UNCHANGED outcome
       \/ \E err \in Errors \cup {"InvalidStatusObject"} :
             /\ log' = Append(log, Invocation(Level, "_STA", FALSE))
             /\ outcome' = err
             /\ UNCHANGED <<status, at>>
    /\ UNCHANGED <<traversed, pending>>

\* A present device with an `_INI` is initialised.
RunIni ==
    /\ outcome = "none" /\ at = "ini"
    /\ status[Level].present /\ Walked[Level].ini
    /\ MayDeclare
    /\ \/ /\ log' = Append(log, Invocation(Level, "_INI", TRUE))
          /\ EnterChildren(status[Level].present \/ status[Level].functional)
          /\ at' = "level"
          /\ UNCHANGED outcome
       \/ \E err \in Errors :
             /\ log' = Append(log, Invocation(Level, "_INI", FALSE))
             /\ outcome' = err
             /\ UNCHANGED <<pending, at>>
    /\ UNCHANGED <<traversed, status>>

\* There is no `_INI` to run, or no device to run it for.
SkipIni ==
    /\ outcome = "none" /\ at = "ini"
    /\ ~(status[Level].present /\ Walked[Level].ini)
    /\ EnterChildren(status[Level].present \/ status[Level].functional)
    /\ at' = "level"
    /\ UNCHANGED <<namespace, traversed, log, status, outcome>>

Finish ==
    /\ outcome = "none" /\ at = "level" /\ pending = <<>>
    /\ outcome' = "Ok"
    /\ UNCHANGED <<namespace, traversed, pending, at, log, status>>

Init ==
    /\ namespace \in Namespaces /\ traversed = [p \in {<<>>} |-> [typ |-> "Scope", sta |-> FALSE, ini |-> FALSE]]
    /\ pending = <<>> /\ at = "start" /\ log = <<>> /\ status = [p \in {} |-> Default]
    /\ outcome = "none"

Next ==
    \/ RunSystemBus \/ VisitOther \/ VisitWithoutStatus \/ EvaluateStatus \/ RunIni \/ SkipIni \/ Finish

Spec == Init /\ [][Next]_vars

----------------------------------------------------------------------------
\* The invocations made by the traversal: all but that of `\_SB._INI`.
OfTraversal == {i \in DOMAIN log : ~(log[i].path = SB /\ log[i].method = "_INI" /\ i = 1)}

ProperPrefixes(path) == {SubSeq(path, 1, n) : n \in 0..(Len(path) - 1)}

\* A level is to be reached if every level above it is a scope, or a device
\* that is present or functional.
Reached(path) ==
    \A q \in ProperPrefixes(path) :
        \/ traversed[q].typ = "Scope"
        \/ traversed[q].typ = "Device" /\ q \in DOMAIN status /\ (status[q].present \/ status[q].functional)

Runs(path, method) == {i \in OfTraversal : log[i].path = path /\ log[i].method = method}

\* When initialize_objects succeeds, it has taken the status of every device
\* it is to reach and run its `_INI`, once, if it is present, and run no other.
Complete ==
    \A p \in DOMAIN traversed :
        IF traversed[p].typ = "Device" /\ Reached(p)
        THEN /\ p \in DOMAIN status
             /\ Cardinality(Runs(p, "_STA")) = IF traversed[p].sta THEN 1 ELSE 0
             /\ Cardinality(Runs(p, "_INI")) = IF traversed[p].ini /\ status[p].present THEN 1 ELSE 0
        ELSE Runs(p, "_STA") = {} /\ Runs(p, "_INI") = {}

\* A device is dealt with before whatever is below it, and its `_STA` before
\* its `_INI`, as the comment on StatusObject (value.rs:110) demands; a whole
\* subtree is done before its next sibling is begun.
ParentsFirst ==
    \A i, j \in OfTraversal :
        i < j =>
            /\ log[j].path \notin ProperPrefixes(log[i].path)
            /\ log[i].path = log[j].path => log[i].method = "_STA" /\ log[j].method = "_INI"
            /\ \A k \in OfTraversal :
                  j < k /\ log[i].path \in ProperPrefixes(log[k].path) => log[i].path \in ProperPrefixes(log[j].path)
                                                                          \/ log[i].path = log[j].path

\* initialize_objects invokes the methods of all the devices it is to reach,
\* once each, parents first.  At no point, on runs that fail included, has it
\* invoked anything below a device that is neither present nor functional, a
\* processor, a power resource, a thermal zone or the locals of a method, and
\* the first method that fails is the last one it invokes.
InitializedOnceInOrder ==
    /\ outcome = "Ok" => Complete
    /\ ParentsFirst
    /\ \A i \in OfTraversal : Reached(log[i].path) /\ (~log[i].ok => i = Len(log))

Devices(levels) == {p \in DOMAIN levels : levels[p].typ = "Device"}

\* However many devices the methods go on declaring, the traversal invokes
\* methods of the devices only that were in the namespace when it was copied,
\* and no more than two for each of them: it ends even if every `_INI`
\* declares a device whose `_INI` declares the next one.
TraversalIsBounded ==
    at # "start" =>
        /\ \A i \in OfTraversal : log[i].path \in Devices(traversed)
        /\ Cardinality(OfTraversal) <= 2 * Cardinality(Devices(traversed))
=============================================================================
