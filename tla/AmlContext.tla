----------------------------- MODULE AmlContext -----------------------------
(***************************************************************************)
(* The AML interpreter (aml/src/lib.rs, term_object.rs, statement.rs and    *)
(* method_invocation of expression.rs): how it walks the term lists of a    *)
(* table and of the methods invoked from it, which scope and which method   *)
(* context it is in, and how Break, Continue, Return and errors travel.     *)
(*                                                                          *)
(* The parsers recurse; `frames` is their call stack.  `propagate` is the   *)
(* `Propagate` that is on its way up, "none" while terms are executed.      *)
(* Which term comes next, and what a predicate or an operand evaluates to,  *)
(* is left open: Next ranges over all programs of the sort chosen.  A frame *)
(* remembers the scope and the method context it was pushed in; the code    *)
(* keeps them for blocks and methods, and they are history for the others,  *)
(* as is the next handle when a method was entered.                         *)
(***************************************************************************)
EXTENDS Namespace

CONSTANTS Programs,     \* the sorts of AML programs that may be loaded
          Predefined,   \* the levels of add_predefined_objects
          OSI,          \* the native method it defines
          MaxDepth      \* bound on the length of the scopes entered

\* A sort of program: the kinds of term it is made of, the names and the
\* lists of field names that occur in it, the numbers of arguments its
\* methods take, and bounds on the call stack and on the objects it creates.
ASSUME ProgramsAssumption ==
    \A p \in Programs :
        /\ DOMAIN p = {"terms", "names", "field_lists", "arg_counts", "max_frames", "max_objects"}
        /\ p.names \subseteq WellFormed /\ p.field_lists \subseteq Seq(Segs)
        /\ p.arg_counts \subseteq 0..7 /\ {p.max_frames, p.max_objects, MaxDepth} \subseteq Nat

\* What add_predefined_objects creates is at the root, and there is room for it.
ASSUME PredefinedAssumption ==
    /\ Predefined \cup {OSI} \subseteq {<<Root, seg>> : seg \in Segs}
    /\ HandleSpace > 1

ASSUME LevelTypesAssumption ==
    {"Scope", "Device", "Processor", "PowerResource", "ThermalZone", "MethodLocals"} \subseteq LevelTypes

VARIABLES program, ns, current_scope, method_context, frames, propagate, returned

vars == <<program, ns, current_scope, method_context, frames, propagate, returned>>

NoMethod == 0   \* method_context: None

Data == [type |-> "Data"]
Method(code, arg_count) == [type |-> "Method", code |-> code, arg_count |-> arg_count]

AmlValues ==
    {Data} \cup
    [type : {"Mutex", "OpRegion", "Device", "Processor", "PowerResource", "ThermalZone"}] \cup
    [type : {"Field"}, region : Handles] \cup
    {Method(code, arg_count) : code \in {"Aml", "Native"}, arg_count \in 0..7}

Running == frames # <<>> /\ propagate = "none"
Top == LastOf(frames)
InTermList == Running /\ Top.kind # "args"
Allowed(term) == term \in program.terms
RoomForFrame == Len(frames) < program.max_frames
RoomForObject == ns.next_handle < program.max_objects
RoomForBlock == RoomForFrame /\ Len(current_scope) < MaxDepth

Frame(kind, name, args) ==
    [kind |-> kind, name |-> name, args |-> args, scope |-> current_scope, context |-> method_context,
     handle |-> IF kind = "method" THEN ns.next_handle ELSE 0]

Push(frame) == frames' = Append(frames, frame)
Pop == frames' = AllButLast(frames)

\* What an error does to a running term: it starts to propagate; a panic
\* stops the interpreter for good.
Raised(res) ==
    IF res.ok THEN "none" ELSE IF res = Panic THEN "Panic" ELSE "Err"

----------------------------------------------------------------------------
\* What every definition of a plain object ends in: the object is added, and
\* an error takes over.
AddObject(added) ==
    /\ InTermList /\ RoomForObject
    /\ ns' = added.ns /\ propagate' = Raised(added.res)
    /\ UNCHANGED <<program, current_scope, method_context, frames, returned>>

DefName(name) == AddObject(add_value_at_resolved_path(ns, name, current_scope, Data))

DefMethod(name, arg_count) ==
    AddObject(add_value_at_resolved_path(ns, name, current_scope, Method("Aml", arg_count)))

DefMutex(name) == AddObject(add_value_at_resolved_path(ns, name, current_scope, [type |-> "Mutex"]))

\* Regions in PCI, IPMI and serial bus space need the device they are in.
DefOpRegion(name, needs_parent) ==
    LET path == resolve(name, current_scope)
        parent_device == IF path.ok THEN parent(path.val) ELSE path
    IN  AddObject(IF needs_parent /\ ~parent_device.ok
                  THEN [ns |-> ns, res |-> parent_device]
                  ELSE add_value_at_resolved_path(ns, name, current_scope, [type |-> "OpRegion"]))

\* field_element: one named field of a field list, unless an earlier one
\* has failed.  What was added before a failure stays.
FieldElement(added, seg, region) ==
    IF added.res.ok
    THEN add_value_at_resolved_path(added.ns, <<seg>>, current_scope, [type |-> "Field", region |-> region])
    ELSE added

\* The loop of def_field: one field after the other.
FieldElements(segs, region) ==
    FoldInOrder(LAMBDA added, seg : FieldElement(added, seg, region), [ns |-> ns, res |-> Unit], segs)

\* def_field: the region is looked up once, and each field keeps its handle.
DefField(region_name, segs) ==
    LET found == search(ns, region_name, current_scope)
    IN  AddObject(IF found.ok THEN FieldElements(segs, found.val.handle) ELSE [ns |-> ns, res |-> found])

\* def_scope: the scope is entered before the level is created.
DefScope(name) ==
    /\ InTermList /\ RoomForBlock
    /\ LET scope == resolve(name, current_scope)
           added == add_level(ns, scope.val, "Scope")
       IN  \/ /\ ~scope.ok
              /\ propagate' = Raised(scope)
              /\ UNCHANGED <<ns, current_scope, frames>>
           \/ /\ scope.ok
              /\ current_scope' = scope.val
              /\ ns' = added.ns
              /\ propagate' = Raised(added.res)
              /\ IF added.res.ok THEN Push(Frame("block", scope.val, 0)) ELSE UNCHANGED frames
    /\ UNCHANGED <<program, method_context, returned>>

\* The value of the object is added, and then its level.
ValueThenLevel(path, type) ==
    LET value == add_value(ns, path, [type |-> type])
    IN  IF value.res.ok THEN add_level(value.ns, path, type) ELSE value

\* The level is added first; it stays when the value cannot be added.
LevelThenValue(path, type) ==
    LET level == add_level(ns, path, type)
    IN  IF level.res.ok THEN add_value(level.ns, path, [type |-> type]) ELSE level

\* Only when both are there is the scope entered.
EnterObject(path, added) ==
    /\ InTermList /\ RoomForBlock /\ RoomForObject
    /\ \/ /\ ~path.ok
          /\ propagate' = Raised(path)
          /\ UNCHANGED <<ns, current_scope, frames>>
       \/ /\ path.ok
          /\ ns' = added.ns
          /\ propagate' = Raised(added.res)
          /\ IF added.res.ok
             THEN current_scope' = path.val /\ Push(Frame("block", path.val, 0))
             ELSE UNCHANGED <<current_scope, frames>>
    /\ UNCHANGED <<program, method_context, returned>>

DefDevice(name) ==
    LET path == resolve(name, current_scope) IN EnterObject(path, ValueThenLevel(path.val, "Device"))

DefProcessor(name) ==
    LET path == resolve(name, current_scope) IN EnterObject(path, LevelThenValue(path.val, "Processor"))

DefPowerRes(name) ==
    LET path == resolve(name, current_scope) IN EnterObject(path, LevelThenValue(path.val, "PowerResource"))

DefThermalZone(name) ==
    LET path == resolve(name, current_scope) IN EnterObject(path, ValueThenLevel(path.val, "ThermalZone"))

----------------------------------------------------------------------------
\* Control goes back to the frames below: to the terms there, to the
\* propagation of an error, or, when there are none, to the user's call.
Finish(below, outcome) ==
    /\ frames' = below
    /\ IF below = <<>> /\ outcome # "Panic"
       THEN propagate' = "none" /\ returned' = IF outcome = "none" THEN "Ok" ELSE "Err"
       ELSE propagate' = outcome /\ UNCHANGED returned

\* One argument less to parse for the invocation on top, if there is one.
ArgParsed == IF Top.kind = "args" THEN [frames EXCEPT ![Len(frames)].args = @ - 1] ELSE frames

ExpectsTerm == Running /\ (Top.kind = "args" => Top.args > 0)

\* method_invocation up to its argument list: the name is looked up, and the
\* method found there says how many arguments to parse.
MethodInvocation(name) ==
    /\ ExpectsTerm /\ RoomForFrame
    /\ LET found == search(ns, name, current_scope)
           object == ns.object_map[found.val.handle]
       IN  /\ propagate' = Raised(found)
           /\ frames' = IF ~found.ok THEN frames
                        ELSE IF object.type # "Method" THEN ArgParsed
                        ELSE Append(ArgParsed, Frame("args", found.val.name, object.arg_count))
    /\ UNCHANGED <<program, ns, current_scope, method_context, returned>>

\* An argument that is a data object, an argument or a local variable.
PlainArgument ==
    /\ ExpectsTerm /\ Top.kind = "args"
    /\ frames' = ArgParsed
    /\ UNCHANGED <<program, ns, current_scope, method_context, propagate, returned>>

\* A term that fails by itself: def_fatal, or an operand of the wrong type.
Failing ==
    /\ ExpectsTerm
    /\ propagate' = "Err"
    /\ UNCHANGED <<program, ns, current_scope, method_context, frames, returned>>

\* invoke_method up to the first term of the method.  The method context and
\* the scope are replaced first, and stay replaced if the level cannot be
\* added.  Something that is not a method is its own value.
Enter(path, below) ==
    LET found == get_by_path(ns, path)
        added == add_level(ns, path, "MethodLocals")
    IN  \/ /\ ~found.ok
           /\ Finish(below, Raised(found))
           /\ UNCHANGED <<ns, current_scope, method_context>>
        \/ /\ found.ok /\ found.val.type # "Method"
           /\ Finish(below, "none")
           /\ UNCHANGED <<ns, current_scope, method_context>>
        \/ /\ found.ok /\ found.val.type = "Method" /\ (found.val.code = "Aml" \/ ~added.res.ok)
           /\ ns' = added.ns /\ current_scope' = path /\ method_context' = Len(below) + 1
           /\ IF added.res.ok
              THEN frames' = Append(below, Frame("method", path, 0)) /\ returned' = "none" /\ UNCHANGED propagate
              ELSE Finish(below, Raised(added.res))
        \/ /\ found.ok /\ found.val.type = "Method" /\ found.val.code = "Native" /\ added.res.ok
           /\ ns' = remove_level(added.ns, path).ns
           /\ \E outcome \in {"none", "Err"} : Finish(below, outcome)
           /\ UNCHANGED <<current_scope, method_context>>

\* The arguments are parsed; the method is looked up again, by its path.
Invoke ==
    /\ Running /\ Top.kind = "args" /\ Top.args = 0
    /\ Enter(Top.name, AllButLast(frames))
    /\ UNCHANGED program

\* def_if_else and def_while with a predicate that is true (with one that is
\* false they do nothing).
DefNested(kind) ==
    /\ InTermList /\ RoomForFrame
    /\ Push(Frame(kind, root, 0))
    /\ UNCHANGED <<program, ns, current_scope, method_context, propagate, returned>>

\* def_break, def_continue, def_return.
DefJump(jump) ==
    /\ InTermList
    /\ propagate' = jump
    /\ UNCHANGED <<program, ns, current_scope, method_context, frames, returned>>

----------------------------------------------------------------------------
\* The level with the locals is left where it is.
ExitMethod_KeepsLocals(outcome) ==
    /\ ns' = ns
    /\ current_scope' = Top.scope /\ method_context' = Top.context
    /\ Finish(AllButLast(frames), outcome)

\* The method context is not put back.
ExitMethod_KeepsContext(outcome) ==
    LET removed == remove_level(ns, Top.name)
    IN  /\ ns' = removed.ns
        /\ method_context' = NoMethod
        /\ IF removed.res.ok
           THEN current_scope' = Top.scope /\ Finish(AllButLast(frames), outcome)
           ELSE UNCHANGED current_scope /\ Finish(AllButLast(frames), Raised(removed.res))

\* The scope is not put back.
ExitMethod_KeepsScope(outcome) ==
    LET removed == remove_level(ns, Top.name)
    IN  /\ ns' = removed.ns
        /\ current_scope' = current_scope
        /\ IF removed.res.ok
           THEN method_context' = Top.context /\ Finish(AllButLast(frames), outcome)
           ELSE UNCHANGED method_context /\ Finish(AllButLast(frames), Raised(removed.res))

\* invoke_method after the last term: the level with the locals is removed,
\* then the caller's context and scope are put back; if the level is gone
\* already, the call fails without putting them back.
ExitMethod(outcome) ==
    LET removed == remove_level(ns, Top.name)
    IN  /\ ns' = removed.ns
        /\ IF removed.res.ok
           THEN /\ current_scope' = Top.scope /\ method_context' = Top.context
                /\ Finish(AllButLast(frames), outcome)
           ELSE /\ UNCHANGED <<current_scope, method_context>>
                /\ Finish(AllButLast(frames), Raised(removed.res))

\* The end of a term list.  A block goes back to the scope it came from; a
\* loop looks at its predicate and may start over, which changes nothing.
EndOfTable ==
    /\ InTermList /\ Top.kind = "table"
    /\ Finish(<<>>, "none")
    /\ UNCHANGED <<program, ns, current_scope, method_context>>

EndOfBlock ==
    /\ InTermList /\ Top.kind = "block"
    /\ current_scope' = Top.scope
    /\ Pop
    /\ UNCHANGED <<program, ns, method_context, propagate, returned>>

EndOfNested ==
    /\ InTermList /\ Top.kind \in {"if", "while"}
    /\ Pop
    /\ UNCHANGED <<program, ns, current_scope, method_context, propagate, returned>>

EndOfMethod == InTermList /\ Top.kind = "method" /\ ExitMethod("none") /\ UNCHANGED program

----------------------------------------------------------------------------
Unwinding == frames # <<>> /\ propagate \in {"Break", "Continue", "Return", "Err"}

\* Blocks, branches and invocations waiting for arguments pass anything on;
\* the scope of a block is not put back.
UnwindThrough ==
    /\ Unwinding /\ Top.kind \in {"block", "if", "args"}
    /\ Pop
    /\ UNCHANGED <<program, ns, current_scope, method_context, propagate, returned>>

\* The body is started again with the Continue still under way.
UnwindLoop_KeepsJump ==
    /\ Unwinding /\ Top.kind = "while"
    /\ \/ propagate = "Break" /\ Pop /\ propagate' = "none"
       \/ propagate = "Continue" /\ Push(Frame("if", root, 0)) /\ UNCHANGED propagate
       \/ propagate \in {"Return", "Err"} /\ Pop /\ UNCHANGED propagate
    /\ UNCHANGED <<program, ns, current_scope, method_context, returned>>

\* def_while ends on a Break and looks at its predicate on a Continue.
UnwindLoop ==
    /\ Unwinding /\ Top.kind = "while"
    /\ \/ propagate = "Break" /\ Pop /\ propagate' = "none"
       \/ propagate = "Continue" /\ (Pop \/ UNCHANGED frames) /\ propagate' = "none"
       \/ propagate \in {"Return", "Err"} /\ Pop /\ UNCHANGED propagate
    /\ UNCHANGED <<program, ns, current_scope, method_context, returned>>

\* A Return ends the method as its last term would; a loop jump that got this
\* far is an error.
UnwindMethod ==
    /\ Unwinding /\ Top.kind = "method"
    /\ ExitMethod(IF propagate = "Return" THEN "none" ELSE "Err")
    /\ UNCHANGED program

\* parse_table turns whatever arrives into an error.
UnwindTable ==
    /\ Unwinding /\ Top.kind = "table"
    /\ Finish(<<>>, "Err")
    /\ UNCHANGED <<program, ns, current_scope, method_context>>

Unwind == UnwindThrough \/ UnwindLoop \/ UnwindMethod \/ UnwindTable

----------------------------------------------------------------------------
Idle == frames = <<>> /\ propagate = "none"

\* AmlContext::new.  Of the predefined objects only the native method counts.
Init ==
    /\ program \in Programs
    /\ ns = [next_handle |-> 1,
             object_map |-> [h \in {0} |-> Method("Native", 1)],
             levels |-> [l \in {root} \cup Predefined |-> "Scope"],
             values |-> [n \in {OSI} |-> 0]]
    /\ current_scope = root /\ method_context = NoMethod
    /\ frames = <<>> /\ propagate = "none" /\ returned = "none"

\* parse_table, which refuses an empty table.
ParseTable ==
    /\ Idle
    /\ \/ frames' = <<Frame("table", root, 0)>> /\ returned' = "none"
       \/ UNCHANGED frames /\ returned' = "Err"
    /\ UNCHANGED <<program, ns, current_scope, method_context, propagate>>

\* invoke_method, called by the user of the library.
InvokeMethod(path) == Idle /\ Enter(path, <<>>) /\ UNCHANGED program

Term(name) ==
    \/ Allowed("Name") /\ DefName(name)
    \/ Allowed("Method") /\ \E arg_count \in program.arg_counts : DefMethod(name, arg_count)
    \/ Allowed("Mutex") /\ DefMutex(name)
    \/ Allowed("OpRegion") /\ \E needs_parent \in BOOLEAN : DefOpRegion(name, needs_parent)
    \/ Allowed("Field") /\ \E segs \in program.field_lists : DefField(name, segs)
    \/ Allowed("Scope") /\ DefScope(name)
    \/ Allowed("Device") /\ DefDevice(name)
    \/ Allowed("Processor") /\ DefProcessor(name)
    \/ Allowed("PowerResource") /\ DefPowerRes(name)
    \/ Allowed("ThermalZone") /\ DefThermalZone(name)
    \/ MethodInvocation(name)

Statement ==
    \/ Allowed("If") /\ DefNested("if")
    \/ Allowed("While") /\ DefNested("while")
    \/ Allowed("While") /\ \E jump \in {"Break", "Continue"} : DefJump(jump)
    \/ Allowed("Return") /\ DefJump("Return")
    \/ Allowed("Fatal") /\ Failing

End == EndOfTable \/ EndOfBlock \/ EndOfNested \/ EndOfMethod

Next ==
    \/ ParseTable
    \/ \E seg \in Segs : InvokeMethod(<<Root, seg>>)
    \/ \E name \in program.names : Term(name)
    \/ Statement \/ PlainArgument \/ Invoke \/ End \/ Unwind

\* The interpreter is a sequential program: a propagation under way is not
\* left standing.
Spec == Init /\ [][Next]_vars /\ WF_vars(Unwind)

----------------------------------------------------------------------------
\* The innermost of the frames of these kinds, or 0.
Innermost(kinds) == LET S == {i \in 1..Len(frames) : frames[i].kind \in kinds} IN IF S = {} THEN 0 ELSE Max(S)

\* While terms are executed, the current scope is that of the block or the
\* method they are written in, however the interpreter got there: out of
\* blocks, back from methods that returned in the middle of a block, and also
\* after earlier calls have failed.  (A Break or Continue out of a block does
\* leave the loop in the scope of the block.)
LexicalScope ==
    LET i == Innermost({"block", "method"})
    IN  Running /\ ~Allowed("While") => current_scope = IF i = 0 THEN frames[1].scope ELSE frames[i].name

\* While terms are executed, the arguments and locals in reach are those of
\* the innermost method: `method_context` is the one made for its invocation.
ContextOfInnermostMethod ==
    LET i == Innermost({"method"})
    IN  Running => method_context = IF i = 0 THEN frames[1].context ELSE i

\* A level of method locals exists only while its method is on the stack:
\* Return, jumps and errors all clean up, in recursive calls too.
LocalsBelongToInvocation ==
    \A l \in DOMAIN ns.levels : ns.levels[l] = "MethodLocals" =>
        \E i \in 1..Len(frames) : frames[i].kind = "method" /\ frames[i].name = l

\* The region of a field can be looked up for as long as the field can, and
\* is the object it was declared over: the region may have been local to a
\* method and the field not.
FieldsKeepRegion ==
    \A h \in DOMAIN ns.object_map : ns.object_map[h].type = "Field" =>
        ns.object_map[h].region \in DOMAIN ns.object_map \cap 0..(h - 1)

\* Whatever propagates is caught in the end, by a loop, a method or the call.
PropagationEnds == Unwinding ~> ~Unwinding

----------------------------------------------------------------------------
MethodReturns == frames # <<>> /\ Top.kind = "method" /\ Len(frames') < Len(frames)

\* lib.rs:173-174 says "Save the current method state and scope, so if we're
\* already executing another control method, we resume into it correctly."
ResumesCaller ==
    [][MethodReturns => current_scope' = Top.scope /\ method_context' = Top.context]_vars

\* lib.rs:211 says "Locally-created objects should be destroyed on method
\* exit": a name bound to a handle from before the method was entered is not
\* local to it.
OnlyLocalsDestroyed ==
    [][MethodReturns => {n \in DOMAIN ns.values : ns.values[n] < Top.handle} \subseteq DOMAIN ns'.values]_vars

\* statement.rs:243-245 says of Continue "We don't need to do anything special
\* here": the predicate is evaluated again, in the scope of the loop.
LoopKeepsScope ==
    [][frames # <<>> /\ Top.kind = "while" /\ propagate = "Continue" => current_scope = Top.scope]_vars
=============================================================================
