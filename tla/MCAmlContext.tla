---------------------------- MODULE MCAmlContext ----------------------------
(***************************************************************************)
(* AmlContext with one predefined level (\_SB, say), one predefined method  *)
(* (\_OSI) and four sorts of program.  Tables use a name of one segment, to *)
(* which the search rules apply, one that climbs, and absolute ones.        *)
(***************************************************************************)
EXTENDS AmlContext

MCOSI == <<Root, "O">>
MCPredefined == {<<Root, "S">>}
MCValues == AmlValues

BlockNames == {<<"A">>, <<Prefix, "A">>}

\* Blocks of every kind, methods called in them, and returns out of them.
Blocks ==
    [terms |-> {"Method", "Scope", "Device", "Processor", "PowerResource", "ThermalZone", "Return"},
     names |-> BlockNames, field_lists |-> {}, arg_counts |-> {0}, max_frames |-> 3, max_objects |-> 3]

\* Methods with arguments, recursion, the native method, and errors.
Methods ==
    [terms |-> {"Mutex", "Method", "If", "Return", "Fatal"},
     names |-> {<<"A">>, <<"O">>}, field_lists |-> {}, arg_counts |-> {1}, max_frames |-> 4, max_objects |-> 3]

\* Loops, with jumps out of blocks and methods.
Loops ==
    [terms |-> {"Method", "Scope", "Name", "While", "Return"},
     names |-> BlockNames, field_lists |-> {}, arg_counts |-> {0}, max_frames |-> 3, max_objects |-> 3]

\* Regions and fields.  The method \S takes the level \S along when it returns,
\* and with it a region that a field at the root was declared over; the second
\* name of a field list is taken at the root.
Objects ==
    [terms |-> {"Method", "Scope", "OpRegion", "Field"},
     names |-> {<<Root, "S">>, <<Root, "S", "A">>}, field_lists |-> {<<"A", "O">>}, arg_counts |-> {0},
     max_frames |-> 2, max_objects |-> 4]

MCPrograms == {Blocks, Methods, Loops, Objects}

\* Deep recursion, for the run that shows what it does to the caller.
Recursion ==
    {[terms |-> {"Method"}, names |-> BlockNames, field_lists |-> {}, arg_counts |-> {0},
      max_frames |-> 6, max_objects |-> 3]}
=============================================================================
