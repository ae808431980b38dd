--------------------------- MODULE MCInitObjects ----------------------------
(***************************************************************************)
(* InitObjects with a device below \_SB, levels of every kind below it, a   *)
(* sibling, and a device that may be declared while the traversal runs.     *)
(***************************************************************************)
EXTENDS InitObjects, TLC

Level0(typ, sta, ini) == [typ |-> typ, sta |-> sta, ini |-> ini]

MCSB == <<1>>

MCNamespaces ==
    {(<<>> :> Level0("Scope", FALSE, FALSE)) @@ (MCSB :> Level0("Scope", FALSE, sbIni)) @@
     (<<1, 1>> :> Level0("Device", sta, ini)) @@ (<<1, 1, 1>> :> Level0(typ, TRUE, TRUE)) @@
     (<<1, 1, 1, 1>> :> Level0("Device", FALSE, TRUE)) @@ (<<1, 2>> :> Level0("Device", TRUE, TRUE)) :
        sbIni \in BOOLEAN, sta \in BOOLEAN, ini \in BOOLEAN, typ \in {"Device", "Scope", "Processor"}}

MCNewDevices == (<<1, 1, 2>> :> Level0("Device", FALSE, TRUE)) @@ (<<1, 3>> :> Level0("Device", TRUE, FALSE))
=============================================================================
