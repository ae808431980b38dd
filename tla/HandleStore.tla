---------------------------- MODULE HandleStore ----------------------------
(***************************************************************************)
(* What the namespace promises of its handles to whoever caches one         *)
(* (aml/src/namespace.rs:13-16): a handle is issued once, and a name is     *)
(* only ever bound to a handle that is new, so an old handle never comes to *)
(* point to another object.                                                 *)
(***************************************************************************)
EXTENDS Functions

CONSTANT Handle

VARIABLES issued,   \* the handles given out so far
          bound     \* the names there are now, each with its handle

Init == issued = {} /\ bound = [n \in {} |-> 0]

\* A new handle is issued, and at most one name is bound to it.
Issue ==
    \E h \in Handle \ issued :
        /\ issued' = issued \cup {h}
        /\ \/ bound' = bound
           \/ \E n \in DOMAIN bound' :
                 bound' = [m \in DOMAIN bound \cup {n} |-> IF m = n THEN h ELSE bound[m]]

\* Names disappear; the others keep their handles, and no handle comes back.
Forget ==
    /\ issued' = issued
    /\ DOMAIN bound' \subseteq DOMAIN bound
    /\ bound' = Restrict(bound, DOMAIN bound')

Next == Issue \/ Forget

Spec == Init /\ [][Next]_<<issued, bound>>
=============================================================================
