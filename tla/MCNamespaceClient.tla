------------------------- MODULE MCNamespaceClient -------------------------
(***************************************************************************)
(* NamespaceClient with two segments, names up to three segments deep, and  *)
(* the names on which the methods fail: the root, a name to be normalised,  *)
(* a name that cannot be, and a relative name.  A run either makes calls on *)
(* the namespace or looks at a name and a scope, which it picks first.      *)
(***************************************************************************)
EXTENDS NamespaceClient, AmlNameAlgorithms

MCNames ==
    {root, <<Root, "A">>, <<Root, "B">>, <<Root, "A", "A">>, <<Root, "A", "B">>, <<Root, "A", "B", "A">>,
     <<Root, "B", Prefix, "A">>, <<Root, Prefix, "A">>, <<"A">>}

MCInit ==
    /\ Init
    /\ \/ name = <<>> /\ scope = root
       \/ name \in BoundedNames /\ scope \in BoundedScopes

MCNext == ~Picked /\ Next /\ UNCHANGED <<name, scope>>

MCSpec == MCInit /\ [][MCNext]_<<vars, name, scope>>
=============================================================================
