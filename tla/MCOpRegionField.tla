-------------------------- MODULE MCOpRegionField ---------------------------
(***************************************************************************)
(* OpRegionField with bytes of two bits, and so integers of 16.             *)
(***************************************************************************)
EXTENDS OpRegionField

Named(length) == [named |-> TRUE, length |-> length]
Reserved(length) == [named |-> FALSE, length |-> length]

\* Fields within a byte, across bytes, as long as an access and longer than an
\* integer, with gaps between them, in regions that are just large enough.
MCFieldLists ==
    {<<Named(1), Named(1)>>, <<Named(2), Named(3)>>, <<Reserved(2), Named(1), Named(5)>>, <<Named(0)>>, <<Named(17)>>,
     <<Named(4), Reserved(2), Named(2)>>}

MCRegions ==
    {[space |-> space, base |-> 1, length |-> 4, adr |-> adr] :
        space \in {"SystemMemory", "SystemIo", "PciConfig", "EmbeddedControl"}, adr \in BOOLEAN}

MCMemories == {[a \in 0..20 |-> 0], [a \in 0..20 |-> 3], [a \in 0..20 |-> a % 3]}
MCMemory == {[a \in 0..20 |-> a % 3]}
=============================================================================
