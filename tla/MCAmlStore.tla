----------------------------- MODULE MCAmlStore -----------------------------
(***************************************************************************)
(* AmlStore with bytes of two bits, and so integers of 16, and three sorts  *)
(* of program.                                                              *)
(***************************************************************************)
EXTENDS AmlStore, TLC

MCIntegers == {1, 65535}

\* A buffer of two bytes, and one of nine: longer than an integer.
Short == <<1, 0, 1, 1>>
Long == [i \in 1..18 |-> IF i % 3 = 0 THEN 0 ELSE 1]

\* Buffer fields of every size, in buffers that have room for them or not.
Fields ==
    [operators |-> {"DefName", "DefCreateBitField", "DefCreateByteField", "DefCreateWordField",
                    "DefCreateDwordField", "DefCreateQwordField", "DefCreateField", "DefStore"},
     byte_lists |-> {Short, Long}, indices |-> {0, 1, 17}, max_steps |-> 4]

\* The operators that make buffers of buffers, and the comparisons.
Buffers ==
    [operators |-> {"DefName", "DefCreateField", "DefConcat", "DefConcatRes", "DefMid", "DefToInteger", "Compare"},
     byte_lists |-> {Short}, indices |-> {1}, max_steps |-> 3]

\* The operators on integers.
Arithmetics ==
    [operators |-> {"DefName", "DefCreateField", "DefAdd", "DefAnd", "DefShiftLeft", "DefShiftRight",
                    "DefIncrement", "DefDecrement", "DefLOr"},
     byte_lists |-> {Short}, indices |-> {1}, max_steps |-> 3]

MCPrograms == {Fields, Buffers, Arithmetics}

NameSymmetry == Permutations(Names)
=============================================================================
