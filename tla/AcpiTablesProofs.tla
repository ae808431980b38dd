-------------------------- MODULE AcpiTablesProofs --------------------------
(***************************************************************************)
(* Proofs about AcpiTables, for every memory, every root table and every    *)
(* number of mappings a user may hold, and about RsdpSearch, whose RSDP the *)
(* tables are read from, for areas of every place and size, every value in  *)
(* the BIOS data area and every contents of memory.                         *)
(***************************************************************************)
EXTENDS AcpiTables, RsdpSearch, FiniteSetTheorems, SequenceTheorems, TLAPS

Ids == 1..(MaxHeld + 4)
Owned == Range(call.owned)
Root == {root_table} \ {None}

Calls ==
    [op : {"none", "new", "find", "dsdt", "ssdt"},
     pc : {"idle", "rsdp", "root", "scan", "peek", "check", "remap", "ssdt", "ssdt_check", "panic"},
     signature : DOMAIN TypeWords \cup {"none", "FACP", "DSDT"}, index : Nat, address : Nat, owned : Seq(Ids)]

\* How many mappings a call owns at each of its steps.
Fadts == IF call.op = "dsdt" /\ call.signature = "DSDT" THEN 1 ELSE 0
OwnedCount ==
    CASE call.pc \in {"idle", "scan", "ssdt"} -> 0
      [] call.pc \in {"rsdp", "ssdt_check", "panic"} -> 1
      [] call.pc = "root" -> 2
      [] call.pc \in {"peek", "remap"} -> Fadts
      [] call.pc = "check" -> Fadts + 1

Shape ==
    /\ machine \in Machines /\ call \in Calls
    /\ Len(call.owned) = OwnedCount
    /\ call.pc = "idle" <=> call = NoCall
    /\ call.pc \in {"rsdp", "root"} => call.op = "new" /\ root_table = None
    /\ call.pc \in {"scan", "peek", "check", "remap"} => call.op \in {"find", "dsdt"}
    /\ call.pc = "scan" => call.index > 0 /\ Fadts = 0
    /\ call.pc \in {"peek", "check", "remap"} => call.address \in DOMAIN Sdts
    /\ ssdt_remaining \in Nat
    /\ ssdt_remaining > 0 \/ call.pc \in {"ssdt", "ssdt_check"} => Len(machine.words) >= 2

\* Each mapping has one owner.
Owners ==
    /\ held \subseteq Ids /\ IsFiniteSet(held) /\ Cardinality(held) <= MaxHeld
    /\ call.op = "find" => Cardinality(held) < MaxHeld
    /\ root_table \in {None} \cup Ids
    /\ IsInjective(call.owned)
    /\ Owned \cap held = {} /\ Owned \cap Root = {} /\ held \cap Root = {}

\* What is mapped has an owner, and the other way round if nothing is reused.
Mappings ==
    /\ DOMAIN live \subseteq held \cup Root \cup Owned
    /\ Root \subseteq DOMAIN live
    /\ call.pc \in {"rsdp", "root"} => Owned \subseteq DOMAIN live
    /\ Exact => held \cup Owned \subseteq DOMAIN live
    /\ Exact /\ call.pc = "check" => live[LastOf(call.owned)].mapped_length = HeaderWords

IInv == Shape /\ Owners /\ Mappings

----------------------------------------------------------------------------
\* There is always a region that is not in use.
LEMMA FreshRegionIsFree ==
    ASSUME Shape, Owners, Mappings, Len(call.owned) <= 2
    PROVE  FreshRegion \in Ids /\ FreshRegion \notin DOMAIN live \cup held \cup Owned
<1> DEFINE used == held \cup Root \cup Owned
<1>1. IsFiniteSet(Root) /\ Cardinality(Root) <= 1
  <2>1. Root = {} \/ Root = {root_table}
    BY DEF Root
  <2>2. IsFiniteSet(Root) /\ (Cardinality(Root) = 0 \/ Cardinality(Root) = 1)
    BY <2>1, FS_EmptySet, FS_Singleton, Zenon
  <2> QED
    BY <2>2
<1>2. IsFiniteSet(Owned) /\ Cardinality(Owned) <= 2
  <2>1. call.owned \in Seq(Ids) /\ Len(call.owned) \in 0..2
    BY DEF Shape, Calls
  <2>2. Owned \subseteq {call.owned[1]} \cup {call.owned[2]}
    BY <2>1 DEF Owned, Range
  <2>3. /\ IsFiniteSet({call.owned[1]}) /\ Cardinality({call.owned[1]}) = 1
    BY FS_Singleton, Zenon
  <2>4. /\ IsFiniteSet({call.owned[1]} \cup {call.owned[2]})
        /\ Cardinality({call.owned[1]} \cup {call.owned[2]}) <= 2
    <3>1. /\ IsFiniteSet({call.owned[1]} \cup {call.owned[2]})
          /\ Cardinality({call.owned[1]} \cup {call.owned[2]})
                = IF call.owned[2] \in {call.owned[1]} THEN Cardinality({call.owned[1]})
                  ELSE Cardinality({call.owned[1]}) + 1
      BY <2>3, FS_AddElement, Zenon
    <3> QED
      BY <2>3, <3>1
  <2>5. IsFiniteSet(Owned) /\ Cardinality(Owned) <= Cardinality({call.owned[1]} \cup {call.owned[2]})
    BY <2>2, <2>4, FS_Subset
  <2> QED
    BY <2>4, <2>5, FS_CardinalityType
<1>3. IsFiniteSet(held \cup Root) /\ Cardinality(held \cup Root) <= MaxHeld + 1
  <2>1. Cardinality(held \cup Root) = Cardinality(held) + Cardinality(Root) - Cardinality(held \cap Root)
        /\ IsFiniteSet(held \cup Root)
    BY <1>1, FS_Union DEF Owners
  <2>2. Cardinality(held \cap Root) = 0
    BY FS_EmptySet, Zenon DEF Owners
  <2> QED
    BY <1>1, <2>1, <2>2, FS_CardinalityType, BoundAssumption, SMTT(30) DEF Owners
<1>4. IsFiniteSet(used) /\ Cardinality(used) <= MaxHeld + 3 /\ Cardinality(used) \in Nat
  <2>1. /\ IsFiniteSet((held \cup Root) \cup Owned)
        /\ Cardinality((held \cup Root) \cup Owned)
              = Cardinality(held \cup Root) + Cardinality(Owned) - Cardinality((held \cup Root) \cap Owned)
    BY <1>2, <1>3, FS_Union
  <2>2. (held \cup Root) \cap Owned = {}
    BY DEF Owners
  <2>3. Cardinality((held \cup Root) \cap Owned) = 0
    BY <2>2, FS_EmptySet, Zenon
  <2> QED
    BY <1>2, <1>3, <2>1, <2>3, FS_CardinalityType, BoundAssumption
<1>5. Cardinality(Ids) = MaxHeld + 4
  BY FS_Interval, BoundAssumption DEF Ids
<1>6. \E id \in Ids : id \notin used
  <2> SUFFICES ASSUME Ids \subseteq used PROVE FALSE
    OBVIOUS
  <2>1. Cardinality(Ids) <= Cardinality(used)
    BY <1>4, FS_Subset
  <2> QED
    BY <1>4, <1>5, <2>1, BoundAssumption
<1>7. \E id \in 1..(MaxHeld + 4) : id \notin DOMAIN live \cup held \cup Range(call.owned)
  BY <1>6 DEF Mappings, Ids, Owned
<1> QED
  BY <1>7 DEF FreshRegion, Ids, Owned

\* What a call owns, after it has got one more and after it has dropped one.
LEMMA OwnedAppend ==
    ASSUME NEW S, NEW s \in Seq(S), NEW x \in S
    PROVE  /\ Append(s, x) \in Seq(S) /\ Len(Append(s, x)) = Len(s) + 1 /\ LastOf(Append(s, x)) = x
           /\ Range(Append(s, x)) = Range(s) \cup {x}
           /\ IsInjective(s) /\ x \notin Range(s) => IsInjective(Append(s, x))
<1>1. /\ Append(s, x) \in Seq(S) /\ Len(s) \in Nat /\ Len(Append(s, x)) = Len(s) + 1
      /\ \A i \in 1..Len(s) : Append(s, x)[i] = s[i]
      /\ Append(s, x)[Len(s) + 1] = x
      /\ DOMAIN s = 1..Len(s) /\ DOMAIN Append(s, x) = 1..(Len(s) + 1)
  OBVIOUS
<1>2. \A i \in 1..(Len(s) + 1) : i \in 1..Len(s) \/ i = Len(s) + 1
  BY <1>1
<1>3. LastOf(Append(s, x)) = x
  BY <1>1 DEF LastOf
<1>4. 1..Len(s) \subseteq 1..(Len(s) + 1) /\ Len(s) + 1 \in 1..(Len(s) + 1)
  BY <1>1
<1>5. Range(Append(s, x)) = Range(s) \cup {x}
  BY <1>1, <1>2, <1>4 DEF Range
<1>6. ASSUME IsInjective(s), x \notin Range(s) PROVE IsInjective(Append(s, x))
  <2> SUFFICES ASSUME NEW a \in 1..(Len(s) + 1), NEW b \in 1..(Len(s) + 1), Append(s, x)[a] = Append(s, x)[b]
               PROVE  a = b
    BY <1>1 DEF IsInjective
  <2>1. \A i \in 1..Len(s) : s[i] # x
    BY <1>1, <1>6 DEF Range
  <2>2. \A i, j \in 1..Len(s) : s[i] = s[j] => i = j
    BY <1>1, <1>6 DEF IsInjective
  <2> QED
    BY <1>1, <1>2, <2>1, <2>2
<1> QED
  BY <1>1, <1>3, <1>5, <1>6

LEMMA OwnedFront ==
    ASSUME NEW S, NEW s \in Seq(S), Len(s) > 0
    PROVE  /\ AllButLast(s) \in Seq(S) /\ Len(AllButLast(s)) = Len(s) - 1 /\ LastOf(s) \in S
           /\ Range(s) = Range(AllButLast(s)) \cup {LastOf(s)}
           /\ IsInjective(s) => IsInjective(AllButLast(s)) /\ LastOf(s) \notin Range(AllButLast(s))
<1>0. Len(s) \in Nat /\ \A i \in 1..Len(s) : s[i] \in S
  BY ElementOfSeq
<1>1. /\ AllButLast(s) \in Seq(S) /\ Len(AllButLast(s)) = Len(s) - 1 /\ \A i \in 1..(Len(s) - 1) : AllButLast(s)[i] = s[i]
  <2> DEFINE n == Len(s) - 1
  <2>1. \A i \in 1..n : s[i] \in S
    BY <1>0
  <2>2. n \in Int /\ 1 \in Int /\ n >= 0
    BY <1>0
  <2> HIDE DEF n
  <2>3. /\ SubSeq(s, 1, n) \in Seq(S)
        /\ Len(SubSeq(s, 1, n)) = IF 1 <= n THEN n - 1 + 1 ELSE 0
        /\ \A i \in 1..(n - 1 + 1) : SubSeq(s, 1, n)[i] = s[1 + i - 1]
    BY <2>1, <2>2, SubSeqProperties
  <2>4. \A i \in 1..n : i \in 1..(n - 1 + 1) /\ 1 + i - 1 = i
    BY <2>2
  <2>5. SubSeq(s, 1, n) \in Seq(S) /\ Len(SubSeq(s, 1, n)) = n /\ \A i \in 1..n : SubSeq(s, 1, n)[i] = s[i]
    BY <2>2, <2>3, <2>4
  <2> QED
    BY <2>5 DEF AllButLast, n
<1>2. DOMAIN s = 1..Len(s) /\ DOMAIN AllButLast(s) = 1..(Len(s) - 1)
  BY <1>1
<1>3. \A i \in 1..Len(s) : i \in 1..(Len(s) - 1) \/ i = Len(s)
  BY <1>0
<1>4. \A i \in 1..(Len(s) - 1) : i \in 1..Len(s) /\ i # Len(s)
  BY <1>0
<1>5. Len(s) \in 1..Len(s)
  BY <1>0
<1> QED
  BY <1>0, <1>1, <1>2, <1>3, <1>4, <1>5, Zenon DEF Range, LastOf, IsInjective

\* What is assumed of the machine.
LEMMA MachineFacts ==
    ASSUME machine \in Machines
    PROVE  /\ machine.words \in Seq(Nat)
           /\ machine.revision = 0 => Range(machine.words) \subseteq DOMAIN Sdts
           /\ machine.revision # 0 => \A i \in 1..(Len(machine.words) \div 2) : Entry64(i) \in DOMAIN Sdts
           /\ dsdt_address(machine.fadt) \in {0} \cup DOMAIN Sdts
           /\ DOMAIN Sdts \subseteq Nat
           /\ \A a \in DOMAIN Sdts : Sdts[a].length \in Nat /\ Sdts[a].length > HeaderWords
BY MachinesAssumption, Zenon DEF Entry64

\* The entries of the root table are addresses of tables.
LEMMA EntriesAreTables ==
    ASSUME machine \in Machines, NEW i \in Nat, i > 0, i <= num_tables
    PROVE  Entry(i) \in DOMAIN Sdts
<1>1. machine.words \in Seq(Nat) /\ Len(machine.words) \in Nat
  BY MachineFacts
<1>2. CASE machine.revision = 0
  <2>1. \A n \in Nat : n \div 1 = n
    OBVIOUS
  <2>2. num_tables = Len(machine.words)
    BY <1>1, <1>2, <2>1, Zenon DEF num_tables, EntryWords
  <2>3. i \in DOMAIN machine.words
    BY <1>1, <2>2
  <2>4. machine.words[i] \in Range(machine.words)
    BY <2>3 DEF Range
  <2> QED
    BY <1>2, <2>4, MachineFacts DEF Entry, Entry32
<1>3. CASE machine.revision # 0
  <2>1. \A n \in Nat : n \div 2 \in Nat
    OBVIOUS
  <2>2. num_tables = Len(machine.words) \div 2
    BY <1>3 DEF num_tables, EntryWords
  <2>3. i \in 1..(Len(machine.words) \div 2)
    <3>1. Len(machine.words) \div 2 \in Nat
      BY <1>1, <2>1, Zenon
    <3>2. num_tables \in Nat
      BY <2>2, <3>1, Zenon
    <3>3. i \in 1..num_tables
      BY <3>2
    <3> QED
      BY <2>2, <3>3, Zenon
  <2> QED
    BY <1>3, <2>3, MachineFacts, Zenon DEF Entry
<1> QED
  BY <1>2, <1>3

\* The first two words of the root table make an address.
LEMMA FirstPointer ==
    ASSUME machine \in Machines, Len(machine.words) >= 2
    PROVE  Entry64(1) \in Nat
<1>1. machine.words \in Seq(Nat)
  BY MachineFacts
<1>2. machine.words[1] \in Nat /\ machine.words[2] \in Nat
  BY <1>1
<1>3. 2 * 1 - 1 = 1 /\ 2 * 1 = 2
  OBVIOUS
<1> QED
  BY <1>2, <1>3 DEF Entry64, WordSpace

\* What unmapping does to the regions.
LEMMA RegionsUnmapped ==
    ASSUME NEW regions, NEW ids
    PROVE  /\ DOMAIN Unmapped(regions, ids) = DOMAIN regions \ ids
           /\ \A r \in DOMAIN regions \ ids : Unmapped(regions, ids)[r] = regions[r]
BY DEF Unmapped, Restrict

\* The state of a call that has got one more mapping.
LEMMA CallGains ==
    ASSUME IInv, NEW address \in Nat, NEW size \in Nat,
           NEW pc \in {"root", "check", "ssdt_check", "panic"}, MapNext(address, size, pc)
    PROVE  /\ call' \in Calls /\ call'.pc = pc /\ call'.op = call.op /\ call'.address = address
           /\ call'.signature = call.signature /\ call'.index = call.index
           /\ Len(call'.owned) = Len(call.owned) + 1
           /\ FreshRegion \in Ids \ (DOMAIN live \cup held \cup Owned)
           /\ Owned' = Owned \cup {FreshRegion} /\ IsInjective(call'.owned) /\ LastOf(call'.owned) = FreshRegion
           /\ DOMAIN live' = DOMAIN live \cup {FreshRegion}
           /\ Exact => live'[FreshRegion].mapped_length = size
<1>1. call \in Calls /\ call.owned \in Seq(Ids) /\ Len(call.owned) <= 2 /\ IsInjective(call.owned)
  BY DEF IInv, Shape, Owners, OwnedCount, Fadts, Calls
<1>2. FreshRegion \in Ids /\ FreshRegion \notin DOMAIN live \cup held \cup Owned
  BY <1>1, FreshRegionIsFree DEF IInv
<1>3. /\ live' = Mapped(live, FreshRegion, address, size)
      /\ call' = [call EXCEPT !.pc = pc, !.address = address, !.owned = Append(call.owned, FreshRegion)]
  BY DEF MapNext
<1>4. /\ Append(call.owned, FreshRegion) \in Seq(Ids)
      /\ Len(Append(call.owned, FreshRegion)) = Len(call.owned) + 1
      /\ LastOf(Append(call.owned, FreshRegion)) = FreshRegion
      /\ Range(Append(call.owned, FreshRegion)) = Owned \cup {FreshRegion}
      /\ IsInjective(Append(call.owned, FreshRegion))
  BY <1>1, <1>2, OwnedAppend, SMTT(30) DEF Owned
<1>5. call'.owned = Append(call.owned, FreshRegion)
  BY <1>1, <1>3 DEF Calls
<1>6. /\ call' \in Calls /\ call'.pc = pc /\ call'.op = call.op /\ call'.address = address
      /\ call'.signature = call.signature /\ call'.index = call.index
  BY <1>1, <1>3, <1>4, Zenon DEF Calls
<1>7. DOMAIN live' = DOMAIN live \cup {FreshRegion} /\ (Exact => live'[FreshRegion].mapped_length = size)
  <2>1. \A n \in Nat : ((n + 1 - 1) \div 1) * 1 = n
    OBVIOUS
  <2>2. DOMAIN live' = DOMAIN live \cup {FreshRegion}
    BY <1>3 DEF Mapped
  <2>3. ASSUME Exact PROVE live'[FreshRegion].mapped_length = size
    BY <1>3, <2>1, <2>3 DEF Mapped, Exact
  <2> QED
    BY <2>2, <2>3
<1> QED
  BY <1>2, <1>4, <1>5, <1>6, <1>7, SMTT(30) DEF Owned

\* The state of a call that gives up its last mapping.
LEMMA CallOwns ==
    ASSUME IInv, Len(call.owned) > 0
    PROVE  /\ AllButLast(call.owned) \in Seq(Ids) /\ Len(AllButLast(call.owned)) = Len(call.owned) - 1
           /\ LastOf(call.owned) \in Ids /\ Owned = Range(AllButLast(call.owned)) \cup {LastOf(call.owned)}
           /\ IsInjective(AllButLast(call.owned)) /\ LastOf(call.owned) \notin Range(AllButLast(call.owned))
BY OwnedFront DEF IInv, Shape, Owners, Owned, Calls

----------------------------------------------------------------------------
\* Between calls nothing is owned.
LEMMA NoCallOwnsNothing ==
    /\ NoCall \in Calls /\ NoCall.pc = "idle" /\ NoCall.op = "none" /\ NoCall.owned = <<>>
    /\ Range(<<>>) = {} /\ IsInjective(<<>>) /\ Len(<<>>) = 0
BY DEF NoCall, Calls, Range, IsInjective

\* A call returns and drops what it owns.
LEMMA ReturnKeepsInvariant ==
    ASSUME IInv, NEW res, Return(res), UNCHANGED <<machine, root_table, held, ssdt_remaining>>
    PROVE  IInv'
<1>1. call' = NoCall /\ live' = Unmapped(live, Owned) /\ call'.owned = <<>> /\ Owned' = {}
  BY NoCallOwnsNothing DEF Return, Owned
<1>2. DOMAIN live' = DOMAIN live \ Owned
  BY <1>1, RegionsUnmapped, Zenon
<1>3. Shape'
  BY <1>1, NoCallOwnsNothing DEF IInv, Shape, OwnedCount
<1>4. Owners'
  BY <1>1, NoCallOwnsNothing DEF IInv, Owners, Root
<1>5. Mappings'
  BY <1>1, <1>2, NoCallOwnsNothing DEF IInv, Mappings, Owners, Root, Exact
<1> QED
  BY <1>3, <1>4, <1>5, SMTT(30) DEF IInv

\* A call maps a region and keeps it.
LEMMA MapNextKeepsInvariant ==
    ASSUME IInv, NEW address \in Nat, NEW pc, MapNext(address, HeaderWords, pc),
           UNCHANGED <<machine, root_table, held>>, ssdt_remaining' \in Nat,
           ssdt_remaining' > 0 => Len(machine.words) >= 2,
           \/ pc = "root" /\ call.pc = "rsdp"
           \/ pc = "check" /\ call.pc = "peek" /\ address \in DOMAIN Sdts
           \/ pc \in {"ssdt_check", "panic"} /\ call.pc = "ssdt"
    PROVE  IInv'
<1>0. HeaderWords \in Nat /\ pc \in {"root", "check", "ssdt_check", "panic"}
  BY DEF HeaderWords
<1>1. /\ call' \in Calls /\ call'.pc = pc /\ call'.op = call.op /\ call'.address = address
      /\ call'.signature = call.signature /\ call'.index = call.index
      /\ Len(call'.owned) = Len(call.owned) + 1
      /\ FreshRegion \in Ids \ (DOMAIN live \cup held \cup Owned)
      /\ Owned' = Owned \cup {FreshRegion} /\ IsInjective(call'.owned) /\ LastOf(call'.owned) = FreshRegion
      /\ DOMAIN live' = DOMAIN live \cup {FreshRegion}
      /\ Exact => live'[FreshRegion].mapped_length = HeaderWords
  BY <1>0, CallGains, Zenon
<1>2. Shape'
  <2>1. Len(call'.owned) = OwnedCount'
    BY <1>1 DEF IInv, Shape, OwnedCount, Fadts
  <2>2. call' # NoCall
    BY <1>0, <1>1, NoCallOwnsNothing, SMTT(30)
  <2> QED
    BY <1>0, <1>1, <2>1, <2>2 DEF IInv, Shape, Fadts
<1>3. FreshRegion \notin Root
  BY <1>1 DEF IInv, Mappings, Owners
<1>4. Owners'
  BY <1>1, <1>3 DEF IInv, Owners, Root
<1>5. Mappings'
  BY <1>1 DEF IInv, Mappings, Root, Exact
<1> QED
  BY <1>2, <1>4, <1>5 DEF IInv

\* The last mapping of a call is handed to the user, dropped, or kept while
\* the call goes on to the DSDT.  It was just made, or it is a second owner of
\* the region that the call has dropped.
LEMMA FoundKeepsInvariant ==
    ASSUME IInv, NEW id \in Ids, NEW regions, NEW rest \in Seq(Ids), Found(id, regions, rest),
           UNCHANGED <<machine, root_table, ssdt_remaining>>, call.pc \in {"check", "remap"},
           Len(rest) = Fadts, IsInjective(rest), id \notin Range(rest) \cup held \cup Root,
           Range(rest) \subseteq Owned, Root \subseteq DOMAIN regions,
           DOMAIN regions \subseteq held \cup Root \cup Range(rest) \cup {id},
           Exact => held \cup Range(rest) \cup {id} \subseteq DOMAIN regions
    PROVE  IInv'
<1>0. Range(rest) \cap held = {} /\ Range(rest) \cap Root = {} /\ held \cap Root = {}
  BY DEF IInv, Owners
<1>1. ASSUME call.op = "find", held' = held \cup {id}, live' = Unmapped(regions, Range(rest)), call' = NoCall
      PROVE  IInv'
  <2>1. Owned' = {} /\ call'.owned = <<>>
    BY <1>1, NoCallOwnsNothing DEF Owned
  <2>2. rest = <<>> /\ Range(rest) = {}
    BY <1>1, NoCallOwnsNothing DEF Fadts
  <2>3. DOMAIN live' = DOMAIN regions
    BY <1>1, <2>2, Zenon DEF Unmapped, Restrict
  <2>4. Shape'
    BY <1>1, <2>1, NoCallOwnsNothing DEF IInv, Shape, OwnedCount
  <2>5. IsFiniteSet(held') /\ Cardinality(held') = Cardinality(held) + 1 /\ Cardinality(held) < MaxHeld
    <3>1. /\ IsFiniteSet(held \cup {id})
          /\ Cardinality(held \cup {id}) = IF id \in held THEN Cardinality(held) ELSE Cardinality(held) + 1
      BY FS_AddElement, Zenon DEF IInv, Owners
    <3> QED
      BY <1>1, <3>1 DEF IInv, Owners
  <2>6. Cardinality(held') <= MaxHeld
    BY <2>5, FS_CardinalityType, BoundAssumption DEF IInv, Owners
  <2>7. Owners'
    BY <1>0, <1>1, <2>1, <2>5, <2>6, NoCallOwnsNothing, SMTT(30) DEF IInv, Owners, Root
  <2>8. Mappings'
    BY <1>0, <1>1, <2>1, <2>2, <2>3, NoCallOwnsNothing DEF IInv, Mappings, Root, Exact
  <2> QED
    BY <2>4, <2>7, <2>8 DEF IInv
<1>2. ASSUME call.op = "dsdt", call.signature = "FACP", dsdt_address(machine.fadt) # 0, live' = regions, held' = held,
             call' = [call EXCEPT !.pc = "peek", !.signature = "DSDT", !.address = dsdt_address(machine.fadt),
                                  !.owned = Append(rest, id)]
      PROVE  IInv'
  <2>1. call \in Calls /\ machine \in Machines
    BY DEF IInv, Shape
  <2>2. dsdt_address(machine.fadt) \in DOMAIN Sdts /\ DOMAIN Sdts \subseteq Nat
    BY <1>2, <2>1, MachineFacts
  <2>3. /\ Append(rest, id) \in Seq(Ids) /\ Len(Append(rest, id)) = 1
        /\ Range(Append(rest, id)) = Range(rest) \cup {id} /\ IsInjective(Append(rest, id))
    <3>1. Len(rest) = 0
      BY <1>2 DEF Fadts
    <3>2. rest = <<>> /\ Append(rest, id) = <<id>>
      BY <3>1
    <3>3. Range(rest) = {} /\ Range(<<id>>) = {id} /\ IsInjective(<<id>>)
      BY <3>2 DEF Range, IsInjective
    <3>4. <<id>> \in Seq(Ids) /\ Len(<<id>>) = 1
      OBVIOUS
    <3> QED
      BY <3>2, <3>3, <3>4
  <2>4. /\ call' \in Calls /\ call'.op = "dsdt" /\ call'.pc = "peek" /\ call'.signature = "DSDT"
        /\ call'.address \in DOMAIN Sdts /\ call'.owned = Append(rest, id)
    BY <1>2, <2>1, <2>2, <2>3, Zenon DEF Calls
  <2>5. Owned' = Range(rest) \cup {id} /\ Len(call'.owned) = 1 /\ IsInjective(call'.owned)
    BY <2>3, <2>4 DEF Owned
  <2>6. Shape'
    <3>1. Len(call'.owned) = OwnedCount'
      BY <2>4, <2>5 DEF OwnedCount, Fadts
    <3>2. call' # NoCall
      BY <2>4, NoCallOwnsNothing
    <3> QED
      BY <2>4, <3>1, <3>2 DEF IInv, Shape
  <2>7. Owners'
    BY <1>0, <1>2, <2>4, <2>5, SMTT(30) DEF IInv, Owners, Root
  <2>8. Mappings'
    BY <1>2, <2>4, <2>5, SMTT(30) DEF IInv, Mappings, Root, Exact
  <2> QED
    BY <2>6, <2>7, <2>8 DEF IInv
<1>3. ASSUME live' = Unmapped(regions, {id} \cup Range(rest)), call' = NoCall, held' = held
      PROVE  IInv'
  <2>1. Owned' = {} /\ call'.owned = <<>>
    BY <1>3, NoCallOwnsNothing DEF Owned
  <2>2. DOMAIN live' = DOMAIN regions \ ({id} \cup Range(rest))
    BY <1>3, RegionsUnmapped, Zenon
  <2>3. Shape'
    BY <1>3, <2>1, NoCallOwnsNothing DEF IInv, Shape, OwnedCount
  <2>4. Owners'
    BY <1>3, <2>1, NoCallOwnsNothing DEF IInv, Owners, Root
  <2>5. Mappings'
    BY <1>0, <1>3, <2>1, <2>2, NoCallOwnsNothing, Zenon DEF IInv, Mappings, Root, Exact
  <2> QED
    BY <2>3, <2>4, <2>5 DEF IInv
<1> QED
  BY <1>1, <1>2, <1>3, SMTT(30) DEF Found

----------------------------------------------------------------------------
\* What the user does keeps the invariant.
LEMMA UserKeepsInvariant ==
    ASSUME IInv, User
    PROVE  IInv'
<1>0. /\ call \in Calls /\ machine \in Machines
      /\ Idle => call = NoCall /\ call.pc = "idle" /\ Owned = {} /\ call.owned = <<>> /\ Len(call.owned) <= 2
  BY NoCallOwnsNothing DEF IInv, Shape, Idle, Owned
<1>1. CASE FromRsdp
  <2>1. FreshRegion \in Ids /\ FreshRegion \notin DOMAIN live \cup held \cup Owned
    BY <1>0, <1>1, FreshRegionIsFree, SMTT(30) DEF FromRsdp, IInv
  <2>2. call' = [op |-> "new", pc |-> "rsdp", signature |-> "none", index |-> 0, address |-> 0, owned |-> <<FreshRegion>>]
    BY <1>1, Zenon DEF FromRsdp, NoCall
  <2>3. /\ call' \in Calls /\ call'.op = "new" /\ call'.pc = "rsdp" /\ call'.owned = <<FreshRegion>>
        /\ Len(call'.owned) = 1
    BY <2>1, <2>2 DEF Calls
  <2>4. Owned' = {FreshRegion} /\ IsInjective(call'.owned)
    BY <2>3 DEF Owned, Range, IsInjective
  <2>5. DOMAIN live' = DOMAIN live \cup {FreshRegion} /\ UNCHANGED <<machine, held, ssdt_remaining, root_table>>
    BY <1>1 DEF FromRsdp, Mapped
  <2>6. root_table = None /\ Root = {} /\ Idle
    BY <1>1 DEF FromRsdp, Root
  <2>7. Shape'
    <3>1. Len(call'.owned) = OwnedCount' /\ call' # NoCall
      BY <2>3, NoCallOwnsNothing, SMTT(30) DEF OwnedCount
    <3> QED
      BY <2>3, <2>5, <2>6, <3>1, SMTT(30) DEF IInv, Shape
  <2>8. Owners'
    BY <2>1, <2>3, <2>4, <2>5, <2>6, SMTT(30) DEF IInv, Owners, Root
  <2>9. Mappings'
    BY <1>0, <2>1, <2>3, <2>4, <2>5, <2>6, SMTT(30) DEF IInv, Mappings, Root, Exact
  <2> QED
    BY <2>7, <2>8, <2>9, SMTT(30) DEF IInv
<1>2. CASE DropTables
  <2>1. /\ live' = Unmapped(live, {root_table}) /\ root_table' = None /\ ssdt_remaining' = 0 /\ Idle
        /\ UNCHANGED <<machine, held, call>> /\ root_table # None
    BY <1>2 DEF DropTables
  <2>2. DOMAIN live' = DOMAIN live \ {root_table} /\ Root = {root_table} /\ Root' = {} /\ Owned' = Owned
    BY <2>1, RegionsUnmapped, Zenon DEF Root, Owned
  <2>3. Shape'
    BY <1>0, <2>1 DEF IInv, Shape, OwnedCount
  <2>4. Owners'
    BY <2>1, <2>2 DEF IInv, Owners
  <2>5. Mappings'
    BY <1>0, <2>1, <2>2, Zenon DEF IInv, Mappings, Owners, Exact
  <2> QED
    BY <2>3, <2>4, <2>5 DEF IInv
<1>3. CASE DropHeld
  <2>1. PICK id \in held : held' = held \ {id} /\ live' = Unmapped(live, {id})
    BY <1>3 DEF DropHeld
  <2>2. Idle /\ UNCHANGED <<machine, root_table, call, ssdt_remaining>> /\ Root' = Root /\ Owned' = Owned
    BY <1>3 DEF DropHeld, Root, Owned
  <2>3. DOMAIN live' = DOMAIN live \ {id}
    BY <2>1, RegionsUnmapped, Zenon
  <2>4. IsFiniteSet(held') /\ Cardinality(held') <= MaxHeld
    <3>1. IsFiniteSet(held \ {id}) /\ Cardinality(held \ {id}) = Cardinality(held) - 1
      BY <2>1, FS_RemoveElement, SMTT(30) DEF IInv, Owners
    <3> QED
      BY <2>1, <3>1, FS_CardinalityType, BoundAssumption DEF IInv, Owners
  <2>5. Shape'
    BY <1>0, <2>2, SMTT(30) DEF IInv, Shape, OwnedCount
  <2>6. Owners'
    BY <1>0, <2>1, <2>2, <2>4, NoCallOwnsNothing, SMTT(30) DEF IInv, Owners
  <2>7. Mappings'
    BY <1>0, <2>1, <2>2, <2>3, Zenon DEF IInv, Mappings, Owners, Exact
  <2> QED
    BY <2>5, <2>6, <2>7 DEF IInv
<1>4. ASSUME NEW op \in {"find", "dsdt"}, NEW signature \in DOMAIN TypeWords \cup {"FACP"}, StartFind(op, signature),
             op = "dsdt" => signature = "FACP"
      PROVE  IInv'
  <2>1. call' = [op |-> op, pc |-> "scan", signature |-> signature, index |-> 1, address |-> 0, owned |-> <<>>]
    BY <1>4, Zenon DEF StartFind, NoCall
  <2>2. call' \in Calls /\ call'.op = op /\ call'.pc = "scan" /\ call'.signature = signature /\ call'.index = 1
        /\ call'.owned = <<>>
    BY <2>1 DEF Calls
  <2>3. Owned' = {} /\ IsInjective(call'.owned) /\ Len(call'.owned) = 0 /\ call' # NoCall
    BY <2>2, NoCallOwnsNothing DEF Owned
  <2>4. UNCHANGED <<machine, live, root_table, held, ssdt_remaining>> /\ Idle /\ Cardinality(held) < MaxHeld
    BY <1>4 DEF StartFind
  <2>5. Fadts' = 0 /\ OwnedCount' = 0
    BY <1>4, <2>2, SMTT(30) DEF Fadts, OwnedCount
  <2>6. Shape'
    BY <2>2, <2>3, <2>4, <2>5, SMTT(30) DEF IInv, Shape
  <2>7. Owners'
    BY <2>3, <2>4, SMTT(30) DEF IInv, Owners, Root
  <2>8. Mappings'
    BY <1>0, <2>2, <2>3, <2>4, SMTT(30) DEF IInv, Mappings, Root, Exact
  <2> QED
    BY <2>6, <2>7, <2>8 DEF IInv
<1>5. CASE Ssdts
  <2>1. ssdt_remaining' = Len(machine.words) \div 2 /\ UNCHANGED <<machine, live, root_table, held, call>> /\ Idle
    BY <1>5 DEF Ssdts, PointerWords
  <2>2. Len(machine.words) \in Nat
    BY <1>0, MachineFacts
  <2>3. \A n \in Nat : n \div 2 \in Nat /\ (n \div 2 > 0 => n >= 2)
    OBVIOUS
  <2>4. ssdt_remaining' \in Nat /\ (ssdt_remaining' > 0 => Len(machine.words) >= 2)
    BY <2>1, <2>2, <2>3, Zenon
  <2>5. Shape'
    BY <1>0, <2>1, <2>4, Zenon DEF IInv, Shape, OwnedCount
  <2>6. Owners' /\ Mappings'
    BY <2>1 DEF IInv, Owners, Mappings, Root, Owned, Exact
  <2> QED
    BY <2>5, <2>6 DEF IInv
<1>6. CASE SsdtNext
  <2>1. call' = [op |-> "ssdt", pc |-> "ssdt", signature |-> "none", index |-> 0, address |-> 0, owned |-> <<>>]
    BY <1>6, Zenon DEF SsdtNext, NoCall
  <2>2. call' \in Calls /\ call'.op = "ssdt" /\ call'.pc = "ssdt" /\ call'.owned = <<>>
    BY <2>1 DEF Calls
  <2>3. Owned' = {} /\ IsInjective(call'.owned) /\ Len(call'.owned) = 0 /\ call' # NoCall /\ OwnedCount' = 0
    BY <2>2, NoCallOwnsNothing DEF Owned, OwnedCount
  <2>4. UNCHANGED <<machine, live, root_table, held, ssdt_remaining>> /\ Idle /\ ssdt_remaining > 0
    BY <1>6 DEF SsdtNext
  <2>5. Shape'
    BY <2>2, <2>3, <2>4, SMTT(30) DEF IInv, Shape
  <2>6. Owners'
    BY <2>2, <2>3, <2>4 DEF IInv, Owners, Root
  <2>7. Mappings'
    BY <1>0, <2>2, <2>3, <2>4 DEF IInv, Mappings, Root, Exact
  <2> QED
    BY <2>5, <2>6, <2>7 DEF IInv
<1> QED
  BY <1>1, <1>2, <1>3, <1>4, <1>5, <1>6 DEF User, FindTable, Dsdt

\* The steps of a call keep the invariant.
LEMMA StepKeepsInvariant ==
    ASSUME IInv, Step
    PROVE  IInv'
<1>0. /\ call \in Calls /\ machine \in Machines /\ ssdt_remaining \in Nat /\ Len(call.owned) = OwnedCount
      /\ ssdt_remaining > 0 \/ call.pc \in {"ssdt", "ssdt_check"} => Len(machine.words) >= 2
      /\ call.pc \in {"peek", "check", "remap"} => call.address \in DOMAIN Sdts
      /\ DOMAIN Sdts \subseteq Nat
  BY MachineFacts DEF IInv, Shape
<1>1. CASE FromValidatedRsdp
  <2>1. CASE machine.rsdp_valid
    BY <1>0, <1>1, <2>1, MapNextKeepsInvariant, BoundAssumption, SMTT(30) DEF FromValidatedRsdp, At
  <2>2. CASE ~machine.rsdp_valid
    BY <1>1, <2>2, ReturnKeepsInvariant, SMTT(30) DEF FromValidatedRsdp
  <2> QED
    BY <2>1, <2>2
<1>2. CASE CheckRoot
  <2>1. call.pc = "root" /\ Len(call.owned) = 2 /\ root_table = None /\ Root = {}
    BY <1>0, <1>2 DEF CheckRoot, At, OwnedCount, IInv, Shape, Root
  <2>2. /\ LastOf(call.owned) \in Ids /\ Owned = Range(AllButLast(call.owned)) \cup {LastOf(call.owned)}
        /\ LastOf(call.owned) \notin Range(AllButLast(call.owned)) /\ LastOf(call.owned) \in DOMAIN live
        /\ LastOf(call.owned) # None
    <3>1. None \notin Ids
      BY BoundAssumption DEF Ids, None
    <3>2. Owned \subseteq DOMAIN live
      BY <2>1 DEF IInv, Mappings
    <3> QED
      BY <2>1, <3>1, <3>2, CallOwns, SMTT(30)
  <2>3. call' = NoCall /\ UNCHANGED <<machine, held, ssdt_remaining>> /\ Owned' = {} /\ call'.owned = <<>>
    BY <1>2, NoCallOwnsNothing DEF CheckRoot, Owned
  <2>4. Shape'
    BY <2>3, NoCallOwnsNothing, SMTT(30) DEF IInv, Shape, OwnedCount
  <2>5. CASE machine.root_valid
    <3>1. root_table' = LastOf(call.owned) /\ live' = Unmapped(live, Range(AllButLast(call.owned)))
      BY <1>2, <2>5 DEF CheckRoot
    <3>2. DOMAIN live' = DOMAIN live \ Range(AllButLast(call.owned)) /\ Root' = {LastOf(call.owned)}
      BY <2>2, <3>1, RegionsUnmapped, Zenon DEF Root
    <3>3. Owners'
      BY <2>1, <2>2, <2>3, <3>1, <3>2, NoCallOwnsNothing, SMTT(30) DEF IInv, Owners
    <3>4. Mappings'
      BY <2>1, <2>2, <2>3, <3>2, NoCallOwnsNothing, SMTT(30) DEF IInv, Mappings, Owners, Exact
    <3> QED
      BY <2>4, <3>3, <3>4 DEF IInv
  <2>6. CASE ~machine.root_valid
    <3>1. root_table' = None /\ live' = Unmapped(live, Owned)
      BY <1>2, <2>6 DEF CheckRoot, Owned
    <3>2. DOMAIN live' = DOMAIN live \ Owned /\ Root' = {}
      BY <3>1, RegionsUnmapped, Zenon DEF Root
    <3>3. Owners'
      BY <2>3, <3>1, <3>2, NoCallOwnsNothing, SMTT(30) DEF IInv, Owners
    <3>4. Mappings'
      BY <2>1, <2>3, <3>2, NoCallOwnsNothing DEF IInv, Mappings, Owners, Exact
    <3> QED
      BY <2>4, <3>3, <3>4 DEF IInv
  <2> QED
    BY <2>5, <2>6
<1>3. CASE Scan
  <2>1. CASE call.index > num_tables /\ Return(Failed)
    BY <1>3, <2>1, ReturnKeepsInvariant, SMTT(30) DEF Scan
  <2>2. CASE /\ call.index <= num_tables /\ call' = [call EXCEPT !.pc = "peek", !.address = Entry(call.index)]
             /\ UNCHANGED <<live, result>>
    <3>1. call.pc = "scan" /\ call.index \in Nat /\ call.index > 0 /\ Fadts = 0
      BY <1>0, <1>3 DEF Scan, At, IInv, Shape, Calls
    <3>2. Entry(call.index) \in DOMAIN Sdts
      BY <1>0, <2>2, <3>1, EntriesAreTables, SMTT(30)
    <3>3. /\ call' \in Calls /\ call'.pc = "peek" /\ call'.op = call.op /\ call'.signature = call.signature
          /\ call'.address \in DOMAIN Sdts /\ call'.owned = call.owned
      BY <1>0, <2>2, <3>2, Zenon DEF Calls
    <3>4. UNCHANGED <<machine, live, root_table, held, ssdt_remaining>>
      BY <1>3, <2>2 DEF Scan
    <3>5. Len(call'.owned) = OwnedCount' /\ call' # NoCall
      BY <1>0, <3>1, <3>3, NoCallOwnsNothing, SMTT(30) DEF OwnedCount, Fadts
    <3>6. Shape'
      BY <3>1, <3>3, <3>4, <3>5, SMTT(30) DEF IInv, Shape
    <3>7. Owners'
      BY <3>3, <3>4 DEF IInv, Owners, Root, Owned
    <3>8. Mappings'
      BY <3>3, <3>4 DEF IInv, Mappings, Root, Owned, Exact
    <3> QED
      BY <3>6, <3>7, <3>8 DEF IInv
  <2> QED
    BY <1>3, <2>1, <2>2 DEF Scan
<1>4. CASE Peek
  <2>1. call.pc = "peek" /\ call.address \in DOMAIN Sdts /\ call.address \in Nat
    BY <1>0, <1>4 DEF Peek, At
  <2> QED
    BY <1>0, <1>4, <2>1, MapNextKeepsInvariant DEF Peek
<1>c. call.pc = "check" =>
        /\ AllButLast(call.owned) \in Seq(Ids) /\ Len(AllButLast(call.owned)) = Fadts
        /\ LastOf(call.owned) \in Ids /\ Owned = Range(AllButLast(call.owned)) \cup {LastOf(call.owned)}
        /\ IsInjective(AllButLast(call.owned)) /\ LastOf(call.owned) \notin Range(AllButLast(call.owned)) \cup held \cup Root
  <2> SUFFICES ASSUME call.pc = "check"
               PROVE  /\ AllButLast(call.owned) \in Seq(Ids) /\ Len(AllButLast(call.owned)) = Fadts
                      /\ LastOf(call.owned) \in Ids /\ Owned = Range(AllButLast(call.owned)) \cup {LastOf(call.owned)}
                      /\ IsInjective(AllButLast(call.owned))
                      /\ LastOf(call.owned) \notin Range(AllButLast(call.owned)) \cup held \cup Root
    OBVIOUS
  <2>1. Len(call.owned) = Fadts + 1 /\ Fadts \in {0, 1}
    BY <1>0 DEF OwnedCount, Fadts
  <2>2. /\ AllButLast(call.owned) \in Seq(Ids) /\ Len(AllButLast(call.owned)) = Len(call.owned) - 1
        /\ LastOf(call.owned) \in Ids /\ Owned = Range(AllButLast(call.owned)) \cup {LastOf(call.owned)}
        /\ IsInjective(AllButLast(call.owned)) /\ LastOf(call.owned) \notin Range(AllButLast(call.owned))
    BY <2>1, CallOwns
  <2>3. LastOf(call.owned) \notin held \cup Root
    BY <2>2 DEF IInv, Owners
  <2> QED
    BY <2>1, <2>2, <2>3
<1>5. CASE CheckFails
  <2>1. call.pc = "check" /\ UNCHANGED <<machine, root_table, held, ssdt_remaining>>
    BY <1>5 DEF CheckFails, At
  <2>2. CASE call.op = "dsdt" /\ call.signature = "DSDT"
    BY <1>5, <2>1, <2>2, ReturnKeepsInvariant DEF CheckFails
  <2>3. CASE ~(call.op = "dsdt" /\ call.signature = "DSDT")
    <3>1. /\ live' = Unmapped(live, {LastOf(call.owned)})
          /\ call' = [call EXCEPT !.pc = "scan", !.index = call.index + 1, !.owned = AllButLast(call.owned)]
      BY <1>5, <2>3 DEF CheckFails
    <3>2. Fadts = 0 /\ call.index \in Nat /\ call.op \in {"find", "dsdt"}
      BY <1>0, <2>1, <2>3 DEF Fadts, Calls, IInv, Shape
    <3>e. call.index + 1 \in Nat /\ call.index + 1 > 0 /\ AllButLast(call.owned) \in Seq(Ids)
      BY <1>c, <2>1, <3>2
    <3>3. /\ call' \in Calls /\ call'.pc = "scan" /\ call'.op = call.op /\ call'.signature = call.signature
          /\ call'.index > 0 /\ call'.owned = AllButLast(call.owned)
      BY <1>0, <3>1, <3>e, Zenon DEF Calls
    <3>4. Fadts' = 0 /\ OwnedCount' = 0 /\ call' # NoCall /\ Len(call'.owned) = 0
      BY <1>c, <2>1, <3>2, <3>3, NoCallOwnsNothing DEF Fadts, OwnedCount
    <3>5. DOMAIN live' = DOMAIN live \ {LastOf(call.owned)} /\ Owned' = Range(AllButLast(call.owned))
      BY <3>1, <3>3, RegionsUnmapped, Zenon DEF Owned
    <3>6. Shape'
      BY <2>1, <3>2, <3>3, <3>4, SMTT(30) DEF IInv, Shape
    <3>7. Owners'
      BY <1>c, <2>1, <3>3, <3>5, SMTT(30) DEF IInv, Owners, Root
    <3>8. Mappings'
      BY <1>c, <2>1, <3>3, <3>5, SMTT(30) DEF IInv, Mappings, Root, Exact
    <3> QED
      BY <3>6, <3>7, <3>8 DEF IInv
  <2> QED
    BY <2>2, <2>3, SMTT(30)
<1>6. CASE Reuse
  <2> DEFINE id == LastOf(call.owned)
             regions == Unmapped(live, {id})
  <2>1. /\ call.pc = "check" /\ UNCHANGED <<machine, root_table, ssdt_remaining>>
        /\ Found(id, regions, AllButLast(call.owned)) /\ live[id].mapped_length >= Sdts[call.address].length
    BY <1>6 DEF Reuse, At
  <2>2. DOMAIN regions = DOMAIN live \ {id}
    BY RegionsUnmapped, ZenonT(30)
  <2>3. ~Exact
    <3>1. Sdts[call.address].length \in Nat /\ Sdts[call.address].length > HeaderWords
      BY <1>0, <2>1, MachineFacts, SMTT(30)
    <3>2. ASSUME Exact PROVE live[id].mapped_length = HeaderWords
      BY <2>1, <3>2, SMTT(30) DEF IInv, Mappings
    <3> QED
      BY <2>1, <3>1, <3>2, SMTT(30) DEF HeaderWords
  <2>4. Root \subseteq DOMAIN regions /\ DOMAIN regions \subseteq held \cup Root \cup Range(AllButLast(call.owned)) \cup {id}
    BY <1>c, <2>1, <2>2, ZenonT(30) DEF IInv, Mappings
  <2> HIDE DEF regions, id
  <2>5. /\ AllButLast(call.owned) \in Seq(Ids) /\ Len(AllButLast(call.owned)) = Fadts /\ id \in Ids
        /\ Range(AllButLast(call.owned)) \subseteq Owned /\ IsInjective(AllButLast(call.owned))
        /\ id \notin Range(AllButLast(call.owned)) \cup held \cup Root
    BY <1>c, <2>1, SMTT(30) DEF id
  <2> QED
    BY <2>1, <2>3, <2>4, <2>5, FoundKeepsInvariant, SMTT(30)
<1>7. CASE DropPeek
  <2>1. /\ call.pc = "check" /\ UNCHANGED <<machine, root_table, held, ssdt_remaining>>
        /\ live' = Unmapped(live, {LastOf(call.owned)})
        /\ call' = [call EXCEPT !.pc = "remap", !.owned = AllButLast(call.owned)]
    BY <1>7 DEF DropPeek, At
  <2>2. /\ call' \in Calls /\ call'.pc = "remap" /\ call'.op = call.op /\ call'.signature = call.signature
        /\ call'.address = call.address /\ call'.owned = AllButLast(call.owned)
    BY <1>0, <1>c, <2>1, Zenon DEF Calls
  <2>3. Fadts' = Fadts /\ OwnedCount' = Fadts /\ call' # NoCall /\ Len(call'.owned) = Fadts
    BY <1>c, <2>1, <2>2, NoCallOwnsNothing, Zenon DEF Fadts, OwnedCount
  <2>4. DOMAIN live' = DOMAIN live \ {LastOf(call.owned)} /\ Owned' = Range(AllButLast(call.owned))
    <3>1. Owned' = Range(AllButLast(call.owned))
      BY <2>2 DEF Owned
    <3> QED
      BY <2>1, <3>1, RegionsUnmapped, Zenon
  <2>5. Shape'
    BY <2>1, <2>2, <2>3 DEF IInv, Shape
  <2>6. Owners'
    BY <1>c, <2>1, <2>2, <2>4, SMTT(30) DEF IInv, Owners, Root
  <2>7. Mappings'
    BY <1>c, <2>1, <2>2, <2>4, ZenonT(30) DEF IInv, Mappings, Root, Exact
  <2> QED
    BY <2>5, <2>6, <2>7 DEF IInv
<1>8. CASE Remap
  <2> DEFINE regions == Mapped(live, FreshRegion, call.address, Sdts[call.address].length)
  <2>1. /\ call.pc = "remap" /\ UNCHANGED <<machine, root_table, ssdt_remaining>>
        /\ Found(FreshRegion, regions, call.owned)
    BY <1>8 DEF Remap, At
  <2>2. call.owned \in Seq(Ids) /\ Len(call.owned) = Fadts /\ Len(call.owned) <= 2 /\ IsInjective(call.owned)
    BY <1>0, <2>1 DEF OwnedCount, Fadts, Calls, IInv, Owners
  <2>3. FreshRegion \in Ids /\ FreshRegion \notin DOMAIN live \cup held \cup Owned
    BY <2>2, FreshRegionIsFree DEF IInv
  <2>4. FreshRegion \notin Range(call.owned) \cup held \cup Root
    BY <2>3 DEF IInv, Mappings, Owned
  <2>5. DOMAIN regions = DOMAIN live \cup {FreshRegion}
    BY DEF Mapped
  <2> HIDE DEF regions
  <2>6. /\ Root \subseteq DOMAIN regions
        /\ DOMAIN regions \subseteq held \cup Root \cup Range(call.owned) \cup {FreshRegion}
        /\ Exact => held \cup Range(call.owned) \cup {FreshRegion} \subseteq DOMAIN regions
    BY <2>5 DEF IInv, Mappings, Owned
  <2> QED
    BY <2>1, <2>2, <2>3, <2>4, <2>6, FoundKeepsInvariant DEF Owned
<1>9. CASE SsdtPeek
  <2>1. call.pc = "ssdt" /\ UNCHANGED <<machine, root_table, held>> /\ Len(machine.words) >= 2
    BY <1>0, <1>9, SMTT(30) DEF SsdtPeek, At
  <2> DEFINE pc == IF ssdt_remaining = 0 /\ OverflowChecks THEN "panic" ELSE "ssdt_check"
  <2>2. MapNext(Entry64(1), HeaderWords, pc)
    BY <1>9 DEF SsdtPeek
  <2>3. ssdt_remaining' \in Nat
    BY <1>0, <1>9 DEF SsdtPeek, UsizeMax
  <2>4. Entry64(1) \in Nat
    BY <1>0, <2>1, FirstPointer
  <2>5. pc \in {"ssdt_check", "panic"}
    OBVIOUS
  <2> HIDE DEF pc
  <2> QED
    BY <2>1, <2>2, <2>3, <2>4, <2>5, MapNextKeepsInvariant, SMTT(30)
<1>10. CASE SsdtCheck
  <2>1. call.pc = "ssdt_check" /\ UNCHANGED <<machine, root_table, held, ssdt_remaining>>
    BY <1>10 DEF SsdtCheck, At
  <2>2. CASE call.address \in DOMAIN Sdts /\ validate(call.address, "SSDT")
    BY <1>10, <2>1, <2>2, ReturnKeepsInvariant, SMTT(30) DEF SsdtCheck
  <2>3. CASE ~(call.address \in DOMAIN Sdts /\ validate(call.address, "SSDT"))
    <3>1. live' = Unmapped(live, Owned) /\ call' = [call EXCEPT !.pc = "ssdt", !.owned = <<>>]
      BY <1>10, <2>3 DEF SsdtCheck, Owned
    <3>e. <<>> \in Seq(Ids)
      OBVIOUS
    <3>2. call' \in Calls /\ call'.pc = "ssdt" /\ call'.op = call.op /\ call'.owned = <<>>
      BY <1>0, <3>1, <3>e, Zenon DEF Calls
    <3>3. Len(call'.owned) = OwnedCount' /\ call' # NoCall /\ Owned' = {} /\ IsInjective(call'.owned)
      BY <3>2, NoCallOwnsNothing DEF OwnedCount, Owned
    <3>4. DOMAIN live' = DOMAIN live \ Owned
      BY <3>1, RegionsUnmapped, Zenon
    <3>5. Shape'
      BY <1>0, <2>1, <3>2, <3>3, SMTT(30) DEF IInv, Shape
    <3>6. Owners'
      BY <2>1, <3>2, <3>3, SMTT(30) DEF IInv, Owners, Root
    <3>7. Mappings'
      BY <2>1, <3>2, <3>3, <3>4, SMTT(30) DEF IInv, Mappings, Owners, Root, Exact
    <3> QED
      BY <3>5, <3>6, <3>7 DEF IInv
  <2> QED
    BY <2>2, <2>3
<1> QED
  BY <1>1, <1>2, <1>3, <1>4, <1>5, <1>6, <1>7, <1>8, <1>9, <1>10, SMTT(30) DEF Step

\* AcpiTables keeps its mappings in order: each has one owner, and a call
\* owns as many as its progress says.
THEOREM TablesInvariant == Spec => []IInv
<1>1. Init => IInv
  <2> SUFFICES ASSUME Init PROVE IInv
    OBVIOUS
  <2>1. /\ call = NoCall /\ Owned = {} /\ call \in Calls /\ Len(call.owned) = 0 /\ IsInjective(call.owned)
    BY NoCallOwnsNothing DEF Init, Owned
  <2>2. Shape
    BY <2>1 DEF Init, Shape, OwnedCount, NoCall
  <2>3. Owners
    BY <2>1, FS_EmptySet, BoundAssumption, SMTT(30) DEF Init, Owners, Root, NoCall
  <2>4. Mappings
    BY <2>1 DEF Init, Mappings, Root, NoCall
  <2> QED
    BY <2>2, <2>3, <2>4, SMTT(30) DEF IInv
<1>2. IInv /\ [Next]_vars => IInv'
  <2> SUFFICES ASSUME IInv, [Next]_vars PROVE IInv'
    OBVIOUS
  <2>1. CASE User
    BY <2>1, UserKeepsInvariant
  <2>2. CASE Step
    BY <2>2, StepKeepsInvariant
  <2>3. CASE UNCHANGED vars
    BY <2>3, Zenon DEF vars, IInv, Shape, Owners, Mappings, Owned, Root, Fadts, OwnedCount, Exact
  <2> QED
    BY <2>1, <2>2, <2>3, SMTT(30) DEF Next
<1> QED
  BY <1>1, <1>2, PTL DEF Spec

\* Between calls nothing is mapped but the root table of a live AcpiTables and
\* the tables the user holds: whichever way from_rsdp, find_table, dsdt and
\* the SSDT iterator return, they unmap what they mapped.
THEOREM CallsUnmapWhatTheyMap == Spec => []NothingLeaks
<1>1. IInv => NothingLeaks
  <2> SUFFICES ASSUME IInv, Idle PROVE DOMAIN live \subseteq held \cup Root
    BY DEF NothingLeaks, Root
  <2>1. Owned = {}
    BY NoCallOwnsNothing, SMTT(30) DEF IInv, Shape, Idle, Owned
  <2> QED
    BY <2>1 DEF IInv, Mappings
<1> QED
  BY <1>1, TablesInvariant, PTL

\* With a handler that maps exactly what it is asked to, what a call works on
\* is mapped until it is done with it, and every table find_table handed out
\* until the user drops it.
THEOREM HeldTablesStayMapped == Spec => []HeldMapped
<1>1. IInv => HeldMapped
  BY DEF IInv, Mappings, HeldMapped, Owned
<1> QED
  BY <1>1, TablesInvariant, PTL

----------------------------------------------------------------------------
(***************************************************************************)
(* What a call knows when it returns.                                       *)
(***************************************************************************)

Reading == call.pc \in {"peek", "check", "remap"}

\* The entries before the one at hand were no match, and the table being read
\* is the one at hand; after the FADT, the table it points to.  The mappings
\* that a call keeps while it makes another are of the RSDP, and of the FADT
\* unless that was reused and is gone.
Progress ==
    /\ call.pc \in {"ssdt", "ssdt_check", "panic"} => call.op = "ssdt"
    /\ call.op = "dsdt" => call.signature \in {"FACP", "DSDT"}
    /\ (call.pc = "scan" \/ Reading) /\ Fadts = 0 =>
          \A j \in 1..num_tables : j < call.index => ~Valid(Entry(j), call.signature)
    /\ Reading /\ Fadts = 0 => call.index \in 1..num_tables /\ call.address = Entry(call.index)
    /\ Reading /\ Fadts = 1 => /\ Matches("FACP") # {}
                               /\ call.address # 0 /\ call.address = dsdt_address(machine.fadt)
                               /\ call.owned[1] \in DOMAIN live => Sdts[live[call.owned[1]].start].signature = "FACP"
    /\ call.pc = "remap" => Valid(call.address, call.signature)
    /\ call.pc = "rsdp" => live[call.owned[1]].start = RsdpAddress

\* A call that has returned has nothing to know.
LEMMA ReturnedKnows ==
    ASSUME call' = NoCall
    PROVE  Progress'
BY NoCallOwnsNothing DEF Progress, Reading

\* What the root table says does not change.
LEMMA SameEntries ==
    ASSUME machine' = machine
    PROVE  /\ num_tables' = num_tables /\ Matches("FACP")' = Matches("FACP")
           /\ \A j : Entry(j)' = Entry(j)
BY DEF num_tables, Matches, EntryWords, Entry, Entry32, Entry64, Valid

LEMMA UserKeepsProgress ==
    ASSUME IInv, Progress, User
    PROVE  Progress'
<1>1. CASE FromRsdp
  <2>1. call' = [op |-> "new", pc |-> "rsdp", signature |-> "none", index |-> 0, address |-> 0, owned |-> <<FreshRegion>>]
    BY <1>1, Zenon DEF FromRsdp, NoCall
  <2>2. call'.op = "new" /\ call'.pc = "rsdp" /\ call'.owned[1] = FreshRegion
    BY <2>1
  <2>3. live'[FreshRegion].start = RsdpAddress
    BY <1>1 DEF FromRsdp, Mapped
  <2> QED
    BY <2>2, <2>3 DEF Progress, Reading
<1>2. CASE DropTables \/ DropHeld \/ Ssdts
  BY <1>2, ReturnedKnows DEF DropTables, DropHeld, Ssdts, Idle
<1>3. ASSUME NEW op \in {"find", "dsdt"}, NEW signature, StartFind(op, signature),
             op = "dsdt" => signature = "FACP"
      PROVE  Progress'
  <2>1. call' = [op |-> op, pc |-> "scan", signature |-> signature, index |-> 1, address |-> 0, owned |-> <<>>]
    BY <1>3, Zenon DEF StartFind, NoCall
  <2>2. call'.op = op /\ call'.pc = "scan" /\ call'.signature = signature /\ call'.index = 1
    BY <2>1
  <2>3. \A n : \A j \in 1..n : ~(j < 1)
    OBVIOUS
  <2> QED
    BY <1>3, <2>2, <2>3 DEF Progress, Reading
<1>4. CASE SsdtNext
  <2>1. call'.op = "ssdt" /\ call'.pc = "ssdt"
    BY <1>4 DEF SsdtNext, NoCall
  <2> QED
    BY <2>1 DEF Progress, Reading
<1> QED
  BY <1>1, <1>2, <1>3, <1>4, SMTT(30) DEF User, FindTable, Dsdt

\* The table at hand is the first match when it is a match at all.
LEMMA AtHandIsFirst ==
    ASSUME IInv, Progress, Reading, Fadts = 0, Valid(call.address, call.signature)
    PROVE  /\ Matches(call.signature) # {} /\ call.index = Min(Matches(call.signature))
           /\ call.address = Entry(call.index)
<1> DEFINE S == Matches(call.signature)
<1>1. call.index \in 1..num_tables /\ call.address = Entry(call.index) /\ num_tables \in Int
  <2>1. Len(machine.words) \in Nat
    BY MachineFacts DEF IInv, Shape
  <2>2. \A n \in Nat : n \div 1 \in Int /\ n \div 2 \in Int
    OBVIOUS
  <2>3. num_tables \in Int
    BY <2>1, <2>2, Zenon DEF num_tables, EntryWords
  <2> QED
    BY <2>3 DEF Progress
<1>2. call.index \in S
  BY <1>1 DEF Matches
<1>3. \A j \in S : call.index <= j
  <2>1. \A j \in S : j \in 1..num_tables /\ Valid(Entry(j), call.signature)
    BY DEF Matches
  <2>2. \A j \in S : ~(j < call.index)
    BY <2>1 DEF Progress
  <2> QED
    BY <1>1, <2>1, <2>2
<1>4. S \subseteq Int
  BY <1>1 DEF Matches
<1> HIDE DEF S
<1>5. \A x \in S : (\A y \in S : x <= y) => x = call.index
  <2> SUFFICES ASSUME NEW x \in S, \A y \in S : x <= y PROVE x = call.index
    OBVIOUS
  <2>1. x <= call.index /\ call.index <= x /\ x \in Int /\ call.index \in Int
    BY <1>2, <1>3, <1>4, Zenon
  <2> QED
    BY <2>1
<1>6. Min(S) = call.index
  BY <1>2, <1>3, <1>5, Zenon DEF Min
<1> QED
  BY <1>1, <1>2, <1>6 DEF S

\* What read_table found keeps the progress: after the FADT comes the DSDT.
LEMMA FoundKeepsProgress ==
    ASSUME IInv, Progress, NEW id, NEW regions, NEW rest \in Seq(Ids), Found(id, regions, rest), Len(rest) = Fadts,
           machine' = machine, Reading, Valid(call.address, call.signature),
           id \in DOMAIN regions => regions[id].start = call.address
    PROVE  Progress'
<1>1. ASSUME call.op = "dsdt", call.signature = "FACP", dsdt_address(machine.fadt) # 0, live' = regions,
             call' = [call EXCEPT !.pc = "peek", !.signature = "DSDT", !.address = dsdt_address(machine.fadt),
                                  !.owned = Append(rest, id)]
      PROVE  Progress'
  <2>1. Fadts = 0 /\ rest = <<>>
    BY <1>1 DEF Fadts
  <2>2. Append(rest, id) = <<id>> /\ call \in Calls
    BY <2>1 DEF IInv, Shape
  <2>3. /\ call'.op = "dsdt" /\ call'.pc = "peek" /\ call'.signature = "DSDT"
        /\ call'.address = dsdt_address(machine.fadt) /\ call'.owned = <<id>>
    BY <1>1, <2>2, Zenon DEF Calls
  <2>4. Matches("FACP") # {}
    BY <1>1, <2>1, AtHandIsFirst
  <2>5. Fadts' = 1 /\ call'.owned[1] = id
    BY <2>3 DEF Fadts
  <2>6. id \in DOMAIN live' => Sdts[live'[id].start].signature = "FACP"
    BY <1>1 DEF Valid
  <2>7. Matches("FACP")' # {} /\ dsdt_address(machine.fadt)' = dsdt_address(machine.fadt)
    BY <2>4, SameEntries DEF dsdt_address
  <2> QED
    BY <1>1, <2>3, <2>5, <2>6, <2>7, SMTT(30) DEF Progress, Reading
<1>2. ASSUME call' = NoCall PROVE Progress'
  BY <1>2, ReturnedKnows, SMTT(30)
<1> QED
  BY <1>1, <1>2 DEF Found

\* While a call reads, the mapping of the FADT stays what it is.
LEMMA ReadingKeepsProgress ==
    ASSUME IInv, Progress, Reading, Reading', machine' = machine,
           call'.op = call.op, call'.signature = call.signature, call'.index = call.index, call'.address = call.address,
           Fadts = 1 => /\ call'.owned[1] = call.owned[1]
                        /\ call.owned[1] \in DOMAIN live' => /\ call.owned[1] \in DOMAIN live
                                                             /\ live'[call.owned[1]] = live[call.owned[1]],
           call'.pc = "remap" => Valid(call.address, call.signature)
    PROVE  Progress'
<1>1. Fadts' = Fadts /\ Fadts \in {0, 1}
  BY DEF Fadts
<1>2. num_tables' = num_tables /\ Matches("FACP")' = Matches("FACP") /\ \A j : Entry(j)' = Entry(j)
  BY SameEntries
<1>3. dsdt_address(machine.fadt)' = dsdt_address(machine.fadt) /\ Entry(call.index)' = Entry(call.index)
  BY <1>2 DEF dsdt_address
<1>4. call'.pc \in {"peek", "check", "remap"} /\ call.pc \in {"peek", "check", "remap"}
  BY DEF Reading
<1>5. Fadts = 0 => \A j \in 1..num_tables : j < call.index => ~Valid(Entry(j), call.signature)
  BY DEF Progress
<1>6. Fadts' = 0 => (\A j \in 1..num_tables : j < call.index => ~Valid(Entry(j), call.signature))'
  BY <1>1, <1>2, <1>5 DEF Valid
<1>7. call'.op = "dsdt" => call'.signature \in {"FACP", "DSDT"}
  BY Zenon DEF Progress
<1>8. Fadts' = 0 => call'.index \in 1..num_tables' /\ call'.address = Entry(call.index)'
  <2>1. Fadts = 0 => call.index \in 1..num_tables /\ call.address = Entry(call.index)
    BY Zenon DEF Progress
  <2> QED
    BY <1>1, <1>2, <1>3, <2>1, Zenon
<1>9. Fadts' = 1 => /\ Matches("FACP")' # {}
                    /\ call'.address # 0 /\ call'.address = dsdt_address(machine.fadt)'
                    /\ call'.owned[1] \in DOMAIN live' => Sdts[live'[call'.owned[1]].start].signature = "FACP"
  <2>1. Fadts = 1 => /\ Matches("FACP") # {}
                     /\ call.address # 0 /\ call.address = dsdt_address(machine.fadt)
                     /\ call.owned[1] \in DOMAIN live => Sdts[live[call.owned[1]].start].signature = "FACP"
    BY Zenon DEF Progress
  <2>2. ASSUME Fadts = 1, call'.owned[1] \in DOMAIN live'
        PROVE  Sdts[live'[call'.owned[1]].start].signature = "FACP"
    <3>1. call'.owned[1] = call.owned[1]
      BY <2>2, Zenon
    <3>2. call.owned[1] \in DOMAIN live'
      BY <2>2, <3>1, Zenon
    <3>3. call.owned[1] \in DOMAIN live /\ live'[call.owned[1]] = live[call.owned[1]]
      BY <2>2, <3>2, Zenon
    <3>4. Sdts[live[call.owned[1]].start].signature = "FACP"
      BY <2>1, <2>2, <3>3, Zenon
    <3> QED
      BY <3>1, <3>3, <3>4, Zenon
  <2> QED
    BY <1>1, <1>2, <1>3, <2>1, <2>2, Zenon
<1>10. call'.pc = "remap" => Valid(call.address, call.signature)'
  BY Zenon DEF Valid
<1>11. call'.pc \notin {"ssdt", "ssdt_check", "panic", "rsdp"}
  BY <1>4
<1> QED
  <2>1. call'.pc = "rsdp" => FALSE
    BY <1>11
  <2>2. call'.pc \in {"ssdt", "ssdt_check", "panic"} => FALSE
    BY <1>11
  <2> QED
    BY <1>6, <1>7, <1>8, <1>9, <1>10, <2>1, <2>2, Zenon DEF Progress

LEMMA StepKeepsProgress ==
    ASSUME IInv, Progress, Step
    PROVE  Progress'
<1>0. /\ call \in Calls /\ call.owned \in Seq(Ids) /\ Len(call.owned) = OwnedCount /\ machine \in Machines
      /\ call.pc \in {"scan", "peek", "check", "remap"} => call.op \in {"find", "dsdt"}
      /\ Fadts \in {0, 1}
  BY DEF IInv, Shape, Calls, Fadts
<1>m. machine' = machine
  BY DEF Step, FromValidatedRsdp, CheckRoot, Scan, Peek, CheckFails, Reuse, DropPeek, Remap, SsdtPeek, SsdtCheck
<1>1. CASE FromValidatedRsdp
  <2>1. CASE call' = NoCall
    BY <2>1, ReturnedKnows
  <2>2. CASE MapNext(RootAddress, HeaderWords, "root")
    <3>1. call'.op = "new" /\ call'.pc = "root"
      BY <1>0, <1>1, <2>2 DEF MapNext, FromValidatedRsdp, At, IInv, Shape, Calls
    <3> QED
      BY <3>1 DEF Progress, Reading
  <2> QED
    BY <1>1, <2>1, <2>2 DEF FromValidatedRsdp, Return
<1>2. CASE CheckRoot
  BY <1>2, ReturnedKnows DEF CheckRoot
<1>3. CASE Scan
  <2>1. CASE call' = NoCall
    BY <2>1, ReturnedKnows
  <2>2. ASSUME call.index <= num_tables, call' = [call EXCEPT !.pc = "peek", !.address = Entry(call.index)]
        PROVE  Progress'
    <3>1. call.pc = "scan" /\ Fadts = 0 /\ call.index \in Nat /\ call.index > 0
      BY <1>0, <1>3 DEF Scan, At, IInv, Shape, Calls
    <3>2. /\ call'.pc = "peek" /\ call'.op = call.op /\ call'.signature = call.signature
          /\ call'.index = call.index /\ call'.address = Entry(call.index)
      BY <1>0, <2>2, Zenon DEF Calls
    <3>3. call.index \in 1..num_tables
      <4>1. Len(machine.words) \in Nat
        BY <1>0, MachineFacts
      <4>2. \A n \in Nat : n \div 1 \in Int /\ n \div 2 \in Int
        OBVIOUS
      <4>3. num_tables \in Int
        BY <4>1, <4>2, Zenon DEF num_tables, EntryWords
      <4> QED
        BY <2>2, <3>1, <4>3
    <3>4. Fadts' = 0
      BY <3>1, <3>2 DEF Fadts
    <3>5. num_tables' = num_tables /\ \A j : Entry(j)' = Entry(j)
      BY <1>m, SameEntries
    <3>6. (\A j \in 1..num_tables : j < call.index => ~Valid(Entry(j), call.signature))'
      <4>1. \A j \in 1..num_tables : j < call.index => ~Valid(Entry(j), call.signature)
        BY <3>1 DEF Progress
      <4> QED
        BY <3>2, <3>5, <4>1 DEF Valid
    <3>7. call'.address = Entry(call.index)'
      BY <3>2, <3>5
    <3>8. call'.index \in (1..num_tables)'
      BY <3>2, <3>3, <3>5, SMTT(30)
    <3>9. call'.op = "dsdt" => call'.signature \in {"FACP", "DSDT"}
      BY <3>2 DEF Progress
    <3> QED
      BY <3>2, <3>4, <3>6, <3>7, <3>8, <3>9 DEF Progress, Reading
  <2> QED
    BY <1>3, <2>1, <2>2, SMTT(30) DEF Scan, Return
<1>4. CASE Peek
  <2>1. call.pc = "peek" /\ MapNext(call.address, HeaderWords, "check") /\ Len(call.owned) = Fadts
    BY <1>0, <1>4 DEF Peek, At, OwnedCount
  <2>2. Len(call.owned) <= 2
    BY <1>0, <2>1
  <2>3. FreshRegion \in Ids /\ FreshRegion \notin DOMAIN live \cup held \cup Owned
    BY <2>2, FreshRegionIsFree DEF IInv
  <2>4. /\ call'.pc = "check" /\ call'.op = call.op /\ call'.signature = call.signature
        /\ call'.index = call.index /\ call'.address = call.address /\ call'.owned = Append(call.owned, FreshRegion)
    BY <1>0, <2>1, Zenon DEF MapNext, Calls
  <2>5. ASSUME Fadts = 1
        PROVE  /\ call'.owned[1] = call.owned[1]
               /\ call.owned[1] \in DOMAIN live' => /\ call.owned[1] \in DOMAIN live
                                                    /\ live'[call.owned[1]] = live[call.owned[1]]
    <3>1. call'.owned[1] = call.owned[1] /\ 1 \in DOMAIN call.owned
      BY <1>0, <2>1, <2>3, <2>4, <2>5, SMTT(30)
    <3>2. call.owned[1] # FreshRegion
      BY <2>3, <3>1 DEF Owned, Range
    <3> QED
      BY <2>1, <3>1, <3>2 DEF MapNext, Mapped
  <2> QED
    BY <1>m, <2>1, <2>4, <2>5, ReadingKeepsProgress DEF Reading
<1>5. CASE CheckFails
  <2>1. CASE call' = NoCall
    BY <2>1, ReturnedKnows
  <2>2. ASSUME ~(call.op = "dsdt" /\ call.signature = "DSDT"),
               call' = [call EXCEPT !.pc = "scan", !.index = call.index + 1, !.owned = AllButLast(call.owned)]
        PROVE  Progress'
    <3>1. /\ call'.pc = "scan" /\ call'.op = call.op /\ call'.signature = call.signature /\ call'.index = call.index + 1
          /\ call.pc = "check" /\ ~Valid(call.address, call.signature) /\ Fadts = 0
      BY <1>0, <1>5, <2>2, SMTT(30) DEF Calls, CheckFails, At, Valid, validate, Fadts
    <3>2. /\ \A j \in 1..num_tables : j < call.index => ~Valid(Entry(j), call.signature)
          /\ call.address = Entry(call.index) /\ call.index \in Nat
      BY <1>0, <3>1 DEF Progress, Reading, Calls
    <3>3. \A j \in 1..num_tables : j < call.index + 1 => j < call.index \/ j = call.index
      BY <3>2
    <3>4. \A j \in 1..num_tables : j < call.index + 1 => ~Valid(Entry(j), call.signature)
      BY <3>1, <3>2, <3>3, Zenon
    <3>5. num_tables' = num_tables /\ \A j : Entry(j)' = Entry(j)
      BY <1>m, SameEntries
    <3>6. (\A j \in 1..num_tables : j < call.index => ~Valid(Entry(j), call.signature))'
      BY <3>1, <3>4, <3>5 DEF Valid
    <3>7. call'.op = "dsdt" => call'.signature \in {"FACP", "DSDT"}
      BY <3>1 DEF Progress
    <3> QED
      BY <3>1, <3>6, <3>7 DEF Progress, Reading
  <2> QED
    BY <1>5, <2>1, <2>2, SMTT(30) DEF CheckFails, Return
<1>6. CASE Reuse
  <2> DEFINE id == LastOf(call.owned)
             regions == Unmapped(live, {id})
             rest == AllButLast(call.owned)
  <2>1. call.pc = "check" /\ Found(id, regions, rest) /\ Valid(call.address, call.signature)
    BY <1>6 DEF Reuse, At, Valid, validate
  <2>2. Len(call.owned) = Fadts + 1 /\ Len(call.owned) > 0
    BY <1>0, <2>1 DEF OwnedCount
  <2>3. rest \in Seq(Ids) /\ Len(rest) = Fadts
    BY <1>0, <2>2, CallOwns
  <2>4. id \notin DOMAIN regions
    BY DEF Unmapped, Restrict
  <2> HIDE DEF id, regions, rest
  <2> QED
    BY <1>m, <2>1, <2>3, <2>4, FoundKeepsProgress, SMTT(30) DEF Reading
<1>7. CASE DropPeek
  <2>1. /\ call.pc = "check" /\ Valid(call.address, call.signature)
        /\ live' = Unmapped(live, {LastOf(call.owned)})
        /\ call' = [call EXCEPT !.pc = "remap", !.owned = AllButLast(call.owned)]
    BY <1>7 DEF DropPeek, At, Valid, validate
  <2>2. Len(call.owned) = Fadts + 1
    BY <1>0, <2>1 DEF OwnedCount
  <2>3. /\ call'.pc = "remap" /\ call'.op = call.op /\ call'.signature = call.signature
        /\ call'.index = call.index /\ call'.address = call.address /\ call'.owned = AllButLast(call.owned)
    BY <1>0, <2>1, Zenon DEF Calls
  <2>4. ASSUME Fadts = 1
        PROVE  /\ call'.owned[1] = call.owned[1]
               /\ call.owned[1] \in DOMAIN live' => /\ call.owned[1] \in DOMAIN live
                                                    /\ live'[call.owned[1]] = live[call.owned[1]]
    <3>1. AllButLast(call.owned)[1] = call.owned[1]
      BY <1>0, <2>2, <2>4 DEF AllButLast
    <3> QED
      BY <2>1, <2>3, <3>1, RegionsUnmapped, SMTT(30) DEF Unmapped, Restrict
  <2> QED
    BY <1>m, <2>1, <2>3, <2>4, ReadingKeepsProgress DEF Reading
<1>8. CASE Remap
  <2> DEFINE regions == Mapped(live, FreshRegion, call.address, Sdts[call.address].length)
  <2>1. call.pc = "remap" /\ Found(FreshRegion, regions, call.owned) /\ Len(call.owned) = Fadts
    BY <1>0, <1>8 DEF Remap, At, OwnedCount
  <2>2. regions[FreshRegion].start = call.address
    BY DEF Mapped
  <2>3. Valid(call.address, call.signature)
    BY <2>1 DEF Progress
  <2> HIDE DEF regions
  <2> QED
    BY <1>0, <1>m, <2>1, <2>2, <2>3, FoundKeepsProgress DEF Reading
<1>9. CASE SsdtPeek \/ SsdtCheck
  <2>1. CASE call' = NoCall
    BY <2>1, ReturnedKnows
  <2>2. ASSUME call' # NoCall PROVE call'.pc \in {"ssdt", "ssdt_check", "panic"} /\ call'.op = "ssdt"
    <3>1. call.op = "ssdt"
      BY <1>9, SMTT(30) DEF SsdtPeek, SsdtCheck, At, Progress
    <3> QED
      BY <1>0, <1>9, <2>2, <3>1, Zenon DEF SsdtPeek, SsdtCheck, MapNext, Return, Calls
  <2>3. ASSUME call' # NoCall PROVE Progress'
    BY <2>2, <2>3 DEF Progress, Reading
  <2> QED
    BY <2>1, <2>3
<1> QED
  BY <1>1, <1>2, <1>3, <1>4, <1>5, <1>6, <1>7, <1>8, <1>9 DEF Step

\* Between two reads a call knows which entries it has ruled out and what the
\* mappings it keeps are of.
THEOREM CallsMakeProgress == Spec => [](IInv /\ Progress)
<1>1. Init => Progress
  BY NoCallOwnsNothing DEF Init, Progress, Reading
<1>2. IInv /\ Progress /\ [Next]_vars => Progress'
  <2> SUFFICES ASSUME IInv, Progress, [Next]_vars PROVE Progress'
    OBVIOUS
  <2>1. CASE User
    BY <2>1, UserKeepsProgress
  <2>2. CASE Step
    BY <2>2, StepKeepsProgress
  <2>3. CASE UNCHANGED vars
    BY <2>3, ZenonT(30) DEF vars, Progress, Reading, Fadts, num_tables, EntryWords, Entry, Entry32, Entry64, Matches, Valid,
       dsdt_address
  <2> QED
    BY <2>1, <2>2, <2>3 DEF Next
<1> QED
  BY <1>1, <1>2, TablesInvariant, PTL DEF Spec

\* A find_table or dsdt that ends has scanned every entry, read a bad DSDT, or
\* found a table.
LEMMA HowCallsEnd ==
    ASSUME IInv, Progress, Next, call.op \in {"find", "dsdt"}, call' = NoCall
    PROVE  \/ /\ call.pc = "scan" /\ call.index > num_tables /\ held' = held /\ result' = Failed
           \/ /\ call.pc = "check" /\ call.op = "dsdt" /\ call.signature = "DSDT" /\ ~Valid(call.address, "DSDT")
              /\ held' = held /\ result' = Failed
           \/ /\ call.pc = "check" /\ Valid(call.address, call.signature)
              /\ live[LastOf(call.owned)].mapped_length >= Sdts[call.address].length
              /\ Found(LastOf(call.owned), Unmapped(live, {LastOf(call.owned)}), AllButLast(call.owned))
           \/ /\ call.pc = "remap"
              /\ Found(FreshRegion, Mapped(live, FreshRegion, call.address, Sdts[call.address].length), call.owned)
<1>0. call # NoCall /\ call \in Calls /\ call.pc # "idle"
  BY NoCallOwnsNothing, SMTT(30) DEF IInv, Shape
<1>1. ~User
  BY <1>0, Zenon DEF User, FromRsdp, DropTables, DropHeld, FindTable, Dsdt, StartFind, Ssdts, SsdtNext, Idle
<1>2. ~(FromValidatedRsdp \/ CheckRoot \/ SsdtPeek \/ SsdtCheck)
  BY DEF FromValidatedRsdp, CheckRoot, SsdtPeek, SsdtCheck, At, IInv, Shape, Progress
<1>3. ~(Peek \/ DropPeek)
  BY <1>0, NoCallOwnsNothing, Zenon DEF Peek, DropPeek, MapNext, Calls
<1>4. ASSUME Scan PROVE call.pc = "scan" /\ call.index > num_tables /\ held' = held /\ result' = Failed
  <2>1. call' # [call EXCEPT !.pc = "peek", !.address = Entry(call.index)]
    BY <1>0, NoCallOwnsNothing, Zenon DEF Calls
  <2> QED
    BY <1>4, <2>1 DEF Scan, At, Return
<1>5. ASSUME CheckFails
      PROVE  /\ call.pc = "check" /\ call.op = "dsdt" /\ call.signature = "DSDT" /\ ~Valid(call.address, "DSDT")
             /\ held' = held /\ result' = Failed
  <2>1. call' # [call EXCEPT !.pc = "scan", !.index = call.index + 1, !.owned = AllButLast(call.owned)]
    BY <1>0, NoCallOwnsNothing, ZenonT(30) DEF Calls
  <2> QED
    BY <1>5, <2>1 DEF CheckFails, At, Return, Valid, validate
<1>6. ASSUME Reuse
      PROVE  /\ call.pc = "check" /\ Valid(call.address, call.signature)
             /\ live[LastOf(call.owned)].mapped_length >= Sdts[call.address].length
             /\ Found(LastOf(call.owned), Unmapped(live, {LastOf(call.owned)}), AllButLast(call.owned))
  BY <1>6 DEF Reuse, At, Valid, validate
<1>7. ASSUME Remap
      PROVE  /\ call.pc = "remap"
             /\ Found(FreshRegion, Mapped(live, FreshRegion, call.address, Sdts[call.address].length), call.owned)
  BY <1>7 DEF Remap, At
<1>8. Scan \/ CheckFails \/ Reuse \/ Remap
  BY <1>1, <1>2, <1>3 DEF Next, Step
<1> QED
  BY <1>4, <1>5, <1>6, <1>7, <1>8, Zenon

\* Nothing matches when the scan has come to its end.
LEMMA ScannedAll ==
    ASSUME IInv, Progress, call.pc = "scan", call.index > num_tables
    PROVE  Matches(call.signature) = {}
<1>1. \A j \in 1..num_tables : j < call.index => ~Valid(Entry(j), call.signature)
  BY DEF Progress, IInv, Shape
<1>2. num_tables \in Int /\ call.index \in Nat
  <2>1. Len(machine.words) \in Nat
    BY MachineFacts DEF IInv, Shape
  <2>2. \A n \in Nat : n \div 1 \in Int /\ n \div 2 \in Int
    OBVIOUS
  <2> QED
    BY <2>1, <2>2, Zenon DEF num_tables, EntryWords, IInv, Shape, Calls
<1>3. \A j \in 1..num_tables : j < call.index
  BY <1>2
<1> QED
  BY <1>1, <1>3, SMTT(30) DEF Matches

\* find_table hands out the first table of the root table that has the
\* signature and is valid, whatever comes before it, and mapped in full when
\* the handler maps what it is asked to; it fails only when there is no such
\* table.
THEOREM FirstTableIsFound == Spec => FindsFirst
<1>1. ASSUME IInv, Progress, [Next]_vars, vars' # vars, call.op = "find", call' = NoCall
      PROVE  IF Matches(call.signature) = {} THEN held' = held
             ELSE \E id \in held' \ held : Exact =>
                     /\ id \in DOMAIN live'
                     /\ live'[id].start = Entry(Min(Matches(call.signature)))
                     /\ live'[id].region_length >= Sdts[live'[id].start].length
  <2>0. /\ Next /\ call \in Calls /\ call.owned \in Seq(Ids) /\ Len(call.owned) = OwnedCount
        /\ Fadts = 0 /\ machine \in Machines
    BY <1>1 DEF IInv, Shape, Fadts, Calls
  <2>1. CASE call.pc = "scan" /\ call.index > num_tables /\ held' = held
    BY <1>1, <2>1, ScannedAll
  <2>2. ASSUME call.pc = "check", Valid(call.address, call.signature),
               live[LastOf(call.owned)].mapped_length >= Sdts[call.address].length,
               Found(LastOf(call.owned), Unmapped(live, {LastOf(call.owned)}), AllButLast(call.owned))
        PROVE  Matches(call.signature) # {} /\ ~Exact /\ \E id \in held' \ held : TRUE
    <3>1. Matches(call.signature) # {}
      BY <1>1, <2>0, <2>2, AtHandIsFirst DEF Reading
    <3>2. ~Exact
      <4>1. call.address \in DOMAIN Sdts
        BY <1>1, <2>2 DEF IInv, Shape
      <4>2. Sdts[call.address].length \in Nat /\ Sdts[call.address].length > HeaderWords
        BY <2>0, <4>1, MachineFacts, SMTT(30)
      <4>3. ASSUME Exact PROVE live[LastOf(call.owned)].mapped_length = HeaderWords
        BY <1>1, <2>2, <4>3 DEF IInv, Mappings
      <4>4. \A n \in Nat : n > HeaderWords => ~(HeaderWords >= n)
        BY DEF HeaderWords
      <4> QED
        BY <2>2, <4>2, <4>3, <4>4, Zenon
    <3>3. LastOf(call.owned) \in held' \ held
      <4>1. Len(call.owned) = 1
        BY <2>0, <2>2 DEF OwnedCount
      <4>2. LastOf(call.owned) \in Owned
        BY <1>1, <4>1, CallOwns
      <4>3. LastOf(call.owned) \notin held
        BY <1>1, <4>2 DEF IInv, Owners
      <4>4. held' = held \cup {LastOf(call.owned)}
        BY <1>1, <2>2, SMTT(30) DEF Found
      <4> QED
        BY <4>3, <4>4
    <3> QED
      BY <3>1, <3>2, <3>3, SMTT(30)
  <2>3. ASSUME call.pc = "remap",
               Found(FreshRegion, Mapped(live, FreshRegion, call.address, Sdts[call.address].length), call.owned)
        PROVE  /\ Matches(call.signature) # {} /\ FreshRegion \in held' \ held /\ FreshRegion \in DOMAIN live'
               /\ live'[FreshRegion].start = Entry(Min(Matches(call.signature)))
               /\ live'[FreshRegion].region_length >= Sdts[live'[FreshRegion].start].length
    <3> DEFINE regions == Mapped(live, FreshRegion, call.address, Sdts[call.address].length)
    <3>1. Matches(call.signature) # {} /\ call.address = Entry(Min(Matches(call.signature)))
      BY <1>1, <2>0, <2>3, AtHandIsFirst, ZenonT(30) DEF Reading, Progress
    <3>2. call.owned = <<>> /\ Range(call.owned) = {} /\ Len(call.owned) <= 2
      BY <2>0, <2>3, NoCallOwnsNothing, SMTT(30) DEF OwnedCount
    <3>3. FreshRegion \notin held
      BY <1>1, <3>2, FreshRegionIsFree DEF IInv
    <3>4. held' = held \cup {FreshRegion} /\ live' = Unmapped(regions, Range(call.owned))
      BY <1>1, <2>3, SMTT(30) DEF Found
    <3>5. /\ FreshRegion \in DOMAIN regions /\ regions[FreshRegion].start = call.address
          /\ regions[FreshRegion].region_length = Sdts[call.address].length
      BY DEF Mapped
    <3>6. Sdts[call.address].length \in Nat
      BY <1>1, <2>0, <2>3, MachineFacts, SMTT(30) DEF IInv, Shape
    <3> HIDE DEF regions
    <3>7. FreshRegion \in DOMAIN live' /\ live'[FreshRegion] = regions[FreshRegion]
      BY <3>2, <3>4, <3>5, SMTT(30) DEF Unmapped, Restrict
    <3>8. \A n \in Nat : n >= n
      OBVIOUS
    <3>9. live'[FreshRegion].region_length >= Sdts[live'[FreshRegion].start].length
      BY <3>5, <3>6, <3>7, <3>8, Zenon
    <3> QED
      BY <3>1, <3>3, <3>4, <3>5, <3>7, <3>9
  <2> QED
    BY <1>1, <2>0, <2>1, <2>2, <2>3, HowCallsEnd, Zenon
<1>2. IInv /\ Progress /\ [Next]_vars =>
        [call.op = "find" /\ call' = NoCall =>
          IF Matches(call.signature) = {} THEN held' = held
          ELSE \E id \in held' \ held : Exact =>
                  /\ id \in DOMAIN live'
                  /\ live'[id].start = Entry(Min(Matches(call.signature)))
                  /\ live'[id].region_length >= Sdts[live'[id].start].length]_vars
  BY <1>1, Zenon
<1> QED
  BY <1>2, CallsMakeProgress, PTL DEF Spec, FindsFirst

\* dsdt returns the AML of the table that a valid FADT points to, without its
\* header, exactly when there is a valid FADT and that table is a valid DSDT.
THEOREM DsdtIsThatOfFadt == Spec => DsdtOfFadt
<1> DEFINE fadt == machine.fadt
           address == IF fadt.revision < 2 \/ fadt.x_dsdt = 0 THEN fadt.dsdt ELSE fadt.x_dsdt
           Answer == IF Matches("FACP") # {} /\ address # 0 /\ Valid(address, "DSDT")
                     THEN result' = [table |-> address, address |-> address + HeaderWords,
                                     length |-> Sdts[address].length - HeaderWords]
                     ELSE result' = Failed
<1>1. ASSUME IInv, Progress, [Next]_vars, vars' # vars, call.op = "dsdt", call' = NoCall
      PROVE  Answer
  <2>0. /\ Next /\ call \in Calls /\ call.signature \in {"FACP", "DSDT"}
        /\ call.signature = "FACP" => Fadts = 0
        /\ call.signature = "DSDT" => Fadts = 1
    BY <1>1 DEF IInv, Shape, Fadts, Progress
  <2>1. dsdt_address(machine.fadt) = address
    <3>1. machine.fadt.revision \in Nat
      BY <1>1, MachinesAssumption, Zenon DEF IInv, Shape
    <3>2. machine.fadt.revision >= 2 <=> ~(machine.fadt.revision < 2)
      BY <3>1
    <3> QED
      BY <3>2, Zenon DEF dsdt_address
  <2> HIDE DEF address
  <2>2. ASSUME call.pc = "scan", call.index > num_tables, result' = Failed
        PROVE  Answer
    <3>1. call.signature = "FACP"
      BY <1>1, <2>0, <2>2 DEF IInv, Shape
    <3>2. Matches("FACP") = {}
      BY <1>1, <2>2, <3>1, ScannedAll, SMTT(30)
    <3> QED
      BY <2>2, <3>2
  <2>3. ASSUME call.pc = "check", call.signature = "DSDT", ~Valid(call.address, "DSDT"), result' = Failed
        PROVE  Answer
    <3>1. call.address = address
      <4>1. Reading /\ Fadts = 1
        BY <2>0, <2>3 DEF Reading
      <4> QED
        BY <1>1, <2>1, <4>1, Zenon DEF Progress
    <3> QED
      BY <2>3, <3>1, SMTT(30)
  <2>4. ASSUME NEW id, NEW regions, NEW rest, Found(id, regions, rest), Reading, Valid(call.address, call.signature)
        PROVE  Answer
    <3>1. result' = IF call.signature = "DSDT" THEN AmlTable(call.address, Sdts[call.address].length) ELSE Failed
      <4>1. call' # [call EXCEPT !.pc = "peek", !.signature = "DSDT", !.address = dsdt_address(machine.fadt),
                                 !.owned = Append(rest, id)]
        BY <1>1, <2>0, NoCallOwnsNothing, Zenon DEF Calls
      <4> QED
        BY <1>1, <2>4, <4>1, Zenon DEF Found
    <3>2. call.signature = "DSDT" \/ address = 0
      <4>1. call' # [call EXCEPT !.pc = "peek", !.signature = "DSDT", !.address = dsdt_address(machine.fadt),
                                 !.owned = Append(rest, id)]
        BY <1>1, <2>0, NoCallOwnsNothing, ZenonT(30) DEF Calls
      <4> QED
        BY <1>1, <2>1, <2>4, <4>1, ZenonT(30) DEF Found
    <3>3. CASE call.signature = "DSDT"
      <4>1. call.address = address /\ address # 0 /\ Matches("FACP") # {}
        BY <1>1, <2>0, <2>1, <2>4, <3>3 DEF Progress
      <4> QED
        BY <2>4, <3>1, <3>3, <4>1, SMTT(30) DEF AmlTable
    <3>4. CASE call.signature = "FACP"
      BY <3>1, <3>2, <3>4, SMTT(30)
    <3> QED
      BY <2>0, <3>3, <3>4, SMTT(30)
  <2>5. call.pc = "remap" => Valid(call.address, call.signature)
    BY <1>1 DEF Progress
  <2> HIDE DEF Answer
  <2> QED
    BY <1>1, <2>0, <2>2, <2>3, <2>4, <2>5, HowCallsEnd, ZenonT(30) DEF Reading
<1>2. IInv /\ Progress /\ [Next]_vars => [call.op = "dsdt" /\ call' = NoCall => Answer]_vars
  BY <1>1, Zenon
<1> QED
  BY <1>2, CallsMakeProgress, PTL DEF Spec, DsdtOfFadt

\* On a machine whose tables do not point to themselves, no call ever maps
\* memory at the address of a mapping it still owns: read_table has unmapped
\* the header before it maps the table.
THEOREM MappingsNeverOverlap ==
    ASSUME PointsElsewhere
    PROVE  Spec => NoOverlap
<1> DEFINE Apart == \A old \in Range(call.owned) \cap DOMAIN live, new \in DOMAIN live' \ DOMAIN live :
                       old \in DOMAIN live' => live'[new].start # live[old].start
<1>1. ASSUME IInv, Progress, [Next]_vars, vars' # vars
      PROVE  Apart
  <2>0. /\ Next /\ call \in Calls /\ call.owned \in Seq(Ids) /\ Len(call.owned) = OwnedCount /\ machine \in Machines
        /\ Fadts \in {0, 1}
    BY <1>1 DEF IInv, Shape, Fadts, Calls
  <2>1. CASE Range(call.owned) = {}
    BY <2>1
  <2>2. CASE DOMAIN live' \subseteq DOMAIN live
    BY <2>2
  <2>3. ASSUME Len(call.owned) = 0 PROVE Range(call.owned) = {}
    BY <2>0, <2>3, NoCallOwnsNothing
  <2>4. ASSUME Len(call.owned) = 1 PROVE Range(call.owned) = {call.owned[1]}
    BY <2>0, <2>4 DEF Range
  <2>5. \A ids, regions : DOMAIN regions \subseteq DOMAIN live => DOMAIN Unmapped(regions, ids) \subseteq DOMAIN live
    BY DEF Unmapped, Restrict
  <2>6. CASE User
    <3>1. Idle => Range(call.owned) = {}
      BY NoCallOwnsNothing, SMTT(30) DEF Idle
    <3>2. Idle
      BY <2>6, Zenon DEF User, FromRsdp, DropTables, DropHeld, FindTable, Dsdt, StartFind, Ssdts, SsdtNext
    <3> QED
      BY <2>1, <3>1, <3>2
  <2>7. CASE FromValidatedRsdp
    <3>1. call.pc = "rsdp" /\ live[call.owned[1]].start = RsdpAddress /\ Len(call.owned) = 1
      BY <1>1, <2>0, <2>7 DEF FromValidatedRsdp, At, OwnedCount, Progress
    <3>2. CASE MapNext(RootAddress, HeaderWords, "root")
      <4>1. \A new \in DOMAIN live' \ DOMAIN live : live'[new].start = RootAddress
        BY <3>2 DEF MapNext, Mapped
      <4> QED
        BY <2>4, <3>1, <4>1 DEF PointsElsewhere
    <3>3. CASE Return(Failed)
      BY <2>2, <2>5, <3>3 DEF Return
    <3> QED
      BY <2>7, <3>2, <3>3 DEF FromValidatedRsdp
  <2>8. CASE CheckRoot \/ CheckFails \/ DropPeek \/ SsdtCheck
    <3>1. DOMAIN live' \subseteq DOMAIN live
      BY <2>8 DEF CheckRoot, CheckFails, DropPeek, SsdtCheck, Return, Unmapped, Restrict
    <3> QED
      BY <2>2, <3>1
  <2>9. CASE Scan \/ SsdtPeek
    <3>1. Len(call.owned) = 0
      BY <2>0, <2>9, SMTT(30) DEF Scan, SsdtPeek, At, OwnedCount
    <3> QED
      BY <2>1, <2>3, <3>1, SMTT(30)
  <2>10. ASSUME Reading, Len(call.owned) = Fadts,
                \A new \in DOMAIN live' \ DOMAIN live : live'[new].start = call.address
         PROVE  Apart
    <3>1. CASE Fadts = 0
      BY <2>1, <2>3, <2>10, <3>1
    <3>2. CASE Fadts = 1
      <4>1. /\ call.address # 0 /\ call.address = dsdt_address(machine.fadt)
            /\ call.owned[1] \in DOMAIN live => Sdts[live[call.owned[1]].start].signature = "FACP"
        BY <1>1, <2>10, <3>2 DEF Progress
      <4>2. Sdts[call.address].signature # "FACP"
        BY <2>0, <4>1, Zenon DEF PointsElsewhere
      <4> QED
        BY <2>4, <2>10, <3>2, <4>1, <4>2, ZenonT(30)
    <3> QED
      BY <2>0, <3>1, <3>2, SMTT(30)
  <2>11. CASE Peek
    <3>1. call.pc = "peek" /\ live' = Mapped(live, FreshRegion, call.address, HeaderWords)
      BY <2>11 DEF Peek, At, MapNext
    <3>2. \A new \in DOMAIN live' \ DOMAIN live : live'[new].start = call.address
      BY <3>1 DEF Mapped
    <3> QED
      BY <2>0, <2>10, <3>1, <3>2 DEF OwnedCount, Reading
  <2>12. CASE Reuse
    <3>1. DOMAIN live' \subseteq DOMAIN live
      BY <2>12, Zenon DEF Reuse, Found, Unmapped, Restrict
    <3> QED
      BY <2>2, <3>1
  <2>13. CASE Remap
    <3> DEFINE regions == Mapped(live, FreshRegion, call.address, Sdts[call.address].length)
    <3>1. call.pc = "remap" /\ Found(FreshRegion, regions, call.owned)
      BY <2>13 DEF Remap, At
    <3>2. \A new \in DOMAIN regions \ DOMAIN live : regions[new].start = call.address
      BY DEF Mapped
    <3> HIDE DEF regions
    <3>3. live' = regions \/ \E ids : live' = Unmapped(regions, ids)
      BY <3>1, Zenon DEF Found
    <3>4. DOMAIN live' \subseteq DOMAIN regions /\ \A r \in DOMAIN live' : live'[r] = regions[r]
      BY <3>3, Zenon DEF Unmapped, Restrict
    <3>5. \A new \in DOMAIN live' \ DOMAIN live : live'[new].start = call.address
      BY <3>2, <3>4, Zenon
    <3> QED
      BY <2>0, <2>10, <3>1, <3>5, SMTT(30) DEF OwnedCount, Reading
  <2> HIDE DEF Apart
  <2> QED
    BY <2>0, <2>6, <2>7, <2>8, <2>9, <2>11, <2>12, <2>13 DEF Next, Step
<1>2. IInv /\ Progress /\ [Next]_vars => [Apart]_vars
  BY <1>1, Zenon
<1> QED
  BY <1>2, CallsMakeProgress, PTL DEF Spec, NoOverlap

----------------------------------------------------------------------------
\* The search for the RSDP.

\* The area that is searched second.
Ebda == IF EbdaFirst <= segment /\ segment <= EbdaLast THEN Region(segment, segment + KiB - 1)
        ELSE Region(EbdaFirst, EbdaLast)

\* Every slot of the area, from its first one up to this one, may have failed.
FailedBefore(first, s) == \A x \in first..(s - 1) : MayFail(x)

\* What has been searched, and with what result, at each stage.
Searched ==
    CASE outcome = "none" /\ area = 0 -> mapped = {} \/ mapped = {Pointer}
      [] outcome = "none" /\ area = 1 ->
            /\ slot \in BiosFirst..(BiosLast + 1)
            /\ mapped = {} \/ mapped = {Region(BiosFirst, BiosLast)}
            /\ FailedBefore(BiosFirst, slot)
      [] outcome = "none" /\ area = 2 ->
            /\ slot \in Ebda[1]..(Ebda[2] + 1)
            /\ mapped = {} \/ mapped = {Ebda}
            /\ FailedBefore(BiosFirst, BiosLast + 1) /\ FailedBefore(Ebda[1], slot)
      [] outcome \in {"found", "Ok"} ->
            /\ mapped = IF outcome = "Ok" THEN {Region(slot, slot + RsdpSlots - 1)} ELSE {}
            /\ MayPass(slot)
            /\ \/ slot \in BiosFirst..BiosLast /\ FailedBefore(BiosFirst, slot)
               \/ /\ slot \in Ebda[1]..Ebda[2]
                  /\ FailedBefore(BiosFirst, BiosLast + 1) /\ FailedBefore(Ebda[1], slot)
      [] outcome = "NoValidRsdp" ->
            /\ mapped = {}
            /\ FailedBefore(BiosFirst, BiosLast + 1) /\ FailedBefore(Ebda[1], Ebda[2] + 1)

SearchInv ==
    /\ segment \in Nat /\ memory \in Memories
    /\ area \in 0..2 /\ outcome \in {"none", "found", "Ok", "NoValidRsdp"}
    /\ area = 0 => outcome = "none"
    /\ area # 0 => areas = <<Region(BiosFirst, BiosLast), Ebda>>
    /\ Searched

----------------------------------------------------------------------------
\* The second area is a range of slots that memory has.
LEMMA EbdaIsRange ==
    ASSUME segment \in Nat
    PROVE  /\ Ebda[1] \in Nat /\ Ebda[2] \in Nat /\ Ebda[1] <= Ebda[2]
           /\ Ebda[1]..Ebda[2] \subseteq EbdaFirst..(EbdaLast + KiB - 1)
           /\ Ebda = <<Ebda[1], Ebda[2]>>
BY AreaAssumption DEF Ebda, Region

\* A structure fails or passes its tests.
LEMMA ValidateIsBoolean ==
    ASSUME NEW rsdp \in Rsdp
    PROVE  ValidateResults(rsdp) \subseteq BOOLEAN
BY Zenon DEF ValidateResults, Rsdp

\* Searching one slot.
LEMMA FailedNext ==
    ASSUME NEW first \in Nat, NEW s \in Nat, first <= s, FailedBefore(first, s), MayFail(s)
    PROVE  FailedBefore(first, s + 1)
<1>1. \A x \in first..(s + 1 - 1) : x = s \/ x \in first..(s - 1)
  OBVIOUS
<1> QED
  BY <1>1 DEF FailedBefore

\* One round of the loop: the structure is returned, or it may have failed.
LEMMA ProbeOutcome ==
    ASSUME memory[slot] \in Rsdp, Probe
    PROVE  \/ MayPass(slot) /\ FoundRsdp
           \/ /\ MayFail(slot) /\ slot' = slot + 1
              /\ UNCHANGED <<memory, segment, areas, area, mapped, outcome>>
<1>1. CASE ~memory[slot].signature
  BY <1>1, Zenon DEF Probe, Missed, MayFail
<1>2. CASE memory[slot].signature
  <2>1. PICK valid \in ValidateResults(memory[slot]) : IF valid THEN FoundRsdp ELSE Missed
    BY <1>2 DEF Probe
  <2>2. CASE valid = TRUE
    BY <1>2, <2>1, <2>2, Zenon DEF MayPass
  <2>3. CASE valid = FALSE
    BY <2>1, <2>3, Zenon DEF MayFail, Missed
  <2> QED
    BY <2>1, <2>2, <2>3, ValidateIsBoolean, Zenon
<1> QED
  BY <1>1, <1>2

----------------------------------------------------------------------------
\* The search keeps to the invariant.
THEOREM SearchInvariant == SearchSpec => []SearchInv
<1> USE DEF Region
<1>1. SearchInit => SearchInv
  BY AreaAssumption DEF SearchInit, SearchInv, Searched
<1>2. SearchInv /\ [SearchNext]_search_vars => SearchInv'
  <2> SUFFICES ASSUME SearchInv, [SearchNext]_search_vars PROVE SearchInv'
    OBVIOUS
  <2>e. /\ segment \in Nat /\ memory \in Memories
        /\ Ebda[1] \in Nat /\ Ebda[2] \in Nat /\ Ebda[1] <= Ebda[2]
        /\ Ebda[1]..Ebda[2] \subseteq EbdaFirst..(EbdaLast + KiB - 1) /\ Ebda = <<Ebda[1], Ebda[2]>>
    BY EbdaIsRange DEF SearchInv
  <2>k. segment' = segment /\ memory' = memory => Ebda' = Ebda /\ \A s : MayFail(s) => MayFail(s)'
    BY Zenon DEF Ebda, MayFail, ValidateResults
  <2>p. CASE MapPointer
    <3>1. /\ outcome = "none" /\ area = 0 /\ mapped = {} /\ mapped' = {Pointer}
          /\ UNCHANGED <<memory, segment, areas, area, slot, outcome>>
      BY <2>p DEF MapPointer, SearchInv, Searched
    <3> QED
      BY <2>e, <2>k, <3>1 DEF SearchInv, Searched
  <2>1. CASE FindAreas
    <3>1. /\ outcome' = "none" /\ area' = 1 /\ segment' = segment /\ memory' = memory
          /\ areas' = <<Region(BiosFirst, BiosLast), Ebda>> /\ slot' = BiosFirst
      BY <2>1 DEF FindAreas, find_search_areas, Ebda
    <3>2. mapped' = {}
      BY <2>1 DEF FindAreas, SearchInv, Searched
    <3>3. FailedBefore(BiosFirst, BiosFirst)'
      BY AreaAssumption DEF FailedBefore
    <3> QED
      BY <2>e, <2>k, <3>1, <3>2, <3>3, AreaAssumption DEF SearchInv, Searched, FailedBefore
  <2>a. CASE MapArea
    <3>1. /\ outcome = "none" /\ area # 0 /\ areas[area] \notin mapped /\ mapped' = mapped \cup {areas[area]}
          /\ UNCHANGED <<memory, segment, areas, area, slot, outcome>>
      BY <2>a DEF MapArea
    <3>2. areas = <<Region(BiosFirst, BiosLast), Ebda>>
      BY <3>1 DEF SearchInv
    <3>3. CASE area = 1
      <4>1. slot \in BiosFirst..(BiosLast + 1) /\ FailedBefore(BiosFirst, slot) /\ mapped' = {Region(BiosFirst, BiosLast)}
        BY <3>1, <3>2, <3>3 DEF SearchInv, Searched
      <4>2. FailedBefore(BiosFirst, slot)'
        BY <2>k, <3>1, <4>1 DEF FailedBefore
      <4> QED
        BY <2>e, <2>k, <3>1, <3>2, <3>3, <4>1, <4>2 DEF SearchInv, Searched
    <3>4. CASE area = 2
      <4>1. /\ slot \in Ebda[1]..(Ebda[2] + 1) /\ mapped' = {Ebda}
            /\ FailedBefore(BiosFirst, BiosLast + 1) /\ FailedBefore(Ebda[1], slot)
        BY <3>1, <3>2, <3>4 DEF SearchInv, Searched
      <4>2. FailedBefore(BiosFirst, BiosLast + 1)' /\ FailedBefore(Ebda[1], slot)'
        BY <2>k, <3>1, <4>1 DEF FailedBefore
      <4> QED
        BY <2>e, <2>k, <3>1, <3>2, <3>4, <4>1, <4>2 DEF SearchInv, Searched
    <3> QED
      BY <3>1, <3>3, <3>4 DEF SearchInv
  <2>2. CASE Probe
    <3>1. outcome = "none" /\ area # 0 /\ slot <= areas[area][2] /\ areas[area] \in mapped
      BY <2>2 DEF Probe, Scanning
    <3>2. CASE area = 1
      <4>1. /\ slot \in BiosFirst..BiosLast /\ mapped = {Region(BiosFirst, BiosLast)}
            /\ FailedBefore(BiosFirst, slot) /\ areas = <<Region(BiosFirst, BiosLast), Ebda>>
        BY <3>1, <3>2, AreaAssumption DEF SearchInv, Searched
      <4>2. memory[slot] \in Rsdp /\ slot \in Nat
        BY <2>e, <4>1, MemoriesAssumption, AreaAssumption, SMTT(30)
      <4>3. CASE MayPass(slot) /\ FoundRsdp
        <5>1. outcome' = "found" /\ mapped' = {} /\ UNCHANGED <<memory, segment, areas, area, slot>>
          BY <3>2, <4>1, <4>3 DEF FoundRsdp
        <5>2. MayPass(slot)'
          BY <4>3, <5>1, Zenon DEF MayPass, ValidateResults
        <5>3. FailedBefore(BiosFirst, slot)'
          BY <2>k, <4>1, <5>1 DEF FailedBefore
        <5> QED
          BY <2>e, <2>k, <3>2, <4>1, <5>1, <5>2, <5>3, SMTT(30) DEF SearchInv, Searched
      <4>4. CASE MayFail(slot) /\ slot' = slot + 1 /\ UNCHANGED <<memory, segment, areas, area, mapped, outcome>>
        <5>1. FailedBefore(BiosFirst, slot + 1)
          BY <4>1, <4>2, <4>4, FailedNext, AreaAssumption, SMTT(30)
        <5> QED
          BY <2>e, <2>k, <3>1, <3>2, <4>1, <4>2, <4>4, <5>1, AreaAssumption DEF SearchInv, Searched, FailedBefore
      <4> QED
        BY <2>2, <4>2, <4>3, <4>4, ProbeOutcome
    <3>3. CASE area = 2
      <4>1. /\ slot \in Ebda[1]..Ebda[2] /\ mapped = {Ebda}
            /\ FailedBefore(BiosFirst, BiosLast + 1) /\ FailedBefore(Ebda[1], slot)
            /\ areas = <<Region(BiosFirst, BiosLast), Ebda>>
        BY <2>e, <3>1, <3>3 DEF SearchInv, Searched
      <4>2. memory[slot] \in Rsdp /\ slot \in Nat
        BY <2>e, <4>1, MemoriesAssumption, AreaAssumption
      <4>3. CASE MayPass(slot) /\ FoundRsdp
        <5>1. outcome' = "found" /\ mapped' = {} /\ UNCHANGED <<memory, segment, areas, area, slot>>
          BY <3>3, <4>1, <4>3 DEF FoundRsdp
        <5>2. MayPass(slot)'
          BY <4>3, <5>1 DEF MayPass, ValidateResults
        <5>3. FailedBefore(BiosFirst, BiosLast + 1)' /\ FailedBefore(Ebda[1], slot)'
          BY <2>k, <4>1, <5>1 DEF FailedBefore
        <5> QED
          BY <2>e, <2>k, <3>3, <4>1, <5>1, <5>2, <5>3, SMTT(30) DEF SearchInv, Searched
      <4>4. CASE MayFail(slot) /\ slot' = slot + 1 /\ UNCHANGED <<memory, segment, areas, area, mapped, outcome>>
        <5>1. FailedBefore(Ebda[1], slot + 1)
          BY <2>e, <4>1, <4>2, <4>4, FailedNext
        <5> QED
          BY <2>e, <2>k, <3>1, <3>3, <4>1, <4>2, <4>4, <5>1, SMTT(30) DEF SearchInv, Searched, FailedBefore
      <4> QED
        BY <2>2, <4>2, <4>3, <4>4, ProbeOutcome
    <3> QED
      BY <3>1, <3>2, <3>3 DEF SearchInv
  <2>3. CASE NextArea
    <3>1. /\ outcome = "none" /\ area # 0 /\ slot > areas[area][2] /\ areas[area] \in mapped
          /\ areas = <<Region(BiosFirst, BiosLast), Ebda>>
      BY <2>3 DEF NextArea, Scanning, SearchInv
    <3>2. CASE area = 1
      <4>1. slot = BiosLast + 1 /\ FailedBefore(BiosFirst, BiosLast + 1) /\ mapped = {areas[1]}
        BY <3>1, <3>2, AreaAssumption DEF SearchInv, Searched
      <4>2. area' = 2 /\ slot' = Ebda[1] /\ mapped' = {} /\ UNCHANGED <<outcome, memory, segment, areas>>
        BY <2>3, <3>1, <3>2, <4>1 DEF NextArea
      <4> QED
        BY <2>e, <2>k, <3>1, <4>1, <4>2 DEF SearchInv, Searched, FailedBefore
    <3>3. CASE area = 2
      <4>1. /\ slot = Ebda[2] + 1 /\ FailedBefore(BiosFirst, BiosLast + 1) /\ FailedBefore(Ebda[1], Ebda[2] + 1)
            /\ mapped = {areas[2]}
        BY <2>e, <3>1, <3>3 DEF SearchInv, Searched
      <4>2. outcome' = "NoValidRsdp" /\ mapped' = {} /\ UNCHANGED <<area, slot, memory, segment, areas>>
        BY <2>3, <3>1, <3>3, <4>1 DEF NextArea
      <4> QED
        BY <2>e, <2>k, <3>1, <3>3, <4>1, <4>2 DEF SearchInv, Searched, FailedBefore
    <3> QED
      BY <3>1, <3>2, <3>3 DEF SearchInv
  <2>m. CASE MapRsdp
    <3>1. /\ outcome = "found" /\ outcome' = "Ok" /\ mapped = {} /\ mapped' = {Region(slot, slot + RsdpSlots - 1)}
          /\ UNCHANGED <<memory, segment, areas, area, slot>>
      BY <2>m DEF MapRsdp, SearchInv, Searched
    <3>2. MayPass(slot) => MayPass(slot)'
      BY <3>1, Zenon DEF MayPass, ValidateResults
    <3>3. \A f, s : FailedBefore(f, s) => FailedBefore(f, s)'
      BY <2>k, <3>1 DEF FailedBefore
    <3>4. Ebda' = Ebda
      BY <2>k, <3>1
    <3>5. Searched'
      BY <3>1, <3>2, <3>3, <3>4 DEF SearchInv, Searched
    <3> QED
      BY <3>1, <3>4, <3>5 DEF SearchInv
  <2>4. CASE UNCHANGED search_vars
    <3>1. (MayPass(slot) => MayPass(slot)')
      BY <2>4, Zenon DEF search_vars, MayPass, ValidateResults
    <3>2. \A f, s : FailedBefore(f, s) => FailedBefore(f, s)'
      BY <2>k, <2>4 DEF search_vars, FailedBefore
    <3>3. Searched'
      <4>1. Searched /\ UNCHANGED <<area, slot, mapped, outcome>> /\ Ebda' = Ebda
        BY <2>k, <2>4 DEF search_vars, SearchInv
      <4>2. CASE outcome \in {"found", "Ok"}
        BY <3>1, <3>2, <4>1, <4>2 DEF Searched
      <4>3. CASE outcome = "NoValidRsdp"
        BY <3>2, <4>1, <4>3 DEF Searched
      <4>4. CASE outcome = "none" /\ area = 0
        BY <4>1, <4>4 DEF Searched
      <4>5. CASE outcome = "none" /\ area = 1
        BY <3>2, <4>1, <4>5 DEF Searched
      <4>6. CASE outcome = "none" /\ area = 2
        BY <3>2, <4>1, <4>6 DEF Searched
      <4> QED
        BY <4>2, <4>3, <4>4, <4>5, <4>6 DEF SearchInv
    <3> QED
      BY <2>k, <2>4, <3>3 DEF search_vars, SearchInv
  <2> QED
    BY <2>p, <2>1, <2>a, <2>2, <2>3, <2>m, <2>4 DEF SearchNext
<1> QED
  BY <1>1, <1>2, PTL DEF SearchSpec

\* search_for_on_bios never has memory mapped twice, drops the mapping of the
\* pointer and of every area it has scanned, and returns with that of the RSDP
\* alone, wherever it is found, or with none.
THEOREM SearchDropsMappings == SearchSpec => []MappingsAreDropped
<1>1. SearchInv => MappingsAreDropped
  <2> SUFFICES ASSUME SearchInv PROVE MappingsAreDropped
    OBVIOUS
  <2>1. CASE outcome = "Ok"
    BY <2>1 DEF SearchInv, Searched, MappingsAreDropped
  <2>2. CASE outcome \in {"found", "NoValidRsdp"}
    BY <2>2 DEF SearchInv, Searched, MappingsAreDropped
  <2>3. CASE outcome = "none"
    <3>1. mapped = {} \/ mapped = {Pointer} \/ mapped = {Region(BiosFirst, BiosLast)} \/ mapped = {Ebda}
      <4>0. area \in {0, 1, 2}
        BY DEF SearchInv
      <4>1. CASE area = 0
        BY <2>3, <4>1 DEF SearchInv, Searched
      <4>2. CASE area = 1
        BY <2>3, <4>2 DEF SearchInv, Searched
      <4>3. CASE area = 2
        BY <2>3, <4>3 DEF SearchInv, Searched
      <4> QED
        BY <4>0, <4>1, <4>2, <4>3, Zenon
    <3>2. \A r, s \in mapped : r = s
      BY <3>1, Zenon
    <3> QED
      BY <2>3, <3>2 DEF MappingsAreDropped
  <2>4. outcome \in {"none", "found", "Ok", "NoValidRsdp"}
    BY DEF SearchInv
  <2> QED
    BY <2>1, <2>2, <2>3, <2>4, Zenon
<1> QED
  BY SearchInvariant, <1>1, PTL

----------------------------------------------------------------------------
Bios == BiosLast - BiosFirst + 1
Slots == Bios + (Ebda[2] - Ebda[1] + 1)

\* The slots of an area, in order.
LEMMA RangeIsSequence ==
    ASSUME NEW a \in Nat, NEW b \in Nat, a <= b
    PROVE  LET s == [i \in 1..(b - a + 1) |-> a + i - 1]
           IN  s \in Seq(Int) /\ Len(s) = b - a + 1 /\ b - a + 1 \in Nat /\ \A i \in 1..(b - a + 1) : s[i] = a + i - 1
<1> DEFINE k == b - a + 1
           s == [i \in 1..k |-> a + i - 1]
<1>1. k \in Nat
  OBVIOUS
<1> HIDE DEF k
<1>2. \A i \in 1..k : a + i - 1 \in Int
  BY <1>1
<1>3. s \in Seq(Int) /\ Len(s) = k /\ \A i \in 1..k : s[i] = a + i - 1
  BY <1>1, <1>2
<1> QED
  BY <1>1, <1>3, Zenon DEF k

\* The order of the search, slot by slot.
LEMMA SearchOrderSlots ==
    ASSUME segment \in Nat
    PROVE  /\ Len(SearchOrder) = Slots /\ Bios \in Nat /\ Slots \in Nat /\ Bios <= Slots
           /\ \A i \in 1..Bios : SearchOrder[i] = BiosFirst + i - 1
           /\ \A i \in (Bios + 1)..Slots : SearchOrder[i] = Ebda[1] + i - Bios - 1
<1> DEFINE range(r) == [i \in 1..(r[2] - r[1] + 1) |-> r[1] + i - 1]
           first == range(<<BiosFirst, BiosLast>>)
           second == range(<<Ebda[1], Ebda[2]>>)
           n == Ebda[2] - Ebda[1] + 1
<1>1. Ebda[1] \in Nat /\ Ebda[2] \in Nat /\ Ebda[1] <= Ebda[2] /\ Ebda = <<Ebda[1], Ebda[2]>>
  BY EbdaIsRange
<1>2. SearchOrder = first \o second
  <2>1. Ebda = IF segment \in EbdaFirst..EbdaLast THEN <<segment, segment + KiB - 1>> ELSE <<EbdaFirst, EbdaLast>>
    BY AreaAssumption DEF Ebda, Region
  <2> QED
    BY <1>1, <2>1, Zenon DEF SearchOrder
<1>3. first \in Seq(Int) /\ Len(first) = Bios /\ Bios \in Nat /\ \A i \in 1..Bios : first[i] = BiosFirst + i - 1
  <2>1. BiosFirst \in Nat /\ BiosLast \in Nat /\ BiosFirst <= BiosLast
    BY AreaAssumption
  <2>2. first = [i \in 1..(BiosLast - BiosFirst + 1) |-> BiosFirst + i - 1]
    OBVIOUS
  <2> QED
    BY <2>1, <2>2, RangeIsSequence, Zenon DEF Bios
<1>4. second \in Seq(Int) /\ Len(second) = n /\ n \in Nat /\ \A i \in 1..n : second[i] = Ebda[1] + i - 1
  <2>1. second = [i \in 1..(Ebda[2] - Ebda[1] + 1) |-> Ebda[1] + i - 1]
    OBVIOUS
  <2> QED
    BY <1>1, <2>1, RangeIsSequence, Zenon
<1> HIDE DEF first, second
<1>5. Slots = Bios + n /\ Slots - Bios = n
  BY <1>1, <1>3 DEF Slots
<1> HIDE DEF n
<1>6. /\ Len(first \o second) = Bios + n
      /\ \A i \in 1..Bios : (first \o second)[i] = first[i]
      /\ \A i \in (Bios + 1)..(Bios + n) : (first \o second)[i] = second[i - Bios]
  <2>1. /\ Len(first \o second) = Len(first) + Len(second)
        /\ \A i \in 1..(Len(first) + Len(second)) :
              (first \o second)[i] = IF i <= Len(first) THEN first[i] ELSE second[i - Len(first)]
    BY <1>3, <1>4, ConcatProperties, Zenon
  <2>2. \A i \in (Bios + 1)..(Bios + n) : i \in 1..(Bios + n) /\ ~(i <= Bios)
    BY <1>3, <1>4
  <2>3. \A i \in 1..Bios : i \in 1..(Bios + n) /\ i <= Bios
    BY <1>3, <1>4
  <2> QED
    BY <1>3, <1>4, <2>1, <2>2, <2>3, SMTT(30)
<1>7. \A i \in (Bios + 1)..Slots : i - Bios \in 1..n /\ Ebda[1] + (i - Bios) - 1 = Ebda[1] + i - Bios - 1
  BY <1>1, <1>3, <1>4, <1>5, SMTT(30)
<1>8. Slots \in Nat /\ Bios <= Slots
  BY <1>3, <1>4, <1>5, SMTT(30)
<1> QED
  BY <1>2, <1>3, <1>4, <1>5, <1>6, <1>7, <1>8, SMTT(30)

\* The search returns the first RSDP that passes validation, in the BIOS area
\* before the EBDA, and fails only when there is none: the two nested loops
\* over the areas skip no slot and look at none twice.
THEOREM FirstValidIsFound == SearchSpec => []FindsFirstValid
<1>1. SearchInv => FindsFirstValid
  <2> SUFFICES ASSUME SearchInv PROVE FindsFirstValid
    OBVIOUS
  <2>e. segment \in Nat /\ Ebda[1] \in Nat /\ Ebda[2] \in Nat /\ Ebda[1] <= Ebda[2]
    BY EbdaIsRange DEF SearchInv
  <2>s. /\ Len(SearchOrder) = Slots /\ Bios \in Nat /\ Slots \in Nat /\ Bios <= Slots
        /\ \A i \in 1..Bios : SearchOrder[i] = BiosFirst + i - 1
        /\ \A i \in (Bios + 1)..Slots : SearchOrder[i] = Ebda[1] + i - Bios - 1
    BY <2>e, SearchOrderSlots
  <2>b. ASSUME NEW s \in BiosFirst..(BiosLast + 1), FailedBefore(BiosFirst, s),
               NEW j \in 1..(s - BiosFirst)
        PROVE  MayFail(SearchOrder[j])
    <3>1. j \in 1..Bios /\ BiosFirst + j - 1 \in BiosFirst..(s - 1)
      BY AreaAssumption DEF Bios
    <3> QED
      BY <2>s, <2>b, <3>1 DEF FailedBefore
  <2>c. ASSUME NEW s \in Ebda[1]..(Ebda[2] + 1), FailedBefore(Ebda[1], s),
               NEW j \in (Bios + 1)..(Bios + s - Ebda[1])
        PROVE  MayFail(SearchOrder[j])
    <3>1. j \in (Bios + 1)..Slots /\ Ebda[1] + j - Bios - 1 \in Ebda[1]..(s - 1)
      <4>1. ASSUME NEW b \in Nat, NEW e \in Nat, NEW f \in Nat, NEW t \in e..(f + 1), NEW i \in (b + 1)..(b + t - e)
            PROVE  i \in (b + 1)..(b + (f - e + 1)) /\ e + i - b - 1 \in e..(t - 1)
        OBVIOUS
      <4>2. Bios \in Nat /\ Ebda[1] \in Nat /\ Ebda[2] \in Nat
        BY <2>e, <2>s
      <4> QED
        BY <4>1, <4>2, <2>c, ZenonT(30) DEF Slots
    <3> QED
      BY <2>s, <2>c, <3>1 DEF FailedBefore
  <2>d. Bios = BiosLast + 1 - BiosFirst /\ BiosLast + 1 \in BiosFirst..(BiosLast + 1)
    BY AreaAssumption DEF Bios
  <2>f. ASSUME FailedBefore(BiosFirst, BiosLast + 1) PROVE \A j \in 1..Bios : MayFail(SearchOrder[j])
    <3>1. \A j \in 1..Bios : BiosFirst + j - 1 \in BiosFirst..(BiosLast + 1 - 1)
      BY AreaAssumption DEF Bios
    <3> QED
      BY <2>f, <2>s, <3>1, AreaAssumption DEF FailedBefore
  <2>1. ASSUME outcome = "Ok", slot \in BiosFirst..BiosLast, FailedBefore(BiosFirst, slot)
        PROVE  \E i \in 1..Len(SearchOrder) : SearchOrder[i] = slot /\ \A j \in 1..(i - 1) : MayFail(SearchOrder[j])
    <3>1. /\ slot - BiosFirst + 1 \in 1..Bios /\ slot - BiosFirst + 1 \in 1..Slots
          /\ BiosFirst + (slot - BiosFirst + 1) - 1 = slot /\ (slot - BiosFirst + 1) - 1 = slot - BiosFirst
      BY <2>s, <2>1, AreaAssumption DEF Bios
    <3>2. \A j \in 1..(slot - BiosFirst) : MayFail(SearchOrder[j])
      BY <2>b, <2>1, AreaAssumption
    <3> QED
      BY <2>s, <3>1, <3>2
  <2>2. ASSUME outcome = "Ok", slot \in Ebda[1]..Ebda[2], FailedBefore(BiosFirst, BiosLast + 1),
               FailedBefore(Ebda[1], slot)
        PROVE  \E i \in 1..Len(SearchOrder) : SearchOrder[i] = slot /\ \A j \in 1..(i - 1) : MayFail(SearchOrder[j])
    <3> DEFINE k == Bios + slot - Ebda[1] + 1
    <3>1. k \in (Bios + 1)..Slots /\ k \in 1..Slots /\ Ebda[1] + k - Bios - 1 = slot /\ k - 1 = Bios + slot - Ebda[1]
      <4>1. ASSUME NEW b \in Nat, NEW e \in Nat, NEW f \in Nat, NEW s \in e..f
            PROVE  /\ b + s - e + 1 \in (b + 1)..(b + (f - e + 1)) /\ b + s - e + 1 \in 1..(b + (f - e + 1))
                   /\ e + (b + s - e + 1) - b - 1 = s /\ (b + s - e + 1) - 1 = b + s - e
        OBVIOUS
      <4>2. Bios \in Nat /\ Ebda[1] \in Nat /\ Ebda[2] \in Nat /\ slot \in Ebda[1]..Ebda[2]
        BY <2>e, <2>s, <2>2
      <4> QED
        BY <4>1, <4>2, ZenonT(30) DEF Slots
    <3>2. \A j \in 1..Bios : MayFail(SearchOrder[j])
      BY <2>2, <2>f
    <3>3. \A j \in (Bios + 1)..(Bios + slot - Ebda[1]) : MayFail(SearchOrder[j])
      BY <2>c, <2>2, <2>e
    <3>4. \A j \in 1..(k - 1) : j \in 1..Bios \/ j \in (Bios + 1)..(Bios + slot - Ebda[1])
      BY <2>s, <3>1
    <3> HIDE DEF k
    <3> QED
      BY <2>s, <3>1, <3>2, <3>3, <3>4, Zenon
  <2>3. ASSUME outcome = "NoValidRsdp" PROVE \A i \in 1..Len(SearchOrder) : MayFail(SearchOrder[i])
    <3>1. FailedBefore(BiosFirst, BiosLast + 1) /\ FailedBefore(Ebda[1], Ebda[2] + 1)
      BY <2>3 DEF SearchInv, Searched
    <3>2. \A j \in 1..Bios : MayFail(SearchOrder[j])
      BY <2>f, <3>1
    <3>3. Bios + (Ebda[2] + 1) - Ebda[1] = Slots /\ Ebda[2] + 1 \in Ebda[1]..(Ebda[2] + 1)
      BY <2>e, <2>s, SMTT(30) DEF Slots
    <3>4. \A j \in (Bios + 1)..Slots : MayFail(SearchOrder[j])
      BY <2>c, <3>1, <3>3
    <3>5. \A j \in 1..Slots : j \in 1..Bios \/ j \in (Bios + 1)..Slots
      BY <2>s
    <3> QED
      BY <2>s, <3>2, <3>4, <3>5
  <2>4. outcome = "Ok" => /\ MayPass(slot)
                          /\ \/ slot \in BiosFirst..BiosLast /\ FailedBefore(BiosFirst, slot)
                             \/ /\ slot \in Ebda[1]..Ebda[2]
                                /\ FailedBefore(BiosFirst, BiosLast + 1) /\ FailedBefore(Ebda[1], slot)
    BY DEF SearchInv, Searched
  <2> HIDE DEF FindsFirstValid
  <2> QED
    BY <2>1, <2>2, <2>3, <2>4 DEF FindsFirstValid
<1> QED
  BY SearchInvariant, <1>1, PTL
=============================================================================
