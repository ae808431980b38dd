--------------------------- MODULE PlatformProofs ---------------------------
(***************************************************************************)
(* Proofs about Platform, for every MADT, FADT and MCFG.                    *)
(***************************************************************************)
EXTENDS Platform, FiniteSetTheorems, SequenceTheorems, WellFoundedInduction, TLAPS

Processors == "application_processors"

\* The types of the entries that are stored in a slice.
StoredTypes(s) ==
    CASE s = "io_apics" -> {"IoApic"}
      [] s = "interrupt_source_overrides" -> {"InterruptSourceOverride"}
      [] s = "nmi_sources" -> {"NmiSource"}
      [] s = "local_apic_nmi_lines" -> {"LocalApicNmi", "X2ApicNmi"}
      [] s = "application_processors" -> {"LocalApic", "LocalX2Apic"}

\* Among the first k entries, those stored in a slice and those counted for it.
Stored(s, k) == {i \in 1..k : table[i].type \in StoredTypes(s)}
Counted(s, k) == {i \in 1..k : s \in CountedFor(table[i])}

Booted == IF boot_processor = None THEN {} ELSE {boot_processor}
Slots(s) == Len(filled[s]) + (IF s = Processors /\ boot_processor # None THEN 1 ELSE 0)
NoX2Apic == Positions({"LocalX2Apic", "X2ApicNmi"}) = {}

Types == ApicTypes \cup SapicTypes \cup GicTypes \cup SkippedTypes \cup {"MultiprocessorWakeup"}

Parsing ==
    /\ table \in Seq(Range(table))
    /\ \A i \in 1..Len(table) : table[i].type \in Types /\ table[i].length \in {"good", "zero", "beyond"}
    /\ pos \in 1..(Len(table) + 1)
    /\ count \in [Slices -> Nat] /\ capacity \in [Slices -> Nat] /\ filled \in [Slices -> Seq(Nat)]
    /\ boot_processor \in Nat

\* Nothing is stored before the third pass.
Untouched == capacity = Zero /\ filled = [s \in Slices |-> <<>>] /\ boot_processor = None

Modelling == count = Zero /\ Untouched /\ \A i \in 1..(pos - 1) : table[i].type \notin ApicTypes

\* An entry without a length is never passed: the pass does not end.
Counting ==
    /\ Untouched /\ Positions(ApicTypes) # {}
    /\ \A i \in 1..(pos - 1) : table[i].length = "good"
    /\ \/ pos <= Len(table) /\ table[pos].length = "zero"
       \/ \A s \in Slices : count[s] = Cardinality(Counted(s, pos - 1))

\* A slice has what is before `pos`, in order, and no more than there are slots;
\* what was counted and is before `pos` has been stored.
SliceFilled(s) ==
    /\ Lists(filled[s], Stored(s, pos - 1) \ Booted)
    /\ Len(filled[s]) <= capacity[s]
    /\ Slots(s) >= Cardinality(Counted(s, pos - 1))
    /\ NoX2Apic => Slots(s) = Cardinality(Counted(s, pos - 1))

Filling ==
    /\ Positions(ApicTypes) # {}
    /\ \A i \in 1..Len(table) : table[i].length = "good"
    /\ \A s \in Slices : count[s] = Cardinality(Counted(s, Len(table)))
    /\ capacity = Capacities(count)
    /\ \A s \in Slices : SliceFilled(s)
    /\ boot_processor = None => Stored(Processors, pos - 1) = {}
    /\ boot_processor # None =>
          /\ boot_processor \in Stored(Processors, pos - 1)
          /\ \A i \in Stored(Processors, pos - 1) : boot_processor <= i

\* What holds in each pass, and of what comes out.
Passes ==
    /\ pass \in {"model", "count", "fill", "done"} /\ (pass # "done" => outcome = "none")
    /\ pass = "model" => Modelling
    /\ pass = "count" => Counting
    /\ pass = "fill" => Filling
    /\ pass = "done" =>
          /\ outcome \in {"Ok", "Unknown", "panic", "InvalidMadt", "AllocError"}
          /\ outcome = "Ok" => boot_processor # None /\ Positions(ApicTypes) # {}
          /\ outcome = "Unknown" => Untouched /\ Positions(ApicTypes) = {}
    /\ SlicesFilledInOrder /\ XapicFits

----------------------------------------------------------------------------
\* What is counted for a slice is stored in it, and the other way round but for
\* the entries of the X2APIC.
LEMMA TypesOfSlices ==
    ASSUME NEW s \in Slices
    PROVE  /\ \A entry : s \in CountedFor(entry) => entry.type \in StoredTypes(s)
           /\ \A entry : entry.type \in StoredTypes(s) \ {"LocalX2Apic", "X2ApicNmi"} => s \in CountedFor(entry)
           /\ StoredTypes(s) \subseteq ApicTypes
           /\ \A t \in Slices \ {s} : StoredTypes(s) \cap StoredTypes(t) = {}
<1>1. \A entry : s \in CountedFor(entry) => entry.type \in StoredTypes(s)
  BY DEF Slices, CountedFor, StoredTypes
<1>2. \A entry : entry.type \in StoredTypes(s) \ {"LocalX2Apic", "X2ApicNmi"} => s \in CountedFor(entry)
  BY DEF Slices, CountedFor, StoredTypes
<1>3. StoredTypes(s) \subseteq ApicTypes
  BY DEF Slices, StoredTypes, ApicTypes
<1>4. \A t \in Slices \ {s} : StoredTypes(s) \cap StoredTypes(t) = {}
  BY DEF Slices, StoredTypes
<1> QED
  BY <1>1, <1>2, <1>3, <1>4

\* One more entry counted.
LEMMA CountedGrows ==
    ASSUME NEW s, NEW k \in Nat
    PROVE  /\ IsFiniteSet(Counted(s, k)) /\ Cardinality(Counted(s, k)) \in Nat /\ Cardinality(Counted(s, k)) <= k
           /\ Cardinality(Counted(s, k + 1)) =
                 IF s \in CountedFor(table[k + 1]) THEN Cardinality(Counted(s, k)) + 1 ELSE Cardinality(Counted(s, k))
           /\ \A j \in 0..k : Cardinality(Counted(s, j)) <= Cardinality(Counted(s, k))
           /\ Cardinality(Counted(s, 0)) = 0
<1>1. \A n \in Nat : IsFiniteSet(1..n) /\ Cardinality(1..n) = n
  BY FS_Interval
<1>2. \A n \in Nat : Counted(s, n) \subseteq 1..n
  BY DEF Counted
<1>3. \A n \in Nat : IsFiniteSet(Counted(s, n)) /\ Cardinality(Counted(s, n)) <= n /\ Cardinality(Counted(s, n)) \in Nat
  <2> TAKE n \in Nat
  <2>1. IsFiniteSet(1..n) /\ Cardinality(1..n) = n /\ Counted(s, n) \subseteq 1..n
    BY <1>1, <1>2
  <2>2. IsFiniteSet(Counted(s, n)) /\ Cardinality(Counted(s, n)) <= Cardinality(1..n)
    BY <2>1, FS_Subset
  <2> QED
    BY <2>1, <2>2, FS_CardinalityType
<1>4. /\ \A i : i \in 1..(k + 1) <=> i \in 1..k \/ i = k + 1
      /\ k + 1 \notin 1..k /\ \A i : i \notin 1..0
  OBVIOUS
<1>5. Cardinality(Counted(s, k + 1)) =
         IF s \in CountedFor(table[k + 1]) THEN Cardinality(Counted(s, k)) + 1 ELSE Cardinality(Counted(s, k))
  <2>1. CASE s \in CountedFor(table[k + 1])
    <3>1. Counted(s, k + 1) = Counted(s, k) \cup {k + 1} /\ k + 1 \notin Counted(s, k)
      BY <1>4, <2>1 DEF Counted
    <3>2. IsFiniteSet(Counted(s, k))
      BY <1>3
    <3>3. Cardinality(Counted(s, k) \cup {k + 1}) = Cardinality(Counted(s, k)) + 1
      BY <3>1, <3>2, FS_AddElement
    <3> QED
      BY <2>1, <3>1, <3>3
  <2>2. CASE s \notin CountedFor(table[k + 1])
    <3>1. Counted(s, k + 1) = Counted(s, k)
      BY <1>4, <2>2 DEF Counted
    <3> QED
      BY <2>2, <3>1
  <2> QED
    BY <2>1, <2>2
<1>6. ASSUME NEW j \in 0..k PROVE Cardinality(Counted(s, j)) <= Cardinality(Counted(s, k))
  <2>1. \A i \in 1..j : i \in 1..k
    BY <1>6
  <2>2. Counted(s, j) \subseteq Counted(s, k)
    BY <2>1 DEF Counted
  <2> QED
    BY <1>3, <2>2, FS_Subset
<1>7. Counted(s, 0) = {}
  BY <1>4, Zenon DEF Counted
<1> QED
  BY <1>3, <1>5, <1>6, <1>7, FS_EmptySet

\* One more entry to store.
LEMMA StoredGrows ==
    ASSUME NEW s, NEW k \in Nat
    PROVE  /\ Stored(s, k + 1) = Stored(s, k) \cup (IF table[k + 1].type \in StoredTypes(s) THEN {k + 1} ELSE {})
           /\ k + 1 \notin Stored(s, k) /\ Stored(s, k) \subseteq 1..k /\ Stored(s, 0) = {}
<1>1. /\ \A i : i \in 1..(k + 1) <=> i \in 1..k \/ i = k + 1
      /\ k + 1 \notin 1..k /\ \A i : i \notin 1..0
  OBVIOUS
<1> QED
  BY <1>1, Zenon DEF Stored

\* A list goes on with a later position.
LEMMA ListsAppend ==
    ASSUME NEW s \in Seq(Nat), NEW P, Lists(s, P), NEW x \in Nat, \A p \in P : p < x
    PROVE  Lists(Append(s, x), P \cup {x})
<1>1. /\ Len(s) \in Nat /\ Len(Append(s, x)) = Len(s) + 1
      /\ \A i \in 1..Len(s) : Append(s, x)[i] = s[i] /\ s[i] \in Nat
      /\ Append(s, x)[Len(s) + 1] = x
      /\ DOMAIN s = 1..Len(s) /\ DOMAIN Append(s, x) = 1..(Len(s) + 1)
  OBVIOUS
<1>2. \A i : i \in 1..(Len(s) + 1) <=> i \in 1..Len(s) \/ i = Len(s) + 1
  BY <1>1
<1>3. Range(Append(s, x)) = P \cup {x}
  BY <1>1, <1>2, Zenon DEF Range, Lists
<1>4. \A i \in 1..Len(s) : s[i] < x
  BY <1>1 DEF Lists, Range
<1>5. \A a, b \in 1..Len(s) : a < b => s[a] < s[b]
  BY DEF Lists
<1>6. ASSUME NEW a \in 1..(Len(s) + 1), NEW b \in 1..(Len(s) + 1), a < b PROVE Append(s, x)[a] < Append(s, x)[b]
  <2>1. a \in 1..Len(s)
    BY <1>1, <1>6
  <2> QED
    BY <1>1, <1>2, <1>4, <1>5, <1>6, <2>1
<1> QED
  BY <1>1, <1>3, <1>6 DEF Lists

\* The table does not change.
LEMMA SameTable ==
    ASSUME table' = table
    PROVE  /\ \A s, k : Stored(s, k)' = Stored(s, k) /\ Counted(s, k)' = Counted(s, k)
           /\ \A types : Positions(types)' = Positions(types)
           /\ NoX2Apic' = NoX2Apic
BY DEF Stored, Counted, Positions, NoX2Apic

----------------------------------------------------------------------------
\* The third pass has stored the entry in the slice it belongs to.
LEMMA StoreFills ==
    ASSUME Parsing, Filling, pos <= Len(table), NEW t \in Slices, table[pos].type \in StoredTypes(t),
           t = Processors => boot_processor # None, Len(filled[t]) < capacity[t],
           filled' = [filled EXCEPT ![t] = Append(filled[t], pos)], pos' = pos + 1,
           UNCHANGED <<table, count, capacity, boot_processor>>
    PROVE  Parsing' /\ Filling'
<1>0. /\ pos \in Nat /\ pos - 1 \in Nat /\ (pos - 1) + 1 = pos /\ pos' - 1 = pos /\ pos # 0 /\ Len(table) \in Nat
      /\ filled \in [Slices -> Seq(Nat)] /\ capacity \in [Slices -> Nat] /\ Processors \in Slices
      /\ boot_processor \in Nat
  <2>1. Processors \in Slices
    BY DEF Processors, Slices
  <2>2. pos \in 1..(Len(table) + 1) /\ Len(table) \in Nat
    BY DEF Parsing
  <2> QED
    BY <2>1, <2>2 DEF Parsing
<1>1. Parsing'
  <2>1. pos' \in 1..(Len(table) + 1)
    BY <1>0
  <2>2. Append(filled[t], pos) \in Seq(Nat)
    BY <1>0
  <2>3. filled' \in [Slices -> Seq(Nat)]
    BY <1>0, <2>2
  <2> QED
    BY <2>1, <2>3 DEF Parsing
<1>2. /\ \A s, k : Stored(s, k)' = Stored(s, k) /\ Counted(s, k)' = Counted(s, k)
      /\ Positions(ApicTypes)' = Positions(ApicTypes) /\ NoX2Apic' = NoX2Apic /\ Booted' = Booted
  BY SameTable, Zenon DEF Booted
<1>3. \A s \in Slices : /\ Stored(s, pos) = Stored(s, pos - 1) \cup (IF table[pos].type \in StoredTypes(s) THEN {pos} ELSE {})
                        /\ pos \notin Stored(s, pos - 1) /\ Stored(s, pos - 1) \subseteq 1..(pos - 1)
  BY <1>0, StoredGrows, SMTT(30)
<1>4. \A s \in Slices \ {t} : table[pos].type \notin StoredTypes(s)
  BY TypesOfSlices
<1>5. pos \notin Booted
  BY <1>0, <1>3 DEF Filling, Booted, None
<1>6. \A s \in Slices : /\ Cardinality(Counted(s, pos - 1)) \in Nat
                        /\ Cardinality(Counted(s, pos)) = IF s \in CountedFor(table[pos]) THEN Cardinality(Counted(s, pos - 1)) + 1
                                                          ELSE Cardinality(Counted(s, pos - 1))
  BY <1>0, CountedGrows
<1>7. ASSUME NEW s \in Slices, s # t PROVE SliceFilled(s)'
  <2>1. filled'[s] = filled[s] /\ Slots(s)' = Slots(s)
    BY <1>0, <1>7 DEF Slots
  <2>2. Stored(s, pos) = Stored(s, pos - 1)
    BY <1>3, <1>4, <1>7, ZenonT(30)
  <2>3. Cardinality(Counted(s, pos)) = Cardinality(Counted(s, pos - 1))
    BY <1>4, <1>6, <1>7, TypesOfSlices
  <2>4. SliceFilled(s)
    BY <1>7 DEF Filling
  <2> QED
    BY <1>0, <1>2, <2>1, <2>2, <2>3, <2>4, Zenon DEF SliceFilled, Lists
<1>8. SliceFilled(t)'
  <2>0. SliceFilled(t) /\ filled[t] \in Seq(Nat) /\ capacity[t] \in Nat
    BY <1>0 DEF Filling
  <2>1. filled'[t] = Append(filled[t], pos) /\ Len(filled'[t]) = Len(filled[t]) + 1 /\ Len(filled[t]) \in Nat
    BY <1>0, <2>0
  <2>2. Stored(t, pos) \ Booted = (Stored(t, pos - 1) \ Booted) \cup {pos}
    BY <1>3, <1>5
  <2>3. \A p \in Stored(t, pos - 1) \ Booted : p < pos
    BY <1>0, <1>3
  <2>4. Lists(filled'[t], Stored(t, pos) \ Booted)
    <3> DEFINE P == Stored(t, pos - 1) \ Booted
    <3>1. Lists(filled[t], P) /\ \A p \in P : p < pos
      BY <2>0, <2>3 DEF SliceFilled
    <3> HIDE DEF P
    <3>2. Lists(Append(filled[t], pos), P \cup {pos})
      BY <1>0, <2>0, <3>1, ListsAppend, SMTT(30)
    <3> QED
      BY <2>1, <2>2, <3>2, Zenon DEF P
  <2>5. Slots(t)' = Slots(t) + 1 /\ Slots(t) \in Nat
    <3> DEFINE b == IF t = Processors /\ boot_processor # None THEN 1 ELSE 0
    <3>1. b \in Nat /\ Slots(t) = Len(filled[t]) + b /\ Slots(t)' = Len(filled'[t]) + b
      BY DEF Slots
    <3> HIDE DEF b
    <3> QED
      BY <2>1, <3>1
  <2>6. Slots(t)' >= Cardinality(Counted(t, pos))
    <3>1. /\ Cardinality(Counted(t, pos - 1)) \in Nat /\ Slots(t) >= Cardinality(Counted(t, pos - 1))
          /\ \/ Cardinality(Counted(t, pos)) = Cardinality(Counted(t, pos - 1)) + 1
             \/ Cardinality(Counted(t, pos)) = Cardinality(Counted(t, pos - 1))
      BY <1>6, <2>0, Zenon DEF SliceFilled
    <3> QED
      BY <2>5, <3>1
  <2>7. ASSUME NoX2Apic PROVE Slots(t)' = Cardinality(Counted(t, pos))
    <3>1. table[pos].type \notin {"LocalX2Apic", "X2ApicNmi"}
      BY <1>0, <2>7 DEF NoX2Apic, Positions
    <3>2. t \in CountedFor(table[pos])
      BY <3>1, TypesOfSlices
    <3> QED
      BY <1>6, <2>0, <2>5, <2>7, <3>2 DEF SliceFilled
  <2>8. Len(filled'[t]) <= capacity[t]
    BY <2>0, <2>1
  <2> QED
    BY <1>0, <1>2, <2>4, <2>6, <2>7, <2>8, Zenon DEF SliceFilled, Lists
<1>9. /\ boot_processor = None => Stored(Processors, pos) = {}
      /\ boot_processor # None => /\ boot_processor \in Stored(Processors, pos)
                                  /\ \A i \in Stored(Processors, pos) : boot_processor <= i
  <2>1. boot_processor = None => Stored(Processors, pos) = Stored(Processors, pos - 1)
    BY <1>0, <1>3, <1>4, ZenonT(30)
  <2>2. boot_processor # None => boot_processor <= pos
    BY <1>0, <1>3 DEF Filling
  <2> QED
    BY <1>0, <1>3, <2>1, <2>2 DEF Filling
<1>10. \A s \in Slices : SliceFilled(s)'
  BY <1>7, <1>8
<1> QED
  BY <1>0, <1>1, <1>2, <1>9, <1>10, Zenon DEF Filling

\* The first processor is the boot processor.
LEMMA BootFills ==
    ASSUME Parsing, Filling, pos <= Len(table), table[pos].type \in StoredTypes(Processors), boot_processor = None,
           boot_processor' = pos, pos' = pos + 1, UNCHANGED <<table, count, capacity, filled>>
    PROVE  Parsing' /\ Filling'
<1>0. /\ pos \in Nat /\ pos - 1 \in Nat /\ (pos - 1) + 1 = pos /\ pos' - 1 = pos /\ pos # None
      /\ filled \in [Slices -> Seq(Nat)] /\ Processors \in Slices
  <2>1. Processors \in Slices
    BY DEF Processors, Slices
  <2>2. pos \in 1..(Len(table) + 1) /\ Len(table) \in Nat
    BY DEF Parsing
  <2> QED
    BY <2>1, <2>2 DEF Parsing, None
<1>1. Parsing'
  <2>1. pos' \in 1..(Len(table) + 1)
    BY <1>0 DEF Parsing
  <2> QED
    BY <1>0, <2>1 DEF Parsing
<1>2. /\ \A s, k : Stored(s, k)' = Stored(s, k) /\ Counted(s, k)' = Counted(s, k)
      /\ Positions(ApicTypes)' = Positions(ApicTypes) /\ NoX2Apic' = NoX2Apic
  BY SameTable, Zenon
<1>3. \A s \in Slices : /\ Stored(s, pos) = Stored(s, pos - 1) \cup (IF table[pos].type \in StoredTypes(s) THEN {pos} ELSE {})
                        /\ pos \notin Stored(s, pos - 1)
  <2> TAKE s \in Slices
  <2>1. /\ Stored(s, (pos - 1) + 1) =
              Stored(s, pos - 1) \cup (IF table[(pos - 1) + 1].type \in StoredTypes(s) THEN {(pos - 1) + 1} ELSE {})
        /\ (pos - 1) + 1 \notin Stored(s, pos - 1)
    BY <1>0, StoredGrows, Zenon
  <2> QED
    BY <1>0, <2>1, Zenon
<1>4. Booted = {} /\ Booted' = {pos} /\ Stored(Processors, pos - 1) = {}
  BY <1>0 DEF Booted, Filling
<1>5. \A s \in Slices : Stored(s, pos) \ {pos} = Stored(s, pos - 1) \ {}
  BY <1>3
<1>6. \A s \in Slices : /\ Cardinality(Counted(s, pos - 1)) \in Nat
                        /\ Cardinality(Counted(s, pos)) = IF s \in CountedFor(table[pos]) THEN Cardinality(Counted(s, pos - 1)) + 1
                                                          ELSE Cardinality(Counted(s, pos - 1))
  BY <1>0, CountedGrows
<1>7. ASSUME NEW s \in Slices PROVE SliceFilled(s)'
  <2>0. SliceFilled(s) /\ Len(filled[s]) \in Nat
    BY <1>0 DEF Filling
  <2>1. Lists(filled'[s], Stored(s, pos) \ {pos}) /\ Len(filled'[s]) <= capacity[s]
    BY <1>4, <1>5, <2>0, Zenon DEF SliceFilled
  <2>2. CASE s = Processors
    <3>1. Slots(s) = Len(filled[s]) + 0 /\ Slots(s)' = Len(filled[s]) + 1
      BY <1>0, <2>2 DEF Slots
    <3>2. /\ Cardinality(Counted(s, pos - 1)) \in Nat /\ Slots(s) >= Cardinality(Counted(s, pos - 1))
          /\ \/ Cardinality(Counted(s, pos)) = Cardinality(Counted(s, pos - 1)) + 1
             \/ Cardinality(Counted(s, pos)) = Cardinality(Counted(s, pos - 1))
      BY <1>6, <2>0, Zenon DEF SliceFilled
    <3>3. Slots(s)' >= Cardinality(Counted(s, pos))
      BY <2>0, <3>1, <3>2
    <3>4. ASSUME NoX2Apic PROVE Slots(s)' = Cardinality(Counted(s, pos))
      <4>1. table[pos].type \notin {"LocalX2Apic", "X2ApicNmi"}
        <5>1. pos \in 1..Len(table)
          BY <1>0 DEF Parsing
        <5> QED
          BY <3>4, <5>1, Zenon DEF NoX2Apic, Positions
      <4>2. s \in CountedFor(table[pos])
        BY <2>2, <4>1, TypesOfSlices
      <4>3. Cardinality(Counted(s, pos)) = Cardinality(Counted(s, pos - 1)) + 1 /\ Slots(s) = Cardinality(Counted(s, pos - 1))
        BY <1>6, <2>0, <3>4, <4>2, Zenon DEF SliceFilled
      <4> QED
        BY <2>0, <3>1, <4>3
    <3> QED
      BY <1>0, <1>2, <1>4, <2>1, <3>3, <3>4, Zenon DEF SliceFilled, Lists
  <2>3. CASE s # Processors
    <3>1. Slots(s)' = Slots(s)
      BY <2>3 DEF Slots
    <3>2. table[pos].type \notin StoredTypes(s)
      BY <1>0, <2>3, TypesOfSlices
    <3>3. Cardinality(Counted(s, pos)) = Cardinality(Counted(s, pos - 1))
      BY <1>6, <3>2, TypesOfSlices
    <3> QED
      BY <1>0, <1>2, <1>4, <2>0, <2>1, <3>1, <3>3, Zenon DEF SliceFilled, Lists
  <2> QED
    BY <2>2, <2>3
<1>8. /\ boot_processor' # None /\ boot_processor' \in Stored(Processors, pos)
      /\ \A i \in Stored(Processors, pos) : boot_processor' <= i
  BY <1>0, <1>3, <1>4
<1> QED
  BY <1>0, <1>1, <1>2, <1>7, <1>8, Zenon DEF Filling

\* An entry that no slice is for.
LEMMA SkipFills ==
    ASSUME Parsing, Filling, pos <= Len(table), \A s \in Slices : table[pos].type \notin StoredTypes(s),
           pos' = pos + 1, UNCHANGED <<table, count, capacity, filled, boot_processor>>
    PROVE  Parsing' /\ Filling'
<1>0. pos \in Nat /\ pos - 1 \in Nat /\ (pos - 1) + 1 = pos /\ pos' - 1 = pos /\ Processors \in Slices
  <2>1. Processors \in Slices
    BY DEF Processors, Slices
  <2>2. pos \in 1..(Len(table) + 1) /\ Len(table) \in Nat
    BY DEF Parsing
  <2> QED
    BY <2>1, <2>2
<1>1. Parsing'
  <2>1. pos' \in 1..(Len(table) + 1)
    BY <1>0 DEF Parsing
  <2> QED
    BY <2>1 DEF Parsing
<1>2. /\ \A s, k : Stored(s, k)' = Stored(s, k) /\ Counted(s, k)' = Counted(s, k)
      /\ Positions(ApicTypes)' = Positions(ApicTypes) /\ NoX2Apic' = NoX2Apic /\ Booted' = Booted
      /\ \A s : Slots(s)' = Slots(s)
  BY SameTable, Zenon DEF Booted, Slots
<1>3. \A s \in Slices : Stored(s, pos) = Stored(s, pos - 1)
  <2> TAKE s \in Slices
  <2>1. Stored(s, (pos - 1) + 1) =
           Stored(s, pos - 1) \cup (IF table[(pos - 1) + 1].type \in StoredTypes(s) THEN {(pos - 1) + 1} ELSE {})
    BY <1>0, StoredGrows, Zenon
  <2> QED
    BY <1>0, <2>1, Zenon
<1>4. \A s \in Slices : Cardinality(Counted(s, pos)) = Cardinality(Counted(s, pos - 1))
  <2> TAKE s \in Slices
  <2>1. s \notin CountedFor(table[pos])
    BY TypesOfSlices
  <2> QED
    BY <1>0, <2>1, CountedGrows
<1>5. \A s \in Slices : SliceFilled(s)'
  BY <1>0, <1>2, <1>3, <1>4, Zenon DEF SliceFilled, Lists, Filling
<1> QED
  BY <1>0, <1>1, <1>2, <1>3, <1>5, Zenon DEF Filling

\* A list that gets a first element.
LEMMA ListsCons ==
    ASSUME NEW s \in Seq(Nat), NEW P, Lists(s, P), NEW x \in Nat, \A p \in P : x < p
    PROVE  Lists(<<x>> \o s, P \cup {x})
<1> DEFINE t == <<x>> \o s
<1>1. /\ Len(s) \in Nat /\ Len(t) = Len(s) + 1 /\ t[1] = x
      /\ \A i \in 1..Len(s) : t[i + 1] = s[i] /\ s[i] \in Nat
      /\ DOMAIN s = 1..Len(s) /\ DOMAIN t = 1..(Len(s) + 1)
  OBVIOUS
<1> HIDE DEF t
<1>2. \A i \in 1..(Len(s) + 1) : i = 1 \/ (i - 1 \in 1..Len(s) /\ i = (i - 1) + 1)
  BY <1>1
<1>3. /\ \A i \in 1..Len(s) : i + 1 \in 1..(Len(s) + 1)
      /\ 1 \in 1..(Len(s) + 1)
  BY <1>1
<1>4. \A i \in 1..Len(s) : s[i] \in P
  BY <1>1, SMTT(30) DEF Lists, Range
<1>5. Range(t) \subseteq P \cup {x}
  <2>1. \A i \in 1..(Len(s) + 1) : t[i] = x \/ t[i] \in P
    BY <1>1, <1>2, <1>4, Zenon
  <2> QED
    BY <1>1, <2>1, ZenonT(30) DEF Range
<1>6. P \cup {x} \subseteq Range(t)
  <2>1. \A p \in P : \E i \in 1..Len(s) : p = s[i]
    BY <1>1, Zenon DEF Lists, Range
  <2>2. \A p \in P : \E j \in 1..(Len(s) + 1) : p = t[j]
    BY <1>1, <1>3, <2>1, ZenonT(30)
  <2> QED
    BY <1>1, <1>3, <2>2, Zenon DEF Range
<1>7. ASSUME NEW a \in 1..(Len(s) + 1), NEW b \in 1..(Len(s) + 1), a < b PROVE t[a] < t[b]
  <2>1. b - 1 \in 1..Len(s) /\ b = (b - 1) + 1
    BY <1>1, <1>7
  <2>2. t[b] = s[b - 1] /\ s[b - 1] \in P
    BY <1>1, <1>4, <2>1, Zenon
  <2>3. CASE a = 1
    BY <1>1, <2>2, <2>3
  <2>4. CASE a # 1
    <3>1. a - 1 \in 1..Len(s) /\ a = (a - 1) + 1 /\ a - 1 < b - 1
      BY <1>1, <1>7, <2>4
    <3>2. t[a] = s[a - 1]
      BY <1>1, <3>1, Zenon
    <3>3. s[a - 1] < s[b - 1]
      BY <2>1, <3>1, Zenon DEF Lists
    <3> QED
      BY <2>2, <3>2, <3>3
  <2> QED
    BY <2>3, <2>4
<1> QED
  BY <1>1, <1>5, <1>6, <1>7 DEF Lists, t

\* The parser comes to an end with this outcome.
LEMMA StopPasses ==
    ASSUME Parsing, NEW res \in {"Ok", "Unknown", "panic", "InvalidMadt", "AllocError"}, Stop(res),
           SlicesFilledInOrder', XapicFits',
           res = "Ok" => boot_processor # None /\ Positions(ApicTypes) # {},
           res = "Unknown" => Untouched /\ Positions(ApicTypes) = {}
    PROVE  Parsing' /\ Passes'
<1>1. Positions(ApicTypes)' = Positions(ApicTypes)
  BY SameTable, Zenon DEF Stop
<1>2. Parsing'
  BY Zenon DEF Parsing, Stop
<1>3. Untouched' = Untouched
  BY DEF Untouched, Stop
<1> QED
  BY <1>1, <1>2, <1>3 DEF Passes, Stop

\* Nothing is said of these outcomes.
LEMMA OtherOutcome ==
    ASSUME outcome' \notin {"Ok", "panic"}
    PROVE  SlicesFilledInOrder' /\ XapicFits'
BY DEF SlicesFilledInOrder, XapicFits

\* The end of the third pass: every slot was written, in the order of the table.
LEMMA FinishPasses ==
    ASSUME Parsing, Passes, Finish
    PROVE  Parsing' /\ Passes'
<1>0. /\ pass = "fill" /\ Filling /\ pos = Len(table) + 1 /\ pos - 1 = Len(table) /\ Len(table) \in Nat
      /\ filled \in [Slices -> Seq(Nat)] /\ capacity \in [Slices -> Nat] /\ count \in [Slices -> Nat]
      /\ boot_processor \in Nat
  BY DEF Passes, Finish, Exhausted, Parsing
<1>1. \A s \in Slices : Stored(s, pos - 1) = Positions(StoredTypes(s))
  BY <1>0, Zenon DEF Stored, Positions
<1>2. Processors \in Slices
  BY DEF Processors, Slices
<1>3. CASE boot_processor = None
  <2>1. Stop("panic")
    BY <1>3 DEF Finish
  <2>2. Positions({"LocalApic", "LocalX2Apic"}) = {}
    BY <1>0, <1>1, <1>2, <1>3 DEF Filling, StoredTypes, Processors
  <2>3. Positions({"LocalApic"}) = {}
    BY <2>2 DEF Positions
  <2>4. XapicFits' /\ SlicesFilledInOrder'
    <3>1. Positions({"LocalApic"})' = {}
      BY <2>1, <2>3, SameTable DEF Stop
    <3> QED
      BY <2>1, <3>1 DEF XapicFits, SlicesFilledInOrder, Stop
  <2> QED
    BY <2>1, <2>4, StopPasses
<1>4. CASE boot_processor # None
  <2>1. Stop("Ok") /\ Booted = {boot_processor}
    BY <1>4 DEF Finish, Booted
  <2>2. /\ boot_processor \in Positions(StoredTypes(Processors))
        /\ \A i \in Positions(StoredTypes(Processors)) : boot_processor <= i
    BY <1>0, <1>1, <1>2, <1>4 DEF Filling
  <2>3. \A s \in Slices : Lists(filled[s], Positions(StoredTypes(s)) \ {boot_processor})
    BY <1>0, <1>1, <2>1, Zenon DEF Filling, SliceFilled
  <2>4. ASSUME NEW s \in Slices, s # Processors PROVE Lists(filled[s], Positions(StoredTypes(s)))
    <3>1. boot_processor \notin Positions(StoredTypes(s))
      BY <1>2, <2>2, <2>4, TypesOfSlices, SMTT(30) DEF Positions
    <3>2. Positions(StoredTypes(s)) \ {boot_processor} = Positions(StoredTypes(s))
      BY <3>1
    <3> QED
      BY <2>3, <3>2
  <2>5. Lists(<<boot_processor>> \o filled[Processors], Positions(StoredTypes(Processors)))
    <3> DEFINE P == Positions(StoredTypes(Processors)) \ {boot_processor}
    <3>1. \A p \in P : boot_processor < p
      <4>1. P \subseteq Int
        BY DEF Positions
      <4> QED
        BY <1>0, <2>2, <4>1
    <3>2. P \cup {boot_processor} = Positions(StoredTypes(Processors))
      BY <2>2
    <3>3. Lists(filled[Processors], P) /\ filled[Processors] \in Seq(Nat)
      BY <1>0, <1>2, <2>3
    <3> HIDE DEF P
    <3> QED
      BY <1>0, <3>1, <3>2, <3>3, ListsCons, ZenonT(30)
  <2>6. ASSUME NEW s \in Slices PROVE Len(filled[s]) = capacity[s]
    <3>1. /\ Len(filled[s]) <= capacity[s] /\ Slots(s) >= count[s] /\ count[s] \in Nat /\ capacity[s] \in Nat
          /\ Len(filled[s]) \in Nat
      <4>1. SliceFilled(s) /\ count[s] = Cardinality(Counted(s, pos - 1))
        BY <1>0, <2>6 DEF Filling
      <4> QED
        BY <1>0, <2>6, <4>1 DEF SliceFilled
    <3>2. CASE s = Processors
      <4>1. capacity[s] = IF count[s] = 0 THEN 0 ELSE count[s] - 1
        BY <1>0, <3>2 DEF Filling, Capacities, Processors, Slices
      <4>2. Slots(s) = Len(filled[s]) + 1
        BY <1>4, <3>2 DEF Slots
      <4> QED
        BY <3>1, <4>1, <4>2
    <3>3. CASE s # Processors
      <4>1. capacity[s] = count[s]
        BY <1>0, <2>6, <3>3 DEF Filling, Capacities, Processors
      <4>2. Slots(s) = Len(filled[s]) + 0
        BY <3>3 DEF Slots
      <4> QED
        BY <3>1, <4>1, <4>2
    <3> QED
      BY <3>2, <3>3
  <2>7. SlicesFilledInOrder'
    <3>1. /\ Lists(<<boot_processor>> \o filled["application_processors"], Positions({"LocalApic", "LocalX2Apic"}))
          /\ Lists(filled["local_apic_nmi_lines"], Positions({"LocalApicNmi", "X2ApicNmi"}))
          /\ Lists(filled["io_apics"], Positions({"IoApic"}))
          /\ Lists(filled["interrupt_source_overrides"], Positions({"InterruptSourceOverride"}))
          /\ Lists(filled["nmi_sources"], Positions({"NmiSource"}))
      BY <2>4, <2>5 DEF StoredTypes, Slices, Processors
    <3>2. \A types : Positions(types)' = Positions(types)
      BY <2>1, SameTable DEF Stop
    <3> QED
      BY <2>1, <2>6, <3>1, <3>2, Zenon DEF Stop, SlicesFilledInOrder, Lists
  <2>8. XapicFits'
    BY <2>1 DEF XapicFits, Stop
  <2> QED
    BY <1>0, <1>4, <2>1, <2>7, <2>8, StopPasses DEF Filling
<1> QED
  BY <1>3, <1>4

\* The third pass moves on by one entry.
LEMMA FillAdvances ==
    ASSUME Parsing, Passes, pass = "fill", AtEntry
    PROVE  /\ Filling /\ pos \in 1..Len(table) /\ pos <= Len(table) /\ Len(table) \in Nat
           /\ Advance => pos' = pos + 1
           /\ Parsing' /\ Filling' /\ pass' = pass /\ outcome' = outcome => Parsing' /\ Passes'
<1>1. Filling /\ pos \in 1..Len(table) /\ pos <= Len(table) /\ Len(table) \in Nat
  <2>1. pos \in 1..(Len(table) + 1) /\ Len(table) \in Nat
    BY DEF Parsing
  <2> QED
    BY <2>1 DEF Passes, AtEntry, Exhausted
<1>2. Entry.length = "good"
  BY <1>1, Zenon DEF Filling, Entry
<1>3. outcome = "none"
  BY DEF Passes
<1>4. ASSUME Parsing', Filling', pass' = pass, outcome' = outcome PROVE Passes'
  BY <1>3, <1>4 DEF Passes, SlicesFilledInOrder, XapicFits
<1> QED
  BY <1>1, <1>2, <1>4 DEF Advance

\* The third pass stores an entry; if there is no slot for it, the table has
\* entries of the X2APIC.
LEMMA StorePasses ==
    ASSUME Parsing, Passes, pass = "fill", AtEntry, NEW s \in Slices, Entry.type \in StoredTypes(s),
           s = Processors => boot_processor # None, Store(s)
    PROVE  Parsing' /\ Passes'
<1>0. /\ Filling /\ pos \in 1..Len(table) /\ pos <= Len(table) /\ Len(table) \in Nat
      /\ Advance => pos' = pos + 1
      /\ Parsing' /\ Filling' /\ pass' = pass /\ outcome' = outcome => Parsing' /\ Passes'
      /\ table[pos].type \in StoredTypes(s)
  BY FillAdvances DEF Entry
<1>1. CASE Len(filled[s]) < capacity[s]
  <2>1. /\ filled' = [filled EXCEPT ![s] = Append(filled[s], pos)] /\ pos' = pos + 1
        /\ UNCHANGED <<table, pass, count, capacity, boot_processor, outcome>>
    BY <1>0, <1>1 DEF Store
  <2>2. Parsing' /\ Filling'
    BY <1>0, <1>1, <2>1, StoreFills, Zenon
  <2> QED
    BY <1>0, <2>1, <2>2
<1>2. CASE ~(Len(filled[s]) < capacity[s])
  <2>1. Stop("panic")
    BY <1>2 DEF Store
  <2>2. ASSUME NoX2Apic PROVE FALSE
    <3>1. /\ SliceFilled(s) /\ count[s] = Cardinality(Counted(s, Len(table)))
          /\ Len(filled[s]) \in Nat /\ capacity[s] \in Nat /\ count[s] \in Nat
      BY <1>0 DEF Filling, Parsing
    <3>2. table[pos].type \notin {"LocalX2Apic", "X2ApicNmi"}
      BY <1>0, <2>2, Zenon DEF NoX2Apic, Positions
    <3>3. s \in CountedFor(table[pos])
      BY <1>0, <3>2, TypesOfSlices
    <3>4. pos - 1 \in Nat /\ (pos - 1) + 1 = pos /\ pos \in 0..Len(table)
      BY <1>0
    <3>5. /\ Cardinality(Counted(s, pos)) = Cardinality(Counted(s, pos - 1)) + 1
          /\ Cardinality(Counted(s, pos - 1)) \in Nat
      BY <3>3, <3>4, CountedGrows
    <3>6. Cardinality(Counted(s, pos)) <= Cardinality(Counted(s, Len(table)))
      BY <1>0, <3>4, CountedGrows
    <3>7. Slots(s) = Cardinality(Counted(s, pos - 1))
      BY <2>2, <3>1 DEF SliceFilled
    <3>8. Slots(s) + 1 <= count[s] /\ Slots(s) \in Nat
      BY <3>1, <3>5, <3>6, <3>7
    <3>9. CASE s = Processors
      <4>1. capacity[s] = IF count[s] = 0 THEN 0 ELSE count[s] - 1
        BY <1>0, <3>9 DEF Filling, Capacities, Processors, Slices, Parsing
      <4>2. Slots(s) = Len(filled[s]) + 1
        BY <3>9 DEF Slots
      <4> QED
        BY <1>2, <3>1, <3>8, <4>1, <4>2, SMTT(30)
    <3>10. CASE s # Processors
      <4>1. capacity[s] = count[s]
        BY <1>0, <3>10 DEF Filling, Capacities, Processors, Parsing
      <4>2. Slots(s) = Len(filled[s]) + 0
        BY <3>10 DEF Slots
      <4> QED
        BY <1>2, <3>1, <3>8, <4>1, <4>2, SMTT(30)
    <3> QED
      BY <3>9, <3>10, SMTT(30)
  <2>3. Positions({"LocalX2Apic", "X2ApicNmi"} \cup SapicTypes \cup GicTypes)' # {}
    <3>1. Positions({"LocalX2Apic", "X2ApicNmi"} \cup SapicTypes \cup GicTypes) # {}
      BY <2>2, Zenon DEF NoX2Apic, Positions
    <3> QED
      BY <2>1, <3>1, SameTable DEF Stop
  <2>4. SlicesFilledInOrder' /\ XapicFits'
    BY <2>1, <2>3 DEF SlicesFilledInOrder, XapicFits, Stop
  <2> QED
    BY <2>1, <2>4, StopPasses
<1> QED
  BY <1>1, <1>2

\* The third pass turns the table down.
LEMMA InvalidPasses ==
    ASSUME Parsing, NEW res \in {"InvalidMadt", "AllocError"}, Stop(res)
    PROVE  Parsing' /\ Passes'
<1>1. outcome' \notin {"Ok", "panic"}
  BY DEF Stop
<1> QED
  BY <1>1, OtherOutcome, StopPasses

LEMMA FillPasses ==
    ASSUME Parsing, Passes,
           \/ FillProcessor \/ FillIoApic \/ FillInterruptSourceOverride \/ FillNmiSource \/ FillLocalNmi
           \/ FillAddressOverride \/ FillOther
    PROVE  Parsing' /\ Passes'
<1>0. pass = "fill" /\ AtEntry
  BY DEF FillProcessor, FillIoApic, FillInterruptSourceOverride, FillNmiSource, FillLocalNmi, FillAddressOverride, FillOther
<1>1. /\ Filling /\ pos \in 1..Len(table) /\ pos <= Len(table) /\ Len(table) \in Nat
      /\ Advance => pos' = pos + 1
      /\ Parsing' /\ Filling' /\ pass' = pass /\ outcome' = outcome => Parsing' /\ Passes'
      /\ Entry = table[pos]
  BY <1>0, FillAdvances DEF Entry
<1>2. /\ Slices = {"io_apics", "interrupt_source_overrides", "nmi_sources", "local_apic_nmi_lines", Processors}
      /\ StoredTypes("io_apics") = {"IoApic"}
      /\ StoredTypes("interrupt_source_overrides") = {"InterruptSourceOverride"}
      /\ StoredTypes("nmi_sources") = {"NmiSource"}
      /\ StoredTypes("local_apic_nmi_lines") = {"LocalApicNmi", "X2ApicNmi"}
      /\ StoredTypes(Processors) = {"LocalApic", "LocalX2Apic"}
      /\ Processors \notin {"io_apics", "interrupt_source_overrides", "nmi_sources", "local_apic_nmi_lines"}
  BY DEF Slices, Processors, StoredTypes
<1>3. CASE FillProcessor
  <2>1. CASE boot_processor # None
    BY <1>0, <1>2, <1>3, <2>1, StorePasses DEF FillProcessor, Processors
  <2>2. CASE boot_processor = None
    <3>1. boot_processor' = pos /\ pos' = pos + 1 /\ UNCHANGED <<table, pass, count, capacity, filled, outcome>>
      BY <1>1, <1>3, <2>2 DEF FillProcessor
    <3>2. table[pos].type \in StoredTypes(Processors)
      BY <1>1, <1>2, <1>3 DEF FillProcessor
    <3>3. Parsing' /\ Filling'
      BY <1>1, <2>2, <3>1, <3>2, BootFills
    <3> QED
      BY <1>1, <3>1, <3>3
  <2> QED
    BY <2>1, <2>2
<1>4. CASE FillIoApic
  BY <1>0, <1>2, <1>4, StorePasses DEF FillIoApic
<1>5. CASE FillInterruptSourceOverride
  BY <1>0, <1>2, <1>5, StorePasses, InvalidPasses, SMTT(30) DEF FillInterruptSourceOverride
<1>6. CASE FillNmiSource
  BY <1>0, <1>2, <1>6, StorePasses, InvalidPasses DEF FillNmiSource
<1>7. CASE FillLocalNmi
  BY <1>0, <1>2, <1>7, StorePasses, InvalidPasses DEF FillLocalNmi
<1>8. ASSUME Entry.type \notin ApicTypes \ {"LocalApicAddressOverride"}, Advance,
             UNCHANGED <<table, pass, count, capacity, filled, boot_processor, outcome>>
      PROVE  Parsing' /\ Passes'
  <2>1. \A s \in Slices : table[pos].type \notin StoredTypes(s)
    BY <1>1, <1>2, <1>8 DEF ApicTypes
  <2>2. Parsing' /\ Filling'
    BY <1>1, <1>8, <2>1, SkipFills
  <2> QED
    BY <1>1, <1>8, <2>2
<1>9. CASE FillAddressOverride
  BY <1>8, <1>9 DEF FillAddressOverride
<1>10. CASE FillOther
  BY <1>8, <1>10, InvalidPasses DEF FillOther
<1> QED
  BY <1>3, <1>4, <1>5, <1>6, <1>7, <1>9, <1>10

----------------------------------------------------------------------------
\* The first pass.
LEMMA FindModelPasses ==
    ASSUME Parsing, Passes, FindModel
    PROVE  Parsing' /\ Passes'
<1>0. /\ pass = "model" /\ Modelling /\ outcome = "none" /\ Len(table) \in Nat /\ pos \in 1..(Len(table) + 1)
      /\ Untouched /\ \A i \in 1..(pos - 1) : table[i].type \notin ApicTypes
  BY DEF FindModel, Passes, Modelling, Parsing
<1>1. ASSUME AtEntry PROVE pos \in 1..Len(table) /\ Entry = table[pos]
  BY <1>0, <1>1 DEF AtEntry, Exhausted, Entry
<1>2. ASSUME AtEntry, Entry.type \in ApicTypes, pass' = "count", Rewind,
             UNCHANGED <<table, count, capacity, filled, boot_processor, local_apic_address, outcome>>
      PROVE  Parsing' /\ Passes'
  <2>1. Positions(ApicTypes) # {}
    BY <1>1, <1>2 DEF Positions
  <2>2. Positions(ApicTypes)' # {}
    BY <1>2, <2>1, SameTable
  <2>3. pos' = 1 /\ pos' - 1 = 0 /\ 1 \in 1..(Len(table) + 1) /\ \A i : i \notin 1..0
    BY <1>0, <1>2 DEF Rewind
  <2>4. Parsing'
    BY <1>2, <2>3, Zenon DEF Parsing
  <2>5. \A s \in Slices : count'[s] = Cardinality(Counted(s, 0)')
    <3>1. \A s \in Slices : Cardinality(Counted(s, 0)) = 0
      BY CountedGrows
    <3>2. \A s \in Slices : count[s] = 0
      BY <1>0, Zenon DEF Modelling, Zero
    <3> QED
      BY <1>2, <3>1, <3>2, SameTable
  <2>6. Untouched'
    BY <1>0, <1>2 DEF Untouched
  <2>7. Counting'
    BY <2>2, <2>3, <2>5, <2>6, Zenon DEF Counting
  <2> QED
    BY <1>0, <1>2, <2>4, <2>7 DEF Passes, SlicesFilledInOrder, XapicFits
<1>3. ASSUME AtEntry, Entry.type \in SapicTypes \cup GicTypes, Stop("panic") PROVE Parsing' /\ Passes'
  <2>1. Positions({"LocalX2Apic", "X2ApicNmi"} \cup SapicTypes \cup GicTypes) # {}
    BY <1>1, <1>3 DEF Positions
  <2>2. Positions({"LocalX2Apic", "X2ApicNmi"} \cup SapicTypes \cup GicTypes)' # {}
    BY <1>3, <2>1, SameTable DEF Stop
  <2>3. SlicesFilledInOrder' /\ XapicFits'
    BY <1>3, <2>2, Zenon DEF SlicesFilledInOrder, XapicFits, Stop
  <2> QED
    BY <1>3, <2>3, StopPasses
<1>4. ASSUME AtEntry, Entry.type \in SkippedTypes \cup {"MultiprocessorWakeup"}, Advance,
             UNCHANGED <<table, pass, count, capacity, filled, boot_processor, local_apic_address, outcome>>
      PROVE  Parsing' /\ Passes'
  <2>1. table[pos].type \notin ApicTypes /\ pos \in 1..Len(table)
    BY <1>1, <1>4 DEF SkippedTypes, ApicTypes
  <2>2. pos' \in 1..(Len(table) + 1) /\ \A i \in 1..(pos' - 1) : i \in 1..(pos - 1) \/ i = pos
    BY <1>0, <1>4, <2>1 DEF Advance
  <2>3. Parsing'
    BY <1>4, <2>2, Zenon DEF Parsing
  <2>4. \A i \in 1..(pos' - 1) : table[i].type \notin ApicTypes
    BY <1>0, <2>1, <2>2, Zenon
  <2>5. Modelling'
    BY <1>0, <1>4, <2>4 DEF Modelling, Untouched
  <2> QED
    BY <1>0, <1>4, <2>3, <2>5 DEF Passes, SlicesFilledInOrder, XapicFits
<1>5. ASSUME Exhausted, Stop("Unknown") PROVE Parsing' /\ Passes'
  <2>1. \A i \in 1..Len(table) : i \in 1..(pos - 1)
    BY <1>0, <1>5 DEF Exhausted
  <2>2. Positions(ApicTypes) = {}
    BY <1>0, <2>1, Zenon DEF Positions
  <2>3. outcome' \notin {"Ok", "panic"}
    BY <1>5 DEF Stop
  <2> QED
    BY <1>0, <1>5, <2>2, <2>3, OtherOutcome, StopPasses
<1> QED
  BY <1>2, <1>3, <1>4, <1>5, SMTT(30) DEF FindModel

\* The second pass.
LEMMA CountPasses ==
    ASSUME Parsing, Passes, Count
    PROVE  Parsing' /\ Passes'
<1>0. /\ pass = "count" /\ Counting /\ outcome = "none" /\ Len(table) \in Nat /\ pos \in 1..(Len(table) + 1)
      /\ count \in [Slices -> Nat]
      /\ count' = [s \in Slices |-> IF s \in CountedFor(table[pos]) /\ count[s] < CountBound THEN count[s] + 1 ELSE count[s]]
      /\ UNCHANGED <<table, pass, capacity, filled, boot_processor, local_apic_address, outcome>>
  BY DEF Count, Passes, Parsing, Entry
<1>1. pos \in 1..Len(table) /\ Entry = table[pos] /\ table[pos].length # "beyond"
  BY <1>0 DEF Count, AtEntry, Exhausted, Entry
<1>2. table[pos].length \in {"good", "zero"} /\ pos \in Nat /\ pos - 1 \in Nat /\ (pos - 1) + 1 = pos
  BY <1>0, <1>1 DEF Parsing
<1>3. count' \in [Slices -> Nat]
  <2>1. \A s \in Slices : (IF s \in CountedFor(table[pos]) /\ count[s] < CountBound THEN count[s] + 1 ELSE count[s]) \in Nat
    BY <1>0
  <2> QED
    BY <1>0, <2>1
<1>4. pos' = IF table[pos].length = "zero" THEN pos ELSE pos + 1
  BY <1>1 DEF Count, Advance
<1>5. Parsing'
  <2>1. pos' \in 1..(Len(table) + 1)
    BY <1>1, <1>2, <1>4, SMTT(30)
  <2> QED
    BY <1>0, <1>3, <2>1, Zenon DEF Parsing
<1>6. Positions(ApicTypes)' # {} /\ Untouched'
  BY <1>0, SameTable DEF Counting, Untouched
<1>7. Counting'
  <2>1. CASE table[pos].length = "zero"
    <3>1. pos' = pos /\ pos <= Len(table)
      BY <1>1, <1>4, <2>1
    <3> QED
      BY <1>0, <1>6, <2>1, <3>1, Zenon DEF Counting
  <2>2. CASE table[pos].length = "good"
    <3>1. pos' = pos + 1 /\ pos' - 1 = pos /\ \A i \in 1..pos : i \in 1..(pos - 1) \/ i = pos
      BY <1>2, <1>4, <2>2
    <3>2. \A i \in 1..pos : table[i].length = "good"
      BY <1>0, <2>2, <3>1, Zenon DEF Counting
    <3>3. ASSUME NEW s \in Slices PROVE count'[s] = Cardinality(Counted(s, pos))
      <4>1. count[s] = Cardinality(Counted(s, pos - 1))
        BY <1>0, <2>2 DEF Counting
      <4>2. /\ Cardinality(Counted(s, pos - 1)) <= pos - 1 /\ Cardinality(Counted(s, pos - 1)) \in Nat
            /\ Cardinality(Counted(s, pos)) = IF s \in CountedFor(table[pos]) THEN Cardinality(Counted(s, pos - 1)) + 1
                                              ELSE Cardinality(Counted(s, pos - 1))
        BY <1>2, CountedGrows
      <4>3. count[s] < CountBound
        BY <1>0, <1>1, <4>1, <4>2 DEF CountBound
      <4> QED
        BY <1>0, <4>1, <4>2, <4>3, Zenon
    <3>4. \A s, k : Counted(s, k)' = Counted(s, k)
      BY <1>0, SameTable, Zenon
    <3>5. (\A s \in Slices : count[s] = Cardinality(Counted(s, pos - 1)))'
      BY <3>1, <3>3, <3>4, Zenon
    <3> QED
      BY <1>0, <1>6, <3>1, <3>2, <3>5, Zenon DEF Counting
  <2> QED
    BY <1>2, <2>1, <2>2
<1> QED
  BY <1>0, <1>5, <1>7, SMTT(30) DEF Passes, SlicesFilledInOrder, XapicFits

\* The slices are allocated, with a slot for each entry that was counted.
LEMMA AllocatePasses ==
    ASSUME Parsing, Passes, Allocate
    PROVE  Parsing' /\ Passes'
<1>0. /\ pass = "count" /\ Counting /\ outcome = "none" /\ Len(table) \in Nat /\ pos = Len(table) + 1
      /\ pos - 1 = Len(table) /\ count \in [Slices -> Nat] /\ ~(pos <= Len(table))
  BY DEF Allocate, Passes, Parsing, Exhausted
<1>1. CASE Stop("AllocError")
  BY <1>1, InvalidPasses
<1>2. ASSUME capacity' = Capacities(count), pass' = "fill", Rewind,
             UNCHANGED <<table, count, filled, boot_processor, local_apic_address, outcome>>
      PROVE  Parsing' /\ Passes'
  <2>1. pos' = 1 /\ pos' - 1 = 0 /\ 1 \in 1..(Len(table) + 1)
    BY <1>0, <1>2 DEF Rewind
  <2>2. capacity' \in [Slices -> Nat]
    <3>1. "application_processors" \in Slices
      BY DEF Slices
    <3>2. (IF count["application_processors"] = 0 THEN 0 ELSE count["application_processors"] - 1) \in Nat
      BY <1>0, <3>1
    <3> QED
      BY <1>0, <1>2, <3>1, <3>2, Zenon DEF Capacities
  <2>3. Parsing'
    BY <1>2, <2>1, <2>2, Zenon DEF Parsing
  <2>4. /\ filled' = [s \in Slices |-> <<>>] /\ boot_processor' = None /\ Booted' = {} /\ Positions(ApicTypes)' # {}
        /\ \A s \in Slices : Slots(s)' = 0
    BY <1>0, <1>2, SameTable DEF Counting, Untouched, Booted, Slots
  <2>5. \A s \in Slices : Stored(s, 0)' = {} /\ Cardinality(Counted(s, 0)') = 0
    BY <1>2, SameTable, StoredGrows, CountedGrows
  <2>6. Lists(<<>>, {})
    BY DEF Lists, Range
  <2>7. ASSUME NEW s \in Slices PROVE SliceFilled(s)'
    <3>1. filled'[s] = <<>> /\ Len(<<>>) = 0 /\ capacity'[s] \in Nat
      BY <2>2, <2>4
    <3>2. 0 <= capacity'[s] /\ 0 >= 0
      BY <3>1
    <3>3. Stored(s, 0)' \ Booted' = {}
      BY <2>4, <2>5
    <3> QED
      BY <2>1, <2>4, <2>5, <2>6, <3>1, <3>2, <3>3, Zenon DEF SliceFilled, Lists
  <2>8. \A i \in 1..Len(table) : table[i].length = "good"
    BY <1>0, Zenon DEF Counting
  <2>9. \A s \in Slices : count'[s] = Cardinality(Counted(s, Len(table))')
    <3>1. \A s \in Slices : count[s] = Cardinality(Counted(s, Len(table)))
      BY <1>0, Zenon DEF Counting
    <3> QED
      BY <1>2, <3>1, SameTable
  <2>10. Filling'
    <3>1. Processors \in Slices
      BY DEF Processors, Slices
    <3>2. capacity' = Capacities(count)'
      BY <1>2 DEF Capacities
    <3> QED
      BY <1>2, <2>1, <2>4, <2>5, <2>7, <2>8, <2>9, <3>1, <3>2, Zenon DEF Filling
  <2> QED
    BY <1>0, <1>2, <2>3, <2>10 DEF Passes, SlicesFilledInOrder, XapicFits
<1> QED
  BY <1>1, <1>2 DEF Allocate

\* Every step of the parser.
LEMMA NextPasses ==
    ASSUME Parsing, Passes, Next
    PROVE  Parsing' /\ Passes'
<1>1. CASE Overrun
  <2>1. Stop("panic") /\ ~Exhausted /\ Entry.length = "beyond"
    BY <1>1 DEF Overrun
  <2>2. pos \in 1..Len(table)
    BY <2>1 DEF Parsing, Exhausted
  <2>3. \E i \in 1..Len(table) : table[i].length = "beyond"
    BY <2>1, <2>2 DEF Entry
  <2>4. SlicesFilledInOrder' /\ XapicFits'
    BY <2>1, <2>3 DEF SlicesFilledInOrder, XapicFits, Stop
  <2> QED
    BY <2>1, <2>4, StopPasses
<1> QED
  BY <1>1, FindModelPasses, CountPasses, AllocatePasses, FillPasses, FinishPasses DEF Next

----------------------------------------------------------------------------
Questions == {[asked |-> block, answer |-> RegisterBlock(firmware.fadt, block)] : block \in Blocks}

\* What the caller of the parser knows at each step.
Calling ==
    /\ firmware \in Firmwares
    /\ table = IF firmware.madt = Missing THEN <<>> ELSE firmware.madt.entries
    /\ step \in {"fadt", "madt"} => pass = "model"
    /\ step \in {"madt", "parse", "timer", "blocks"} => firmware.fadt # Missing
    /\ step = "timer" => pass = "done" /\ outcome \in {"Ok", "Unknown"}
    /\ step = "done" /\ result = "Ok" =>
          /\ pass = "done" /\ outcome \in {"Ok", "Unknown"} /\ firmware.fadt # Missing
          /\ pm_timer = PmTimer(firmware.fadt) /\ pm_timer # InvalidGenericAddress
    /\ step = "mcfg" => answers = <<>>
    /\ step = "blocks" => answers \in Seq(Questions)

PlatformInv == Parsing /\ Passes /\ Calling

\* The parser is not touched.
LEMMA ParserUnchanged ==
    ASSUME Parsing, Passes, UNCHANGED vars
    PROVE  Parsing' /\ Passes'
<1>0. /\ table' = table /\ pass' = pass /\ pos' = pos /\ count' = count /\ capacity' = capacity /\ filled' = filled
      /\ boot_processor' = boot_processor /\ outcome' = outcome
  BY DEF vars
<1>1. Parsing'
  BY <1>0 DEF Parsing
<1>2. Untouched' = Untouched /\ Booted' = Booted /\ NoX2Apic' = NoX2Apic
  BY <1>0 DEF Untouched, Booted, NoX2Apic, Positions
<1>3. /\ \A types : Positions(types)' = Positions(types)
      /\ \A s, k : Stored(s, k)' = Stored(s, k) /\ Counted(s, k)' = Counted(s, k)
  BY <1>0 DEF Positions, Stored, Counted
<1>4. \A s : Slots(s)' = Slots(s)
  BY <1>0 DEF Slots
<1>5. Modelling => Modelling'
  BY <1>0, <1>2 DEF Modelling
<1>6. Counting => Counting'
  <2>1. \A s : Counted(s, pos - 1)' = Counted(s, pos - 1)
    BY <1>0 DEF Counted
  <2> QED
    BY <1>0, <1>2, <1>3, <2>1, SMTT(30) DEF Counting
<1>7. \A s : SliceFilled(s) => SliceFilled(s)'
  <2>1. \A s : Counted(s, pos - 1)' = Counted(s, pos - 1) /\ Stored(s, pos - 1)' = Stored(s, pos - 1)
    BY <1>0 DEF Counted, Stored
  <2> QED
    BY <1>0, <1>2, <1>4, <2>1, Zenon DEF SliceFilled, Lists
<1>8. Filling => Filling'
  <2>1. \A s : Stored(s, pos - 1)' = Stored(s, pos - 1) /\ Counted(s, Len(table))' = Counted(s, Len(table))
    BY <1>0 DEF Counted, Stored
  <2> QED
    BY <1>0, <1>3, <1>7, <2>1, Zenon DEF Filling
<1>9. SlicesFilledInOrder' /\ XapicFits'
  BY <1>0, <1>3, Zenon DEF Passes, SlicesFilledInOrder, XapicFits, Lists
<1> QED
  BY <1>0, <1>1, <1>2, <1>3, <1>5, <1>6, <1>8, <1>9, Zenon DEF Passes

\* The parser changes none of the caller's state, nor the table.
LEMMA TableStays ==
    ASSUME Next
    PROVE  table' = table
BY Zenon DEF Next, FindModel, Count, Overrun, Allocate, FillProcessor, FillIoApic, FillInterruptSourceOverride, FillNmiSource,
   FillLocalNmi, FillAddressOverride, FillOther, Finish, Store, Stop

LEMMA PlatformStarts ==
    ASSUME PlatformInit
    PROVE  PlatformInv
<1>0. firmware \in Firmwares /\ step = firmware.call /\ answers = <<>> /\ result = "none"
  BY DEF PlatformInit
<1>1. table = IF firmware.madt = Missing THEN <<>> ELSE firmware.madt.entries
  BY DEF PlatformInit, Start
<1>2. /\ table \in Seq(Range(table))
      /\ \A i \in 1..Len(table) : table[i].type \in Types /\ table[i].length \in {"good", "zero", "beyond"}
  <2>1. CASE firmware.madt = Missing
    <3>1. table = <<>>
      BY <1>1, <2>1
    <3> QED
      BY <3>1
  <2>2. CASE firmware.madt # Missing
    <3>1. /\ table \in Seq(Range(table))
          /\ \A entry \in Range(table) : entry.type \in Types /\ entry.length \in {"good", "zero", "beyond"}
      BY <1>0, <1>1, <2>2, FirmwaresAssumption, Zenon DEF Types
    <3>2. \A i \in 1..Len(table) : table[i] \in Range(table)
      BY <3>1 DEF Range
    <3> QED
      BY <3>1, <3>2, Zenon
  <2> QED
    BY <2>1, <2>2
<1>3. /\ pass = "model" /\ pos = 1 /\ count = Zero /\ capacity = Zero /\ filled = [s \in Slices |-> <<>>]
      /\ boot_processor = None /\ outcome = "none"
  BY DEF PlatformInit, Start
<1>4. Parsing
  <2>1. pos \in 1..(Len(table) + 1)
    BY <1>2, <1>3
  <2>2. Zero \in [Slices -> Nat] /\ [s \in Slices |-> <<>>] \in [Slices -> Seq(Nat)] /\ None \in Nat
    BY DEF Zero, None
  <2> QED
    BY <1>2, <1>3, <2>1, <2>2, Zenon DEF Parsing
<1>5. Modelling
  <2>1. \A i : i \notin 1..(pos - 1)
    BY <1>3, SMTT(30)
  <2> QED
    BY <1>3, <2>1, Zenon DEF Modelling, Untouched
<1>6. Passes
  BY <1>3, <1>5 DEF Passes, SlicesFilledInOrder, XapicFits
<1>7. Calling
  <2>1. step \in {"fadt", "blocks", "mcfg"} /\ (step = "blocks" => firmware.fadt # Missing)
    BY <1>0, FirmwaresAssumption
  <2> QED
    BY <1>0, <1>1, <1>3, <2>1, SMTT(30) DEF Calling
<1> QED
  BY <1>4, <1>6, <1>7 DEF PlatformInv

\* A step of the caller that leaves the parser alone, or is one of the parser,
\* or finds no MADT.
LEMMA ParserSteps ==
    ASSUME PlatformInv, PlatformNext
    PROVE  Parsing' /\ Passes' /\ table' = table /\ firmware' = firmware
<1>1. CASE UNCHANGED <<vars, firmware>>
  BY <1>1, ParserUnchanged DEF PlatformInv, vars
<1>2. CASE ParseMadt /\ Next /\ UNCHANGED platformVars
  BY <1>2, NextPasses, TableStays, SMTT(30) DEF PlatformInv, platformVars
<1>3. CASE /\ step = "madt" /\ firmware.madt = Missing /\ pass' = "done" /\ outcome' = "Unknown"
           /\ UNCHANGED <<table, pos, count, capacity, filled, boot_processor, local_apic_address, firmware>>
  <2>1. pass = "model" /\ table = <<>>
    BY <1>3 DEF PlatformInv, Calling
  <2>2. Untouched
    BY <2>1 DEF PlatformInv, Passes, Modelling
  <2>3. Untouched'
    BY <1>3, <2>2 DEF Untouched
  <2>4. Positions(ApicTypes)' = {}
    BY <1>3, <2>1 DEF Positions
  <2>5. Parsing'
    BY <1>3 DEF PlatformInv, Parsing
  <2> QED
    BY <1>3, <2>3, <2>4, <2>5, SMTT(30) DEF Passes, SlicesFilledInOrder, XapicFits
<1>4. CASE FindFadt \/ FindPmTimer \/ FindMcfg
  BY <1>1, <1>4 DEF FindFadt, FindPmTimer, FindMcfg, Done, GoTo
<1>5. CASE FindMadt
  BY <1>1, <1>3, <1>5 DEF FindMadt, GoTo
<1>6. CASE ParseMadt
  BY <1>1, <1>2, <1>6 DEF ParseMadt, GoTo, Done
<1>7. CASE \E block \in Blocks : AskBlock(block)
  BY <1>1, <1>7 DEF AskBlock
<1>8. CASE \E fn \in PcieFunctions : AskFunction(fn)
  BY <1>1, <1>8 DEF AskFunction
<1> QED
  BY <1>4, <1>5, <1>6, <1>7, <1>8 DEF PlatformNext, Working

LEMMA CallerSteps ==
    ASSUME PlatformInv, PlatformNext
    PROVE  Calling'
<1>0. firmware' = firmware /\ table' = table
  BY ParserSteps, SMTT(30)
<1> USE DEF PlatformInv
<1>1. CASE FindFadt
  BY <1>0, <1>1 DEF FindFadt, Done, GoTo, vars, Calling
<1>2. CASE FindMadt
  BY <1>0, <1>2 DEF FindMadt, GoTo, vars, Calling
<1>3. CASE ParseMadt
  <2>1. CASE pass # "done" /\ Next /\ UNCHANGED platformVars
    BY <1>0, <1>3, <2>1, SMTT(30) DEF ParseMadt, platformVars, Calling
  <2>2. CASE pass = "done" /\ outcome \in {"Ok", "Unknown"} /\ GoTo("timer")
    BY <1>0, <1>3, <2>2, SMTT(30) DEF ParseMadt, GoTo, vars, Calling
  <2>3. CASE pass = "done" /\ outcome \notin {"Ok", "Unknown"} /\ Done(outcome)
    BY <1>0, <1>3, <2>3 DEF ParseMadt, Done, vars, Calling
  <2> QED
    BY <1>3, <2>1, <2>2, <2>3, SMTT(30) DEF ParseMadt
<1>4. CASE FindPmTimer
  <2>1. step = "timer" /\ pass = "done" /\ outcome \in {"Ok", "Unknown"} /\ firmware.fadt # Missing
    BY <1>4 DEF FindPmTimer, Calling
  <2>2. /\ step' = "done" /\ UNCHANGED <<pass, outcome>>
        /\ result' = "Ok" => PmTimer(firmware.fadt) # InvalidGenericAddress /\ pm_timer' = PmTimer(firmware.fadt)
    BY <1>4 DEF FindPmTimer, Done, vars
  <2> QED
    BY <1>0, <2>1, <2>2 DEF Calling
<1>5. CASE FindMcfg
  BY <1>0, <1>5 DEF FindMcfg, Done, vars, Calling
<1>6. CASE \E block \in Blocks : AskBlock(block)
  <2> PICK block \in Blocks : AskBlock(block)
    BY <1>6
  <2> DEFINE q == [asked |-> block, answer |-> RegisterBlock(firmware.fadt, block)]
  <2>1. q \in Questions /\ Questions' = Questions
    BY <1>0 DEF Questions
  <2>2. /\ step = "blocks" /\ step' = step /\ answers' = Append(answers, q)
        /\ UNCHANGED <<pass, outcome, result, pm_timer>>
    BY DEF AskBlock, vars
  <2> HIDE DEF q
  <2>3. answers' \in Seq(Questions)'
    <3>1. answers \in Seq(Questions)
      BY <2>2 DEF Calling
    <3>2. Append(answers, q) \in Seq(Questions)
      BY <2>1, <3>1, SMTT(30)
    <3> QED
      BY <2>1, <2>2, <3>2, SMTT(30)
  <2> QED
    BY <1>0, <2>2, <2>3 DEF Calling
<1>7. CASE \E fn \in PcieFunctions : AskFunction(fn)
  BY <1>0, <1>7, Zenon DEF AskFunction, vars, Calling
<1> QED
  BY <1>1, <1>2, <1>3, <1>4, <1>5, <1>6, <1>7 DEF PlatformNext, Working

\* However the calls of platform/mod.rs go, PlatformInv holds: the three passes
\* of the parser agree on the table, and the caller goes on with what they found.
THEOREM PlatformInvariant == PlatformSpec => []PlatformInv
<1>1. PlatformInit => PlatformInv
  BY PlatformStarts
<1>2. PlatformInv /\ [PlatformNext]_allVars => PlatformInv'
  <2> SUFFICES ASSUME PlatformInv, [PlatformNext]_allVars
               PROVE  PlatformInv'
    OBVIOUS
  <2>1. CASE PlatformNext
    BY <2>1, ParserSteps, CallerSteps, SMTT(30) DEF PlatformInv
  <2>2. CASE UNCHANGED allVars
    <3>1. UNCHANGED vars /\ UNCHANGED platformVars
      BY <2>2, SMTT(30) DEF allVars, vars, platformVars
    <3>2. Questions' = Questions
      BY <3>1 DEF platformVars, Questions
    <3> QED
      BY <3>1, <3>2, ParserUnchanged, ZenonT(30) DEF PlatformInv, Calling, vars, platformVars
  <2> QED
    BY <2>1, <2>2
<1> QED
  BY <1>1, <1>2, PTL DEF PlatformSpec

----------------------------------------------------------------------------
\* The MADT is copied into its slices entry by entry, in table order, whatever
\* the table: what the second pass of parse_apic_model_in counts is what the
\* third one fills, and no slot handed out is left as it was allocated.
THEOREM SlicesAlwaysFilledInOrder == PlatformSpec => []SlicesFilledInOrder
<1>1. PlatformInv => SlicesFilledInOrder
  BY DEF PlatformInv, Passes
<1> QED
  BY <1>1, PlatformInvariant, PTL

\* parse_interrupt_model_in never indexes past the end of a slice, and never
\* unwraps a missing boot processor, on a table of the APIC model that has a
\* processor and no entries of the X2APIC.
THEOREM XapicAlwaysFits == PlatformSpec => []XapicFits
<1>1. PlatformInv => XapicFits
  BY DEF PlatformInv, Passes
<1> QED
  BY <1>1, PlatformInvariant, PTL

\* What PmTimer::new returns for a FADT.
LEMMA TimerOfFadt ==
    ASSUME NEW fadt, fadt.revision \in Nat, fadt.x["pm_timer"].access_size \in Nat,
           PmTimer(fadt) # InvalidGenericAddress
    PROVE  /\ fadt.length.pm_timer = 4 /\ fadt.address["pm_timer"] # 0 => PmTimer(fadt).is = "Some"
           /\ PmTimer(fadt).is = "Some" => PmTimer(fadt).address # 0 /\ PmTimer(fadt).access_size <= 4
<1> DEFINE raw == fadt.x["pm_timer"]
<1>1. CASE fadt.length.pm_timer # 4
  BY <1>1 DEF PmTimer, RegisterBlock, NoBlock
<1>2. CASE fadt.length.pm_timer = 4 /\ Extended(fadt) /\ raw.address # 0
  <2>1. PmTimer(fadt) = from_raw(raw)
    BY <1>2, SMTT(30) DEF PmTimer, RegisterBlock
  <2>2. ~(raw.access_size > 4) /\ from_raw(raw) = Address(raw.space, raw.bit_width, raw.access_size, raw.address)
    BY <2>1, Zenon DEF from_raw
  <2>3. raw.access_size <= 4
    BY <2>2, SMTT(30)
  <2> HIDE DEF raw
  <2> QED
    BY <1>2, <2>1, <2>2, <2>3, SMTT(30) DEF Address
<1>3. CASE fadt.length.pm_timer = 4 /\ ~(Extended(fadt) /\ raw.address # 0)
  <2>1. PmTimer(fadt) = IF fadt.address["pm_timer"] # 0 THEN SystemIoBlock(fadt, "pm_timer") ELSE NoBlock
    BY <1>3 DEF PmTimer, RegisterBlock, Mandatory
  <2>2. SystemIoBlock(fadt, "pm_timer") = Address(SystemIo, 32, 0, fadt.address["pm_timer"])
    BY DEF SystemIoBlock
  <2> QED
    BY <1>3, <2>1, <2>2, SMTT(30) DEF Address, NoBlock
<1> QED
  BY <1>1, <1>2, <1>3, SMTT(30)

\* PlatformInfo::new_in reports a platform with all its parts: the interrupt
\* model and the processors of the MADT, and the timer of the FADT.
THEOREM AlwaysReportedInFull == PlatformSpec => []ReportedInFull
<1>1. PlatformInv => ReportedInFull
  <2> SUFFICES ASSUME PlatformInv, step = "done", result = "Ok"
               PROVE  /\ boot_processor # None <=> Positions(ApicTypes) # {}
                      /\ outcome = "Unknown" => \A s \in Slices : capacity[s] = 0
                      /\ firmware.fadt.length.pm_timer = 4 /\ firmware.fadt.address["pm_timer"] # 0 => pm_timer.is = "Some"
                      /\ pm_timer.is = "Some" => pm_timer.address # 0 /\ pm_timer.access_size <= 4
    BY DEF ReportedInFull
  <2>1. /\ pass = "done" /\ outcome \in {"Ok", "Unknown"} /\ firmware \in Firmwares /\ firmware.fadt # Missing
        /\ pm_timer = PmTimer(firmware.fadt) /\ pm_timer # InvalidGenericAddress
    BY DEF PlatformInv, Calling
  <2>2. /\ outcome = "Ok" => boot_processor # None /\ Positions(ApicTypes) # {}
        /\ outcome = "Unknown" => Untouched /\ Positions(ApicTypes) = {}
    BY <2>1 DEF PlatformInv, Passes
  <2>3. outcome = "Unknown" => \A s \in Slices : capacity[s] = 0
    BY <2>2 DEF Untouched, Zero
  <2>4. firmware.fadt.revision \in Nat /\ firmware.fadt.x["pm_timer"].access_size \in Nat
    BY <2>1, FirmwaresAssumption DEF Blocks
  <2>5. boot_processor # None <=> Positions(ApicTypes) # {}
    BY <2>1, <2>2 DEF Untouched
  <2> QED
    BY <2>1, <2>3, <2>4, <2>5, TimerOfFadt, Zenon
<1> QED
  BY <1>1, PlatformInvariant, PTL

\* What the accessors of fadt.rs answer for a block.
LEMMA BlockOfFadt ==
    ASSUME NEW fadt, NEW block \in Blocks, fadt.revision \in Nat, LengthOfBlock(fadt, block) \in Nat
    PROVE  LET answer == RegisterBlock(fadt, block)
               extended == fadt.revision >= 2 /\ fadt.x[block].address # 0
           IN  /\ answer.is = "Some" =>
                     /\ answer.address = IF extended THEN fadt.x[block].address ELSE fadt.address[block]
                     /\ ~extended => answer.space = SystemIo /\ answer.bit_width = LengthOfBlock(fadt, block) * 8
                     /\ extended => answer.space \notin 11..126 /\ answer.space \notin 128..191
               /\ answer.is = "panic" => LengthOfBlock(fadt, block) >= 32
<1> DEFINE answer == RegisterBlock(fadt, block)
           raw == fadt.x[block]
           extended == fadt.revision >= 2 /\ raw.address # 0
           length == LengthOfBlock(fadt, block)
<1>1. CASE block = "pm_timer" /\ fadt.length.pm_timer # 4
  <2>1. answer.is = "None"
    BY <1>1 DEF RegisterBlock, NoBlock
  <2> QED
    BY <2>1
<1>2. CASE ~(block = "pm_timer" /\ fadt.length.pm_timer # 4) /\ extended
  <2>1. answer = from_raw(raw)
    BY <1>2 DEF RegisterBlock, Extended
  <2> DEFINE bad == raw.space \in (11..126 \cup 128..191) \/ raw.access_size > 4
  <2>2. answer = IF bad THEN InvalidGenericAddress ELSE Address(raw.space, raw.bit_width, raw.access_size, raw.address)
    BY <2>1, Zenon DEF from_raw
  <2>3. ~bad => raw.space \notin 11..126 /\ raw.space \notin 128..191
    BY Zenon
  <2> HIDE DEF answer, bad, raw
  <2>4. answer.is = "Some" => answer.address = raw.address /\ answer.space = raw.space /\ ~bad
    BY <2>2 DEF Address, InvalidGenericAddress
  <2>5. answer.is # "panic"
    BY <2>2 DEF Address, InvalidGenericAddress
  <2>6. answer.is = "Some" => answer.space \notin 11..126 /\ answer.space \notin 128..191
    BY <2>3, <2>4, ZenonT(30)
  <2> QED
    BY <1>2, <2>4, <2>5, <2>6, Zenon DEF answer, raw
<1>3. CASE ~(block = "pm_timer" /\ fadt.length.pm_timer # 4) /\ ~extended
  <2>1. answer = IF fadt.address[block] # 0 \/ block \in Mandatory THEN SystemIoBlock(fadt, block) ELSE NoBlock
    BY <1>3 DEF RegisterBlock, Extended
  <2>2. block = "pm_timer" => length = 4
    BY <1>3 DEF LengthOfBlock
  <2>3. SystemIoBlock(fadt, block) = IF length * 8 > 255 THEN Panic ELSE Address(SystemIo, length * 8, 0, fadt.address[block])
    BY <2>2 DEF SystemIoBlock
  <2> HIDE DEF length, answer
  <2>4. answer.is = "Some" => answer.address = fadt.address[block] /\ answer.space = SystemIo /\ answer.bit_width = length * 8
    BY <2>1, <2>3 DEF NoBlock, Panic, Address
  <2>5. answer.is = "panic" => length * 8 > 255
    BY <2>1, <2>3 DEF NoBlock, Panic, Address
  <2>6. length * 8 > 255 => length >= 32
    BY DEF length
  <2> QED
    BY <1>3, <2>4, <2>5, <2>6, Zenon DEF answer, length
<1> QED
  BY <1>1, <1>2, <1>3, Zenon

\* Whatever blocks of the FADT are asked for, and in whatever order, each of
\* the accessors of fadt.rs prefers the 64-bit address, and its answer fits the
\* block.
THEOREM BlocksAlwaysAsDocumented == PlatformSpec => []BlocksAsDocumented
<1>1. PlatformInv => BlocksAsDocumented
  <2> SUFFICES ASSUME PlatformInv, step = "blocks"
               PROVE  BlocksAsDocumented
    BY Zenon DEF BlocksAsDocumented
  <2>1. firmware \in Firmwares /\ firmware.fadt # Missing /\ answers \in Seq(Questions)
    BY DEF PlatformInv, Calling
  <2>2. \A i \in 1..Len(answers) : answers[i] \in Questions
    BY <2>1
  <2>3. \A i \in 1..Len(answers) :
           answers[i].asked \in Blocks /\ answers[i].answer = RegisterBlock(firmware.fadt, answers[i].asked)
    BY <2>2 DEF Questions
  <2>4. firmware.fadt.revision \in Nat /\ \A block \in Blocks : LengthOfBlock(firmware.fadt, block) \in Nat
    BY <2>1, FirmwaresAssumption
  <2>5. ASSUME NEW i \in 1..Len(answers)
        PROVE  LET block == answers[i].asked
                   answer == answers[i].answer
                   extended == firmware.fadt.revision >= 2 /\ firmware.fadt.x[block].address # 0
               IN  /\ answer.is = "Some" =>
                         /\ answer.address = IF extended THEN firmware.fadt.x[block].address ELSE firmware.fadt.address[block]
                         /\ ~extended => answer.space = SystemIo /\ answer.bit_width = LengthOfBlock(firmware.fadt, block) * 8
                         /\ extended => answer.space \notin 11..126 /\ answer.space \notin 128..191
                   /\ answer.is = "panic" => LengthOfBlock(firmware.fadt, block) >= 32
    <3> DEFINE block == answers[i].asked
               answer == answers[i].answer
               fadt == firmware.fadt
    <3>1. block \in Blocks /\ answer = RegisterBlock(fadt, block)
      BY <2>3
    <3>2. fadt.revision \in Nat /\ LengthOfBlock(fadt, block) \in Nat
      BY <2>4, <3>1
    <3> HIDE DEF block, answer, fadt
    <3> DEFINE Documented(a) ==
                  LET extended == fadt.revision >= 2 /\ fadt.x[block].address # 0
                  IN  /\ a.is = "Some" =>
                            /\ a.address = IF extended THEN fadt.x[block].address ELSE fadt.address[block]
                            /\ ~extended => a.space = SystemIo /\ a.bit_width = LengthOfBlock(fadt, block) * 8
                            /\ extended => a.space \notin 11..126 /\ a.space \notin 128..191
                      /\ a.is = "panic" => LengthOfBlock(fadt, block) >= 32
    <3>3. Documented(RegisterBlock(fadt, block))
      BY <3>1, <3>2, BlockOfFadt, Zenon
    <3> HIDE DEF Documented
    <3>4. Documented(answer)
      BY <3>1, <3>3, Zenon
    <3> QED
      BY <3>4, Zenon DEF Documented, block, answer, fadt
  <2> QED
    BY <2>5, Zenon DEF BlocksAsDocumented
<1> QED
  BY <1>1, PlatformInvariant, PTL

----------------------------------------------------------------------------
(***************************************************************************)
(* Where the configuration space of a function is.                          *)
(***************************************************************************)

\* Induction over the natural numbers, for a property given as a set, by way
\* of the least counterexample.
LEMMA SetInduction ==
    ASSUME NEW S, 0 \in S, \A k \in Nat : k \in S => k + 1 \in S
    PROVE  Nat \subseteq S
<1> DEFINE R == {ss \in Nat \X Nat : ss[1] < ss[2]}
           Rest == Nat \ S
<1>1. IsWellFoundedOn(R, Nat)
  BY NatLessThanWellFounded DEF OpToRel
<1>2. \A x, y \in Nat : x < y => <<x, y>> \in R
  OBVIOUS
<1> SUFFICES ASSUME Rest # {} PROVE FALSE
  OBVIOUS
<1>3. Rest \subseteq Nat
  OBVIOUS
<1> HIDE DEF R, Rest
<1>4. PICK x \in Rest : \A y \in Rest : ~(<<y, x>> \in R)
  BY <1>1, <1>3, WFMin, Zenon
<1>5. \A y \in Rest : ~(y < x)
  BY <1>2, <1>3, <1>4, Zenon
<1>6. x # 0 /\ x - 1 \in Nat /\ x - 1 < x /\ x = (x - 1) + 1
  BY <1>3 DEF Rest
<1>7. x - 1 \in S
  BY <1>5, <1>6, Zenon DEF Rest
<1>8. x \in S
  BY <1>6, <1>7
<1> QED
  BY <1>4, <1>8 DEF Rest

\* What Or is for x, if f is what it is for smaller numbers.
Turn(f, x) ==
    [y \in Nat |-> IF x = 0 THEN y ELSE 2 * f[x \div 2][y \div 2] + (IF x % 2 = 1 \/ y % 2 = 1 THEN 1 ELSE 0)]

\* A table of Or for the numbers up to n.
TableUpTo(f, n) == \A x \in 0..n : f[x] = Turn(f, x)

LEMMA TurnsAgree ==
    ASSUME NEW f, NEW g, NEW x \in Nat, x # 0 => f[x \div 2] = g[x \div 2]
    PROVE  Turn(f, x) = Turn(g, x)
BY Zenon DEF Turn

LEMMA TableExists ==
    ASSUME NEW n \in Nat
    PROVE  \E f : TableUpTo(f, n)
<1> DEFINE S == {k \in Nat : \E f : TableUpTo(f, k)}
<1>1. 0 \in S
  <2> DEFINE f == [x \in 0..0 |-> Turn(0, x)]
  <2>1. \A x \in 0..0 : f[x] = Turn(0, x)
    BY Zenon
  <2> HIDE DEF f
  <2>2. \A x \in 0..0 : x \in Nat /\ x = 0
    OBVIOUS
  <2>3. \A x \in 0..0 : Turn(f, x) = Turn(0, x)
    BY <2>2, TurnsAgree, Zenon
  <2>4. TableUpTo(f, 0)
    BY <2>1, <2>3, Zenon DEF TableUpTo
  <2>5. 0 \in Nat
    OBVIOUS
  <2> QED
    BY <2>4, <2>5, Zenon
<1>2. ASSUME NEW k \in Nat, k \in S PROVE k + 1 \in S
  <2>1. PICK g : TableUpTo(g, k)
    BY <1>2, Zenon
  <2> DEFINE f == [x \in 0..(k + 1) |-> Turn(g, x)]
  <2>2. \A x \in 0..k : x \in 0..(k + 1)
    OBVIOUS
  <2>3. \A x \in 0..k : f[x] = g[x]
    BY <2>1, <2>2, Zenon DEF TableUpTo
  <2>4. \A x \in 0..(k + 1) : f[x] = Turn(g, x)
    BY Zenon
  <2> HIDE DEF f
  <2>5. \A x \in 0..(k + 1) : x \in Nat /\ x \div 2 \in 0..k
    OBVIOUS
  <2>6. \A x \in 0..(k + 1) : Turn(f, x) = Turn(g, x)
    BY <2>3, <2>5, TurnsAgree, Zenon
  <2>7. TableUpTo(f, k + 1)
    BY <2>4, <2>6, Zenon DEF TableUpTo
  <2>8. k + 1 \in Nat
    OBVIOUS
  <2> QED
    BY <2>7, <2>8, Zenon
<1> HIDE DEF S
<1>3. n \in S
  BY <1>1, <1>2, SetInduction
<1> QED
  BY <1>3, Zenon DEF S

LEMMA TablesAgree ==
    ASSUME NEW n \in Nat, NEW f, NEW g, TableUpTo(f, n), TableUpTo(g, n), NEW x \in 0..n
    PROVE  f[x] = g[x]
<1> DEFINE S == {k \in Nat : \A u \in 0..n : u <= k => f[u] = g[u]}
<1>0. \A u \in 0..n : u \in Nat /\ f[u] = Turn(f, u) /\ g[u] = Turn(g, u)
  BY DEF TableUpTo
<1>1. 0 \in S
  <2>1. \A u \in 0..n : u <= 0 => u = 0
    OBVIOUS
  <2>2. \A u \in 0..n : u <= 0 => f[u] = g[u]
    BY <1>0, <2>1, TurnsAgree, Zenon
  <2> QED
    BY <2>2
<1>2. ASSUME NEW k \in Nat, k \in S PROVE k + 1 \in S
  <2>1. \A u \in 0..n : u <= k + 1 => u \div 2 \in 0..n /\ u \div 2 <= k
    OBVIOUS
  <2>2. \A u \in 0..n : u <= k + 1 => f[u \div 2] = g[u \div 2]
    BY <1>2, <2>1, Zenon
  <2>3. \A u \in 0..n : u <= k + 1 => f[u] = g[u]
    BY <1>0, <2>2, TurnsAgree, Zenon
  <2> QED
    BY <2>3
<1> HIDE DEF S
<1>3. n \in S
  BY <1>1, <1>2, SetInduction
<1> QED
  BY <1>3 DEF S

\* Or is what its definition says.
LEMMA OrTurns ==
    ASSUME NEW x \in Nat
    PROVE  Or[x] = Turn(Or, x)
<1> DEFINE upTo(n) == CHOOSE f : TableUpTo(f, n)
           whole == [n \in Nat |-> upTo(n)[n]]
<1>1. \A n \in Nat : TableUpTo(upTo(n), n)
  BY TableExists, Zenon
<1> HIDE DEF upTo
<1>2. ASSUME NEW n \in Nat PROVE whole[n] = Turn(whole, n)
  <2>1. n \in 0..n /\ n \div 2 \in 0..n /\ n \div 2 \in Nat /\ n \div 2 \in 0..(n \div 2)
    OBVIOUS
  <2>2. 0..(n \div 2) \subseteq 0..n
    OBVIOUS
  <2>3. TableUpTo(upTo(n), n \div 2) /\ TableUpTo(upTo(n \div 2), n \div 2)
    BY <1>1, <2>1, <2>2, Zenon DEF TableUpTo
  <2>4. upTo(n)[n \div 2] = upTo(n \div 2)[n \div 2]
    <3> DEFINE half == n \div 2
               f == upTo(n)
               g == upTo(half)
    <3>1. half \in Nat /\ half \in 0..half /\ TableUpTo(f, half) /\ TableUpTo(g, half)
      BY <2>1, <2>3, Zenon
    <3> HIDE DEF half, f, g
    <3>2. f[half] = g[half]
      BY <3>1, TablesAgree
    <3> QED
      BY <3>2, Zenon DEF half, f, g
  <2>5. whole[n \div 2] = upTo(n)[n \div 2] /\ whole[n] = upTo(n)[n]
    BY <2>1, <2>4, Zenon
  <2> HIDE DEF whole
  <2>6. upTo(n)[n] = Turn(upTo(n), n)
    BY <1>1, <2>1, Zenon DEF TableUpTo
  <2>7. Turn(whole, n) = Turn(upTo(n), n)
    BY <2>5, TurnsAgree, Zenon
  <2> QED
    BY <2>5, <2>6, <2>7, Zenon
<1>3. whole = [n \in Nat |-> whole[n]]
  BY Zenon
<1> HIDE DEF whole
<1>4. whole = [n \in Nat |-> Turn(whole, n)]
  BY <1>2, <1>3, Zenon
<1>5. Or = CHOOSE f : f = [n \in Nat |-> Turn(f, n)]
  BY Zenon DEF Or, Turn
<1>6. Or = [n \in Nat |-> Turn(Or, n)]
  BY <1>4, <1>5, Zenon
<1> QED
  BY <1>6, Zenon

LEMMA OrAt ==
    ASSUME NEW x \in Nat, NEW y \in Nat
    PROVE  Or[x][y] = IF x = 0 THEN y ELSE 2 * Or[x \div 2][y \div 2] + (IF x % 2 = 1 \/ y % 2 = 1 THEN 1 ELSE 0)
<1>1. Turn(Or, x)[y] = IF x = 0 THEN y ELSE 2 * Or[x \div 2][y \div 2] + (IF x % 2 = 1 \/ y % 2 = 1 THEN 1 ELSE 0)
  BY Zenon DEF Turn
<1> QED
  BY <1>1, OrTurns, Zenon

LEMMA OrZero ==
    ASSUME NEW x \in Nat
    PROVE  Or[x][0] = x
<1> DEFINE S == {k \in Nat : \A u \in 0..k : Or[u][0] = u}
<1>0. \A u \in Nat : Or[u][0] = IF u = 0 THEN 0 ELSE 2 * Or[u \div 2][0] + (IF u % 2 = 1 THEN 1 ELSE 0)
  <2> SUFFICES ASSUME NEW u \in Nat
               PROVE  Or[u][0] = IF u = 0 THEN 0 ELSE 2 * Or[u \div 2][0] + (IF u % 2 = 1 THEN 1 ELSE 0)
    OBVIOUS
  <2>1. 0 \in Nat /\ 0 \div 2 = 0 /\ 0 % 2 # 1
    OBVIOUS
  <2>2. Or[u][0] = IF u = 0 THEN 0 ELSE 2 * Or[u \div 2][0 \div 2] + (IF u % 2 = 1 \/ 0 % 2 = 1 THEN 1 ELSE 0)
    BY <2>1, OrAt, Zenon
  <2> QED
    BY <2>1, <2>2
<1>1. 0 \in S
  <2>1. \A u \in 0..0 : u = 0 /\ u \in Nat
    OBVIOUS
  <2> QED
    BY <1>0, <2>1
<1>2. ASSUME NEW k \in Nat, k \in S PROVE k + 1 \in S
  <2>1. \A u \in 0..(k + 1) : u \in Nat /\ u \div 2 \in 0..k
    OBVIOUS
  <2>2. \A u \in 0..(k + 1) : Or[u \div 2][0] = u \div 2
    BY <1>2, <2>1, Zenon
  <2>3. \A u \in 0..(k + 1) : Or[u][0] = u
    <3> SUFFICES ASSUME NEW u \in 0..(k + 1) PROVE Or[u][0] = u
      OBVIOUS
    <3>1. Or[u][0] = IF u = 0 THEN 0 ELSE 2 * Or[u \div 2][0] + (IF u % 2 = 1 THEN 1 ELSE 0)
      BY <1>0, <2>1, Zenon
    <3>2. Or[u \div 2][0] = u \div 2
      BY <2>2, Zenon
    <3> QED
      BY <3>1, <3>2
  <2> QED
    BY <2>3
<1> HIDE DEF S
<1>3. x \in S
  BY <1>1, <1>2, SetInduction
<1> QED
  BY <1>3 DEF S

\* Numbers that have no bit in common.
Disjoint(x, y) == Or[x][y] = x + y

LEMMA OrBit ==
    ASSUME NEW x \in Nat, NEW y \in Nat, Disjoint(x, y \div 2)
    PROVE  Disjoint(2 * x, y)
<1>1. 2 * x \in Nat /\ (2 * x) \div 2 = x /\ (2 * x) % 2 = 0
  OBVIOUS
<1>2. Or[2 * x][y] = IF 2 * x = 0 THEN y ELSE 2 * Or[x][y \div 2] + (IF y % 2 = 1 THEN 1 ELSE 0)
  <2>1. Or[2 * x][y] = IF 2 * x = 0 THEN y ELSE 2 * Or[(2 * x) \div 2][y \div 2]
                                                + (IF (2 * x) % 2 = 1 \/ y % 2 = 1 THEN 1 ELSE 0)
    BY <1>1, OrAt, Zenon
  <2> QED
    BY <1>1, <2>1
<1> QED
  BY <1>2 DEF Disjoint

\* A number below 8 has no bit in common with a multiple of 8.
LEMMA OrEight ==
    ASSUME NEW x \in Nat, NEW y \in Nat, Disjoint(x, y \div 8)
    PROVE  Disjoint(x * 8, y)
<1> DEFINE h == y \div 2
           q == h \div 2
<1>1. h \in Nat /\ q \in Nat /\ 2 * x \in Nat /\ 2 * (2 * x) \in Nat
  OBVIOUS
<1>2. q \div 2 = y \div 8 /\ 2 * (2 * (2 * x)) = x * 8
  OBVIOUS
<1>3. Disjoint(x, q \div 2)
  BY <1>2, Zenon
<1> HIDE DEF q
<1>4. Disjoint(2 * x, q)
  BY <1>1, <1>3, OrBit, Zenon
<1>5. Disjoint(2 * x, h \div 2)
  BY <1>4, Zenon DEF q
<1> HIDE DEF h
<1>6. Disjoint(2 * (2 * x), h)
  BY <1>1, <1>5, OrBit, Zenon
<1>7. Disjoint(2 * (2 * x), y \div 2)
  BY <1>6, Zenon DEF h
<1>8. Disjoint(2 * (2 * (2 * x)), y)
  BY <1>1, <1>7, OrBit, Zenon
<1> QED
  BY <1>2, <1>8, Zenon

\* The bits of a function, a device and a bus have different places.
Apart(bus, device, function) == Or[bus * 256][Or[device * 8][function]] = bus * 256 + device * 8 + function

LEMMA OrOfParts ==
    ASSUME NEW bus \in Nat, NEW device \in 0..31, NEW function \in 0..7
    PROVE  Apart(bus, device, function)
<1>1. device \in Nat /\ function \in Nat /\ function \div 8 = 0
  OBVIOUS
<1>2. \A x \in Nat : Disjoint(x, 0)
  BY OrZero DEF Disjoint
<1>3. Disjoint(device * 8, function)
  BY <1>1, <1>2, OrEight
<1> DEFINE m == device * 8 + function
<1>4. /\ m \in Nat /\ m \div 8 \in Nat /\ (m \div 8) \div 8 \in Nat /\ ((m \div 8) \div 8) \div 2 \in Nat
      /\ (((m \div 8) \div 8) \div 2) \div 2 = 0
  OBVIOUS
<1> HIDE DEF m
<1>5. 2 * bus \in Nat /\ 2 * (2 * bus) \in Nat /\ (2 * (2 * bus)) * 8 \in Nat /\ ((2 * (2 * bus)) * 8) * 8 = bus * 256
  OBVIOUS
<1>6. Disjoint(bus, (((m \div 8) \div 8) \div 2) \div 2)
  BY <1>2, <1>4
<1>7. Disjoint(2 * bus, ((m \div 8) \div 8) \div 2)
  BY <1>4, <1>6, OrBit
<1>8. Disjoint(2 * (2 * bus), (m \div 8) \div 8)
  BY <1>4, <1>5, <1>7, OrBit
<1>9. Disjoint((2 * (2 * bus)) * 8, m \div 8)
  BY <1>4, <1>5, <1>8, OrEight
<1>10. Disjoint(((2 * (2 * bus)) * 8) * 8, m)
  BY <1>4, <1>5, <1>9, OrEight, SMTT(30)
<1>11. Or[bus * 256][m] = bus * 256 + m
  BY <1>5, <1>10 DEF Disjoint
<1>12. Or[device * 8][function] = m
  BY <1>3 DEF Disjoint, m
<1>13. bus * 256 + m = bus * 256 + device * 8 + function
  BY DEF m
<1> QED
  BY <1>11, <1>12, <1>13, Zenon DEF Apart

Windows == [segment : Nat, start : Nat, end : Nat, base : Nat]

LEMMA MinIs ==
    ASSUME NEW S \in SUBSET Nat, S # {}
    PROVE  Min(S) \in S
<1> DEFINE R == {ss \in Nat \X Nat : ss[1] < ss[2]}
<1>1. IsWellFoundedOn(R, Nat)
  BY NatLessThanWellFounded DEF OpToRel
<1>2. \A x, y \in Nat : x < y => <<x, y>> \in R
  OBVIOUS
<1> HIDE DEF R
<1>3. PICK x \in S : \A y \in S : ~(<<y, x>> \in R)
  BY <1>1, WFMin, Zenon
<1>4. \A y \in S : ~(y < x)
  BY <1>2, <1>3, Zenon
<1>5. \A y \in S : x =< y
  BY <1>4
<1> QED
  BY <1>3, <1>5, Zenon DEF Min

\* `physical_address` is in the window of a region that manages the function,
\* at the place of the function.
LEMMA AddressOfFunction ==
    ASSUME NEW rs \in Seq(Windows), NEW fn \in PcieFunctions
    PROVE  IF \E k \in 1..Len(rs) : Manages(rs[k], fn)
           THEN \E k \in 1..Len(rs) :
                   /\ Manages(rs[k], fn)
                   /\ physical_address(rs, fn) = rs[k].base + (fn.bus - rs[k].start) * 256 + fn.device * 8 + fn.function
           ELSE physical_address(rs, fn) = NotManaged
<1> DEFINE managing == {k \in 1..Len(rs) : Manages(rs[k], fn)}
           first == Min(managing)
<1>1. physical_address(rs, fn) = IF managing = {} THEN NotManaged ELSE rs[first].base + Offset(rs[first], fn)
  BY Zenon DEF physical_address
<1>2. CASE managing = {}
  BY <1>1, <1>2, Zenon
<1>3. CASE managing # {}
  <2>1. managing \in SUBSET Nat
    OBVIOUS
  <2>2. first \in managing
    BY <1>3, <2>1, MinIs, Zenon
  <2>3. first \in 1..Len(rs) /\ Manages(rs[first], fn)
    BY <2>2, Zenon
  <2> HIDE DEF first, managing
  <2>4. rs[first] \in Windows
    BY <2>3
  <2>5. fn.bus - rs[first].start \in Nat /\ fn.device \in 0..31 /\ fn.function \in 0..7
    BY <2>3, <2>4, FunctionsAssumption, SMTT(30) DEF Manages, Windows
  <2>6. Offset(rs[first], fn) = (fn.bus - rs[first].start) * 256 + fn.device * 8 + fn.function
    <3> DEFINE bus == fn.bus - rs[first].start
               device == fn.device
               function == fn.function
    <3>1. bus \in Nat /\ device \in 0..31 /\ function \in 0..7
      BY <2>5, Zenon
    <3> HIDE DEF bus, device, function
    <3>2. Apart(bus, device, function)
      BY <3>1, OrOfParts, Zenon
    <3> QED
      BY <3>2, Zenon DEF bus, device, function, Offset, Apart
  <2>7. rs[first].base \in Nat
    BY <2>4 DEF Windows
  <2>8. physical_address(rs, fn) = rs[first].base + (fn.bus - rs[first].start) * 256 + fn.device * 8 + fn.function
    <3> DEFINE bus == fn.bus - rs[first].start
               device == fn.device
               function == fn.function
               base == rs[first].base
    <3>4. 0..31 \subseteq Nat /\ 0..7 \subseteq Nat
      OBVIOUS
    <3>1. bus \in Nat /\ device \in Nat /\ function \in Nat /\ base \in Nat
      BY <2>5, <2>7, <3>4, Zenon
    <3>2. physical_address(rs, fn) = base + (bus * 256 + device * 8 + function)
      BY <1>1, <1>3, <2>6, Zenon
    <3> HIDE DEF bus, device, function, base
    <3>3. physical_address(rs, fn) = base + bus * 256 + device * 8 + function
      BY <3>1, <3>2
    <3> QED
      BY <3>3, Zenon DEF bus, device, function, base
  <2> QED
    BY <2>3, <2>8, Zenon
<1> QED
  BY <1>2, <1>3

\* What is answered, once the regions are known.
Locations == {[asked |-> fn, answer |-> physical_address(regions, fn)] : fn \in PcieFunctions}

Asking == step = "functions" => regions \in Seq(Windows) /\ answers \in Seq(Locations)

LEMMA EntriesAreWindows ==
    ASSUME NEW f \in Firmwares, f.mcfg # Missing
    PROVE  entries(f.mcfg) \in Seq(Windows)
<1> DEFINE es == f.mcfg.entries
           n == (EntrySize * Len(es) - f.mcfg.missing) \div EntrySize
<1>1. es \in Seq(Windows) /\ f.mcfg.missing \in 0..(EntrySize * Len(es))
  BY FirmwaresAssumption, Zenon DEF Windows
<1>2. n \in 0..Len(es)
  <2> DEFINE l == Len(es)
             k == f.mcfg.missing
  <2>1. l \in Nat /\ k \in 0..(EntrySize * l)
    BY <1>1
  <2> HIDE DEF l, k
  <2>2. (EntrySize * l - k) \div EntrySize \in 0..l
    BY <2>1 DEF EntrySize
  <2> QED
    BY <2>2, Zenon DEF l, k
<1> HIDE DEF n, es
<1>3. SubSeq(es, 1, n) \in Seq(Windows)
  BY <1>1, <1>2
<1> QED
  BY <1>3, Zenon DEF entries, es, n

LEMMA AskingSteps ==
    ASSUME PlatformInv, Asking, PlatformNext
    PROVE  Asking'
<1>1. CASE FindMcfg
  <2> SUFFICES ASSUME step' = "functions" PROVE regions' \in Seq(Windows) /\ answers' \in Seq(Locations)'
    BY DEF Asking
  <2>1. step = "mcfg" /\ firmware.mcfg # Missing /\ regions' = entries(firmware.mcfg) /\ answers' = answers
    BY <1>1 DEF FindMcfg, Done
  <2>2. firmware \in Firmwares /\ answers = <<>>
    BY <2>1 DEF PlatformInv, Calling
  <2>3. regions' \in Seq(Windows)
    BY <2>1, <2>2, EntriesAreWindows, Zenon
  <2>4. answers' \in Seq(Locations')
    BY <2>1, <2>2
  <2> QED
    BY <2>3, <2>4
<1>2. CASE \E fn \in PcieFunctions : AskFunction(fn)
  <2> PICK fn \in PcieFunctions : AskFunction(fn)
    BY <1>2
  <2> DEFINE q == [asked |-> fn, answer |-> physical_address(regions, fn)]
  <2>1. step = "functions" /\ answers' = Append(answers, q) /\ regions' = regions
    BY DEF AskFunction
  <2>2. Locations' = Locations /\ q \in Locations
    BY <2>1, Zenon DEF Locations
  <2> HIDE DEF q
  <2>3. regions \in Seq(Windows) /\ answers \in Seq(Locations)
    BY <2>1 DEF Asking
  <2>4. Append(answers, q) \in Seq(Locations)
    BY <2>2, <2>3
  <2> QED
    BY <2>1, <2>2, <2>3, <2>4, Zenon DEF Asking
<1>3. CASE \/ FindFadt \/ FindMadt \/ ParseMadt \/ FindPmTimer \/ \E block \in Blocks : AskBlock(block)
  <2>1. step' # "functions"
    BY <1>3, Zenon DEF FindFadt, FindMadt, ParseMadt, FindPmTimer, AskBlock, Done, GoTo, platformVars
  <2> QED
    BY <2>1, ZenonT(30) DEF Asking
<1> QED
  BY <1>1, <1>2, <1>3, Zenon DEF PlatformNext, Working

\* Two functions whose configuration spaces are at the same place are one.
LEMMA PlacesDiffer ==
    ASSUME NEW rs \in Seq(Windows), \A i, j \in 1..Len(rs) : i # j => ~Overlap(rs[i], rs[j]),
           NEW f \in PcieFunctions, NEW g \in PcieFunctions,
           NEW k \in 1..Len(rs), NEW l \in 1..Len(rs), Manages(rs[k], f), Manages(rs[l], g),
           rs[k].base + (f.bus - rs[k].start) * 256 + f.device * 8 + f.function =
           rs[l].base + (g.bus - rs[l].start) * 256 + g.device * 8 + g.function
    PROVE  f = g
<1>1. /\ f = [segment |-> f.segment, bus |-> f.bus, device |-> f.device, function |-> f.function]
      /\ g = [segment |-> g.segment, bus |-> g.bus, device |-> g.device, function |-> g.function]
  BY FunctionsAssumption
<1> DEFINE r == rs[k]
           s == rs[l]
           fb == f.bus
           fd == f.device
           ff == f.function
           gb == g.bus
           gd == g.device
           gf == g.function
           rb == r.base
           sb == s.base
           rt == r.start
           st == s.start
           re == r.end
           se == s.end
<1>2. fd \in 0..31 /\ gd \in 0..31 /\ ff \in 0..7 /\ gf \in 0..7 /\ fb \in Nat /\ gb \in Nat
  BY FunctionsAssumption
<1>3. r \in Windows /\ s \in Windows
  OBVIOUS
<1>4. rb \in Nat /\ sb \in Nat /\ rt \in Nat /\ st \in Nat /\ re \in Nat /\ se \in Nat
  BY <1>3, Zenon DEF Windows
<1>5. rb + (fb - rt) * 256 + fd * 8 + ff = sb + (gb - st) * 256 + gd * 8 + gf
  OBVIOUS
<1>6. fb \in rt..re /\ gb \in st..se /\ r.segment = f.segment /\ s.segment = g.segment
  BY Zenon DEF Manages
<1>7. k # l => ~(rb < sb + (se - st + 1) * 256 /\ sb < rb + (re - rt + 1) * 256)
  BY ZenonT(30) DEF Overlap
<1>8. k = l => rb = sb /\ rt = st /\ r.segment = s.segment
  BY Zenon
<1> HIDE DEF fb, fd, ff, gb, gd, gf, rb, sb, rt, st, re, se
<1>9. k = l
  BY <1>2, <1>4, <1>5, <1>6, <1>7
<1>10. fb = gb /\ fd = gd /\ ff = gf
  BY <1>2, <1>4, <1>5, <1>8, <1>9
<1>11. f.segment = g.segment
  BY <1>6, <1>8, <1>9
<1> QED
  BY <1>1, <1>10, <1>11, Zenon DEF fb, fd, ff, gb, gd, gf

\* However many functions a kernel asks PciConfigRegions::physical_address for,
\* for regions of any number and size, in windows that do not overlap: the
\* configuration spaces do not either, and each is in the window of a region for
\* the bus.
THEOREM FunctionsAlwaysApart == PlatformSpec => []FunctionsApart
<1>1. PlatformInit => Asking
  BY FirmwaresAssumption DEF PlatformInit, Asking
<1>2. PlatformInv /\ Asking /\ [PlatformNext]_allVars => Asking'
  <2>1. PlatformInv /\ Asking /\ PlatformNext => Asking'
    BY AskingSteps
  <2>2. Asking /\ UNCHANGED allVars => Asking'
    BY DEF Asking, allVars, Locations
  <2> QED
    BY <2>1, <2>2
<1>3. Asking => FunctionsApart
  <2> SUFFICES ASSUME Asking, step = "functions", \A i, j \in 1..Len(regions) : i # j => ~Overlap(regions[i], regions[j])
               PROVE  FunctionsApart
    BY Zenon DEF FunctionsApart
  <2>1. regions \in Seq(Windows) /\ answers \in Seq(Locations)
    BY DEF Asking
  <2>2. \A i \in 1..Len(answers) : answers[i] \in Locations
    BY <2>1
  <2>3. \A i \in 1..Len(answers) :
           answers[i].asked \in PcieFunctions /\ answers[i].answer = physical_address(regions, answers[i].asked)
    BY <2>2 DEF Locations
  <2> DEFINE Managing(fn) == {r \in Range(regions) : r.segment = fn.segment /\ fn.bus \in r.start..r.end}
             Place(k, fn) == regions[k].base + (fn.bus - regions[k].start) * 256 + fn.device * 8 + fn.function
             InWindow(k, at) == at >= regions[k].base /\ at < regions[k].base + (regions[k].end - regions[k].start + 1) * 256
  <2>4. \A k \in 1..Len(regions) : regions[k] \in Windows /\ regions[k] \in Range(regions)
    BY <2>1 DEF Range
  <2>5. ASSUME NEW fn \in PcieFunctions, NEW k \in 1..Len(regions), Manages(regions[k], fn)
        PROVE  regions[k] \in Managing(fn) /\ InWindow(k, Place(k, fn)) /\ Place(k, fn) # NotManaged
    <3> DEFINE b == regions[k].base
               t == regions[k].start
               e == regions[k].end
               fb == fn.bus
               fd == fn.device
               ff == fn.function
    <3>1. b \in Nat /\ t \in Nat /\ e \in Nat
      BY <2>4 DEF Windows
    <3>2. fb \in t..e /\ fd \in 0..31 /\ ff \in 0..7
      BY <2>5, FunctionsAssumption DEF Manages
    <3>3. regions[k] \in Managing(fn)
      BY <2>4, <2>5, Zenon DEF Manages
    <3> HIDE DEF b, t, e, fb, fd, ff
    <3>4. LET at == b + (fb - t) * 256 + fd * 8 + ff
          IN  at >= b /\ at < b + (e - t + 1) * 256 /\ at # -1
      BY <3>1, <3>2
    <3> QED
      BY <3>3, <3>4, Zenon DEF b, t, e, fb, fd, ff, NotManaged
  <2>6. ASSUME NEW fn, Managing(fn) # {}
        PROVE  \E k \in 1..Len(regions) : Manages(regions[k], fn)
    <3>1. PICK r \in Range(regions) : r.segment = fn.segment /\ fn.bus \in r.start..r.end
      BY <2>6, Zenon
    <3>2. PICK k \in 1..Len(regions) : r = regions[k]
      BY <2>1 DEF Range
    <3> QED
      BY <3>1, <3>2, Zenon DEF Manages
  <2> HIDE DEF Managing, Place, InWindow
  <2>7. ASSUME NEW fn \in PcieFunctions
        PROVE  LET at == physical_address(regions, fn)
               IN  /\ at = NotManaged <=> Managing(fn) = {}
                   /\ at # NotManaged => \E k \in 1..Len(regions) :
                         Manages(regions[k], fn) /\ regions[k] \in Managing(fn) /\ InWindow(k, at) /\ at = Place(k, fn)
    <3>1. CASE \E k \in 1..Len(regions) : Manages(regions[k], fn)
      <4>1. PICK k \in 1..Len(regions) : Manages(regions[k], fn) /\ physical_address(regions, fn) = Place(k, fn)
        BY <2>1, <3>1, AddressOfFunction, Zenon DEF Place
      <4> QED
        BY <2>5, <4>1, Zenon
    <3>2. CASE ~\E k \in 1..Len(regions) : Manages(regions[k], fn)
      <4>1. physical_address(regions, fn) = NotManaged
        BY <2>1, <3>2, AddressOfFunction, ZenonT(30)
      <4> QED
        BY <2>6, <3>2, <4>1, Zenon
    <3> QED
      BY <3>1, <3>2
  <2>8. ASSUME NEW f \in PcieFunctions, NEW g \in PcieFunctions,
               physical_address(regions, f) # NotManaged, physical_address(regions, f) = physical_address(regions, g)
        PROVE  f = g
    <3>1. PICK k \in 1..Len(regions) : Manages(regions[k], f) /\ physical_address(regions, f) = Place(k, f)
      BY <2>7, <2>8, Zenon
    <3>2. PICK l \in 1..Len(regions) : Manages(regions[l], g) /\ physical_address(regions, g) = Place(l, g)
      BY <2>7, <2>8, Zenon
    <3>3. Place(k, f) = Place(l, g)
      BY <2>8, <3>1, <3>2, Zenon
    <3> QED
      BY <2>1, <3>1, <3>2, <3>3, PlacesDiffer DEF Place
  <2>9. ASSUME NEW i \in 1..Len(answers), NEW j \in 1..Len(answers)
        PROVE  LET fn == answers[i].asked
                   at == answers[i].answer
                   managing == {r \in Range(regions) : r.segment = fn.segment /\ fn.bus \in r.start..r.end}
               IN  /\ at = NotManaged <=> managing = {}
                   /\ at # NotManaged => \E r \in managing : at >= r.base /\ at < r.base + (r.end - r.start + 1) * 256
                   /\ at # NotManaged /\ at = answers[j].answer => fn = answers[j].asked
    <3> DEFINE fn == answers[i].asked
               at == answers[i].answer
    <3>1. fn \in PcieFunctions /\ at = physical_address(regions, fn)
      BY <2>3, Zenon
    <3>2. at # NotManaged /\ at = answers[j].answer => fn = answers[j].asked
      BY <2>3, <2>8, Zenon
    <3> HIDE DEF fn, at
    <3>3. at = NotManaged <=> Managing(fn) = {}
      BY <2>7, <3>1, Zenon
    <3>4. at # NotManaged => \E r \in Managing(fn) : at >= r.base /\ at < r.base + (r.end - r.start + 1) * 256
      BY <2>7, <3>1, Zenon DEF InWindow
    <3> QED
      BY <3>2, <3>3, <3>4, Zenon DEF fn, at, Managing
  <2> QED
    BY <2>9, Zenon DEF FunctionsApart
<1> QED
  BY <1>1, <1>2, <1>3, PlatformInvariant, PTL DEF PlatformSpec
=============================================================================
