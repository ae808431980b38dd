--------------------------- MODULE AmlStoreProofs ---------------------------
(***************************************************************************)
(* Proofs about AmlStore, for buffers and fields of every length, every     *)
(* size of byte, and programs of every length.                              *)
(***************************************************************************)
EXTENDS AmlStore, SequenceTheorems, TLAPS

IsSequence(s) == s \in Seq(Range(s))

AreBuffers(h) == IsSequence(h) /\ \A d \in 1..Len(h) : IsSequence(h[d])

\* A value that refers to a buffer refers to one that exists.
Refers(h, value) ==
    /\ value.type \in {"Buffer", "BufferField"} => value.data \in 1..Len(h)
    /\ value.type = "BufferField" => value.offset \in Nat /\ value.length \in Nat

StoreInv ==
    /\ program \in Programs
    /\ AreBuffers(heap)
    /\ DOMAIN objects = Names /\ objects = [n \in Names |-> objects[n]]
    /\ DOMAIN locals = Locals /\ locals = [l \in Locals |-> locals[l]]
    /\ \A n \in Names : Refers(heap, objects[n])
    /\ \A l \in Locals : Refers(heap, locals[l])

\* The buffers of h are in h2 as they are.
Includes(h2, h) == Len(h) <= Len(h2) /\ \A d \in 1..Len(h) : h2[d] = h[d]

----------------------------------------------------------------------------
LEMMA SequenceFacts ==
    /\ \A s, S : s \in Seq(S) => IsSequence(s)
    /\ \A s : IsSequence(s) => Len(s) \in Nat /\ DOMAIN s = 1..Len(s) /\ s = [i \in 1..Len(s) |-> s[i]]
    /\ \A s, k : k \in Nat /\ DOMAIN s = 1..k /\ s = [i \in 1..k |-> s[i]] => IsSequence(s) /\ Len(s) = k
<1>1. ASSUME NEW s, NEW S, s \in Seq(S) PROVE IsSequence(s)
  <2>1. Len(s) \in Nat /\ DOMAIN s = 1..Len(s) /\ s = [i \in 1..Len(s) |-> s[i]]
    BY <1>1
  <2>2. \A i \in 1..Len(s) : s[i] \in Range(s)
    BY <2>1 DEF Range
  <2> QED
    BY <2>1, <2>2 DEF IsSequence
<1>2. ASSUME NEW s, IsSequence(s) PROVE Len(s) \in Nat /\ DOMAIN s = 1..Len(s) /\ s = [i \in 1..Len(s) |-> s[i]]
  BY <1>2 DEF IsSequence
<1>3. ASSUME NEW s, NEW k \in Nat, DOMAIN s = 1..k, s = [i \in 1..k |-> s[i]] PROVE IsSequence(s) /\ Len(s) = k
  <2>1. \A i \in 1..k : s[i] \in Range(s)
    BY <1>3 DEF Range
  <2>2. [i \in 1..k |-> s[i]] \in Seq(Range(s))
    BY <2>1
  <2>3. IsSequence(s)
    BY <1>3, <2>2, Zenon DEF IsSequence
  <2>4. Len(s) \in Nat /\ DOMAIN s = 1..Len(s)
    BY <2>3, <1>2
  <2> QED
    BY <1>3, <2>3, <2>4
<1> QED
  BY <1>1, <1>2, <1>3, Zenon

LEMMA ConcatIsSequence ==
    ASSUME NEW s, NEW t, IsSequence(s), IsSequence(t)
    PROVE  /\ IsSequence(s \o t) /\ Len(s \o t) = Len(s) + Len(t)
           /\ \A i \in 1..(Len(s) + Len(t)) : (s \o t)[i] = IF i <= Len(s) THEN s[i] ELSE t[i - Len(s)]
<1> DEFINE S == Range(s) \cup Range(t)
<1>1. s \in Seq(S) /\ t \in Seq(S)
  <2>1. /\ Len(s) \in Nat /\ s = [i \in 1..Len(s) |-> s[i]] /\ \A i \in 1..Len(s) : s[i] \in S
        /\ Len(t) \in Nat /\ t = [i \in 1..Len(t) |-> t[i]] /\ \A i \in 1..Len(t) : t[i] \in S
    BY SequenceFacts DEF Range
  <2> HIDE DEF S
  <2>2. [i \in 1..Len(s) |-> s[i]] \in Seq(S) /\ [i \in 1..Len(t) |-> t[i]] \in Seq(S)
    BY <2>1
  <2> QED
    BY <2>1, <2>2, Zenon
<1> HIDE DEF S
<1>2. s \o t \in Seq(S)
  BY <1>1, ConcatProperties
<1>3. IsSequence(s \o t)
  BY <1>2, SequenceFacts, Zenon
<1>4. /\ Len(s \o t) = Len(s) + Len(t)
      /\ \A i \in 1..(Len(s) + Len(t)) : (s \o t)[i] = IF i <= Len(s) THEN s[i] ELSE t[i - Len(s)]
  BY <1>1, ConcatProperties
<1> QED
  BY <1>3, <1>4, Zenon

LEMMA SubSeqIsSequence ==
    ASSUME NEW s, NEW m \in Int, NEW n \in Int
    PROVE  /\ IsSequence(SubSeq(s, m, n))
           /\ Len(SubSeq(s, m, n)) = IF m <= n THEN n - m + 1 ELSE 0
           /\ \A i \in 1..(n - m + 1) : SubSeq(s, m, n)[i] = s[m + i - 1]
<1> DEFINE S == {s[i] : i \in m..n}
<1>1. \A i \in m..n : s[i] \in S
  OBVIOUS
<1> HIDE DEF S
<1>2. SubSeq(s, m, n) \in Seq(S)
  BY <1>1, SubSeqProperties
<1>3. IsSequence(SubSeq(s, m, n))
  BY <1>2, SequenceFacts, Zenon
<1>4. /\ Len(SubSeq(s, m, n)) = IF m <= n THEN n - m + 1 ELSE 0
      /\ \A i \in 1..(n - m + 1) : SubSeq(s, m, n)[i] = s[m + i - 1]
  BY <1>1, SubSeqProperties
<1> QED
  BY <1>3, <1>4, Zenon

LEMMA ZerosIsSequence ==
    ASSUME NEW k \in Nat
    PROVE  IsSequence(Zeros(k)) /\ Len(Zeros(k)) = k /\ \A i \in 1..k : Zeros(k)[i] = 0
<1>1. DOMAIN Zeros(k) = 1..k /\ Zeros(k) = [i \in 1..k |-> Zeros(k)[i]] /\ \A i \in 1..k : Zeros(k)[i] = 0
  BY DEF Zeros
<1> QED
  BY <1>1, SequenceFacts, Zenon

LEMMA BitsIsSequence ==
    ASSUME NEW n, NEW k \in Nat
    PROVE  IsSequence(Bits(n, k)) /\ Len(Bits(n, k)) = k
<1>1. DOMAIN Bits(n, k) = 1..k /\ Bits(n, k) = [i \in 1..k |-> Bits(n, k)[i]]
  BY DEF Bits
<1> QED
  BY <1>1, SequenceFacts, Zenon

\* A new buffer.
LEMMA AppendBuffer ==
    ASSUME NEW h, NEW bits, AreBuffers(h), IsSequence(bits)
    PROVE  /\ AreBuffers(Append(h, bits)) /\ Includes(Append(h, bits), h)
           /\ Len(Append(h, bits)) = Len(h) + 1 /\ Len(h) + 1 \in 1..Len(Append(h, bits))
           /\ Append(h, bits)[Len(h) + 1] = bits
<1> DEFINE a == Append(h, bits)
           S == Range(h) \cup {bits}
<1>1. Len(h) \in Nat /\ h \in Seq(S) /\ bits \in S
  <2>1. Len(h) \in Nat /\ h = [i \in 1..Len(h) |-> h[i]] /\ \A i \in 1..Len(h) : h[i] \in S
    BY SequenceFacts DEF AreBuffers, Range
  <2> HIDE DEF S
  <2>2. [i \in 1..Len(h) |-> h[i]] \in Seq(S)
    BY <2>1
  <2> QED
    BY <2>1, <2>2, Zenon DEF S
<1> HIDE DEF S
<1>2. /\ a \in Seq(S) /\ Len(a) = Len(h) + 1 /\ a[Len(h) + 1] = bits
      /\ \A d \in 1..Len(h) : a[d] = h[d]
  BY <1>1
<1>3. IsSequence(a)
  BY <1>2, SequenceFacts, Zenon
<1> HIDE DEF a
<1>4. \A d \in 1..(Len(h) + 1) : d \in 1..Len(h) \/ d = Len(h) + 1
  BY <1>1
<1>5. \A d \in 1..Len(a) : IsSequence(a[d])
  BY <1>2, <1>4, Zenon DEF AreBuffers
<1>6. Len(h) <= Len(h) + 1 /\ Len(h) + 1 \in 1..(Len(h) + 1)
  BY <1>1
<1> QED
  BY <1>2, <1>3, <1>5, <1>6, Zenon DEF AreBuffers, Includes, a

----------------------------------------------------------------------------
(* Conversions.                                                             *)

LEMMA OutcomeFacts ==
    /\ \A value : Ok(value).ok = TRUE /\ Ok(value).value = value
    /\ \A error : Err(error).ok = FALSE
    /\ Panic.ok = FALSE /\ Hang.ok = FALSE
    /\ ~IsError(Panic) /\ ~IsError(Hang)
    /\ \A res : IsError(res) => ~res.ok
BY DEF Ok, Err, Panic, Hang, IsError

LEMMA WholeBytesIsSequence ==
    ASSUME NEW field, field.offset \in Nat, NEW bits, IsSequence(bits)
    PROVE  IsSequence(WholeBytes(field, bits))
<1> DEFINE head == IF KeepsHead THEN field.offset % ByteBits ELSE 0
           aligned == Zeros(head) \o bits
           k == (ByteBits - (Len(aligned) % ByteBits)) % ByteBits
<1>1. head \in Nat
  <2>1. ByteBits \in Nat \ {0}
    BY StoreAssumption
  <2>2. field.offset % ByteBits \in 0..(ByteBits - 1)
    BY <2>1
  <2> QED
    BY <2>2
<1> HIDE DEF head
<1>2. IsSequence(aligned)
  BY <1>1, ZerosIsSequence, ConcatIsSequence
<1> HIDE DEF aligned
<1>3. k \in Nat
  <2>1. Len(aligned) \in Nat /\ ByteBits \in Nat \ {0}
    BY <1>2, SequenceFacts, StoreAssumption
  <2>2. Len(aligned) % ByteBits \in 0..(ByteBits - 1)
    BY <2>1
  <2>3. ByteBits - (Len(aligned) % ByteBits) \in Int
    BY <2>1, <2>2
  <2> QED
    BY <2>1, <2>3
<1> HIDE DEF k
<1>4. IsSequence(Zeros(k))
  BY <1>3, ZerosIsSequence
<1>5. IsSequence(aligned \o Zeros(k))
  BY <1>2, <1>4, ConcatIsSequence
<1> QED
  BY <1>5, Zenon DEF WholeBytes, k, aligned, head

\* as_buffer returns a buffer of the heap, and copies at most into a new one.
LEMMA AsBuffer ==
    ASSUME NEW h, NEW value, AreBuffers(h), Refers(h, value)
    PROVE  /\ AreBuffers(as_buffer(h, value).heap) /\ Includes(as_buffer(h, value).heap, h)
           /\ as_buffer(h, value).res.ok \in BOOLEAN
           /\ as_buffer(h, value).res.ok => as_buffer(h, value).res.value \in 1..Len(as_buffer(h, value).heap)
<1> DEFINE b == as_buffer(h, value)
<1>0. Includes(h, h)
  BY SequenceFacts DEF AreBuffers, Includes
<1>1. CASE value.type = "Buffer"
  <2>1. b = [heap |-> h, res |-> Ok(value.data)]
    BY <1>1 DEF as_buffer
  <2>2. value.data \in 1..Len(h)
    BY <1>1 DEF Refers
  <2> HIDE DEF b
  <2>3. b.heap = h /\ b.res.ok = TRUE /\ b.res.value = value.data
    BY <2>1 DEF Ok
  <2> QED
    BY <1>0, <2>2, <2>3, Zenon DEF b
<1>2. CASE b.heap = h /\ b.res.ok = FALSE
  BY <1>0, <1>2, Zenon
<1>3. CASE value.type \notin {"Buffer", "BufferField"}
  <2>1. b = [heap |-> h, res |-> Err("IncompatibleValueConversion")]
    BY <1>3 DEF as_buffer
  <2>2. b.heap = h /\ b.res.ok = FALSE
    BY <2>1 DEF Err
  <2> QED
    BY <1>2, <2>2, Zenon
<1>4. CASE value.type = "BufferField"
  <2> DEFINE read == read_buffer_field(h, value)
  <2>1. value.data \in 1..Len(h) /\ value.offset \in Nat /\ value.length \in Nat
    BY <1>4 DEF Refers
  <2>2. CASE ~read.ok
    <3>1. b = [heap |-> h, res |-> read]
      BY <1>4, <2>2 DEF as_buffer
    <3>2. read.ok = FALSE
      BY <2>2 DEF read_buffer_field, Ok, Err
    <3> HIDE DEF b, read
    <3>3. b.heap = h /\ b.res.ok = FALSE
      BY <3>1, <3>2
    <3> QED
      BY <1>2, <3>3 DEF b
  <2>3. CASE read.ok /\ value.length <= IntBits
    <3>1. b = [heap |-> h, res |-> Err("IncompatibleValueConversion")]
      BY <1>4, <2>3 DEF as_buffer
    <3>2. b.heap = h /\ b.res.ok = FALSE
      BY <3>1 DEF Err
    <3> QED
      BY <1>2, <3>2
  <2>4. CASE read.ok /\ ~(value.length <= IntBits)
    <3>1. b = [heap |-> Append(h, WholeBytes(value, read.value)), res |-> Ok(Len(h) + 1)]
      BY <1>4, <2>4 DEF as_buffer
    <3> DEFINE part == SubSeq(h[value.data], value.offset + 1, value.offset + value.length)
    <3>2. read = Ok(part)
      BY <2>4, OutcomeFacts, Zenon DEF read_buffer_field
    <3>3. value.offset + 1 \in Int /\ value.offset + value.length \in Int
      BY <2>1
    <3>4. IsSequence(part)
      BY <3>3, SubSeqIsSequence, Zenon
    <3> HIDE DEF part
    <3>10. IsSequence(read.value)
      BY <3>2, <3>4, OutcomeFacts, Zenon
    <3> HIDE DEF b, read
    <3>5. IsSequence(WholeBytes(value, read.value))
      BY <2>1, <3>10, WholeBytesIsSequence
    <3>6. b.heap = Append(h, WholeBytes(value, read.value)) /\ b.res.ok = TRUE /\ b.res.value = Len(h) + 1
      BY <3>1 DEF Ok
    <3> DEFINE a == Append(h, WholeBytes(value, read.value))
    <3>7. AreBuffers(a) /\ Includes(a, h) /\ Len(h) + 1 \in 1..Len(a)
      BY <3>5, AppendBuffer, Zenon
    <3> HIDE DEF a
    <3>8. b.heap = a /\ b.res.ok = TRUE /\ b.res.value = Len(h) + 1
      BY <3>6, Zenon DEF a
    <3>9. b.res.ok \in BOOLEAN
      BY <3>8, Zenon
    <3> QED
      BY <3>7, <3>8, <3>9, Zenon DEF b
  <2> QED
    BY <2>2, <2>3, <2>4
<1> QED
  BY <1>1, <1>3, <1>4

\* as_type returns a value of the type asked for.
LEMMA AsType ==
    ASSUME NEW h, NEW value, NEW type, AreBuffers(h), Refers(h, value)
    PROVE  /\ AreBuffers(as_type(h, value, type).heap) /\ Includes(as_type(h, value, type).heap, h)
           /\ as_type(h, value, type).res.ok \in BOOLEAN
           /\ as_type(h, value, type).res.ok =>
                 /\ Refers(as_type(h, value, type).heap, as_type(h, value, type).res.value)
                 /\ type_of(as_type(h, value, type).res.value) = type
<1> DEFINE t == as_type(h, value, type)
<1>0. Includes(h, h)
  BY SequenceFacts DEF AreBuffers, Includes
<1>1. CASE type_of(value) = type
  <2>1. t = [heap |-> h, res |-> Ok(value)]
    BY <1>1 DEF as_type
  <2> HIDE DEF t
  <2>2. t.heap = h /\ t.res.ok = TRUE /\ t.res.value = value
    BY <2>1 DEF Ok
  <2> QED
    BY <1>0, <1>1, <2>2, Zenon DEF t
<1>2. CASE type_of(value) # type /\ type = "Integer"
  <2> DEFINE n == as_integer(h, value)
  <2>1. t = [heap |-> h, res |-> IF n.ok THEN Ok(Integer(n.value)) ELSE n]
    BY <1>2, Zenon DEF as_type
  <2>2. n.ok \in BOOLEAN
    BY DEF as_integer, read_buffer_field, Ok, Err
  <2> HIDE DEF t, n
  <2>3. t.heap = h /\ (n.ok => t.res.ok = TRUE /\ t.res.value = Integer(n.value)) /\ (~n.ok => t.res.ok = FALSE)
    BY <2>1, <2>2 DEF Ok
  <2>4. Refers(h, Integer(n.value)) /\ type_of(Integer(n.value)) = "Integer"
    BY DEF Refers, Integer, type_of
  <2> QED
    BY <1>0, <1>2, <2>2, <2>3, <2>4, Zenon DEF t
<1>3. CASE type_of(value) # type /\ type = "Buffer"
  <2> DEFINE b == as_buffer(h, value)
  <2>1. t = [heap |-> b.heap, res |-> IF b.res.ok THEN Ok(Buffer(b.res.value)) ELSE b.res]
    BY <1>3, Zenon DEF as_type
  <2>2. /\ AreBuffers(b.heap) /\ Includes(b.heap, h) /\ b.res.ok \in BOOLEAN
        /\ b.res.ok => b.res.value \in 1..Len(b.heap)
    BY AsBuffer
  <2> HIDE DEF t, b
  <2>3. /\ t.heap = b.heap /\ (b.res.ok => t.res.ok = TRUE /\ t.res.value = Buffer(b.res.value))
        /\ (~b.res.ok => t.res.ok = FALSE)
    BY <2>1, <2>2 DEF Ok
  <2>4. b.res.ok => Refers(b.heap, Buffer(b.res.value)) /\ type_of(Buffer(b.res.value)) = "Buffer"
    BY <2>2 DEF Refers, Buffer, type_of
  <2> QED
    BY <1>3, <2>2, <2>3, <2>4, Zenon DEF t
<1>4. CASE type_of(value) # type /\ type \notin {"Integer", "Buffer"}
  <2>1. t = [heap |-> h, res |-> Err("IncompatibleValueConversion")]
    BY <1>4 DEF as_type
  <2> HIDE DEF t
  <2>2. t.heap = h /\ t.res.ok = FALSE
    BY <2>1 DEF Err
  <2> QED
    BY <1>0, <2>2, Zenon DEF t
<1> QED
  BY <1>1, <1>2, <1>3, <1>4

----------------------------------------------------------------------------
(* Buffer fields.                                                           *)

LEMMA MinimumFacts ==
    ASSUME NEW m \in Nat, NEW n \in Nat
    PROVE  Minimum(m, n) \in Nat /\ Minimum(m, n) <= m /\ Minimum(m, n) <= n /\ Minimum(m, n) \in {m, n}
BY DEF Minimum

LEMMA OverwriteIsSequence ==
    ASSUME NEW buffer, IsSequence(buffer), NEW first, NEW bits
    PROVE  LET o == Overwrite(buffer, first, bits)
           IN  /\ IsSequence(o) /\ Len(o) = Len(buffer)
               /\ \A i \in 1..Len(buffer) :
                     o[i] = IF first < i /\ i <= first + Len(bits) THEN bits[i - first] ELSE buffer[i]
<1> DEFINE o == Overwrite(buffer, first, bits)
<1>1. Len(buffer) \in Nat
  BY SequenceFacts
<1>2. /\ DOMAIN o = 1..Len(buffer) /\ o = [i \in 1..Len(buffer) |-> o[i]]
      /\ \A i \in 1..Len(buffer) :
            o[i] = IF first < i /\ i <= first + Len(bits) THEN bits[i - first] ELSE buffer[i]
  BY Zenon DEF Overwrite
<1> HIDE DEF o
<1>3. IsSequence(o) /\ Len(o) = Len(buffer)
  BY <1>1, <1>2, SequenceFacts, Zenon
<1> QED
  BY <1>2, <1>3, Zenon DEF o

\* What is copied into a field: as many bits as it has, if there are as many.
LEMMA Copied ==
    ASSUME NEW bits, IsSequence(bits), NEW length \in Nat
    PROVE  LET copied == SubSeq(bits, 1, Minimum(length, Len(bits)))
           IN  /\ Len(copied) \in Nat /\ Len(copied) <= length
               /\ Len(copied) = length \/ Len(copied) = Len(bits)
               /\ Len(copied) <= Len(bits)
               /\ \A j \in 1..Len(copied) : copied[j] = bits[j]
<1> DEFINE n == Minimum(length, Len(bits))
           copied == SubSeq(bits, 1, n)
<1>1. Len(bits) \in Nat
  BY SequenceFacts
<1>2. n \in Nat /\ n <= length /\ n <= Len(bits) /\ n \in {length, Len(bits)}
  BY <1>1, MinimumFacts
<1> HIDE DEF n
<1>3. /\ Len(copied) = (IF 1 <= n THEN n - 1 + 1 ELSE 0)
      /\ \A j \in 1..(n - 1 + 1) : copied[j] = bits[1 + j - 1]
  BY <1>2, SubSeqIsSequence
<1> HIDE DEF copied
<1>4. Len(copied) = n /\ \A j \in 1..n : copied[j] = bits[j]
  BY <1>2, <1>3
<1> QED
  BY <1>2, <1>4 DEF copied, n

\* Copying into a part of a buffer and filling up with zeros is what Written
\* says.
LEMMA FilledUpIsWritten ==
    ASSUME NEW buffer, IsSequence(buffer), NEW bits, IsSequence(bits), NEW field,
           field.offset \in Nat, field.length \in Nat
    PROVE  LET copied == SubSeq(bits, 1, Minimum(field.length, Len(bits)))
               written == Overwrite(buffer, field.offset, copied)
               new == Overwrite(written, field.offset + Len(copied), Zeros(field.length - Len(copied)))
           IN  IsSequence(written) /\ IsSequence(new) /\ new = Written(buffer, field, bits)
<1> DEFINE copied == SubSeq(bits, 1, Minimum(field.length, Len(bits)))
           written == Overwrite(buffer, field.offset, copied)
           zeros == Zeros(field.length - Len(copied))
           new == Overwrite(written, field.offset + Len(copied), zeros)
<1>1. Len(buffer) \in Nat /\ Len(bits) \in Nat
  BY SequenceFacts
<1>2. /\ Len(copied) \in Nat /\ Len(copied) <= field.length
      /\ Len(copied) = field.length \/ Len(copied) = Len(bits)
      /\ Len(copied) <= Len(bits)
      /\ \A j \in 1..Len(copied) : copied[j] = bits[j]
  BY Copied
<1> HIDE DEF copied
<1>3. Len(zeros) = field.length - Len(copied) /\ \A j \in 1..(field.length - Len(copied)) : zeros[j] = 0
  <2>1. field.length - Len(copied) \in Nat
    BY <1>2
  <2> QED
    BY <2>1, ZerosIsSequence
<1> HIDE DEF zeros
<1>4. /\ IsSequence(written) /\ Len(written) = Len(buffer)
      /\ \A i \in 1..Len(buffer) :
            written[i] = IF field.offset < i /\ i <= field.offset + Len(copied) THEN copied[i - field.offset] ELSE buffer[i]
  BY OverwriteIsSequence
<1> HIDE DEF written
<1>5. IsSequence(new)
  BY <1>4, OverwriteIsSequence
<1>6. new = [i \in 1..Len(buffer) |->
                IF field.offset + Len(copied) < i /\ i <= field.offset + Len(copied) + Len(zeros)
                THEN zeros[i - (field.offset + Len(copied))] ELSE written[i]]
  BY <1>4, Zenon DEF Overwrite
<1>7. ASSUME NEW i \in 1..Len(buffer)
      PROVE  (IF field.offset + Len(copied) < i /\ i <= field.offset + Len(copied) + Len(zeros)
              THEN zeros[i - (field.offset + Len(copied))] ELSE written[i]) =
             (IF i - 1 \in field.offset..(field.offset + field.length - 1)
              THEN IF i - field.offset <= Len(bits) THEN bits[i - field.offset] ELSE 0
              ELSE buffer[i])
  <2>1. written[i] = IF field.offset < i /\ i <= field.offset + Len(copied) THEN copied[i - field.offset] ELSE buffer[i]
    BY <1>4, Zenon
  <2>2. CASE field.offset < i /\ i <= field.offset + Len(copied)
    <3>1. i - field.offset \in 1..Len(copied) /\ i - field.offset <= Len(bits)
          /\ i - 1 \in field.offset..(field.offset + field.length - 1) /\ ~(field.offset + Len(copied) < i)
      BY <1>1, <1>2, <2>2
    <3> QED
      BY <1>2, <2>1, <2>2, <3>1, Zenon
  <2>3. CASE field.offset + Len(copied) < i /\ i <= field.offset + field.length
    <3>1. /\ i - (field.offset + Len(copied)) \in 1..(field.length - Len(copied))
          /\ i <= field.offset + Len(copied) + Len(zeros) /\ ~(i - field.offset <= Len(bits))
          /\ i - 1 \in field.offset..(field.offset + field.length - 1)
      <4> DEFINE c == Len(copied)
                 l == field.length
                 o == field.offset
                 b == Len(bits)
                 z == Len(zeros)
      <4>1. c \in Nat /\ l \in Nat /\ o \in Nat /\ b \in Nat /\ (c = l \/ c = b) /\ z = l - c /\ o + c < i /\ i <= o + l
        BY <1>1, <1>2, <1>3, <2>3, Zenon
      <4>2. i \in Nat
        BY <1>1
      <4> HIDE DEF c, l, o, b, z
      <4>3. i - (o + c) \in 1..(l - c) /\ i <= o + c + z /\ ~(i - o <= b) /\ i - 1 \in o..(o + l - 1)
        BY <4>1, <4>2
      <4> QED
        BY <4>3, Zenon DEF c, l, o, b, z
    <3> QED
      BY <1>3, <2>3, <3>1, Zenon
  <2>4. CASE ~(field.offset < i /\ i <= field.offset + field.length)
    <3>1. /\ i - 1 \notin field.offset..(field.offset + field.length - 1)
          /\ ~(field.offset < i /\ i <= field.offset + Len(copied))
          /\ ~(field.offset + Len(copied) < i /\ i <= field.offset + Len(copied) + Len(zeros))
      BY <1>1, <1>2, <1>3, <2>4
    <3> QED
      BY <2>1, <3>1, Zenon
  <2>5. \/ field.offset < i /\ i <= field.offset + Len(copied)
        \/ field.offset + Len(copied) < i /\ i <= field.offset + field.length
        \/ ~(field.offset < i /\ i <= field.offset + field.length)
    BY <1>1, <1>2
  <2> QED
    BY <2>2, <2>3, <2>4, <2>5, Zenon
<1>8. new = Written(buffer, field, bits)
  BY <1>6, <1>7, Zenon DEF Written
<1> QED
  BY <1>4, <1>5, <1>8, Zenon DEF new, zeros, written, copied

\* One buffer of the heap replaced.
Replaced(h, d, bits) == [h EXCEPT ![d] = bits]

LEMMA ReplaceBuffer ==
    ASSUME NEW h, AreBuffers(h), NEW d \in 1..Len(h), NEW bits, IsSequence(bits)
    PROVE  /\ AreBuffers(Replaced(h, d, bits)) /\ Len(Replaced(h, d, bits)) = Len(h)
           /\ \A e \in 1..Len(h) : Replaced(h, d, bits)[e] = IF e = d THEN bits ELSE h[e]
<1> DEFINE r == Replaced(h, d, bits)
<1>1. Len(h) \in Nat /\ DOMAIN h = 1..Len(h)
  BY SequenceFacts DEF AreBuffers
<1>2. DOMAIN r = 1..Len(h) /\ r = [e \in 1..Len(h) |-> r[e]] /\ \A e \in 1..Len(h) : r[e] = IF e = d THEN bits ELSE h[e]
  BY <1>1, Zenon DEF Replaced
<1> HIDE DEF r
<1>3. IsSequence(r) /\ Len(r) = Len(h)
  BY <1>1, <1>2, SequenceFacts, Zenon
<1>4. \A e \in 1..Len(h) : IsSequence(r[e])
  BY <1>2, Zenon DEF AreBuffers
<1> QED
  BY <1>2, <1>3, <1>4, Zenon DEF AreBuffers, r

\* A field is written in full, or there is a panic.
LEMMA CopyIntoWrites ==
    ASSUME NEW h, AreBuffers(h), NEW field, field.type = "BufferField", Refers(h, field), NEW bits, IsSequence(bits)
    PROVE  LET w == CopyInto(h, field, bits)
           IN  /\ AreBuffers(w.heap) /\ Len(w.heap) = Len(h) /\ w.res.ok \in BOOLEAN
               /\ ~IsError(w.res)
               /\ w.res.ok => \A d \in 1..Len(h) :
                     w.heap[d] = IF d = field.data THEN Written(h[d], field, bits) ELSE h[d]
<1> DEFINE w == CopyInto(h, field, bits)
           copied == SubSeq(bits, 1, Minimum(field.length, Len(bits)))
           written == Overwrite(h[field.data], field.offset, copied)
           new == Overwrite(written, field.offset + Len(copied), Zeros(field.length - Len(copied)))
<1>1. field.data \in 1..Len(h) /\ field.offset \in Nat /\ field.length \in Nat
  BY DEF Refers
<1>2. IsSequence(written) /\ IsSequence(new) /\ new = Written(h[field.data], field, bits)
  <2>1. IsSequence(h[field.data])
    BY <1>1 DEF AreBuffers
  <2> QED
    BY <1>1, <2>1, FilledUpIsWritten, ZenonT(30)
<1>3. \/ w = [heap |-> h, res |-> Panic]
      \/ w = [heap |-> Replaced(h, field.data, written), res |-> Panic]
      \/ w = [heap |-> Replaced(h, field.data, new), res |-> Ok(None)]
  BY Zenon DEF CopyInto, Replaced
<1> HIDE DEF new, written, copied, w
<1>4. CASE w = [heap |-> h, res |-> Panic]
  <2>1. w.heap = h /\ w.res = Panic
    BY <1>4
  <2> QED
    BY <2>1, OutcomeFacts, Zenon DEF w
<1>5. CASE w = [heap |-> Replaced(h, field.data, written), res |-> Panic]
  <2>1. w.heap = Replaced(h, field.data, written) /\ w.res = Panic
    BY <1>5
  <2> DEFINE r == Replaced(h, field.data, written)
  <2>0. IsSequence(written) /\ field.data \in 1..Len(h)
    BY <1>1, <1>2
  <2>3. AreBuffers(r) /\ Len(r) = Len(h)
    BY <2>0, ReplaceBuffer
  <2> HIDE DEF r
  <2>2. AreBuffers(w.heap) /\ Len(w.heap) = Len(h)
    BY <2>1, <2>3, Zenon DEF r
  <2> QED
    BY <2>1, <2>2, OutcomeFacts, Zenon DEF w
<1>6. CASE w = [heap |-> Replaced(h, field.data, new), res |-> Ok(None)]
  <2>1. w.heap = Replaced(h, field.data, new) /\ w.res = Ok(None)
    BY <1>6
  <2>2. /\ AreBuffers(w.heap) /\ Len(w.heap) = Len(h)
        /\ \A e \in 1..Len(h) : w.heap[e] = IF e = field.data THEN new ELSE h[e]
    <3> DEFINE r == Replaced(h, field.data, new)
    <3>0. IsSequence(new) /\ field.data \in 1..Len(h)
      BY <1>1, <1>2
    <3>1. AreBuffers(r) /\ Len(r) = Len(h) /\ \A e \in 1..Len(h) : r[e] = IF e = field.data THEN new ELSE h[e]
      BY <3>0, ReplaceBuffer
    <3> HIDE DEF r
    <3> QED
      BY <2>1, <3>1, Zenon DEF r
  <2>3. w.res.ok = TRUE
    BY <2>1, OutcomeFacts, Zenon
  <2>4. \A d \in 1..Len(h) : w.heap[d] = IF d = field.data THEN Written(h[d], field, bits) ELSE h[d]
    BY <1>2, <2>2, Zenon
  <2> QED
    BY <2>2, <2>3, <2>4, OutcomeFacts, Zenon DEF w
<1> QED
  BY <1>3, <1>4, <1>5, <1>6

\* The bits that are written for a value, if it stays as it is in h2.
BitsOf(h2, value) == IF value.type = "Integer" THEN Bits(value.value, IntBits) ELSE h2[value.data]

\* The field is that of Written, and all else is as in h.
WrittenTo(h, h2, field, value) ==
    \A d \in 1..Len(h) : h2[d] = IF d = field.data THEN Written(h[d], field, BitsOf(h2, value)) ELSE h[d]

LEMMA IntBitsNat == IntBits \in Nat
BY StoreAssumption DEF IntBits

LEMMA WriteBufferField ==
    ASSUME NEW h, AreBuffers(h), NEW field, field.type = "BufferField", Refers(h, field), NEW value, Refers(h, value)
    PROVE  LET w == write_buffer_field(h, field, value)
           IN  /\ AreBuffers(w.heap) /\ Len(w.heap) = Len(h) /\ w.res.ok \in BOOLEAN
               /\ IsError(w.res) => w.heap = h
               /\ w.res.ok /\ value.type \in {"Integer", "Buffer"} => WrittenTo(h, w.heap, field, value)
<1> DEFINE w == write_buffer_field(h, field, value)
<1>0. field.data \in 1..Len(h) /\ field.offset \in Nat /\ field.length \in Nat /\ Len(h) \in Nat /\ DOMAIN h = 1..Len(h)
  BY SequenceFacts DEF Refers, AreBuffers
<1>1. CASE value.type = "Integer"
  <2>1. w = CopyInto(h, field, Bits(value.value, IntBits))
    BY <1>1 DEF write_buffer_field
  <2>2. IsSequence(Bits(value.value, IntBits))
    BY IntBitsNat, BitsIsSequence, Zenon
  <2>3. BitsOf(w.heap, value) = Bits(value.value, IntBits)
    BY <1>1 DEF BitsOf
  <2> HIDE DEF w
  <2>4. /\ AreBuffers(w.heap) /\ Len(w.heap) = Len(h) /\ w.res.ok \in BOOLEAN
        /\ ~IsError(w.res)
        /\ w.res.ok => \A d \in 1..Len(h) :
              w.heap[d] = IF d = field.data THEN Written(h[d], field, Bits(value.value, IntBits)) ELSE h[d]
    BY <2>1, <2>2, CopyIntoWrites, ZenonT(30)
  <2>5. w.res.ok => WrittenTo(h, w.heap, field, value)
    BY <2>3, <2>4, Zenon DEF WrittenTo
  <2> QED
    BY <2>4, <2>5, Zenon DEF w
<1>2. CASE value.type = "Boolean"
  <2> DEFINE bit == IF value.value THEN 1 ELSE 0
             new == [h[field.data] EXCEPT ![field.offset + 1] = bit]
  <2>1. CASE field.offset >= Len(h[field.data])
    <3>1. w = [heap |-> h, res |-> Panic]
      BY <1>2, <2>1 DEF write_buffer_field
    <3> HIDE DEF w
    <3>2. w.heap = h /\ w.res.ok = FALSE
      BY <3>1 DEF Panic, Err
    <3> QED
      BY <3>2, Zenon DEF w
  <2>2. CASE ~(field.offset >= Len(h[field.data]))
    <3>1. w = [heap |-> [h EXCEPT ![field.data] = new], res |-> Ok(None)]
      BY <1>2, <2>2 DEF write_buffer_field
    <3>2. IsSequence(new)
      <4>1. IsSequence(h[field.data])
        BY <1>0 DEF AreBuffers
      <4>2. /\ Len(h[field.data]) \in Nat /\ DOMAIN new = 1..Len(h[field.data])
            /\ new = [i \in 1..Len(h[field.data]) |-> new[i]]
        BY <4>1, SequenceFacts
      <4> QED
        BY <4>2, SequenceFacts, Zenon
    <3> HIDE DEF w, new
    <3>3. w.heap = Replaced(h, field.data, new) /\ w.res.ok = TRUE
      BY <3>1 DEF Ok, Replaced
    <3>4. AreBuffers(w.heap) /\ Len(w.heap) = Len(h)
      <4> DEFINE r == Replaced(h, field.data, new)
      <4>1. AreBuffers(r) /\ Len(r) = Len(h)
        BY <1>0, <3>2, ReplaceBuffer
      <4> QED
        BY <3>3, <4>1
    <3>5. ~IsError(w.res)
      BY <3>3, OutcomeFacts, Zenon
    <3> QED
      BY <1>2, <3>3, <3>4, <3>5, Zenon DEF w
  <2> QED
    BY <2>1, <2>2
<1>3. CASE value.type = "Buffer"
  <2>0. value.data \in 1..Len(h)
    BY <1>3 DEF Refers
  <2>1. CASE value.data = field.data
    <3>1. w = [heap |-> h, res |-> Hang]
      BY <1>3, <2>1 DEF write_buffer_field
    <3> HIDE DEF w
    <3>2. w.heap = h /\ w.res.ok = FALSE
      BY <3>1 DEF Hang, Err
    <3> QED
      BY <3>2 DEF w
  <2>2. CASE value.data # field.data
    <3> DEFINE bits == h[value.data]
    <3>1. w = CopyInto(h, field, bits)
      BY <1>3, <2>2 DEF write_buffer_field
    <3>2. IsSequence(bits)
      BY <2>0 DEF AreBuffers
    <3> HIDE DEF w, bits
    <3>3. /\ AreBuffers(w.heap) /\ Len(w.heap) = Len(h) /\ w.res.ok \in BOOLEAN
          /\ ~IsError(w.res)
          /\ w.res.ok => \A d \in 1..Len(h) :
                w.heap[d] = IF d = field.data THEN Written(h[d], field, bits) ELSE h[d]
      BY <3>1, <3>2, CopyIntoWrites, ZenonT(30)
    <3>4. w.res.ok => w.heap[value.data] = bits
      BY <2>0, <2>2, <3>3, Zenon DEF bits
    <3>5. w.res.ok => BitsOf(w.heap, value) = bits
      BY <1>3, <3>4 DEF BitsOf
    <3>6. w.res.ok => WrittenTo(h, w.heap, field, value)
      BY <3>3, <3>5, Zenon DEF WrittenTo
    <3> QED
      BY <3>3, <3>6, Zenon DEF w
  <2> QED
    BY <2>1, <2>2
<1>4. CASE value.type \notin {"Integer", "Boolean", "Buffer"}
  <2>1. w = [heap |-> h, res |-> Err("TypeCannotBeWrittenToBufferField")]
    BY <1>4 DEF write_buffer_field
  <2> HIDE DEF w
  <2>2. w.heap = h /\ w.res.ok = FALSE
    BY <2>1 DEF Err
  <2> QED
    BY <2>2 DEF w
<1> QED
  BY <1>1, <1>2, <1>3, <1>4

----------------------------------------------------------------------------
(* AmlContext::store.                                                       *)

\* What is known of a store that leaves off with these objects.
KeepsTypes(o) ==
    \A n \in Names : objects[n] # None =>
        type_of(o[n]) = type_of(objects[n]) /\ (objects[n].type = "BufferField" => o[n] = objects[n])

ValuesRefer(h, o, l) ==
    /\ DOMAIN o = Names /\ o = [n \in Names |-> o[n]] /\ \A n \in Names : Refers(h, o[n])
    /\ DOMAIN l = Locals /\ l = [x \in Locals |-> l[x]] /\ \A x \in Locals : Refers(h, l[x])

StoredWell(h, target, value, s) ==
    /\ AreBuffers(s.heap) /\ Len(h) <= Len(s.heap) /\ s.res.ok \in BOOLEAN
    /\ ValuesRefer(s.heap, s.objects, s.locals) /\ KeepsTypes(s.objects)
    /\ IsError(s.res) => s.heap = h /\ s.objects = objects /\ s.locals = locals
    /\ target.kind = "Name" /\ objects[target.name].type = "BufferField" /\ value.type \in {"Integer", "Buffer"} /\ s.res.ok =>
          WrittenTo(h, s.heap, objects[target.name], value)

LEMMA RefersGrows ==
    ASSUME NEW h, NEW h2, NEW value, Len(h) \in Nat, Len(h2) \in Nat, Len(h) <= Len(h2), Refers(h, value)
    PROVE  Refers(h2, value)
<1>1. \A d : d \in 1..Len(h) => d \in 1..Len(h2)
  OBVIOUS
<1> QED
  BY <1>1, Zenon DEF Refers

LEMMA StoreIsWell ==
    ASSUME StoreInv, NEW h, AreBuffers(h), Len(heap) <= Len(h), NEW value, Refers(h, value), NEW target \in Targets
    PROVE  StoredWell(h, target, value, store(h, target, value))
<1> DEFINE s == store(h, target, value)
<1>0. /\ Len(heap) \in Nat /\ Len(h) \in Nat /\ Len(h) <= Len(h)
      /\ ValuesRefer(h, objects, locals) /\ KeepsTypes(objects)
  <2>1. Len(heap) \in Nat /\ Len(h) \in Nat
    BY SequenceFacts DEF StoreInv, AreBuffers
  <2>2. (\A n \in Names : Refers(h, objects[n])) /\ (\A l \in Locals : Refers(h, locals[l]))
    BY <2>1, RefersGrows DEF StoreInv
  <2> QED
    BY <2>1, <2>2 DEF StoreInv, ValuesRefer, KeepsTypes
<1>1. CASE target.kind = "Null"
  <2>1. s = [heap |-> h, objects |-> objects, locals |-> locals, res |-> Ok(value)]
    BY <1>1 DEF store
  <2> HIDE DEF s
  <2>2. s.heap = h /\ s.objects = objects /\ s.locals = locals /\ s.res.ok = TRUE
    BY <2>1 DEF Ok
  <2> QED
    BY <1>0, <1>1, <2>2, OutcomeFacts, Zenon DEF StoredWell, s
<1>2. CASE target.kind = "Debug"
  <2>1. s = [heap |-> h, objects |-> objects, locals |-> locals, res |-> Panic]
    BY <1>2 DEF store
  <2> HIDE DEF s
  <2>2. s.heap = h /\ s.objects = objects /\ s.locals = locals /\ s.res.ok = FALSE
    BY <2>1 DEF Panic, Err
  <2> QED
    BY <1>0, <1>2, <2>2, Zenon DEF StoredWell, s
<1>3. CASE target.kind = "Local"
  <2> DEFINE new == [locals EXCEPT ![target.local] = value]
  <2>1. s = [heap |-> h, objects |-> objects, locals |-> new, res |-> Ok(value)]
    BY <1>3 DEF store
  <2>2. DOMAIN new = Locals /\ new = [x \in Locals |-> new[x]] /\ \A x \in Locals : new[x] = value \/ new[x] = locals[x]
    BY <1>0, Zenon DEF ValuesRefer
  <2> HIDE DEF s, new
  <2>3. s.heap = h /\ s.objects = objects /\ s.locals = new /\ s.res.ok = TRUE
    BY <2>1 DEF Ok
  <2>4. \A x \in Locals : Refers(h, new[x])
    BY <1>0, <2>2, Zenon DEF ValuesRefer
  <2>5. ValuesRefer(h, objects, new)
    BY <1>0, <2>2, <2>4, Zenon DEF ValuesRefer
  <2> QED
    BY <1>0, <1>3, <2>3, <2>5, OutcomeFacts, Zenon DEF StoredWell, s
<1>4. CASE target.kind = "Name"
  <2> DEFINE object == objects[target.name]
  <2>0. target.name \in Names /\ Refers(h, object)
    BY <1>0, <1>4 DEF Targets, Null, Debug, ValuesRefer
  <2>1. CASE object = None
    <3>1. s = [heap |-> h, objects |-> objects, locals |-> locals, res |-> Err("ValueDoesNotExist")]
      BY <1>4, <2>1 DEF store
    <3> HIDE DEF s
    <3>2. s.heap = h /\ s.objects = objects /\ s.locals = locals /\ s.res.ok = FALSE
      BY <3>1 DEF Err
    <3> QED
      BY <1>0, <3>2, ZenonT(30) DEF StoredWell, s
  <2>2. CASE object # None /\ object.type = "BufferField"
    <3> DEFINE w == write_buffer_field(h, object, value)
    <3>1. s = [heap |-> w.heap, objects |-> objects, locals |-> locals, res |-> IF w.res.ok THEN Ok(value) ELSE w.res]
      BY <1>4, <2>2 DEF store
    <3>2. /\ AreBuffers(w.heap) /\ Len(w.heap) = Len(h) /\ w.res.ok \in BOOLEAN
          /\ IsError(w.res) => w.heap = h
          /\ w.res.ok /\ value.type \in {"Integer", "Buffer"} => WrittenTo(h, w.heap, object, value)
      BY <2>0, <2>2, WriteBufferField, Zenon
    <3> HIDE DEF s, w
    <3>3. s.heap = w.heap /\ s.objects = objects /\ s.locals = locals /\ s.res.ok = w.res.ok
      BY <3>1, <3>2, Zenon DEF Ok
    <3>6. s.res = (IF w.res.ok THEN Ok(value) ELSE w.res)
      BY <3>1
    <3>7. IsError(s.res) => IsError(w.res)
      BY <3>6, OutcomeFacts, Zenon
    <3>4. ValuesRefer(w.heap, objects, locals)
      BY <1>0, <3>2, Zenon DEF ValuesRefer, Refers
    <3>5. Len(h) <= Len(w.heap)
      BY <1>0, <3>2
    <3> QED
      BY <1>0, <3>2, <3>3, <3>4, <3>5, <3>7, Zenon DEF StoredWell, s
  <2>3. CASE object # None /\ object.type # "BufferField"
    <3> DEFINE t == as_type(h, value, type_of(object))
    <3>1. /\ AreBuffers(t.heap) /\ Includes(t.heap, h) /\ t.res.ok \in BOOLEAN
          /\ t.res.ok => Refers(t.heap, t.res.value) /\ type_of(t.res.value) = type_of(object)
      BY AsType, Zenon
    <3>2. CASE ~t.res.ok
      <4>1. s = [heap |-> h, objects |-> objects, locals |-> locals, res |-> t.res]
        BY <1>4, <2>3, <3>2 DEF store
      <4> HIDE DEF s, t
      <4>2. s.heap = h /\ s.objects = objects /\ s.locals = locals /\ s.res.ok = FALSE
        BY <3>1, <3>2, <4>1
      <4> QED
        BY <1>0, <4>2 DEF StoredWell, s
    <3>3. CASE t.res.ok
      <4> DEFINE new == [objects EXCEPT ![target.name] = t.res.value]
      <4>1. s = [heap |-> t.heap, objects |-> new, locals |-> locals, res |-> t.res]
        BY <1>4, <2>3, <3>3 DEF store
      <4> HIDE DEF t
      <4>2. /\ DOMAIN new = Names /\ new = [n \in Names |-> new[n]]
            /\ new[target.name] = t.res.value /\ \A n \in Names \ {target.name} : new[n] = objects[n]
        BY <1>0, <2>0 DEF ValuesRefer
      <4> HIDE DEF s, new
      <4>3. s.heap = t.heap /\ s.objects = new /\ s.locals = locals /\ s.res.ok = TRUE
        BY <3>1, <3>3, <4>1
      <4>4. Len(t.heap) \in Nat /\ Len(h) <= Len(t.heap)
        BY <3>1, SequenceFacts DEF Includes, AreBuffers
      <4>5. (\A n \in Names : Refers(t.heap, objects[n])) /\ (\A l \in Locals : Refers(t.heap, locals[l]))
        BY <1>0, <4>4, RefersGrows DEF ValuesRefer
      <4>6. \A n \in Names : Refers(t.heap, new[n])
        BY <3>1, <3>3, <4>2, <4>5, Zenon
      <4>7. ValuesRefer(t.heap, new, locals)
        BY <1>0, <4>2, <4>5, <4>6, Zenon DEF ValuesRefer
      <4>8. KeepsTypes(new)
        BY <2>3, <3>1, <3>3, <4>2, Zenon DEF KeepsTypes
      <4> QED
        BY <2>3, <3>1, <4>3, <4>4, <4>7, <4>8, OutcomeFacts, Zenon DEF StoredWell, s
    <3> QED
      BY <3>2, <3>3
  <2> QED
    BY <2>1, <2>2, <2>3
<1> QED
  BY <1>1, <1>2, <1>3, <1>4 DEF Targets, Null, Debug

----------------------------------------------------------------------------
(* What a step does, and the steps.                                         *)

TypesKept == KeepsTypes(objects')

ErrorsHarmless == IsError(last'.res) => UNCHANGED <<objects, locals>> /\ \A d \in DOMAIN heap : heap'[d] = heap[d]

FieldWritten ==
    IntoField /\ last'.value.type \in {"Integer", "Buffer"} /\ last'.res.ok =>
        WrittenTo(heap, heap', objects[last'.target.name], last'.value)

StepWell ==
    /\ AreBuffers(heap') /\ ValuesRefer(heap', objects', locals')
    /\ TypesKept /\ ErrorsHarmless /\ FieldWritten

LEMMA WrittenToIncluded ==
    ASSUME NEW h0, NEW h, NEW h2, NEW field, NEW value, WrittenTo(h, h2, field, value),
           \A d \in 1..Len(h0) : d \in 1..Len(h) /\ h[d] = h0[d]
    PROVE  WrittenTo(h0, h2, field, value)
BY DEF WrittenTo

\* A step ends in the store of a value, made of buffers there were or that
\* are new.
LEMMA EndsInStore ==
    ASSUME StoreInv, NEW h, AreBuffers(h), Includes(h, heap), NEW value, Refers(h, value), NEW target \in Targets,
           NEW s, s = store(h, target, value),
           heap' = s.heap, objects' = s.objects, locals' = s.locals,
           last'.target = target, last'.value = value, last'.res.ok = s.res.ok,
           IsError(last'.res) => IsError(s.res)
    PROVE  StepWell
<1>1. Len(heap) \in Nat /\ DOMAIN heap = 1..Len(heap) /\ Len(heap) <= Len(h) /\ Len(h) \in Nat
  BY SequenceFacts DEF StoreInv, AreBuffers, Includes
<1>2. StoredWell(h, target, value, s)
  BY <1>1, StoreIsWell
<1>3. AreBuffers(heap') /\ ValuesRefer(heap', objects', locals') /\ TypesKept
  BY <1>2, Zenon DEF StoredWell, TypesKept
<1>4. ErrorsHarmless
  <2> SUFFICES ASSUME IsError(s.res)
               PROVE  UNCHANGED <<objects, locals>> /\ \A d \in DOMAIN heap : heap'[d] = heap[d]
    BY DEF ErrorsHarmless
  <2>1. heap' = h /\ objects' = objects /\ locals' = locals
    BY <1>2 DEF StoredWell
  <2> QED
    BY <1>1, <2>1 DEF Includes
<1>5. FieldWritten
  <2> SUFFICES ASSUME target.kind = "Name", objects[target.name].type = "BufferField",
                      value.type \in {"Integer", "Buffer"}, s.res.ok
               PROVE  WrittenTo(heap, heap', objects[target.name], value)
    BY Zenon DEF FieldWritten, IntoField
  <2>1. WrittenTo(h, heap', objects[target.name], value)
    BY <1>2, Zenon DEF StoredWell
  <2>2. \A d \in 1..Len(heap) : d \in 1..Len(h) /\ h[d] = heap[d]
    BY <1>1 DEF Includes
  <2> QED
    BY <2>1, <2>2, WrittenToIncluded
<1> QED
  BY <1>3, <1>4, <1>5 DEF StepWell

LEMMA StoreResultIsWell ==
    ASSUME StoreInv, NEW op, NEW h, AreBuffers(h), Includes(h, heap), NEW value, Refers(h, value),
           NEW target \in Targets, StoreResult(op, h, target, value)
    PROVE  StepWell
<1> DEFINE s == store(h, target, value)
<1>1. /\ heap' = s.heap /\ objects' = s.objects /\ locals' = s.locals
      /\ last' = Done(op, target, value, IF s.res.ok THEN Ok(value) ELSE s.res)
  BY DEF StoreResult
<1>2. s.res.ok \in BOOLEAN
  <2>1. Len(heap) <= Len(h)
    BY DEF Includes
  <2> QED
    BY <2>1, StoreIsWell, Zenon DEF StoredWell
<1> HIDE DEF s
<1>3. last'.target = target /\ last'.value = value /\ last'.res.ok = s.res.ok
  BY <1>1, <1>2, Zenon DEF Done, Ok
<1>4. last'.res = IF s.res.ok THEN Ok(value) ELSE s.res
  BY <1>1 DEF Done
<1>5. IsError(last'.res) => IsError(s.res)
  BY <1>4, OutcomeFacts, Zenon
<1> QED
  BY <1>1, <1>3, <1>5, EndsInStore DEF s

LEMMA ReturnsIsWell ==
    ASSUME StoreInv, NEW op, NEW res, Returns(op, res)
    PROVE  StepWell
<1>1. heap' = heap /\ objects' = objects /\ locals' = locals /\ last'.target.kind = "Null"
  BY DEF Returns, Done, Null
<1>2. AreBuffers(heap') /\ ValuesRefer(heap', objects', locals')
  BY <1>1 DEF StoreInv, ValuesRefer
<1>3. TypesKept /\ ErrorsHarmless /\ FieldWritten
  BY <1>1 DEF TypesKept, KeepsTypes, ErrorsHarmless, FieldWritten, IntoField
<1> QED
  BY <1>2, <1>3 DEF StepWell

LEMMA DeclareIsWell ==
    ASSUME StoreInv, NEW op, NEW name \in Names, objects[name] = None, NEW h, AreBuffers(h), Includes(h, heap),
           NEW value, Refers(h, value), Declare(op, name, h, value)
    PROVE  StepWell
<1>0. /\ heap' = h /\ objects' = [objects EXCEPT ![name] = value] /\ locals' = locals
      /\ last'.target.kind = "Null" /\ last'.res.ok = TRUE
  BY DEF Declare, Done, Null, Ok
<1>1. /\ DOMAIN objects' = Names /\ objects' = [n \in Names |-> objects'[n]]
      /\ objects'[name] = value /\ \A n \in Names \ {name} : objects'[n] = objects[n]
  BY <1>0 DEF StoreInv
<1>2. Len(heap) \in Nat /\ Len(heap) <= Len(h) /\ Len(h) \in Nat
  BY SequenceFacts DEF StoreInv, AreBuffers, Includes
<1>3. (\A n \in Names : Refers(h, objects[n])) /\ (\A l \in Locals : Refers(h, locals[l]))
  BY <1>2, RefersGrows DEF StoreInv
<1>4. \A n \in Names : Refers(h, objects'[n])
  BY <1>1, <1>3, Zenon
<1>5. DOMAIN locals' = Locals /\ locals' = [l \in Locals |-> locals'[l]] /\ \A l \in Locals : Refers(h, locals'[l])
  BY <1>0, <1>3 DEF StoreInv
<1>6. ValuesRefer(heap', objects', locals')
  BY <1>0, <1>1, <1>4, <1>5, Zenon DEF ValuesRefer
<1>7. TypesKept
  BY <1>1, Zenon DEF TypesKept, KeepsTypes
<1>8. ErrorsHarmless /\ FieldWritten
  <2>1. ErrorsHarmless
    BY <1>0, OutcomeFacts, Zenon DEF ErrorsHarmless
  <2>2. FieldWritten
    BY <1>0 DEF FieldWritten, IntoField
  <2> QED
    BY <2>1, <2>2
<1> QED
  BY <1>0, <1>6, <1>7, <1>8 DEF StepWell

\* What the values of a program refer to.
LEMMA TermArgsRefer ==
    ASSUME StoreInv, NEW value \in TermArgs
    PROVE  Refers(heap, value)
<1>1. CASE \E n \in IntegerConstants : value = Integer(n)
  BY <1>1 DEF Integer, Refers
<1>2. CASE value = Bool(TRUE)
  BY <1>2 DEF Bool, Refers
<1>3. CASE \/ \E n \in Names : value = objects[n]
           \/ \E l \in Locals : value = locals[l]
  BY <1>3 DEF StoreInv
<1> QED
  BY <1>1, <1>2, <1>3, Zenon DEF TermArgs

LEMMA PlainRefer ==
    ASSUME NEW h
    PROVE  (\A n : Refers(h, Integer(n))) /\ Refers(h, Str) /\ \A d \in 1..Len(h) : Refers(h, Buffer(d))
BY DEF Refers, Integer, Str, Buffer

LEMMA IncludesItself ==
    ASSUME StoreInv
    PROVE  AreBuffers(heap) /\ Includes(heap, heap)
BY SequenceFacts DEF StoreInv, AreBuffers, Includes

LEMMA DefNameIsWell ==
    ASSUME StoreInv, NEW name \in Names, DefName(name)
    PROVE  StepWell
<1>1. objects[name] = None
  BY DEF DefName
<1>2. ASSUME NEW n \in IntegerConstants, Declare("DefName", name, heap, Integer(n)) PROVE StepWell
  BY <1>1, <1>2, DeclareIsWell, IncludesItself, PlainRefer
<1>3. ASSUME NEW bytes \in program.byte_lists, Declare("DefName", name, Append(heap, bytes), Buffer(Len(heap) + 1))
      PROVE  StepWell
  <2> DEFINE h == Append(heap, bytes)
  <2>1. IsSequence(bytes)
    <3>1. program \in Programs
      BY DEF StoreInv
    <3>2. bytes \in Seq({0, 1})
      BY <3>1, ProgramsAssumption
    <3> QED
      BY <3>2, SequenceFacts, Zenon
  <2>2. AreBuffers(h) /\ Includes(h, heap) /\ Len(heap) + 1 \in 1..Len(h)
    BY <2>1, AppendBuffer, IncludesItself, Zenon
  <2> HIDE DEF h
  <2>3. Refers(h, Buffer(Len(heap) + 1))
    BY <2>2, PlainRefer, Zenon
  <2>4. Declare("DefName", name, h, Buffer(Len(heap) + 1))
    BY <1>3 DEF h
  <2> QED
    BY <1>1, <2>2, <2>3, <2>4, DeclareIsWell, Zenon
<1> QED
  BY <1>2, <1>3 DEF DefName

LEMMA CreateFieldIsWell ==
    ASSUME StoreInv, NEW op, NEW name \in Names, NEW source \in TermArgs, NEW offset \in Nat, NEW length \in Nat,
           CreateField(op, name, source, offset, length)
    PROVE  StepWell
<1> DEFINE b == as_buffer(heap, source)
<1>1. Refers(heap, source)
  BY TermArgsRefer
<1>2. /\ AreBuffers(b.heap) /\ Includes(b.heap, heap)
      /\ b.res.ok => b.res.value \in 1..Len(b.heap)
  BY <1>1, AsBuffer, IncludesItself, Zenon
<1>3. /\ objects[name] = None
      /\ b.res.ok => Declare(op, name, b.heap, BufferField(b.res.value, offset, length))
      /\ ~b.res.ok => Returns(op, b.res)
  BY DEF CreateField
<1> HIDE DEF b
<1>4. CASE b.res.ok
  <2>1. Refers(b.heap, BufferField(b.res.value, offset, length))
    BY <1>2, <1>4 DEF Refers, BufferField
  <2> QED
    BY <1>2, <1>3, <1>4, <2>1, DeclareIsWell, Zenon
<1>5. CASE ~b.res.ok
  BY <1>3, <1>5, ReturnsIsWell, Zenon
<1> QED
  BY <1>4, <1>5

LEMMA DeclarationIsWell ==
    ASSUME StoreInv, Declaration
    PROVE  StepWell
<1> PICK name \in Names :
        \/ DefName(name)
        \/ \E source \in TermArgs, index \in program.indices :
              \/ DefCreateBitField(name, source, index) \/ DefCreateByteField(name, source, index)
              \/ DefCreateWordField(name, source, index) \/ DefCreateDwordField(name, source, index)
              \/ DefCreateQwordField(name, source, index)
              \/ \E num_bits \in program.indices : DefCreateField(name, source, index, num_bits)
  BY DEF Declaration
<1>1. CASE DefName(name)
  BY <1>1, DefNameIsWell
<1>2. ASSUME NEW source \in TermArgs, NEW index \in program.indices,
             \/ DefCreateBitField(name, source, index) \/ DefCreateByteField(name, source, index)
             \/ DefCreateWordField(name, source, index) \/ DefCreateDwordField(name, source, index)
             \/ DefCreateQwordField(name, source, index)
             \/ \E num_bits \in program.indices : DefCreateField(name, source, index, num_bits)
      PROVE  StepWell
  <2>1. program.indices \subseteq Nat
    BY ProgramsAssumption DEF StoreInv
  <2>2. index \in Nat /\ ByteBits \in Nat
    BY <2>1, StoreAssumption
  <2>3. /\ index * ByteBits \in Nat /\ 1 \in Nat
        /\ 2 * ByteBits \in Nat /\ 4 * ByteBits \in Nat /\ 8 * ByteBits \in Nat
    BY <2>2
  <2>4. CASE DefCreateBitField(name, source, index)
    BY <2>2, <2>3, <2>4, CreateFieldIsWell, Zenon DEF DefCreateBitField
  <2>5. CASE DefCreateByteField(name, source, index)
    BY <2>2, <2>3, <2>5, CreateFieldIsWell, Zenon DEF DefCreateByteField
  <2>6. CASE DefCreateWordField(name, source, index)
    BY <2>3, <2>6, CreateFieldIsWell, Zenon DEF DefCreateWordField
  <2>7. CASE DefCreateDwordField(name, source, index)
    BY <2>3, <2>7, CreateFieldIsWell, Zenon DEF DefCreateDwordField
  <2>8. CASE DefCreateQwordField(name, source, index)
    BY <2>3, <2>8, CreateFieldIsWell, Zenon DEF DefCreateQwordField
  <2>9. ASSUME NEW num_bits \in program.indices, DefCreateField(name, source, index, num_bits) PROVE StepWell
    <3>1. num_bits \in Nat
      BY <2>1
    <3> QED
      BY <2>2, <2>9, <3>1, CreateFieldIsWell, Zenon DEF DefCreateField
  <2> QED
    BY <1>2, <2>4, <2>5, <2>6, <2>7, <2>8, <2>9
<1> QED
  BY <1>1, <1>2

LEMMA DefStoreIsWell ==
    ASSUME StoreInv, NEW value \in TermArgs, NEW target \in Targets, DefStore(value, target)
    PROVE  StepWell
<1> DEFINE s == store(heap, target, value)
<1>1. /\ heap' = s.heap /\ objects' = s.objects /\ locals' = s.locals
      /\ last' = Done("DefStore", target, value, s.res)
  BY DEF DefStore
<1>2. Refers(heap, value)
  BY TermArgsRefer
<1> HIDE DEF s
<1>3. last'.target = target /\ last'.value = value /\ last'.res.ok = s.res.ok /\ last'.res = s.res
  BY <1>1 DEF Done
<1> QED
  BY <1>1, <1>2, <1>3, EndsInStore, IncludesItself DEF s

\* The operators that return an integer, whatever it is.
LEMMA IntegerIsWell ==
    ASSUME StoreInv, NEW op, NEW target \in Targets,
           \/ \E res : Returns(op, res)
           \/ \E n : StoreResult(op, heap, target, Integer(n))
    PROVE  StepWell
<1>1. ASSUME NEW res, Returns(op, res) PROVE StepWell
  BY <1>1, ReturnsIsWell
<1>2. ASSUME NEW n, StoreResult(op, heap, target, Integer(n)) PROVE StepWell
  BY <1>2, StoreResultIsWell, IncludesItself, PlainRefer, Zenon
<1> QED
  BY <1>1, <1>2

LEMMA ArithmeticIsWell ==
    ASSUME StoreInv, NEW left, NEW right, NEW target \in Targets,
           \/ DefAdd(left, right, target) \/ DefAnd(left, right, target)
           \/ DefShiftLeft(left, right, target) \/ DefShiftRight(left, right, target)
    PROVE  StepWell
<1>1. CASE DefAdd(left, right, target)
  <2>1. \/ \E res : Returns("DefAdd", res)
        \/ \E n : StoreResult("DefAdd", heap, target, Integer(n))
    BY <1>1, Zenon DEF DefAdd, Arithmetic
  <2> QED
    BY <2>1, IntegerIsWell
<1>2. CASE DefAnd(left, right, target)
  <2>1. \/ \E res : Returns("DefAnd", res)
        \/ \E n : StoreResult("DefAnd", heap, target, Integer(n))
    BY <1>2, Zenon DEF DefAnd, Arithmetic
  <2> QED
    BY <2>1, IntegerIsWell
<1>3. CASE DefShiftLeft(left, right, target)
  <2>1. \/ \E res : Returns("DefShiftLeft", res)
        \/ \E n : StoreResult("DefShiftLeft", heap, target, Integer(n))
    BY <1>3, Zenon DEF DefShiftLeft, Arithmetic
  <2> QED
    BY <2>1, IntegerIsWell
<1>4. CASE DefShiftRight(left, right, target)
  <2>1. \/ \E res : Returns("DefShiftRight", res)
        \/ \E n : StoreResult("DefShiftRight", heap, target, Integer(n))
    BY <1>4, Zenon DEF DefShiftRight, Arithmetic
  <2> QED
    BY <2>1, IntegerIsWell
<1> QED
  BY <1>1, <1>2, <1>3, <1>4, SMTT(30)

LEMMA StepIsWell ==
    ASSUME StoreInv, NEW target \in Targets, DefIncrement(target) \/ DefDecrement(target)
    PROVE  StepWell
<1>1. ASSUME NEW op, NEW by, Step(op, target, by) PROVE StepWell
  <2>1. \/ \E res : Returns(op, res)
        \/ \E n : StoreResult(op, heap, target, Integer(n))
    BY <1>1, Zenon DEF Step
  <2> QED
    BY <2>1, IntegerIsWell
<1> QED
  BY <1>1 DEF DefIncrement, DefDecrement

LEMMA DefToIntegerIsWell ==
    ASSUME StoreInv, NEW operand, NEW target \in Targets, DefToInteger(operand, target)
    PROVE  StepWell
<1>1. \/ \E res : Returns("DefToInteger", res)
      \/ \E n : StoreResult("DefToInteger", heap, target, Integer(n))
  BY Zenon DEF DefToInteger
<1> QED
  BY <1>1, IntegerIsWell

LEMMA ComparisonIsWell ==
    ASSUME StoreInv, NEW left, NEW right, Compare(left, right) \/ DefLOr(left, right)
    PROVE  StepWell
BY ReturnsIsWell DEF Compare, DefLOr

\* The operators that return a new buffer.
LEMMA NewBufferIsWell ==
    ASSUME StoreInv, NEW op, NEW h, AreBuffers(h), Includes(h, heap), NEW bits, IsSequence(bits),
           NEW target \in Targets, StoreResult(op, Append(h, bits), target, Buffer(Len(h) + 1))
    PROVE  StepWell
<1> DEFINE a == Append(h, bits)
<1>1. AreBuffers(a) /\ Includes(a, h) /\ Len(h) + 1 \in 1..Len(a)
  BY AppendBuffer
<1> HIDE DEF a
<1>2. Includes(a, heap)
  <2>1. Len(heap) \in Nat /\ Len(h) \in Nat /\ Len(a) \in Nat
    BY <1>1, SequenceFacts DEF StoreInv, AreBuffers
  <2> QED
    BY <1>1, <2>1 DEF Includes
<1>3. Refers(a, Buffer(Len(h) + 1))
  BY <1>1, PlainRefer, Zenon
<1>4. StoreResult(op, a, target, Buffer(Len(h) + 1))
  BY DEF a
<1> QED
  BY <1>1, <1>2, <1>3, <1>4, StoreResultIsWell, Zenon

LEMMA DefConcatIsWell ==
    ASSUME StoreInv, NEW left \in TermArgs, NEW right \in TermArgs, NEW target \in Targets,
           DefConcat(left, right, target)
    PROVE  StepWell
<1>0. Refers(heap, left) /\ Refers(heap, right) /\ AreBuffers(heap) /\ Includes(heap, heap)
  BY TermArgsRefer, IncludesItself
<1>1. CASE as_concat_type(left) = "Integer"
  <2> DEFINE l == as_integer(heap, left)
             r == as_integer(heap, right)
             bits == Bits(l.value, IntBits) \o Bits(r.value, IntBits)
  <2>1. \/ Returns("DefConcat", r)
        \/ StoreResult("DefConcat", Append(heap, bits), target, Buffer(Len(heap) + 1))
    BY <1>1 DEF DefConcat
  <2>2. IsSequence(bits)
    BY IntBitsNat, BitsIsSequence, ConcatIsSequence
  <2> HIDE DEF bits, l, r
  <2> QED
    BY <1>0, <2>1, <2>2, ReturnsIsWell, NewBufferIsWell, Zenon
<1>2. CASE as_concat_type(left) = "Buffer"
  <2> DEFINE r == as_buffer(heap, right)
             bits == r.heap[left.data] \o r.heap[r.res.value]
  <2>1. \/ ~r.res.ok /\ Returns("DefConcat", r.res)
        \/ r.res.ok /\ StoreResult("DefConcat", Append(r.heap, bits), target, Buffer(Len(r.heap) + 1))
    BY <1>2 DEF DefConcat
  <2>2. AreBuffers(r.heap) /\ Includes(r.heap, heap) /\ (r.res.ok => r.res.value \in 1..Len(r.heap))
    BY <1>0, AsBuffer, Zenon
  <2> HIDE DEF r
  <2>3. left.data \in 1..Len(heap)
    BY <1>0, <1>2 DEF as_concat_type, Refers
  <2>4. left.data \in 1..Len(r.heap)
    BY <2>2, <2>3, SequenceFacts DEF Includes, AreBuffers, StoreInv
  <2>5. r.res.ok => IsSequence(bits)
    BY <2>2, <2>4, ConcatIsSequence DEF AreBuffers
  <2> HIDE DEF bits
  <2> QED
    BY <2>1, <2>2, <2>5, ReturnsIsWell, NewBufferIsWell, Zenon
<1>3. CASE as_concat_type(left) \notin {"Integer", "Buffer"}
  <2>1. (\E res : Returns("DefConcat", res)) \/ StoreResult("DefConcat", heap, target, Str)
    BY <1>3 DEF DefConcat
  <2> QED
    BY <1>0, <2>1, ReturnsIsWell, StoreResultIsWell, PlainRefer, Zenon
<1> QED
  BY <1>1, <1>2, <1>3

LEMMA DefConcatResIsWell ==
    ASSUME StoreInv, NEW left \in TermArgs, NEW right \in TermArgs, NEW target \in Targets,
           DefConcatRes(left, right, target)
    PROVE  StepWell
<1> DEFINE lb == as_buffer(heap, left)
           rb == as_buffer(lb.heap, right)
           l == rb.heap[lb.res.value]
           r == rb.heap[rb.res.value]
           bits == SubSeq(l, 1, Len(l) - 2 * ByteBits) \o SubSeq(r, 1, Len(r) - 2 * ByteBits) \o Zeros(2 * ByteBits)
<1>0. Refers(heap, left) /\ Refers(heap, right) /\ AreBuffers(heap) /\ Includes(heap, heap)
  BY TermArgsRefer, IncludesItself
<1>1. \/ \E res : Returns("DefConcatRes", res)
      \/ lb.res.ok /\ rb.res.ok /\ StoreResult("DefConcatRes", Append(rb.heap, bits), target, Buffer(Len(rb.heap) + 1))
  BY Zenon DEF DefConcatRes
<1>2. AreBuffers(lb.heap) /\ Includes(lb.heap, heap) /\ (lb.res.ok => lb.res.value \in 1..Len(lb.heap))
  BY <1>0, AsBuffer, Zenon
<1> HIDE DEF lb
<1>3. Len(heap) \in Nat /\ Len(lb.heap) \in Nat /\ Len(heap) <= Len(lb.heap)
  BY <1>2, SequenceFacts DEF AreBuffers, Includes, StoreInv
<1>4. Refers(lb.heap, right)
  BY <1>0, <1>3, RefersGrows
<1>5. AreBuffers(rb.heap) /\ Includes(rb.heap, lb.heap) /\ (rb.res.ok => rb.res.value \in 1..Len(rb.heap))
  BY <1>2, <1>4, AsBuffer, Zenon
<1> HIDE DEF rb
<1>6. Len(rb.heap) \in Nat
  BY <1>5, SequenceFacts DEF AreBuffers
<1>7. Includes(rb.heap, heap) /\ (lb.res.ok => lb.res.value \in 1..Len(rb.heap))
  BY <1>2, <1>3, <1>5, <1>6 DEF Includes
<1>8. ASSUME lb.res.ok, rb.res.ok PROVE IsSequence(bits)
  <2>1. IsSequence(l) /\ IsSequence(r)
    BY <1>5, <1>7, <1>8 DEF AreBuffers
  <2> HIDE DEF l, r
  <2>2. Len(l) \in Nat /\ Len(r) \in Nat /\ ByteBits \in Nat
    BY <2>1, SequenceFacts, StoreAssumption, SMTT(30)
  <2>3. 1 \in Int /\ Len(l) - 2 * ByteBits \in Int /\ Len(r) - 2 * ByteBits \in Int /\ 2 * ByteBits \in Nat
    BY <2>2
  <2>4. IsSequence(SubSeq(l, 1, Len(l) - 2 * ByteBits)) /\ IsSequence(SubSeq(r, 1, Len(r) - 2 * ByteBits))
    BY <2>3, SubSeqIsSequence, Zenon
  <2>5. IsSequence(Zeros(2 * ByteBits))
    BY <2>3, ZerosIsSequence
  <2>6. IsSequence(SubSeq(l, 1, Len(l) - 2 * ByteBits) \o SubSeq(r, 1, Len(r) - 2 * ByteBits))
    BY <2>4, ConcatIsSequence, Zenon
  <2> QED
    BY <2>5, <2>6, ConcatIsSequence, Zenon
<1> HIDE DEF bits
<1> QED
  BY <1>1, <1>5, <1>7, <1>8, ReturnsIsWell, NewBufferIsWell, Zenon

LEMMA DefMidIsWell ==
    ASSUME StoreInv, NEW source \in TermArgs, NEW index \in Nat, NEW length \in Nat, NEW target \in Targets,
           DefMid(source, index, length, target)
    PROVE  StepWell
<1> DEFINE bits == heap[source.data]
           end == Minimum((index + length) * ByteBits, Len(bits))
           part == SubSeq(bits, index * ByteBits + 1, end)
<1>0. Refers(heap, source) /\ AreBuffers(heap) /\ Includes(heap, heap)
  BY TermArgsRefer, IncludesItself
<1>1. CASE source.type = "Buffer"
  <2>1. StoreResult("DefMid", Append(heap, part), target, Buffer(Len(heap) + 1))
    BY <1>1, Zenon DEF DefMid
  <2>2. IsSequence(bits)
    BY <1>0, <1>1 DEF Refers, AreBuffers
  <2> HIDE DEF bits
  <2>3. Len(bits) \in Nat /\ ByteBits \in Nat
    BY <2>2, SequenceFacts, StoreAssumption
  <2>4. (index + length) * ByteBits \in Nat /\ index * ByteBits + 1 \in Int
    BY <2>3
  <2>5. end \in Nat
    BY <2>3, <2>4, MinimumFacts, Zenon
  <2> HIDE DEF end
  <2>6. IsSequence(part)
    BY <2>4, <2>5, SubSeqIsSequence
  <2> HIDE DEF part
  <2> QED
    BY <1>0, <2>1, <2>6, NewBufferIsWell, Zenon
<1>2. CASE source.type # "Buffer"
  <2>1. (\E res : Returns("DefMid", res)) \/ StoreResult("DefMid", heap, target, Str)
    BY <1>2, Zenon DEF DefMid
  <2> QED
    BY <1>0, <2>1, ReturnsIsWell, StoreResultIsWell, PlainRefer, Zenon
<1> QED
  BY <1>1, <1>2

LEMMA OperatorIsWell ==
    ASSUME StoreInv, Operator
    PROVE  StepWell
<1>0. program.indices \subseteq Nat
  BY ProgramsAssumption DEF StoreInv
<1>1. ASSUME NEW target \in Targets, DefIncrement(target) \/ DefDecrement(target) PROVE StepWell
  BY <1>1, StepIsWell
<1>2. ASSUME NEW target \in Targets, NEW value \in TermArgs, DefStore(value, target) \/ DefToInteger(value, target)
      PROVE  StepWell
  BY <1>2, DefStoreIsWell, DefToIntegerIsWell
<1>3. ASSUME NEW target \in Targets, NEW value \in TermArgs, NEW index \in program.indices, NEW length \in program.indices,
             DefMid(value, index, length, target)
      PROVE  StepWell
  BY <1>0, <1>3, DefMidIsWell
<1>4. ASSUME NEW target \in Targets, NEW value \in TermArgs, NEW right \in TermArgs,
             DefConcat(value, right, target) \/ DefConcatRes(value, right, target)
      PROVE  StepWell
  BY <1>4, DefConcatIsWell, DefConcatResIsWell
<1>5. ASSUME NEW target \in Targets, NEW value \in TermArgs, NEW right \in TermArgs,
             \/ DefAdd(value, right, target) \/ DefAnd(value, right, target)
             \/ DefShiftLeft(value, right, target) \/ DefShiftRight(value, right, target)
      PROVE  StepWell
  BY <1>5, ArithmeticIsWell
<1>6. ASSUME NEW left \in TermArgs, NEW right \in TermArgs, Compare(left, right) \/ DefLOr(left, right) PROVE StepWell
  BY <1>6, ComparisonIsWell
<1> QED
  BY <1>1, <1>2, <1>3, <1>4, <1>5, <1>6, Zenon DEF Operator

LEMMA ProgramStays ==
    ASSUME Next
    PROVE  program' = program
<1>1. CASE Declaration
  BY <1>1 DEF Declaration, DefName, DefCreateBitField, DefCreateByteField, DefCreateWordField, DefCreateDwordField,
     DefCreateQwordField, DefCreateField, CreateField, Executes
<1>2. CASE Operator
  <2>0. \A op : Executes(op) => program' = program
    BY DEF Executes
  <2>1. /\ \A target : DefIncrement(target) \/ DefDecrement(target) => program' = program
        /\ \A value, target : DefStore(value, target) \/ DefToInteger(value, target) => program' = program
        /\ \A value, index, length, target : DefMid(value, index, length, target) => program' = program
    BY <2>0, Zenon DEF DefIncrement, DefDecrement, Step, DefStore, DefToInteger, DefMid
  <2>2. \A value, right, target : DefConcat(value, right, target) => program' = program
    BY <2>0, Zenon DEF DefConcat
  <2>3. \A value, right, target : DefConcatRes(value, right, target) => program' = program
    BY <2>0, Zenon DEF DefConcatRes
  <2>4. \A value, right, target : DefAdd(value, right, target) \/ DefAnd(value, right, target) => program' = program
    BY <2>0, Zenon DEF DefAdd, DefAnd, Arithmetic
  <2>5. \A value, right, target : DefShiftLeft(value, right, target) \/ DefShiftRight(value, right, target) => program' = program
    BY <2>0, Zenon DEF DefShiftLeft, DefShiftRight, Arithmetic
  <2>6. \A left, right : Compare(left, right) \/ DefLOr(left, right) => program' = program
    BY <2>0, Zenon DEF Compare, DefLOr
  <2> QED
    BY <1>2, <2>1, <2>2, <2>3, <2>4, <2>5, <2>6, Zenon DEF Operator
<1> QED
  BY <1>1, <1>2, SMTT(30) DEF Next

LEMMA NextIsWell ==
    ASSUME StoreInv, Next
    PROVE  StoreInv' /\ StepWell
<1>1. StepWell
  BY DeclarationIsWell, OperatorIsWell DEF Next
<1>2. StoreInv'
  BY <1>1, ProgramStays, Zenon DEF StoreInv, StepWell, ValuesRefer
<1> QED
  BY <1>1, <1>2

\* Whatever a program declares and stores, every Buffer and BufferField refers
\* to a buffer there is: the model of the `Arc`s of value.rs leaves none dangling.
THEOREM StoreInvariant == Spec => []StoreInv
<1>1. Init => StoreInv
  <2> SUFFICES ASSUME Init PROVE StoreInv
    OBVIOUS
  <2>1. AreBuffers(heap)
    <3>1. heap = <<>> /\ heap \in Seq({})
      BY DEF Init
    <3>2. Len(heap) = 0
      BY <3>1
    <3>3. IsSequence(heap)
      BY <3>1, SequenceFacts, Zenon
    <3> QED
      BY <3>2, <3>3 DEF AreBuffers
  <2> QED
    BY <2>1 DEF Init, StoreInv, Refers, None
<1>2. StoreInv /\ [Next]_vars => StoreInv'
  <2>1. StoreInv /\ UNCHANGED vars => StoreInv'
    BY DEF StoreInv, vars, AreBuffers, Refers
  <2> QED
    BY <2>1, NextIsWell
<1> QED
  BY <1>1, <1>2, PTL DEF Spec

\* AmlContext::store never changes the type of an object that has a name, nor
\* what a buffer field refers to, whatever value is stored and converted.
THEOREM NamesAlwaysKeepType == Spec => NamesKeepType
<1>1. StoreInv /\ [Next]_vars =>
      [\A n \in Names : objects[n] # None =>
          /\ type_of(objects'[n]) = type_of(objects[n])
          /\ objects[n].type = "BufferField" => objects'[n] = objects[n]]_vars
  BY NextIsWell, Zenon DEF StepWell, TypesKept, KeepsTypes
<1> QED
  BY <1>1, StoreInvariant, PTL DEF Spec, NamesKeepType

\* An operator of expression.rs that returns an error, at whatever step it
\* fails, leaves every object, every local and every buffer as it found them.
THEOREM ErrorsNeverChangeAnything == Spec => ErrorsChangeNothing
<1>1. StoreInv /\ [Next]_vars =>
      [IsError(last'.res) => UNCHANGED <<objects, locals>> /\ \A d \in DOMAIN heap : heap'[d] = heap[d]]_vars
  BY NextIsWell, Zenon DEF StepWell, ErrorsHarmless
<1> QED
  BY <1>1, StoreInvariant, PTL DEF Spec, ErrorsChangeNothing

\* write_buffer_field writes the field it is given and nothing else: for every
\* buffer, offset and length, the bits of the field are those of the value, cut
\* off or followed by zeros, and all others are what they were.
THEOREM FieldsAlwaysWrittenExactly == Spec => FieldsWrittenExactly
<1> DEFINE Exact ==
        LET field == objects[last'.target.name]
            bits == IF last'.value.type = "Integer" THEN Bits(last'.value.value, IntBits) ELSE heap'[last'.value.data]
        IN  IntoField /\ last'.value.type \in {"Integer", "Buffer"} /\ last'.res.ok =>
               \A d \in DOMAIN heap :
                   heap'[d] = IF d = field.data THEN Written(heap[d], field, bits) ELSE heap[d]
<1>1. StoreInv /\ [Next]_vars => [Exact]_vars
  <2> SUFFICES ASSUME StoreInv, Next PROVE Exact
    OBVIOUS
  <2>1. DOMAIN heap = 1..Len(heap)
    BY SequenceFacts DEF StoreInv, AreBuffers
  <2>2. FieldWritten
    BY NextIsWell DEF StepWell
  <2> QED
    BY <2>1, <2>2, Zenon DEF FieldWritten, WrittenTo, BitsOf
<1> QED
  BY <1>1, StoreInvariant, PTL DEF Spec, FieldsWrittenExactly
=============================================================================
