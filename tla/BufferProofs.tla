---------------------------- MODULE BufferProofs ----------------------------
(***************************************************************************)
(* buffer.c keeps its pointers in order, rewinds when it is emptied and    *)
(* implements ByteQueue, for any capacity and any bytes.                   *)
(***************************************************************************)
EXTENDS Buffer, SequenceTheorems, TLAPS

\* The array and the pointers; out is whatever was read last.
Inv ==
  /\ data \in [Offsets -> Bytes]
  /\ read \in 0..Capacity /\ write \in read..Capacity
  /\ EmptyIsRewound

\* The bytes between two offsets of an array, as a sequence.
LEMMA SliceType ==
  ASSUME NEW array \in [Offsets -> Bytes],
         NEW first \in Nat, NEW n \in Nat, first + n <= Capacity
  PROVE  /\ Slice(array, first, n) \in Seq(Bytes)
         /\ Len(Slice(array, first, n)) = n
         /\ \A i \in 1..n : Slice(array, first, n)[i] = array[first + i - 1]
<1>1. \A i \in 1..n : array[first + i - 1] \in Bytes
  BY CapacityAssumption DEF Offsets
<1>2. Slice(array, first, n) \in [1..n -> Bytes]
  BY <1>1 DEF Slice
<1>3. Slice(array, first, n) \in Seq(Bytes)
  BY <1>2, SeqDef
<1>4. DOMAIN Slice(array, first, n) = 1..n
  BY DEF Slice
<1>5. Len(Slice(array, first, n)) = n
  BY <1>3, <1>4, LenProperties
<1> QED
  BY <1>3, <1>5 DEF Slice

\* What the invariant says of the numbers.
LEMMA Numbers ==
  ASSUME Inv
  PROVE  /\ Capacity \in Nat /\ read \in Nat /\ write \in Nat
         /\ read <= write /\ write <= Capacity /\ write - read \in Nat
         /\ read + (write - read) <= Capacity
         /\ data \in [Offsets -> Bytes]
  BY CapacityAssumption DEF Inv

LEMMA InitInv == Init => Inv
  BY CapacityAssumption DEF Init, Inv, EmptyIsRewound, buffer_can_read

\* Bytes stored behind the last one: the queue grows by them.
LEMMA StoreStep ==
  ASSUME Inv, NEW s \in Seq(Bytes), Len(s) <= Capacity - write, Store(s)
  PROVE  Inv' /\ Queue!Put(s)
<1>1. Len(s) \in Nat /\ \A i \in 1..Len(s) : s[i] \in Bytes
  BY ElementOfSeq, LenProperties
<1>2. /\ Capacity \in Nat /\ read \in Nat /\ write \in Nat
      /\ read <= write /\ write <= Capacity /\ write - read \in Nat
      /\ read + (write - read) <= Capacity
      /\ data \in [Offsets -> Bytes]
  BY Numbers
<1>3. data' \in [Offsets -> Bytes]
  BY <1>1, <1>2 DEF Store, Offsets
<1>4. read' = read /\ write' = write + Len(s)
  BY DEF Store
<1> DEFINE q == Slice(data, read, write - read)
           r == Slice(data', read, write + Len(s) - read)
<1>5. q \in Seq(Bytes) /\ Len(q) = write - read
      /\ \A i \in 1..(write - read) : q[i] = data[read + i - 1]
  BY <1>2, SliceType
<1>6. r \in Seq(Bytes) /\ Len(r) = write + Len(s) - read
      /\ \A i \in 1..(write + Len(s) - read) : r[i] = data'[read + i - 1]
  <2>1. write + Len(s) - read \in Nat /\ read + (write + Len(s) - read) <= Capacity
    BY <1>1, <1>2
  <2> QED
    BY <1>2, <1>3, <2>1, SliceType
<1>7. r = q \o s
  <2> HIDE DEF q, r
  <2>1. q \o s \in Seq(Bytes) /\ Len(q \o s) = Len(q) + Len(s)
        /\ \A i \in 1..(Len(q) + Len(s)) :
             (q \o s)[i] = IF i <= Len(q) THEN q[i] ELSE s[i - Len(q)]
    BY <1>5, ConcatProperties
  <2>2. Len(r) = Len(q) + Len(s)
    BY <1>1, <1>2, <1>5, <1>6
  <2>3. ASSUME NEW i \in 1..(Len(q) + Len(s))
        PROVE  r[i] = (q \o s)[i]
    <3>1. r[i] = data'[read + i - 1] /\ read + i - 1 \in Offsets /\ i \in Nat
      BY <1>1, <1>2, <1>5, <1>6, <2>2 DEF Offsets
    <3>2. CASE i <= Len(q)
      <4>1. ~(write <= read + i - 1) /\ i \in 1..(write - read)
        BY <1>2, <1>5, <3>1, <3>2
      <4>2. data'[read + i - 1] = data[read + i - 1]
        BY <3>1, <4>1 DEF Store
      <4> QED
        BY <1>5, <2>1, <3>1, <3>2, <4>1, <4>2
    <3>3. CASE ~(i <= Len(q))
      <4>1. /\ (read + i - 1) - write + 1 = i - Len(q)
            /\ write <= read + i - 1 /\ read + i - 1 < write + Len(s)
        BY <1>1, <1>2, <1>5, <3>1, <3>3
      <4>2. data'[read + i - 1] = s[(read + i - 1) - write + 1]
        BY <3>1, <4>1 DEF Store
      <4> QED
        BY <2>1, <3>1, <3>3, <4>1, <4>2
    <3> QED
      BY <3>2, <3>3
  <2> QED
    BY <1>5, <1>6, <2>1, <2>2, <2>3, SeqEqual
<1>8. Inv'
  BY <1>1, <1>2, <1>3, <1>4 DEF Inv, EmptyIsRewound, buffer_can_read
<1>9. Queue!Put(s)
  <2>1. Slice(data, read, write - read)' = r
    <3>1. write' - read' = write + Len(s) - read
      BY <1>1, <1>2, <1>4
    <3>2. Slice(data, read, write - read)' = Slice(data', read', write' - read')
      BY DEF Slice
    <3> QED
      BY <1>4, <3>1, <3>2
  <2>2. Capacity - write' = (Capacity - write) - Len(s)
    BY <1>1, <1>2, <1>4
  <2>3. out' = <<>> /\ Len(s) <= Capacity - write
    BY DEF Store
  <2> HIDE DEF r
  <2> QED
    BY <1>7, <2>1, <2>2, <2>3 DEF Queue!Put
<1> QED
  BY <1>8, <1>9

\* A stretch of a slice is a slice.
LEMMA SubSlice ==
  ASSUME NEW array \in [Offsets -> Bytes],
         NEW first \in Nat, NEW n \in Nat, first + n <= Capacity,
         NEW lo \in 1..(n + 1), NEW hi \in (lo - 1)..n
  PROVE  SubSeq(Slice(array, first, n), lo, hi) = Slice(array, first + lo - 1, hi - lo + 1)
<1> DEFINE start == first + lo - 1
           m == hi - lo + 1
           q == Slice(array, first, n)
           t == Slice(array, start, m)
           u == SubSeq(q, lo, hi)
<1>1. /\ q \in Seq(Bytes) /\ Len(q) = n
      /\ \A i \in 1..n : q[i] = array[first + i - 1]
  BY SliceType
<1>2. /\ t \in Seq(Bytes) /\ Len(t) = m
      /\ \A i \in 1..m : t[i] = array[start + i - 1]
  <2>1. start \in Nat /\ m \in Nat /\ start + m <= Capacity
    BY CapacityAssumption
  <2> HIDE DEF start, m
  <2> QED
    BY <2>1, SliceType
<1> HIDE DEF q, t
<1>3. \A i \in lo..hi : q[i] \in Bytes
  <2>1. \A i \in 1..n : q[i] \in Bytes
    BY <1>1, ElementOfSeq
  <2>2. lo..hi \subseteq 1..n
    OBVIOUS
  <2> QED
    BY <2>1, <2>2
<1>4. /\ u \in Seq(Bytes)
      /\ Len(u) = IF lo <= hi THEN hi - lo + 1 ELSE 0
      /\ \A i \in 1..(hi - lo + 1) : u[i] = q[lo + i - 1]
  BY <1>3, SubSeqProperties
<1> HIDE DEF u
<1>5. Len(u) = m
  BY <1>4
<1>6. ASSUME NEW i \in 1..m
      PROVE  u[i] = t[i]
  <2>1. i \in 1..(hi - lo + 1) /\ lo + i - 1 \in 1..n
    OBVIOUS
  <2>2. u[i] = q[lo + i - 1]
    BY <1>4, <2>1
  <2>3. q[lo + i - 1] = array[first + (lo + i - 1) - 1]
    BY <1>1, <2>1
  <2>4. first + (lo + i - 1) - 1 = start + i - 1
    OBVIOUS
  <2> QED
    BY <1>2, <2>2, <2>3, <2>4
<1>7. u = t
  BY <1>2, <1>4, <1>5, <1>6, SeqEqual
<1> QED
  BY <1>7 DEF u, t, q

\* Bytes taken from the front: the queue loses them, and they are what is returned.
LEMMA DrainStep ==
  ASSUME Inv, NEW n \in Nat, Drain(n)
  PROVE  Inv' /\ n <= write - read /\ Queue!Get(n)
<1> DEFINE q == Slice(data, read, write - read)
<1>1. /\ Capacity \in Nat /\ read \in Nat /\ write \in Nat
      /\ read <= write /\ write <= Capacity /\ write - read \in Nat
      /\ read + (write - read) <= Capacity
      /\ data \in [Offsets -> Bytes]
  BY Numbers
<1>2. n <= write - read /\ data' = data /\ out' = Slice(data, read, n)
  BY DEF Drain, buffer_read_adv
<1>3. Len(q) = write - read
  BY <1>1, SliceType
<1>4. out' = SubSeq(q, 1, n)
  <2>1. 1 \in 1..(write - read + 1) /\ n \in (1 - 1)..(write - read)
    BY <1>1, <1>2
  <2>2. q = Slice(data, read, write - read)
    OBVIOUS
  <2> HIDE DEF q
  <2>3. SubSeq(q, 1, n) = Slice(data, read + 1 - 1, n - 1 + 1)
    BY <1>1, <2>1, <2>2, SubSlice
  <2>4. read + 1 - 1 = read /\ n - 1 + 1 = n
    BY <1>1
  <2> QED
    BY <1>2, <2>3, <2>4
<1>5. SubSeq(q, n + 1, Len(q)) = Slice(data, read + n, write - read - n)
  <2> DEFINE lo == n + 1
             len == write - read
  <2>1. len \in Nat /\ read + len <= Capacity /\ lo \in 1..(len + 1) /\ len \in (lo - 1)..len
    BY <1>1, <1>2
  <2>2. q = Slice(data, read, len)
    OBVIOUS
  <2>3. read + lo - 1 = read + n /\ len - lo + 1 = write - read - n
    BY <1>1
  <2>4. Len(q) = len
    BY <1>3
  <2> HIDE DEF q, lo, len
  <2>5. SubSeq(q, lo, len) = Slice(data, read + lo - 1, len - lo + 1)
    BY <1>1, <2>1, <2>2, SubSlice
  <2> QED
    BY <2>3, <2>4, <2>5 DEF lo
<1>6. Slice(data, read, write - read)' = Slice(data', read', write' - read')
  BY DEF Slice
<1>7. CASE read + n = write
  <2>1. read' = 0 /\ write' = 0
    BY <1>7 DEF Drain, buffer_read_adv
  <2>2. write - read - n = 0 /\ write' - read' = 0 /\ n = Len(q)
    BY <1>1, <1>2, <1>3, <1>7, <2>1
  <2>3. Slice(data, read + n, 0) = Slice(data', read', 0)
    BY DEF Slice
  <2>4. Inv'
    BY <1>1, <1>2, <2>1 DEF Inv, EmptyIsRewound, buffer_can_read
  <2>5. Capacity - write' = Capacity
    BY <1>1, <2>1
  <2> HIDE DEF q
  <2>6. Slice(data, read, write - read)' = SubSeq(q, n + 1, Len(q))
    BY <1>5, <1>6, <2>2, <2>3
  <2>7. Queue!Get(n)
    BY <1>4, <2>2, <2>5, <2>6 DEF Queue!Get, q
  <2> QED
    BY <1>2, <2>4, <2>7
<1>8. CASE read + n # write
  <2>1. read' = read + n /\ write' = write
    BY <1>8 DEF Drain, buffer_read_adv
  <2>2. write' - read' = write - read - n /\ n # Len(q)
    BY <1>1, <1>2, <1>3, <1>8, <2>1
  <2>3. Inv'
    BY <1>1, <1>2, <1>8, <2>1 DEF Inv, EmptyIsRewound, buffer_can_read
  <2> HIDE DEF q
  <2>4. Slice(data, read, write - read)' = SubSeq(q, n + 1, Len(q))
    BY <1>2, <1>5, <1>6, <2>1, <2>2
  <2>5. Queue!Get(n)
    BY <1>4, <2>1, <2>2, <2>4 DEF Queue!Get, q
  <2> QED
    BY <1>2, <2>3, <2>5
<1> QED
  BY <1>7, <1>8

\* Moving the bytes to the front changes neither them nor their order.
LEMMA CompactStep ==
  ASSUME Inv, Compact
  PROVE  Inv' /\ Queue!Compact
<1> DEFINE q == Slice(data, read, write - read)
<1>1. /\ Capacity \in Nat /\ read \in Nat /\ write \in Nat
      /\ read <= write /\ write <= Capacity /\ write - read \in Nat
      /\ read + (write - read) <= Capacity
      /\ data \in [Offsets -> Bytes]
  BY Numbers
<1>2. Len(q) = write - read
  BY <1>1, SliceType
<1>3. Slice(data, read, write - read)' = Slice(data', read', write' - read')
  BY DEF Slice
<1>4. out' = <<>>
  BY DEF Compact
<1>5. CASE read = 0
  <2>1. data' = data /\ read' = read /\ write' = write
    BY <1>5 DEF Compact, buffer_compact
  <2>2. Capacity - write' = Capacity - Len(q)
    BY <1>1, <1>2, <1>5, <2>1
  <2>3. Inv'
    BY <1>1, <2>1 DEF Inv, EmptyIsRewound, buffer_can_read
  <2>4. Slice(data, read, write - read)' = Slice(data, read, write - read)
    BY <1>3, <2>1
  <2>5. Queue!Compact
    BY <1>4, <2>2, <2>4 DEF Queue!Compact
  <2> QED
    BY <2>3, <2>5
<1>6. CASE read # 0
  <2>1. /\ read' = 0 /\ write' = write - read
        /\ data' = [i \in Offsets |-> IF i < write - read THEN data[read + i] ELSE data[i]]
    BY <1>6 DEF Compact, buffer_compact
  <2>2. data' \in [Offsets -> Bytes]
    BY <1>1, <2>1 DEF Offsets
  <2>3. Inv'
    BY <1>1, <1>6, <2>1, <2>2 DEF Inv, EmptyIsRewound, buffer_can_read
  <2>4. ASSUME NEW i \in 1..(write - read)
        PROVE  data'[0 + i - 1] = data[read + i - 1]
    <3>1. 0 + i - 1 \in Offsets /\ 0 + i - 1 < write - read /\ read + (0 + i - 1) = read + i - 1
      BY <1>1 DEF Offsets
    <3> QED
      BY <2>1, <3>1
  <2>5. Slice(data', 0, write - read) = q
    BY <2>4 DEF Slice
  <2>6. write' - read' = write - read /\ Capacity - write' = Capacity - Len(q)
    BY <1>1, <1>2, <2>1
  <2> HIDE DEF q
  <2>7. Slice(data, read, write - read)' = q
    BY <1>3, <2>1, <2>5, <2>6
  <2>8. Queue!Compact
    BY <1>4, <2>6, <2>7 DEF Queue!Compact, q
  <2> QED
    BY <2>3, <2>8
<1> QED
  BY <1>5, <1>6

\* A reset queue is empty.
LEMMA ResetStep ==
  ASSUME Inv, Reset
  PROVE  Inv' /\ Queue!Reset
<1>1. Capacity \in Nat /\ data \in [Offsets -> Bytes]
  BY Numbers
<1>2. read' = 0 /\ write' = 0 /\ data' = data /\ out' = <<>>
  BY DEF Reset
<1>3. Inv'
  BY <1>1, <1>2 DEF Inv, EmptyIsRewound, buffer_can_read
<1>4. Slice(data, read, write - read)' = Slice(data', read', write' - read')
  BY DEF Slice
<1>5. Slice(data', 0, 0) = <<>>
  BY DEF Slice
<1>6. write' - read' = 0 /\ Capacity - write' = Capacity
  BY <1>1, <1>2
<1>7. Queue!Reset
  BY <1>2, <1>4, <1>5, <1>6 DEF Queue!Reset
<1> QED
  BY <1>3, <1>7

\* Nothing read from an empty buffer, nothing written to a full one.
LEMMA RefuseStep ==
  ASSUME Inv, out' = <<>>, UNCHANGED <<data, read, write>>
  PROVE  Inv' /\ Queue!Refuse
<1>1. Slice(data, read, write - read)' = Slice(data', read', write' - read')
  BY DEF Slice
<1>2. Inv'
  BY DEF Inv, EmptyIsRewound, buffer_can_read
<1> QED
  BY <1>1, <1>2 DEF Queue!Refuse

\* Every operation is one of the queue's, and leaves the pointers in order.
LEMMA NextStep ==
  ASSUME Inv, Next
  PROVE  Inv' /\ Queue!Next
<1>1. /\ Capacity \in Nat /\ read \in Nat /\ write \in Nat
      /\ read <= write /\ write <= Capacity /\ write - read \in Nat
      /\ read + (write - read) <= Capacity
      /\ data \in [Offsets -> Bytes]
  BY Numbers
<1>2. ASSUME NEW m \in 0..Capacity, NEW s \in [1..m -> Bytes], Len(s) <= Capacity - write, Store(s)
      PROVE  Inv' /\ Queue!Next
  <2>1. s \in Seq(Bytes)
    BY <1>1, SeqDef
  <2>2. Inv' /\ Queue!Put(s)
    BY <1>2, <2>1, StoreStep
  <2> QED
    BY <2>2 DEF Queue!Next
<1>3. ASSUME NEW n \in Nat, Drain(n)
      PROVE  Inv' /\ Queue!Next
  <2>1. Inv' /\ n <= write - read /\ Queue!Get(n)
    BY <1>3, DrainStep
  <2>2. Len(Slice(data, read, write - read)) = write - read
    BY <1>1, SliceType
  <2>3. n \in 0..Len(Slice(data, read, write - read))
    BY <1>1, <2>1, <2>2
  <2> QED
    BY <2>1, <2>3 DEF Queue!Next
<1>4. ASSUME out' = <<>>, UNCHANGED <<data, read, write>>
      PROVE  Inv' /\ Queue!Next
  BY <1>4, RefuseStep DEF Queue!Next
<1>5. ASSUME NEW m \in 0..Capacity, NEW s \in [1..m -> Bytes], Fill(s)
      PROVE  Inv' /\ Queue!Next
  BY <1>2, <1>5 DEF Fill
<1>6. ASSUME NEW n \in 0..Capacity, Drain(n)
      PROVE  Inv' /\ Queue!Next
  BY <1>3, <1>6
<1>7. ASSUME NEW c \in Bytes, WriteByte(c)
      PROVE  Inv' /\ Queue!Next
  <2>1. CASE buffer_can_write
    <3>1. Store(<<c>>)
      BY <1>7, <2>1 DEF WriteByte
    <3>2. <<c>> \in [1..1 -> Bytes] /\ Len(<<c>>) = 1 /\ 1 \in 0..Capacity
      BY <1>1, CapacityAssumption
    <3>3. Len(<<c>>) <= Capacity - write
      BY <1>1, <2>1, <3>2 DEF buffer_can_write
    <3> QED
      BY <1>2, <3>1, <3>2, <3>3
  <2>2. CASE ~buffer_can_write
    BY <1>4, <1>7, <2>2 DEF WriteByte
  <2> QED
    BY <2>1, <2>2
<1>8. ASSUME ReadByte
      PROVE  Inv' /\ Queue!Next
  <2>1. CASE buffer_can_read
    BY <1>3, <1>8, <2>1 DEF ReadByte
  <2>2. CASE ~buffer_can_read
    BY <1>4, <1>8, <2>2 DEF ReadByte
  <2> QED
    BY <2>1, <2>2
<1>9. ASSUME Compact
      PROVE  Inv' /\ Queue!Next
  BY <1>9, CompactStep DEF Queue!Next
<1>10. ASSUME Reset
       PROVE  Inv' /\ Queue!Next
  BY <1>10, ResetStep DEF Queue!Next
<1> QED
  BY <1>5, <1>6, <1>7, <1>8, <1>9, <1>10 DEF Next

LEMMA StutterStep ==
  ASSUME Inv, UNCHANGED vars
  PROVE  Inv' /\ UNCHANGED Queue!vars
<1>1. Slice(data, read, write - read)' = Slice(data', read', write' - read')
  BY DEF Slice
<1>2. data' = data /\ read' = read /\ write' = write /\ out' = out
  BY DEF vars
<1>3. Inv'
  BY <1>2 DEF Inv, EmptyIsRewound, buffer_can_read
<1> QED
  BY <1>1, <1>2, <1>3 DEF Queue!vars

\* buffer_init gives an empty queue with all its room.
LEMMA InitRefines == Init => Queue!Init
<1> SUFFICES ASSUME Init PROVE Queue!Init
  OBVIOUS
<1>1. Slice(data, 0, 0) = <<>>
  BY DEF Slice
<1>2. write - read = 0 /\ Capacity - write = Capacity
  BY CapacityAssumption DEF Init
<1> QED
  BY <1>1, <1>2 DEF Init, Queue!Init

LEMMA Inductive == Spec => []Inv
<1>1. Inv /\ [Next]_vars => Inv'
  BY NextStep, StutterStep
<1> QED
  BY InitInv, <1>1, PTL DEF Spec

\* What an operation gave its caller: nothing, or at most Capacity bytes of the array.
LEMMA OutType ==
  ASSUME Inv, Next
  PROVE  \E n \in 0..Capacity : out' \in [1..n -> Bytes]
<1>1. /\ Capacity \in Nat /\ read \in Nat /\ write \in Nat
      /\ read <= write /\ write <= Capacity
      /\ data \in [Offsets -> Bytes]
  BY Numbers
<1>2. CASE out' = <<>>
  <2>1. <<>> \in [1..0 -> Bytes] /\ 0 \in 0..Capacity
    BY <1>1
  <2> QED
    BY <1>2, <2>1
<1>3. ASSUME NEW n \in 0..Capacity, Drain(n)
      PROVE  \E m \in 0..Capacity : out' \in [1..m -> Bytes]
  <2>1. n <= write - read /\ out' = Slice(data, read, n)
    BY <1>3 DEF Drain
  <2>2. \A i \in 1..n : data[read + i - 1] \in Bytes
    BY <1>1, <2>1 DEF Offsets
  <2>3. out' \in [1..n -> Bytes]
    BY <2>1, <2>2 DEF Slice
  <2> QED
    BY <2>3
<1>4. ASSUME NEW s, Store(s) PROVE out' = <<>>
  BY <1>4 DEF Store
<1>5. ASSUME NEW c \in Bytes, WriteByte(c) PROVE out' = <<>>
  BY <1>4, <1>5 DEF WriteByte
<1>6. CASE ReadByte
  <2>1. CASE buffer_can_read /\ Drain(1)
    <3>1. 1 \in 0..Capacity
      BY CapacityAssumption
    <3> QED
      BY <1>3, <2>1, <3>1
  <2> QED
    BY <1>2, <1>6, <2>1 DEF ReadByte
<1>7. ASSUME NEW m, NEW s \in [1..m -> Bytes], Fill(s) PROVE out' = <<>>
  BY <1>4, <1>7 DEF Fill
<1> QED
  BY <1>2, <1>3, <1>5, <1>6, <1>7 DEF Next, Compact, Reset

\* The array keeps its size, the pointers stay in order inside it, as the asserts of
\* buffer.c want, and no operation gives out more bytes than the array has.
THEOREM TypeCorrect == Spec => []TypeOK
<1>1. Init => TypeOK
  <2> SUFFICES ASSUME Init PROVE TypeOK
    OBVIOUS
  <2>1. <<>> \in [1..0 -> Bytes] /\ 0 \in 0..Capacity
    BY CapacityAssumption
  <2> QED
    BY <2>1, InitInv DEF Init, Inv, TypeOK
<1>2. TypeOK /\ Inv /\ Inv' /\ [Next]_vars => TypeOK'
  <2>1. ASSUME Inv, Inv', Next PROVE TypeOK'
    BY <2>1, OutType DEF Inv, TypeOK
  <2>2. ASSUME TypeOK, UNCHANGED vars PROVE TypeOK'
    BY <2>2 DEF TypeOK, vars
  <2> QED
    BY <2>1, <2>2
<1> QED
  BY <1>1, <1>2, Inductive, PTL DEF Spec

\* An empty buffer has all its room (buffer_read_adv rewinds at once), so recv is never
\* given a length of 0 and its 0 always means the end of the stream.
THEOREM EmptyRewound == Spec => []EmptyIsRewound
<1>1. Inv => EmptyIsRewound
  BY DEF Inv
<1> QED
  BY <1>1, Inductive, PTL

\* The asserts of buffer.c: the pointers stay in order, inside the array.
THEOREM PointersInOrder == Spec => [](read <= write /\ write <= Capacity)
<1>1. Inv => read <= write /\ write <= Capacity
  BY Numbers
<1> QED
  BY <1>1, Inductive, PTL

\* buffer.c is a first-in first-out queue of bytes.
THEOREM BufferIsQueue == Spec => QueueSpec
<1>1. Inv /\ [Next]_vars => [Queue!Next]_(Queue!vars)
  BY NextStep, StutterStep
<1> QED
  BY InitRefines, Inductive, <1>1, PTL DEF Spec, QueueSpec, Queue!Spec

=============================================================================
