------------------------------- MODULE Buffer -------------------------------
(***************************************************************************)
(* buffer.c: a fixed array with a read and a write pointer.  Producers     *)
(* write at write_ptr and advance (recv, sprintf) or write a byte at a     *)
(* time; consumers read at read_ptr and advance (send) or a byte at a time.*)
(* Pointers are offsets from data; limit is Capacity.                      *)
(***************************************************************************)
EXTENDS Integers, Sequences

CONSTANTS
  Bytes,     \* the values of a byte
  Capacity   \* the n of buffer_init

ASSUME CapacityAssumption == Capacity \in Nat \ {0}

VARIABLES data, read, write,
          out   \* the bytes the last operation gave its caller

vars == <<data, read, write, out>>

Offsets == 0..(Capacity - 1)

\* buffer_init: the array holds whatever it held.
Init ==
  /\ data \in [Offsets -> Bytes]
  /\ read = 0 /\ write = 0
  /\ out = <<>>

\* The n bytes of an array from offset first.
Slice(array, first, n) == [i \in 1..n |-> array[first + i - 1]]

buffer_can_read == write - read > 0
\* MUTANT: off by one.
buffer_can_write_at_limit == Capacity - write >= 0

buffer_can_write == Capacity - write > 0

\* MUTANT: the bytes are not moved.
buffer_compact_no_move ==
  IF read = 0 THEN UNCHANGED <<data, read, write>>
  ELSE /\ read' = 0 /\ write' = write - read
       /\ UNCHANGED data

buffer_compact ==
  \/ /\ read = 0
     /\ UNCHANGED <<data, read, write>>
  \/ /\ read # 0
     /\ read' = 0 /\ write' = write - read
     /\ data' = [i \in Offsets |-> IF i < write - read THEN data[read + i] ELSE data[i]]

\* MUTANT: an emptied buffer is not rewound.
buffer_read_adv_only(n) ==
  read' = read + n /\ UNCHANGED <<data, write>>

\* An emptied buffer is compacted at once: both pointers go back to data.
buffer_read_adv(n) ==
  /\ UNCHANGED data
  /\ \/ /\ read + n = write
        /\ read' = 0 /\ write' = 0
     \/ /\ read + n # write
        /\ read' = read + n /\ UNCHANGED write

-----------------------------------------------------------------------------
\* Bytes put at write_ptr and buffer_write_adv.
Store(s) ==
  /\ data' = [i \in Offsets |->
                IF write <= i /\ i < write + Len(s) THEN s[i - write + 1] ELSE data[i]]
  /\ write' = write + Len(s)
  /\ UNCHANGED read
  /\ out' = <<>>

\* buffer_write_ptr, at most nbyte bytes put there, buffer_write_adv.
Fill(s) == Len(s) <= Capacity - write /\ Store(s)

\* buffer_read_ptr, n of the nbyte bytes taken, buffer_read_adv.
Drain(n) ==
  /\ n <= write - read
  /\ out' = Slice(data, read, n)
  /\ buffer_read_adv(n)

\* buffer_write: the byte is dropped when there is no room.
WriteByte(c) ==
  \/ buffer_can_write /\ Store(<<c>>)
  \/ ~buffer_can_write /\ out' = <<>> /\ UNCHANGED <<data, read, write>>

\* buffer_read: 0 is returned when there is nothing to read.
ReadByte ==
  \/ buffer_can_read /\ Drain(1)
  \/ ~buffer_can_read /\ out' = <<>> /\ UNCHANGED <<data, read, write>>

Compact == buffer_compact /\ out' = <<>>

\* buffer_reset
Reset == read' = 0 /\ write' = 0 /\ out' = <<>> /\ UNCHANGED data

Next ==
  \/ \E m \in 0..Capacity : \E s \in [1..m -> Bytes] : Fill(s)
  \/ \E n \in 0..Capacity : Drain(n)
  \/ \E c \in Bytes : WriteByte(c)
  \/ ReadByte \/ Compact \/ Reset

Spec == Init /\ [][Next]_vars

-----------------------------------------------------------------------------
\* The array, the pointers in the order the asserts of buffer.c want.
TypeOK ==
  /\ data \in [Offsets -> Bytes]
  /\ read \in 0..Capacity /\ write \in read..Capacity
  /\ \E n \in 0..Capacity : out \in [1..n -> Bytes]

\* An empty buffer has all its room: recv, called by read_status only when nothing
\* is left to read, is never given a length of 0, which it would answer with the 0
\* that means the end of the stream.
EmptyIsRewound == ~buffer_can_read => read = 0 /\ write = 0

\* The bytes come out in the order they came in, none lost or repeated, and the
\* room is what the array has left behind them.
Queue == INSTANCE ByteQueue WITH
  queue <- Slice(data, read, write - read), room <- Capacity - write
QueueSpec == Queue!Spec
=============================================================================
