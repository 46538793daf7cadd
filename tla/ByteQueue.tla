------------------------------ MODULE ByteQueue ------------------------------
(***************************************************************************)
(* What the users of buffer.c rely on: a first-in first-out queue of bytes *)
(* with some room behind its last byte.  Emptying the queue, compacting it *)
(* or resetting it gives back all the room there can be.                   *)
(***************************************************************************)
EXTENDS Integers, Sequences

CONSTANTS Bytes, Capacity

VARIABLES
  queue,  \* the bytes written and not yet read, oldest first
  room,   \* how many more can be written now
  out     \* the bytes the last operation read

vars == <<queue, room, out>>

Init == queue = <<>> /\ room = Capacity /\ out = <<>>

Put(s) ==
  /\ Len(s) <= room
  /\ queue' = queue \o s
  /\ room' = room - Len(s)
  /\ out' = <<>>

Get(n) ==
  /\ out' = SubSeq(queue, 1, n)
  /\ queue' = SubSeq(queue, n + 1, Len(queue))
  /\ room' = IF n = Len(queue) THEN Capacity ELSE room

Compact == queue' = queue /\ room' = Capacity - Len(queue) /\ out' = <<>>

Reset == queue' = <<>> /\ room' = Capacity /\ out' = <<>>

\* A read from an empty queue and a write without room change nothing.
Refuse == queue' = queue /\ room' = room /\ out' = <<>>

Next ==
  \/ \E m \in 0..Capacity : \E s \in [1..m -> Bytes] : Put(s)
  \/ \E n \in 0..Len(queue) : Get(n)
  \/ Compact \/ Reset \/ Refuse

Spec == Init /\ [][Next]_vars
=============================================================================
