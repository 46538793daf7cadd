--------------------------- MODULE SelectorProofs ---------------------------
(***************************************************************************)
(* The invariants of Selector, for any table, any number of descriptors    *)
(* and any number of threads.                                              *)
(***************************************************************************)
EXTENDS Selector, TLAPS

\* Between the copy of the sets and the answer of pselect the table does not change.
AskedAsRegistered == pc = "select" => slave_r = master_r /\ slave_w = master_w

\* A descriptor is registered for reading or for writing, never for both.
OneInterest == master_r \cap master_w = {}

\* NoLostWakeup, from the notifications on.
JobsSignalled ==
  jobs # {} /\ pc \in {"test", "select", "iterate"} =>
    alarm \/ \E w \in Workers : worker[w].at = "pushed"

USE DescriptorAssumption DEF Items, Descriptors, Server, Udp

LEMMA InitType == Init => TypeOK
<1> SUFFICES ASSUME Init PROVE TypeOK
  OBVIOUS
<1>1. {0, 1} \subseteq Items /\ {0, 1} \subseteq Descriptors
  OBVIOUS
<1>2. fds \in [Items -> Item]
  BY DEF Init, Item, Unused
<1>3. worker \in [Workers -> [at : {"idle", "job", "pushed"}, fd : Items]]
  BY <1>1 DEF Init
<1> QED BY <1>1, <1>2, <1>3 DEF Init, TypeOK, Nobody

LEMMA RegisterType ==
  ASSUME TypeOK, NEW f \in Items, NEW i \in SUBSET {"READ", "WRITE"},
         selector_register(f, i)
  PROVE  /\ fds' \in [Items -> Item] /\ max_fd' \in Items
         /\ master_r' \subseteq Items /\ master_w' \subseteq Items
  BY DEF TypeOK, selector_register, items_update_fdset_for_fd, Item

LEMMA InterestType ==
  ASSUME TypeOK, NEW f \in Items, NEW i \in SUBSET {"READ", "WRITE"},
         selector_set_interest(f, i)
  PROVE  /\ fds' \in [Items -> Item] /\ max_fd' \in Items
         /\ master_r' \subseteq Items /\ master_w' \subseteq Items
  BY DEF TypeOK, selector_set_interest, items_update_fdset_for_fd, Item

LEMMA UnregisterType ==
  ASSUME TypeOK, NEW f \in Items, selector_unregister_fd(f)
  PROVE  /\ fds' \in [Items -> Item] /\ max_fd' \in Items
         /\ master_r' \subseteq Items /\ master_w' \subseteq Items
  BY DEF TypeOK, selector_unregister_fd, items_update_fdset_for_fd, Item, Unused

\* Each step keeps the type.
LEMMA StepType == TypeOK /\ [Next]_vars => TypeOK'
<1> SUFFICES ASSUME TypeOK, [Next]_vars PROVE TypeOK'
  OBVIOUS
<1> USE DEF TypeOK
<1>1. CASE Enter
  BY <1>1 DEF Enter, table, kernel, threads, Nobody
<1>2. CASE Events
  BY <1>2 DEF Events, table, kernel, threads, Nobody, Ready
<1>3. CASE Timeout
  BY <1>3 DEF Timeout, table, kernel, threads, Nobody
<1>4. CASE Interrupted
  BY <1>4 DEF Interrupted, table, kernel, Nobody
<1>5. CASE PassiveAccept
  <2>1. CASE \E f \in Descriptors :
               /\ LowestFree(f) /\ ~Refused(f)
               /\ selector_register(f, {"WRITE"})
               /\ open' = open \cup {f} /\ fresh' = fresh \cup {f}
               /\ UNCHANGED pc
    <3>1. PICK f \in Descriptors :
            /\ f \in Items /\ selector_register(f, {"WRITE"})
            /\ open' = open \cup {f} /\ fresh' = fresh \cup {f}
            /\ UNCHANGED pc
      BY <2>1 DEF Refused
    <3> QED BY <1>5, <3>1, RegisterType DEF PassiveAccept, ReadBit, threads
  <2>2. CASE UNCHANGED <<table, open, fresh>>
    BY <1>5, <2>2 DEF PassiveAccept, ReadBit, threads, table
  <2> QED BY <1>5, <2>1, <2>2 DEF PassiveAccept
<1>6. CASE UdpRead
  BY <1>6 DEF UdpRead, ReadBit, table, threads
<1>7. ASSUME NEW f \in Items, ConnectionRead(f) PROVE TypeOK'
  <2>1. CASE selector_set_interest(f, {"WRITE"})
    BY <1>7, <2>1, InterestType DEF ConnectionRead, ReadBit, threads, HangUp, LowestFree
  <2>2. CASE HangUp(f)
    BY <1>7, <2>2, UnregisterType DEF ConnectionRead, ReadBit, threads, HangUp
  <2>3. CASE UNCHANGED <<table, open>>
    BY <1>7, <2>3 DEF ConnectionRead, ReadBit, threads, table, HangUp
  <2> QED BY <1>7, <2>1, <2>2, <2>3 DEF ConnectionRead
<1>8. ASSUME NEW f \in Items, ConnectionWrite(f) PROVE TypeOK'
  <2>1. CASE selector_set_interest(f, {"READ"})
    BY <1>8, <2>1, InterestType DEF ConnectionWrite, WriteBit, threads, HangUp
  <2>2. CASE HangUp(f)
    BY <1>8, <2>2, UnregisterType DEF ConnectionWrite, WriteBit, threads, HangUp
  <2>3. CASE UNCHANGED <<table, open>>
    BY <1>8, <2>3 DEF ConnectionWrite, WriteBit, threads, table, HangUp
  <2> QED BY <1>8, <2>1, <2>2, <2>3 DEF ConnectionWrite
<1>9. CASE EndIteration
  BY <1>9 DEF EndIteration, table, slave, kernel, threads, Nobody
<1>10. CASE Notify
  BY <1>10 DEF Notify, table, slave, kernel, Nobody
<1>11. CASE Close
  BY <1>11 DEF Close, slave, Unused, Item, Nobody
<1>12. ASSUME NEW w \in Workers, NEW f \in Items, StartJob(w, f) PROVE TypeOK'
  BY <1>12 DEF StartJob, table, slave, kernel, Nobody
<1>13. ASSUME NEW w \in Workers, PushJob(w) PROVE TypeOK'
  BY <1>13 DEF PushJob, table, slave, kernel, Nobody
<1>14. ASSUME NEW w \in Workers, Kill(w) PROVE TypeOK'
  BY <1>14 DEF Kill, table, slave, kernel, Nobody
<1>15. CASE Sigterm
  BY <1>15 DEF Sigterm, table, slave, kernel, threads, Nobody
<1>16. ASSUME NEW f \in Items, Arrives(f) PROVE TypeOK'
  BY <1>16 DEF Arrives, Used, table, slave, threads, Nobody
<1>17. ASSUME NEW f \in Items, Drains(f) PROVE TypeOK'
  BY <1>17 DEF Drains, Connections, Used, table, slave, threads, Nobody
<1>18. CASE UNCHANGED vars
  BY <1>18 DEF vars, table, slave, kernel, threads
<1> QED
  BY <1>1, <1>2, <1>3, <1>4, <1>5, <1>6, <1>7, <1>8, <1>9, <1>10, <1>11, <1>12, <1>13,
     <1>14, <1>15, <1>16, <1>17, <1>18
  DEF Next, Loop, Handler, Threads, World

\* The table always has its type.
THEOREM TypeCorrect == Spec => []TypeOK
  BY InitType, StepType, PTL DEF Spec

-----------------------------------------------------------------------------
(***************************************************************************)
(* The table.                                                              *)
(***************************************************************************)
LEMMA RegisterAgrees ==
  ASSUME TypeOK, TableAgrees, NEW f \in Items, NEW i \in SUBSET {"READ", "WRITE"},
         ~fds[f].used, selector_register(f, i), f \in open', open \subseteq open'
  PROVE  TableAgrees'
<1>1. /\ fds' = [fds EXCEPT ![f] = [used |-> TRUE, interest |-> i]]
      /\ Used' = Used \cup {f}
  BY DEF TypeOK, selector_register, Used, Item
<1>2. max_fd' \in Used' \cup {0} /\ \A g \in Used' : g <= max_fd'
  BY <1>1 DEF TypeOK, TableAgrees, selector_register, Used
<1>3. \A g \in Items : fds'[g].interest = IF g = f THEN i ELSE fds[g].interest
  BY <1>1 DEF TypeOK
<1>4. /\ master_r' = {g \in Used' : Interested(g, "READ")'}
      /\ master_w' = {g \in Used' : Interested(g, "WRITE")'}
  BY <1>1, <1>3
  DEF TypeOK, TableAgrees, selector_register, items_update_fdset_for_fd, Interested, Used
<1> QED BY <1>1, <1>2, <1>4 DEF TableAgrees

LEMMA InterestAgrees ==
  ASSUME TypeOK, TableAgrees, NEW f \in Used, NEW i \in SUBSET {"READ", "WRITE"},
         selector_set_interest(f, i), Used \subseteq open'
  PROVE  TableAgrees'
<1>1. /\ fds' = [fds EXCEPT ![f].interest = i]
      /\ f \in Items
      /\ Used' = Used
  BY DEF TypeOK, selector_set_interest, Used, Item
<1>2. \A g \in Items : fds'[g].interest = IF g = f THEN i ELSE fds[g].interest
  BY <1>1 DEF TypeOK, Item
<1>3. /\ master_r' = {g \in Used' : Interested(g, "READ")'}
      /\ master_w' = {g \in Used' : Interested(g, "WRITE")'}
  BY <1>1, <1>2
  DEF TypeOK, TableAgrees, selector_set_interest, items_update_fdset_for_fd, Interested, Used
<1> QED BY <1>1, <1>3 DEF TableAgrees, selector_set_interest

LEMMA UnregisterAgrees ==
  ASSUME TypeOK, TableAgrees, NEW f \in Used,
         selector_unregister_fd(f), open' = open \ {f}
  PROVE  TableAgrees'
<1>1. /\ fds' = [fds EXCEPT ![f] = Unused]
      /\ f \in Items
      /\ Used' = Used \ {f}
  BY DEF TypeOK, selector_unregister_fd, Used, Item, Unused
<1>2. max_fd' \in Used' \cup {0} /\ \A g \in Used' : g <= max_fd'
  BY <1>1 DEF selector_unregister_fd, items_max_fd
<1>3. \A g \in Used' : fds'[g].interest = fds[g].interest
  BY <1>1 DEF TypeOK, Used
<1>4. /\ master_r' = {g \in Used' : Interested(g, "READ")'}
      /\ master_w' = {g \in Used' : Interested(g, "WRITE")'}
  BY <1>1, <1>3
  DEF TypeOK, TableAgrees, selector_unregister_fd, items_update_fdset_for_fd, Interested
<1> QED BY <1>1, <1>2, <1>4 DEF TableAgrees

\* What a step leaves alone.
LEMMA SameTable ==
  ASSUME TableAgrees, UNCHANGED table, Used \subseteq open'
  PROVE  TableAgrees'
  BY DEF TableAgrees, table, Used, Interested

LEMMA InitAgrees == Init => TableAgrees
<1> SUFFICES ASSUME Init PROVE TableAgrees
  OBVIOUS
<1>1. Used = {0, 1}
  BY DEF Init, Used, Unused
<1>2. Interested(0, "READ") /\ Interested(1, "READ")
      /\ ~Interested(0, "WRITE") /\ ~Interested(1, "WRITE")
  BY DEF Init, Interested
<1> QED BY <1>1, <1>2 DEF Init, TableAgrees

LEMMA StepAgrees == TypeOK /\ TableAgrees /\ [Next]_vars => TableAgrees'
<1> SUFFICES ASSUME TypeOK, TableAgrees, [Next]_vars PROVE TableAgrees'
  OBVIOUS
<1>0. Used \subseteq open /\ Used \subseteq Items
  BY DEF TableAgrees, Used
<1>1. CASE UNCHANGED <<table, open>>
  BY <1>0, <1>1, SameTable
<1>2. CASE PassiveAccept
  <2>1. CASE \E f \in Descriptors :
               /\ LowestFree(f) /\ ~Refused(f)
               /\ selector_register(f, {"WRITE"})
               /\ open' = open \cup {f} /\ fresh' = fresh \cup {f}
               /\ UNCHANGED pc
    <3>1. PICK f \in Descriptors :
            /\ f \in Items /\ ~fds[f].used /\ selector_register(f, {"WRITE"})
            /\ open' = open \cup {f}
      BY <2>1 DEF Refused
    <3> QED BY <3>1, RegisterAgrees
  <2> QED BY <1>1, <1>2, <2>1 DEF PassiveAccept
<1>3. ASSUME NEW f \in Items, ConnectionRead(f) PROVE TableAgrees'
  <2>0. f \in Used
    BY <1>3 DEF ConnectionRead, Connections
  <2>1. CASE selector_set_interest(f, {"WRITE"}) /\ open \subseteq open'
    BY <1>0, <2>0, <2>1, InterestAgrees
  <2>2. CASE HangUp(f)
    BY <2>0, <2>2, UnregisterAgrees DEF HangUp
  <2> QED BY <1>1, <1>3, <2>1, <2>2 DEF ConnectionRead
<1>4. ASSUME NEW f \in Items, ConnectionWrite(f) PROVE TableAgrees'
  <2>0. f \in Used
    BY <1>4 DEF ConnectionWrite, Connections
  <2>1. CASE selector_set_interest(f, {"READ"}) /\ Used \subseteq open'
    BY <2>0, <2>1, InterestAgrees
  <2>2. CASE HangUp(f)
    BY <2>0, <2>2, UnregisterAgrees DEF HangUp
  <2> QED BY <1>0, <1>1, <1>4, <2>1, <2>2 DEF ConnectionWrite
<1>5. CASE Close
  <2>1. Used' = {} /\ max_fd' = 0 /\ master_r' = {} /\ master_w' = {}
    BY <1>5 DEF Close, Used, Unused
  <2> QED BY <2>1 DEF TableAgrees
<1>6. CASE Enter \/ Events \/ Timeout \/ Interrupted \/ EndIteration \/ Notify \/ Sigterm
  BY <1>1, <1>6
  DEF Enter, Events, Timeout, Interrupted, EndIteration, Notify, Sigterm, kernel
<1>7. CASE UdpRead
  BY <1>1, <1>7 DEF UdpRead
<1>8. ASSUME NEW w \in Workers,
             (\E f \in Items : StartJob(w, f)) \/ PushJob(w) \/ Kill(w)
      PROVE  TableAgrees'
  BY <1>1, <1>8 DEF StartJob, PushJob, Kill, kernel
<1>9. ASSUME NEW f \in Items, Arrives(f) \/ Drains(f) PROVE TableAgrees'
  BY <1>1, <1>9 DEF Arrives, Drains
<1>10. CASE UNCHANGED vars
  BY <1>1, <1>10 DEF vars, kernel
<1> QED
  BY <1>2, <1>3, <1>4, <1>5, <1>6, <1>7, <1>8, <1>9, <1>10
  DEF Next, Loop, Handler, Threads, World

\* The table, max_fd and the sets of pselect agree for any sequence of registrations
\* and hang-ups, and pselect is never asked about a descriptor that is closed.
THEOREM TableIsRight == Spec => []TableAgrees
  BY InitType, StepType, InitAgrees, StepAgrees, PTL DEF Spec

-----------------------------------------------------------------------------
(***************************************************************************)
(* The events of an iteration.                                             *)
(***************************************************************************)
Dispatch == AskedAsRegistered /\ OneInterest /\ NoStaleEvent

LEMMA InitDispatch == Init => Dispatch
  BY DEF Init, Dispatch, AskedAsRegistered, OneInterest, NoStaleEvent

LEMMA StepDispatch ==
  TypeOK /\ TableAgrees /\ Dispatch /\ [Next]_vars => Dispatch'
<1> SUFFICES ASSUME TypeOK, TableAgrees, Dispatch, [Next]_vars PROVE Dispatch'
  OBVIOUS
<1> USE DEF Dispatch, AskedAsRegistered, OneInterest, NoStaleEvent
<1>1. CASE Enter \/ Events \/ Timeout \/ Interrupted \/ EndIteration \/ Notify \/ Sigterm
  BY <1>1 DEF Enter, Events, Timeout, Interrupted, EndIteration, Notify, Sigterm,
              table, slave, Ready
<1>2. CASE PassiveAccept
  <2>1. CASE \E f \in Descriptors :
               /\ LowestFree(f) /\ ~Refused(f)
               /\ selector_register(f, {"WRITE"})
               /\ open' = open \cup {f} /\ fresh' = fresh \cup {f}
               /\ UNCHANGED pc
    <3>1. PICK f \in Items :
            /\ ~fds[f].used /\ selector_register(f, {"WRITE"})
            /\ fresh' = fresh \cup {f} /\ UNCHANGED pc
      BY <2>1 DEF Refused
    <3>2. f \notin master_r /\ f \notin master_w
      BY <3>1 DEF TableAgrees, Used
    <3>3. master_r' = master_r /\ master_w' = master_w \cup {f}
      BY <3>1, <3>2 DEF selector_register, items_update_fdset_for_fd
    <3> QED BY <1>2, <3>1, <3>2, <3>3 DEF PassiveAccept, ReadBit
  <2> QED BY <1>2, <2>1 DEF PassiveAccept, ReadBit, table
<1>3. ASSUME NEW f \in Items, ConnectionRead(f) PROVE Dispatch'
  <2>0. /\ f \in slave_r /\ f \notin slave_w /\ pc = "iterate"
        /\ slave_r' = slave_r \ {f} /\ slave_w' = slave_w /\ fresh' = fresh
    BY <1>3 DEF ConnectionRead, ReadBit
  <2>1. CASE selector_set_interest(f, {"WRITE"}) /\ UNCHANGED pc
    BY <2>0, <2>1 DEF selector_set_interest, items_update_fdset_for_fd
  <2>2. CASE HangUp(f) /\ UNCHANGED pc
    BY <2>0, <2>2 DEF HangUp, selector_unregister_fd, items_update_fdset_for_fd
  <2> QED BY <1>3, <2>0, <2>1, <2>2 DEF ConnectionRead, table
<1>4. ASSUME NEW f \in Items, ConnectionWrite(f) PROVE Dispatch'
  <2>0. /\ f \in slave_w /\ f \notin slave_r /\ pc = "iterate" /\ pc' = pc
        /\ slave_w' = slave_w \ {f} /\ slave_r' = slave_r /\ fresh' = fresh
    BY <1>4 DEF ConnectionWrite, WriteBit, Turn
  <2>1. CASE selector_set_interest(f, {"READ"})
    BY <2>0, <2>1 DEF selector_set_interest, items_update_fdset_for_fd
  <2>2. CASE HangUp(f)
    BY <2>0, <2>2 DEF HangUp, selector_unregister_fd, items_update_fdset_for_fd
  <2> QED BY <1>4, <2>0, <2>1, <2>2 DEF ConnectionWrite, table
<1>5. CASE Close
  BY <1>5 DEF Close
<1>6. CASE UdpRead
  BY <1>6 DEF UdpRead, ReadBit, table
<1>7. ASSUME NEW w \in Workers,
             (\E f \in Items : StartJob(w, f)) \/ PushJob(w) \/ Kill(w)
      PROVE  Dispatch'
  BY <1>7 DEF StartJob, PushJob, Kill, table, slave
<1>8. ASSUME NEW f \in Items, Arrives(f) \/ Drains(f) PROVE Dispatch'
  BY <1>8 DEF Arrives, Drains, table, slave
<1>9. CASE UNCHANGED vars
  BY <1>9 DEF vars, table, slave
<1> QED
  BY <1>1, <1>2, <1>3, <1>4, <1>5, <1>6, <1>7, <1>8, <1>9
  DEF Next, Loop, Handler, Threads, World

\* No event is handed to a connection it was not raised for, whatever is accepted or
\* hung up in the same iteration.
THEOREM EventsAreFresh == Spec => []NoStaleEvent
<1>1. Dispatch => NoStaleEvent
  BY DEF Dispatch
<1> QED
  BY <1>1, InitType, StepType, InitAgrees, StepAgrees, InitDispatch, StepDispatch, PTL
  DEF Spec

-----------------------------------------------------------------------------
(***************************************************************************)
(* The jobs.                                                               *)
(***************************************************************************)
LEMMA StepSignalled == TypeOK /\ JobsSignalled /\ [Next]_vars => JobsSignalled'
<1> SUFFICES ASSUME TypeOK, JobsSignalled, [Next]_vars PROVE JobsSignalled'
  OBVIOUS
<1> USE DEF JobsSignalled
<1>1. CASE Enter \/ Events \/ Timeout \/ Interrupted \/ EndIteration \/ Notify \/ Sigterm
  BY <1>1
  DEF Enter, Events, Timeout, Interrupted, EndIteration, Notify, Sigterm, threads
<1>2. CASE Handler
  BY <1>2 DEF Handler, PassiveAccept, UdpRead, ConnectionRead, ConnectionWrite,
              ReadBit, WriteBit, threads
<1>3. CASE Close
  BY <1>3 DEF Close
<1>4. ASSUME NEW w \in Workers, NEW f \in Items, StartJob(w, f) PROVE JobsSignalled'
  <2>1. \A v \in Workers : worker[v].at = "pushed" => worker'[v].at = "pushed"
    BY <1>4 DEF StartJob, TypeOK
  <2> QED BY <1>4, <2>1 DEF StartJob
<1>5. ASSUME NEW w \in Workers, PushJob(w) PROVE JobsSignalled'
  BY <1>5 DEF PushJob, TypeOK
<1>6. ASSUME NEW w \in Workers, Kill(w) PROVE JobsSignalled'
  BY <1>6 DEF Kill
<1>7. CASE World
  BY <1>1, <1>7 DEF World, Arrives, Drains, threads
<1>8. CASE UNCHANGED vars
  BY <1>8 DEF vars, threads
<1> QED
  BY <1>1, <1>2, <1>3, <1>4, <1>5, <1>6, <1>7, <1>8 DEF Next, Loop, Threads

\* A notification of another thread is never slept over, for any number of threads.
THEOREM WakeupsArrive == Spec => []NoLostWakeup
<1>1. Init => JobsSignalled
  BY DEF Init, JobsSignalled
<1>2. JobsSignalled => NoLostWakeup
  BY DEF JobsSignalled, NoLostWakeup
<1> QED BY <1>1, <1>2, InitType, StepType, StepSignalled, PTL DEF Spec
=============================================================================
