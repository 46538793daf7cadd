------------------------------ MODULE Selector ------------------------------
(***************************************************************************)
(* selector.c and the loop of main.c that turns it: the table of           *)
(* descriptors, what pselect is asked and what it returns, one iteration   *)
(* over the descriptors it reported, the jobs that other threads notify,   *)
(* and the SIGTERM that ends the loop.                                     *)
(*                                                                         *)
(* The handlers are those of smtpd, as far as they change the table or the *)
(* descriptors of the process: smtp_passive_accept registers a connection, *)
(* a connection changes its interest, opens and closes mail files or is    *)
(* over, the supervision socket changes nothing.  smtpd starts no blocking *)
(* job: Workers is what the contract of selector.h allows beside it.       *)
(*                                                                         *)
(* The listening socket has descriptor 0, which main closes first, and is  *)
(* visited first.  The standard streams are left out: the supervision      *)
(* socket, 3 in the program, is 1.                                         *)
(*                                                                         *)
(* A bit of slave_r or slave_w that handle_iteration has looked at is      *)
(* dropped here, so the smallest bit left says where the loop is.          *)
(***************************************************************************)
EXTENDS Integers, FiniteSets

CONSTANTS
  ItemsMaxSize,    \* ITEMS_MAX_SIZE
  LastDescriptor,  \* the largest descriptor the process may be given
  Workers,         \* threads that run blocking jobs
  MaxArrivals,     \* bound: connections that arrive in a behaviour
  MaxJobs          \* bound: jobs started in a behaviour

ASSUME DescriptorAssumption ==
  /\ {ItemsMaxSize, LastDescriptor} \subseteq Nat
  /\ 2 <= ItemsMaxSize /\ ItemsMaxSize <= LastDescriptor + 1
ASSUME JobAssumption == {MaxArrivals, MaxJobs} \subseteq Nat

Descriptors == 0..LastDescriptor
Items == 0..(ItemsMaxSize - 1)
Server == 0
Udp == 1

Item == [used : BOOLEAN, interest : SUBSET {"READ", "WRITE"}]
Unused == [used |-> FALSE, interest |-> {}]

VARIABLES
  fds, max_fd,          \* the table and the largest descriptor in it
  master_r, master_w,   \* the sets pselect is asked for
  slave_r, slave_w,     \* the sets of this call, then the bits not looked at yet
  jobs,                 \* resolution_jobs
  pc,                   \* where the main thread is
  done,                 \* set by sigterm_handler
  open,                 \* the descriptors of the process
  readable, writable,   \* those on which an event can be reported
  alarm,                \* is a SIGALRM pending
  worker,               \* Workers -> the job a thread runs and how far it is
  fresh,                \* descriptors registered since pselect returned
  ran,                  \* the handler the last step ran
  arrivals, started     \* bounds

table == <<fds, max_fd, master_r, master_w>>
slave == <<slave_r, slave_w>>
kernel == <<open, readable, writable>>
threads == <<jobs, alarm, worker, started>>
vars == <<table, slave, kernel, threads, pc, done, fresh, ran, arrivals>>

Used == {f \in Items : fds[f].used}
Connections == Used \ {Server, Udp}
Nobody == [fd |-> -1, op |-> "NOOP"]

\* selector_register of the two sockets, before the loop.
Init ==
  /\ fds = [f \in Items |-> IF f \in {Server, Udp}
                              THEN [used |-> TRUE, interest |-> {"READ"}]
                              ELSE Unused]
  /\ max_fd = Udp
  /\ master_r = {Server, Udp} /\ master_w = {}
  /\ slave_r = {} /\ slave_w = {}
  /\ jobs = {} /\ alarm = FALSE
  /\ worker = [w \in Workers |-> [at |-> "idle", fd |-> Server]]
  /\ pc = "test" /\ done = FALSE
  /\ open = {Server, Udp} /\ readable = {} /\ writable = {}
  /\ fresh = {} /\ ran = Nobody
  /\ arrivals = 0 /\ started = 0

-----------------------------------------------------------------------------
(***************************************************************************)
(* The operations on the table.                                            *)
(***************************************************************************)
items_update_fdset_for_fd(f, interest) ==
  /\ master_r' = (master_r \ {f}) \cup (IF "READ" \in interest THEN {f} ELSE {})
  /\ master_w' = (master_w \ {f}) \cup (IF "WRITE" \in interest THEN {f} ELSE {})

\* MUTANT: INVALID_FD is not asked.
OnlyInUse(f) == f \in Items /\ fds[f].used

\* INVALID_FD or SELECTOR_FDINUSE
Refused(f) == f \in Items => fds[f].used

\* MUTANT: max_fd is not raised.
RegisterWithoutMax(f, interest) ==
  /\ fds' = [fds EXCEPT ![f] = [used |-> TRUE, interest |-> interest]]
  /\ items_update_fdset_for_fd(f, interest)
  /\ UNCHANGED max_fd

selector_register(f, interest) ==
  /\ fds' = [fds EXCEPT ![f] = [used |-> TRUE, interest |-> interest]]
  /\ max_fd' = IF f > max_fd THEN f ELSE max_fd
  /\ items_update_fdset_for_fd(f, interest)

\* MUTANT: |= for =.
InterestAdded(f, interest) ==
  LET all == fds[f].interest \cup interest
  IN  /\ fds' = [fds EXCEPT ![f].interest = all]
      /\ items_update_fdset_for_fd(f, all)
      /\ UNCHANGED max_fd

selector_set_interest(f, interest) ==
  /\ fds' = [fds EXCEPT ![f].interest = interest]
  /\ items_update_fdset_for_fd(f, interest)
  /\ UNCHANGED max_fd

\* items_max_fd: 0 when nothing is registered.
items_max_fd(used, max) ==
  /\ max \in used \cup {0}
  /\ \A f \in used : f <= max

selector_unregister_fd(f) ==
  /\ fds' = [fds EXCEPT ![f] = Unused]
  /\ items_update_fdset_for_fd(f, {})
  /\ \E max \in 0..max_fd : items_max_fd(Used \ {f}, max) /\ max_fd' = max

-----------------------------------------------------------------------------
(***************************************************************************)
(* The loop: test of done, copy of the sets, pselect.  It returns when a   *)
(* descriptor is ready, after the timeout, or interrupted; SIGALRM is      *)
(* blocked outside pselect and interrupts it if it is pending.             *)
(***************************************************************************)
Enter ==
  /\ pc = "test" /\ ~done
  /\ slave_r' = master_r /\ slave_w' = master_w
  /\ pc' = "select" /\ ran' = Nobody
  /\ UNCHANGED <<table, kernel, threads, done, fresh, arrivals>>

\* MUTANT: max_fd, not max_fd + 1, is given to pselect.
ReadyBelowMax(asked, events) == {f \in asked \cap events : f < max_fd}

\* What pselect finds among the first max_fd + 1 descriptors.
Ready(asked, events) == {f \in asked \cap events : f <= max_fd}

Events ==
  /\ pc = "select"
  /\ slave_r' = Ready(slave_r, readable) /\ slave_w' = Ready(slave_w, writable)
  /\ slave_r' \cup slave_w' # {}
  /\ pc' = "iterate" /\ fresh' = {} /\ ran' = Nobody
  /\ UNCHANGED <<table, kernel, threads, done, arrivals>>

\* MUTANT: pselect is given no timeout.
NoTimeout == FALSE

Timeout ==
  /\ pc = "select" /\ ~alarm
  /\ Ready(slave_r, readable) \cup Ready(slave_w, writable) = {}
  /\ slave_r' = {} /\ slave_w' = {}
  /\ pc' = "iterate" /\ fresh' = {} /\ ran' = Nobody
  /\ UNCHANGED <<table, kernel, threads, done, arrivals>>

Interrupted ==
  /\ pc = "select" /\ alarm
  /\ alarm' = FALSE
  /\ pc' = "notify" /\ ran' = Nobody
  /\ slave_r' = {} /\ slave_w' = {}
  /\ UNCHANGED <<table, kernel, jobs, worker, started, done, fresh, arrivals>>

\* sigterm_handler, anywhere; inside pselect it also interrupts it.
Sigterm ==
  /\ pc \in {"test", "select", "iterate", "notify"} /\ ~done
  /\ done' = TRUE /\ ran' = Nobody
  /\ \/ UNCHANGED <<pc, slave>>
     \/ pc = "select" /\ pc' = "notify" /\ slave_r' = {} /\ slave_w' = {}
  /\ UNCHANGED <<table, kernel, threads, fresh, arrivals>>

-----------------------------------------------------------------------------
(***************************************************************************)
(* handle_iteration: from descriptor 0 up, the read event and then, with   *)
(* the interest as it is by then, the write event.  A bit whose item is no *)
(* longer used or interested would be passed over: NoStaleEvent says that  *)
(* there is none, so no action stands for it.                              *)
(***************************************************************************)
Turn(f) == f \in slave_r \cup slave_w /\ \A g \in slave_r \cup slave_w : f <= g

Interested(f, op) == op \in fds[f].interest

ReadBit(f) ==
  /\ pc = "iterate" /\ Turn(f) /\ f \in slave_r
  /\ slave_r' = slave_r \ {f} /\ UNCHANGED slave_w

WriteBit(f) ==
  /\ pc = "iterate" /\ Turn(f) /\ f \notin slave_r
  /\ slave_w' = slave_w \ {f} /\ UNCHANGED slave_r

LowestFree(f) == f \in Descriptors \ open /\ \A g \in Descriptors \ open : f <= g

\* smtp_passive_accept.  When no descriptor is left accept fails, and the handler
\* frees the list of a connection it has not got: the process is over.
PassiveAccept ==
  /\ ReadBit(Server) /\ Interested(Server, "READ")
  /\ readable' = readable \ {Server}
  /\ ran' = [fd |-> Server, op |-> "READ"]
  /\ \/ \E f \in Descriptors :
          /\ LowestFree(f) /\ ~Refused(f)
          /\ selector_register(f, {"WRITE"})
          /\ open' = open \cup {f} /\ fresh' = fresh \cup {f}
          /\ UNCHANGED pc
     \/ /\ \E f \in Descriptors : LowestFree(f) /\ Refused(f)
        /\ UNCHANGED <<table, open, fresh, pc>>
     \/ /\ open = Descriptors
        /\ pc' = "crashed"
        /\ UNCHANGED <<table, open, fresh>>
  /\ UNCHANGED <<writable, threads, done, arrivals>>

\* udp_read_handler takes a datagram.
UdpRead ==
  /\ ReadBit(Udp) /\ Interested(Udp, "READ")
  /\ readable' = readable \ {Udp}
  /\ ran' = [fd |-> Udp, op |-> "READ"]
  /\ UNCHANGED <<table, open, writable, threads, pc, done, fresh, arrivals>>

\* MUTANT: the interest stays registered when the connection is closed.
HangUpRegistered(f) ==
  /\ open' = open \ {f} /\ readable' = readable \ {f} /\ writable' = writable \ {f}
  /\ UNCHANGED table

\* smtp_done: unregister, then close.
HangUp(f) ==
  /\ selector_unregister_fd(f)
  /\ open' = open \ {f} /\ readable' = readable \ {f} /\ writable' = writable \ {f}

\* smtp_read: nothing to answer yet; a reply; DATA, which opens a file or aborts
\* without a descriptor for it; the end of the connection.
ConnectionRead(f) ==
  /\ f \in Connections
  /\ ReadBit(f) /\ Interested(f, "READ")
  /\ ran' = [fd |-> f, op |-> "READ"]
  /\ \/ /\ readable' = readable \ {f}
        /\ \/ UNCHANGED <<table, open, pc>>
           \/ selector_set_interest(f, {"WRITE"}) /\ UNCHANGED <<open, pc>>
           \/ /\ selector_set_interest(f, {"WRITE"}) /\ UNCHANGED pc
              /\ \E g \in Descriptors : LowestFree(g) /\ open' = open \cup {g}
           \/ open = Descriptors /\ pc' = "crashed" /\ UNCHANGED <<table, open>>
        /\ UNCHANGED writable
     \/ HangUp(f) /\ UNCHANGED pc
  /\ UNCHANGED <<threads, done, fresh, arrivals>>

\* smtp_write: part of the reply, all of it, the reply to a mail, which closes its
\* file, or the end of the connection.
ConnectionWrite(f) ==
  /\ f \in Connections
  /\ WriteBit(f) /\ Interested(f, "WRITE")
  /\ ran' = [fd |-> f, op |-> "WRITE"]
  /\ \/ /\ \/ writable' = writable \ {f} /\ UNCHANGED <<table, open>>
           \/ selector_set_interest(f, {"READ"}) /\ UNCHANGED <<writable, open>>
           \/ /\ selector_set_interest(f, {"READ"}) /\ UNCHANGED writable
              /\ \E g \in open \ Used : open' = open \ {g}
        /\ UNCHANGED readable
     \/ HangUp(f)
  /\ UNCHANGED <<threads, pc, done, fresh, arrivals>>

EndIteration ==
  /\ pc = "iterate" /\ slave_r \cup slave_w = {}
  /\ pc' = "notify" /\ ran' = Nobody
  /\ UNCHANGED <<table, slave, kernel, threads, done, fresh, arrivals>>

\* handle_block_notifications, under the mutex from its first line to its last.
Notify ==
  /\ pc = "notify"
  /\ jobs' = {}
  /\ pc' = "test" /\ ran' = Nobody
  /\ UNCHANGED <<table, slave, kernel, alarm, worker, started, done, fresh, arrivals>>

\* The end of main: the two sockets are closed and selector_destroy unregisters
\* every descriptor.  Those of the connections are left to exit.
Close ==
  /\ pc = "test" /\ done
  /\ fds' = [f \in Items |-> Unused] /\ max_fd' = 0
  /\ master_r' = {} /\ master_w' = {}
  /\ open' = open \ {Server, Udp}
  /\ jobs' = {}
  /\ pc' = "closed" /\ ran' = Nobody
  /\ UNCHANGED <<slave, readable, writable, alarm, worker, started, done, fresh, arrivals>>

-----------------------------------------------------------------------------
(***************************************************************************)
(* The other threads: selector_notify_block pushes a job under the mutex   *)
(* and then signals the thread that turns the loop.                        *)
(***************************************************************************)
Running == pc \notin {"closed", "crashed"}

StartJob(w, f) ==
  /\ Running /\ worker[w].at = "idle" /\ f \in Connections /\ started < MaxJobs
  /\ worker' = [worker EXCEPT ![w] = [at |-> "job", fd |-> f]]
  /\ started' = started + 1 /\ ran' = Nobody
  /\ UNCHANGED <<table, slave, kernel, jobs, alarm, pc, done, fresh, arrivals>>

PushJob(w) ==
  /\ Running /\ worker[w].at = "job"
  /\ jobs' = jobs \cup {[worker |-> w, fd |-> worker[w].fd]}
  /\ worker' = [worker EXCEPT ![w].at = "pushed"]
  /\ ran' = Nobody
  /\ UNCHANGED <<table, slave, kernel, alarm, started, pc, done, fresh, arrivals>>

\* MUTANT: SIGALRM is not blocked, and is lost on a thread that is not in pselect.
KillUnblocked(w) ==
  /\ Running /\ worker[w].at = "pushed"
  /\ alarm' = (pc = "select")
  /\ worker' = [worker EXCEPT ![w].at = "idle"]
  /\ ran' = Nobody
  /\ UNCHANGED <<table, slave, kernel, jobs, started, pc, done, fresh, arrivals>>

Kill(w) ==
  /\ Running /\ worker[w].at = "pushed"
  /\ alarm' = TRUE
  /\ worker' = [worker EXCEPT ![w].at = "idle"]
  /\ ran' = Nobody
  /\ UNCHANGED <<table, slave, kernel, jobs, started, pc, done, fresh, arrivals>>

(***************************************************************************)
(* The network: a connection or a datagram arrives, a connection has input *)
(* or room for output.                                                     *)
(***************************************************************************)
Arrives(f) ==
  /\ Running /\ f \in Used \ readable
  /\ f = Server => arrivals < MaxArrivals
  /\ readable' = readable \cup {f}
  /\ arrivals' = IF f = Server THEN arrivals + 1 ELSE arrivals
  /\ ran' = Nobody
  /\ UNCHANGED <<table, slave, open, writable, threads, pc, done, fresh>>

Drains(f) ==
  /\ Running /\ f \in Connections \ writable
  /\ writable' = writable \cup {f}
  /\ ran' = Nobody
  /\ UNCHANGED <<table, slave, open, readable, threads, pc, done, fresh, arrivals>>

-----------------------------------------------------------------------------
Handler ==
  \/ PassiveAccept \/ UdpRead
  \/ \E f \in Items : ConnectionRead(f) \/ ConnectionWrite(f)

Loop ==
  \/ Enter \/ Events \/ Timeout \/ Interrupted
  \/ Handler
  \/ EndIteration \/ Notify \/ Close

Threads ==
  \E w \in Workers : (\E f \in Items : StartJob(w, f)) \/ PushJob(w) \/ Kill(w)

World == Sigterm \/ \E f \in Items : Arrives(f) \/ Drains(f)

Next == Loop \/ Threads \/ World

Spec == Init /\ [][Next]_vars

\* The main thread runs, pselect returns when it may and after its ten seconds.
FairSpec == Spec /\ WF_vars(Loop)

-----------------------------------------------------------------------------
TypeOK ==
  /\ fds \in [Items -> Item] /\ max_fd \in Items
  /\ master_r \subseteq Items /\ master_w \subseteq Items
  /\ slave_r \subseteq Items /\ slave_w \subseteq Items
  /\ jobs \subseteq [worker : Workers, fd : Items]
  /\ pc \in {"test", "select", "iterate", "notify", "closed", "crashed"}
  /\ done \in BOOLEAN /\ alarm \in BOOLEAN
  /\ open \subseteq Descriptors /\ readable \subseteq Items /\ writable \subseteq Items
  /\ worker \in [Workers -> [at : {"idle", "job", "pushed"}, fd : Items]]
  /\ fresh \subseteq Items
  /\ ran \in [fd : Items, op : {"READ", "WRITE"}] \cup {Nobody}
  /\ arrivals \in Nat /\ started \in Nat

\* The table, max_fd and the sets of pselect tell the same story through every
\* registration and hang-up, and every descriptor asked about is open: pselect
\* overlooks nobody behind max_fd and never fails with EBADF, which would end main.
TableAgrees ==
  /\ max_fd \in Used \cup {0} /\ \A f \in Used : f <= max_fd
  /\ master_r = {f \in Used : Interested(f, "READ")}
  /\ master_w = {f \in Used : Interested(f, "WRITE")}
  /\ Used \subseteq open

\* Every bit the loop still has to look at was raised for the connection that has
\* the descriptor now, which still asks for that event and for no other: a handler
\* that hangs up, or an accept that takes its descriptor in the same iteration,
\* leaves no event of the connection before.
NoStaleEvent ==
  pc = "iterate" =>
    /\ slave_r \subseteq master_r \ fresh /\ slave_w \subseteq master_w \ fresh
    /\ slave_r \cap slave_w = {}

\* A job pushed while the loop is going to wait interrupts the wait: its signal is
\* pending or about to be raised, whatever moment of the loop it was pushed in.
NoLostWakeup ==
  pc = "select" /\ jobs # {} => alarm \/ \E w \in Workers : worker[w].at = "pushed"

\* A descriptor that stays ready and interested has its handler run: the weak
\* fairness of each connection's handlers, which SmtpServer assumes.
Waiting(f, op) ==
  /\ Running /\ ~done
  /\ fds[f].used /\ Interested(f, op)
  /\ f \in (IF op = "READ" THEN readable ELSE writable)
EventsServed ==
  \A f \in Items, op \in {"READ", "WRITE"} :
    []<>(~Waiting(f, op) \/ ran = [fd |-> f, op |-> op])

\* A SIGTERM ends the server even if it comes between the test of done and
\* pselect, where it interrupts nothing, and nobody talks to the server again.
SigtermStops == done ~> ~Running
=============================================================================
