# smtpd: a verification project

`smtpd` is an SMTP server written in C: one process, one thread, a `pselect`
loop that serves every connection, and a small supervision protocol over UDP
that reads the server's counters. It receives mail for the mailboxes of one
domain and leaves each copy in a maildir (`mails/<address>/tmp`, then `new`).

This directory holds TLA+ modules that model the server, the configurations TLC
checks them with, and theorems checked by TLAPS. `PROJECT.json` lists the
components, the runs, the hazards and, for each definition, the lines of the
source it stands for.

## 1. The system

| component | source | state | operations |
|---|---|---|---|
| connections | `src/smtpnio.c` | `struct smtp` for each connection; the counters `current_users`, `historic_users`, `transferred_bytes`, `mails_sent`; `max_user` | accept, one handler for each state and event, close |
| state machine engine | `src/stm.c` | the current state | `jump`: `on_departure` of the old state, `on_arrival` of the new one |
| recipients and mail files | `src/rcpt_to_list.c` | a list of nodes, newest first, each with a descriptor and a file name; the maildirs | add, create files, write, close and rename, free |
| buffer | `src/buffer.c` | an array, a read and a write pointer | put, take, compact, reset |
| request parser | `src/request.c` | automaton state, command, argument | feed a byte |
| data parser | `src/data.c` | automaton state, `data_buffer` | feed a byte, consume what was read |
| selector | `src/selector.c` | the table of descriptors with their interests, `max_fd`, the sets for `pselect`, the jobs other threads notified | register, unregister, set interest, notify, one iteration |
| supervision | `src/udpserver.c` | a login state for each peer, never forgotten | one datagram |
| main | `src/main.c` | `done` | start, loop until a signal, close |
| args, netutils, generic parser | `src/args.c`, `src/netutils.c`, `src/parser.c`, `src/parser_utils.c` | none while the server runs | command line, formatting, code no handler calls |

How they interact. `selector_select` waits in `pselect` and calls, for each
descriptor that is ready and interested, `handle_read` or `handle_write`. For
the listening socket that is `smtp_passive_accept`; for a connection it is
`smtp_read` or `smtp_write`, which ask the state machine for the handler of the
current state. A read handler takes what is in `read_buffer`, or receives more
when there is nothing, feeds a parser, composes a reply in `write_buffer` and
sets the interest to write. A write handler sends the reply and, when the buffer
is empty, sets the interest to read and moves to the next state. A handler
that ends in `DONE` or `ERROR` closes the connection. The supervision socket is
one more descriptor of the same loop: its handler reads the counters of the
connections and sets the flag `transformations`, which an accepted connection
copies; with the flag set each mail file is written by a child that reads from a
pipe and runs a program on what it reads.

What is hard here. No two handlers run at once, but the handlers of different
connections alternate in any order and share the counters, the limit on users
and the file system. Within a connection the state, the registered interest,
the contents of the two buffers, the parsers and the list of recipients are
changed by different functions and have to stay in step. The network cuts lines
and the end of a mail at any byte, delivers several lines together, and ends
the connection between any two handlers. Some state outlives what it was made
for: the recipients after a refused `DATA`, the data parser after a mail, lines
left in `read_buffer`, files whose connection is gone. The process can end at
any system call, by a signal or by its own `abort`, with mails half written or
half renamed, and children go on without it. Within one iteration of the loop a
handler may close a descriptor whose event is still to be looked at, and an
accept may take it again. Datagrams are lost, repeated and overtaken.

What makes each part correct:

- connections: a reply for every line; commands accepted only in order; the
  recipients told `250` are those the mail goes to; no more users served than
  the limit; the counters tell the truth.
- mail files: one file for each recipient, never shared, complete when it
  reaches `new`, whatever fails and whenever the server stops; a mail told
  `250 Ok: queued` is there, as far as a stop did not come before its renames.
- buffer: bytes come out as they went in; room is not lost.
- parsers: a line ends at its CRLF and a mail at `CRLF . CRLF`, wherever they
  were cut; no byte of the mail is lost, or none but those section 5 names; no
  command is mistaken for another.
- selector: whoever stays ready is served; the sets given to `pselect` are those
  of the table; no event reaches a connection it was not raised for, or a state
  without a handler; no notification and no SIGTERM is slept over.
- supervision: nobody is logged in without both words, and the numbers told are
  those of the connections.

## 2. The modules

| module | models | rests on |
|---|---|---|
| `SmtpServer` | connections, state machine engine, recipients and files, and as much of the selector as decides which handler may run | |
| `SmtpProperties` | its type, invariants, action and liveness properties, and the mapping to `MailTransaction` | `SmtpServer` |
| `MailTransaction` | abstract: what the server promises of a mail | |
| `MCSmtp` | symmetry sets for TLC | `SmtpProperties` |
| `SmtpProofs` | theorems: types, limits, dispatch, the order of the dialogue | `SmtpProperties` |
| `TransactionProofs` | theorems: files, mails, the refinement of `MailTransaction` | `SmtpProofs` |
| `MailFiles` | `rcpt_to_list.c` one node at a time, with failures, stops, restarts and children | |
| `MCMailFiles` | two mails for TLC | `MailFiles` |
| `MailFilesProofs` | theorems | `MailFiles` |
| `Selector` | `selector.c` and the loop of `main.c`, with signals and other threads | |
| `SelectorProofs` | theorems | `Selector` |
| `Supervision` | `udpserver.c`, composed with all of `SmtpServer` | `SmtpProperties` |
| `MCSupervision` | symmetry sets for TLC | `Supervision` |
| `SupervisionProofs` | theorems | `Supervision`, `SmtpProofs` |
| `ByteQueue` | abstract: what a buffer promises | |
| `Buffer` | `buffer.c`, with the refinement mapping to `ByteQueue` | `ByteQueue` |
| `BufferProofs` | theorems | `Buffer` |
| `DataParser` | `data.c`, its feeding and the copy to the file | |
| `DataProofs` | theorems | `DataParser` |
| `RequestParser` | `request.c` | |
| `RequestProofs` | theorems | `RequestParser` |

A definition whose comment starts with MUTANT is a faulty variant of the one
below it. No specification uses it: each property was seen to fail when such a
variant takes the place of the original.

### SmtpServer

An action is one handler run to its end, with every call it makes: `Accept`,
the six read handlers (`FailedConnectionRead` ... `MailInfoRead`) and the seven
write handlers (`GreetingWrite` ... `MailInfoWrite`), for one connection `c`.
The clients and the network are three more: `Send`, `Fin` (orderly close) and
`Reset` (the connection breaks and what was sent may be lost).

| variable | in the code |
|---|---|
| `smtp[c].stm`, `.interest` | `stm.current`; the interest registered in the selector |
| `smtp[c].read_buffer`, `.write_buffer` | the two buffers; a reply is named by its code |
| `smtp[c].request` | command and argument of `request_parser` |
| `smtp[c].mailfrom`, `.rcpt_list`, `.data_parser` | the fields of those names |
| `smtp[c].named`, `.body` | not in the code: addresses answered 250 since `MAIL FROM`; body lines received since the 354 |
| `wire[c]`, `peer[c]` | what the socket holds and knows of the other end |
| `files` | every mail file created: mailbox, sender, mail, directory, open or not, lines written, complete or not |
| `current_users` ... | the counters |
| `lines_sent` | bound |

Abstractions. A line is one record and arrives whole: a `recv` that ends inside
a line leaves the parser waiting, which is the same as the line being still in
the socket. What a parser does with the bytes is the subject of
`RequestParser` and `DataParser`; the lines of `SmtpServer` are those that end
in `request_done` with arguments that fit, so a malformed line that hangs the
parser, or one that overruns it (section 5), is not among them. A byte counted in `transferred_bytes` is a line. A `send` takes the
whole reply or fails. Files take every write, and the loops over the list run in
one step: `MailFiles` has what this leaves out. `MaxUsers` is a constant because
no reachable code calls `set_max_users` (`udpserver.c:202` is inside the branch
of `help`).

### MailTransaction

The abstract mail server: a client begins a transaction, names recipients,
sends data, and the mail is delivered in one step, to everyone named and nobody
else, or given up before its end has come. `TransactionSpec` of `SmtpProperties` maps
to it: `tx` is read off the state, the sender, the addresses answered 250 and
the body of each connection, `delivered` off the files in `new`, those of one
mail together.

### MailFiles

| variable | in the code |
|---|---|
| `up` | is there a process |
| `transformations` | the flag of `smtpnio.c:106`; `main` sets it at the start |
| `mail[m]` | how far the connection of mail `m` is, whether it still has the list (`held`), the node its loop is at, the flag it copied, the pieces received, whether `250 Ok: queued` was sent |
| `copy[c]` | a recipient's file: its directory, what `file_fd` is, the pieces in it, whether a write failed; its child, the pieces in its pipe, and the children that inherited the pipe's write end |
| `restarts` | bound |

`CreateCopy` is one turn of `create_mails_files`, `CloseCopy` one turn of
`close_fds`, `Receive` is `mail_info_read` with `write_to_files`, `Reply` is
`mail_info_write`, `Lose` is `smtp_destroy` in the data. A loop is never
interrupted by another handler, but by everything else: `Stop` ends the process
between two steps, `FailedCreate` is a call that fails behind the open,
`ReceiveCut` is an end between the writes of two nodes, by a signal or by the
SIGPIPE of a child that is gone. `ChildFinishes` and `ChildFails` are the
children, which outlive the server. `Restart` looks for nothing in `tmp`. One
mail stands for one transaction; the rest of its connection is in `SmtpServer`.

### Selector

| variable | in the code |
|---|---|
| `fds`, `max_fd`, `master_r`, `master_w` | the fields of `struct fdselector` |
| `slave_r`, `slave_w` | the sets given to `pselect`; after it, the bits `handle_iteration` has not looked at |
| `jobs`, `worker`, `alarm` | `resolution_jobs`; threads inside `selector_notify_block`; a SIGALRM pending |
| `pc`, `done` | where the main thread is; the flag of `sigterm_handler` |
| `open`, `readable`, `writable` | what the kernel knows of the descriptors |
| `fresh`, `ran` | not in the code: registered since `pselect` returned; the handler just run |

Each handler is one action, in the order `handle_iteration` calls them; arrivals,
signals and the steps of a notifying thread come between any two. The handlers
do what those of `smtpd` can do to the table or the descriptors: register, change the
interest, hang up, open and close mail files, or end the process where it has
no descriptor left. `pselect` is its contract: it returns the ready
among the first `max_fd + 1`, or after its timeout, or interrupted.

### Supervision

A datagram is one action beside those of `SmtpServer`: `Authenticate` moves the
peer's node (`clients`), `SetNewStatus` sets the flag, and `Told` is what a
command that reads is answered with, in any state of the connections. `rights`
counts right words in a row and `refused` the connections the selector refused;
neither is in the code. Because every datagram of every peer may come at any
moment, lost, repeated and reordered ones need no action of their own.

### Buffer and ByteQueue

`Buffer` keeps the array and the two pointers as offsets and has one action for
each way the callers use it: `Fill` (pointer, `recv`, advance), `Drain`
(pointer, `send`, advance), `WriteByte`, `ReadByte`, `Compact`, `Reset`.
`ByteQueue` says what the callers rely on: a queue, and the room behind it. The
mapping is `queue <- Slice(data, read, write - read)`, `room <- Capacity - write`.

### DataParser

`Receive` brings a piece of any length up to a full `read_buffer`, `Consume` is
one turn of `data_consume`'s loop, `Flush` is `write_to_files` and the return of
the handler. `Held` gives for each state the bytes the automaton has not written
yet. `BufferSize` is the size of both arrays (2048 in the code). `Written` drops
what `data_buffer` has no room for, as `buffer_write` does. Not in the code:
`body`, every byte consumed, and `excess`, which adds up the bytes by which a
piece and what was held back before it were together longer than `data_buffer`.

### RequestParser

One action feeds one byte. The 31 states that spell a verb are one state and the
part read so far; letters stand for both cases; `x` stands for every byte no rule
names. The bytes of arguments are not kept, but `i`, the place of the next one in
`arg` or `domain`, is: the code stores them there without asking for room
(`request.c:555` and on). A domain of more than 32 bytes misses `struct request`, and so
does an address of more than 64, which may use `domain` behind `arg`; the fields
of the parser itself come next. C leaves open what happens then, and so does the
module: its state `overrun` is not left, and its properties speak of
lines whose arguments fit. Only `request_parser_init` sets `i` to 0, so behind a
CR alone an address begins where the argument before it ended. With the two
sizes fixed the state space is finite: the run covers inputs of every length.

## 3. The runs

| run | module | bounds | states | shows |
|---|---|---|---|---|
| `delivery` | `MCSmtp` | 2 clients, 2 mailboxes, 9 lines, 2 connections | 728216 | files follow the recipients, are not shared, change only by their owner, reach `new` whole and together, and go to nobody else; mails are counted; all of it implements `MailTransaction` |
| `dialogue` | `MCSmtp` | 1 client that pipelines, 2 mailboxes, 1 foreign address, 9 lines | 1356935 | state, interest and reply stay in step; commands in order; recipients answered 250 are kept and delivered to |
| `progress` | `MCSmtp` | 2 clients that wait for replies, `max_user` 1, 2 connections, 6 lines, fairness | 92620 | every line taken, every reply sent, every complete mail delivered |
| `maildir` | `MCMailFiles` | 2 mails, of 2 copies and of 1, 2 pieces each, 1 restart, fairness | 1240004 | whatever fails and whenever the server stops, what is in `new` is whole where no write and no child failed; the copies of an answered mail are there, but for those the rename loop had not reached; the children end |
| `selector` | `Selector` | a table of 4, 5 descriptors, 3 connections, 1 thread with 1 job, fairness | 332122 | the table stays right, no event reaches the wrong connection, the ready are served, no notification and no SIGTERM is slept over |
| `supervision` | `MCSupervision` | 3 clients, `max_user` 1, 2 places in the selector, 4 connections, 1 line, 2 peers | 305354 | the limit holds and who was answered 554 is never served, while clients come, go and are refused; two right words log in; the numbers told are true |
| `buffer` | `Buffer` | 2 byte values, capacity 4 | 450 | the buffer implements the queue and an empty one has all its room |
| `body` | `DataParser` | buffers of 4, pieces of 1 to 4, 8 bytes | 1663465 | the data ends only at `CRLF . CRLF`; the file has the mail byte by byte while pieces fit behind what was held back, and then lacks no more than did not fit; the arrays are not written behind their end |
| `request` | `RequestParser` | room for 2 bytes of a domain, 3 of an address | 132549 | up to a store outside `struct request`, a request ends only at CRLF and names the verb that was spelled |

Three more, `foreign_rcpt`, `pipelining` and `body_blank`, find counterexamples
and are the subject of section 5.

Why the bounds are enough.

- A whole mail takes five lines on a fresh connection and four on one that has
  sent a mail already: the nine lines of `delivery` and `dialogue` are two mails
  on one connection, or two mails open at once on two, or one mail to two
  recipients while another connection is in its data. Two mailboxes tell a copy
  from another, and one foreign address takes every branch that asks for the
  domain. In `progress` six lines are one whole mail and one line of a client that
  is turned away, or served after the first has left.
- Three clients around a limit of one are served and turned away in every order,
  the third finds the selector full, and a fourth connection lets one leave and
  come back while the others stay. Two peers tell a login from another.
- In `maildir` one mail of two copies has a first, a middle and a last turn of
  each loop; the mail of one has its own loop between theirs, and its child can
  inherit the write ends of both pipes of the other. Two pieces let a write fail
  before and after one that does not.
- A table of four has the two sockets of the start and two connections that can
  exchange their descriptors; a fifth descriptor is open and refused by the
  table, or taken by a mail file. Three arrivals let one connection be accepted
  in the very iteration in which another hung up.
- Four bytes of buffer let the read pointer be inside, at the end and at the
  start with room before, behind and nowhere.
- The terminator is five bytes. In `body` pieces of one to four cut it everywhere,
  eight bytes leave three before or behind it, and a piece as long as the buffer
  can come behind each of the five things that can be held back, the four bytes
  `CRLF . CR` included, as in the code, where both sizes are 2048. `body_blank`
  has buffers of five, which take the terminator in one piece.
- Domains and addresses of one byte, of just the room and of more are three
  cases each for `i`; that a domain has less room than an address is as in the
  code.

Deadlock. The runs with `CHECK_DEADLOCK FALSE` may stop: the lines, the
connections, the pieces and the restarts of a behaviour are bounded, the data
parser stops at the end of the mail, and the selector when the process is over.
`buffer` and `request` check for deadlock. That the loop never waits for
something that is there is what `EventsServed` and `NoLostWakeup` say.

Fairness.

- `SmtpServer!FairSpec` (`progress`, `pipelining`): weak fairness of the read
  handler and of the write handler of each connection. The code justifies it by
  one thread, level-triggered readiness and an iteration over all descriptors,
  and `selector` checks that argument: its `EventsServed` says that a descriptor
  that stays ready and interested has its handler run.
- `Selector!FairSpec`: weak fairness of the main thread as a whole. No handler
  loops or waits for the network, and `pselect` returns after its timeout.
  Nothing is asked of the other threads and the network.
- `MailFiles!FairSpec`: the two loops go on while the process lives, and a child
  whose input has ended ends. Restarts, clients and failures are not fair.

Nothing is asked of clients anywhere: they may stop sending, leave or break at
any time.

## 4. What is proved

Every theorem holds for all values of the constants that meet the assumptions
of its module, not only for the instances above.

| theorem | statement | argument |
|---|---|---|
| `SmtpProofs!TypeCorrect` | `Spec => [](TypeOK /\ UsersCovered)` | by action |
| `SmtpProofs!LimitKept` | `Spec => []ServedWithinLimit` | `TypeInv` and the count |
| `SmtpProofs!TurnedAway` | `Spec => RejectedStayRejected` | only two handlers run on such a connection, and both leave it so or closed |
| `SmtpProofs!DispatchIsSafe` | `Spec => []DispatchSafe` | each handler leaves its own connection in agreement |
| `SmtpProofs!DataInOrder` | `Spec => []TransactionOrder` | `OrderInv` |
| `SmtpProofs!RecipientsKept` | `Spec => []AckedRecipientsKept` | `OrderInv` |
| `TransactionProofs!FilesMatch` | `Spec => []FilesMatchRecipients` | `FileInv` |
| `TransactionProofs!FilesSeparate` | `Spec => []FilesNotShared` | `FileInv` |
| `TransactionProofs!NewComplete` | `Spec => []NewMailComplete` | `FileInv` |
| `TransactionProofs!CountIsRight` | `Spec => []MailsCounted` | `FileInv`: a mail delivered has a number of its own |
| `TransactionProofs!OwnersChangeFiles` | `Spec => OnlyOwnerChangesFile` | `FileInv`, by the kind of step |
| `TransactionProofs!QueuedIsDelivered` | `Spec => QueuedMeansDelivered` | `FileInv` |
| `TransactionProofs!MailsArriveOnce` | `Spec => DeliversOnlyEnded` | `FileInv` |
| `TransactionProofs!OnlyNamed` | `Spec /\ []NoForeignRecipient => []OnlyNamedRecipients` | `StrictInv` |
| `TransactionProofs!Refines` | `Spec /\ []NoForeignRecipient => TransactionSpec` | `StrictInv`; refinement, step by step |
| `SupervisionProofs!SupervisionTypes` | `SupervisionSpec => []SupervisionTypeOK` | `LoginInv` |
| `SupervisionProofs!LoginNeedsBothWords` | `SupervisionSpec => []LoggedInByTwoWords` | `LoginInv` |
| `SupervisionProofs!UsersTold`, `BytesTold` | `SupervisionSpec => []ToldUsers`, `[]ToldBytes` | `ToldInv`, over every step of `SmtpServer` |
| `MailFilesProofs!TypeCorrect` | `Spec => []TypeOK` | `FilesInv` |
| `MailFilesProofs!NewHoldsWholeMail` | `Spec => []NewIsWhole` | `FilesInv` |
| `MailFilesProofs!AnsweredMailIsInNew` | `Spec => []AnsweredIsInNew` | `FilesInv` |
| `MailFilesProofs!NewIsForGood` | `Spec => NewIsKept` | `FilesInv`, by action |
| `SelectorProofs!TypeCorrect`, `TableIsRight` | `Spec => []TypeOK`, `Spec => []TableAgrees` | by action |
| `SelectorProofs!EventsAreFresh` | `Spec => []NoStaleEvent` | `Dispatch` |
| `SelectorProofs!WakeupsArrive` | `Spec => []NoLostWakeup` | `JobsSignalled` |
| `BufferProofs!TypeCorrect` | `Spec => []TypeOK` | the pointers bound what is given out |
| `BufferProofs!PointersInOrder`, `EmptyRewound`, `BufferIsQueue` | `[](read <= write <= Capacity)`, `[]EmptyIsRewound`, `Spec => QueueSpec` | refinement, step by step |
| `DataProofs!EndsOnlyAtTerminator` | `Spec => []DoneAtTerminator` | `Held[state]` is what the input ends with |
| `DataProofs!OnlyTheExcessIsLost` | `Spec => []OnlyExcessLost` | `LossInv` |
| `DataProofs!FourBytesOver` | `Spec => [](handling => Fill <= BufferSize + 4)` | `LossInv`: a state holds back four bytes at most |
| `RequestProofs!TypeCorrect`, `CommandSpelled`, `OverAtLineEnd` | `Spec => []TypeOK`, `[]CommandAsSpelled`, `[]DoneAtLineEnd` | `LineInv` |

Assumptions. `AddressAssumption`: the addresses of the domain and the others
are different sets, and the empty argument is no address. `ClientAssumption`:
finitely many remote ends at a time (there are finitely many descriptors).
`BoundAssumption`: the limits are natural numbers. `NodesAssumption`: every mail
has at least one recipient, as `TransactionOrder` says of those that get to
their data. `DescriptorAssumption`: the table has room for the two sockets and
is not larger than the descriptors a process may have. `JobAssumption`:
the bounds of `Selector` are natural numbers. `CapacityAssumption`: a buffer has
at least one byte, `SizeAssumption`: so have the two arrays of `DataParser`.
`RoomAssumption`: `domain` is the end of a `struct request` of at most 255 bytes,
which a `uint8_t` can index.

The inductive invariants.

- `TypeOK` of `SmtpProperties` is not inductive: `smtp_done` decrements
  `current_users`, which stays a natural number only because every open
  connection has been counted. `TypeInv` adds `UsersCovered`:
  `Cardinality(Open) <= current_users`. It is an inequality because a
  connection the selector refuses is counted and never counted out.
- `LimitKept` needs both: `Accept` serves a new connection only when
  `current_users < max_user`, and `Served` is within `Open`, which
  `current_users` covers.
- `DispatchSafe` is inductive over `TypeInv`; the only read handler that keeps
  its state is that of the data, which changes neither interest nor reply.
- `OrderInv` says of each connection what it remembers of its dialogue while a
  reply is under way. The write handlers decide the next state from the request
  kept in the parser, so the invariant has to tie that request to the sender
  and the addresses answered 250 before the reply is gone.
- `FileInv` adds to `OrderInv` what ties the lists to the files: `Matches` (the
  nodes of a connection in its data have each a file of their own, with what was
  received), `OneNumber` (they are all the files of one mail, and only they),
  `NumbersBelow` (so the next mail's number is new) and `Receiving` (the data
  parser starts again with each mail, so that none is over before its end came). `FilesMatchRecipients`, `FilesNotShared` and
  `NewMailComplete` are not inductive one by one: that a write touches no other
  list's file needs the second, that a rename leaves no half mail the first, and
  that nobody renames a file twice the third. The proof first sorts the handlers
  into the few things a step can do to a mail (`MailStep`: it talks, creates
  files, takes lines or delivers), and from there on never looks at a handler
  again.
- `StrictInv` adds to `FileInv` that the list is empty wherever no recipient has
  been accepted since `MAIL FROM`, and holds nobody else later. It is kept by
  every step but the one of `foreign_rcpt` (section 5), which leaves a recipient
  of another domain in the list of a connection that starts over; hence the
  hypothesis `[]NoForeignRecipient` of `OnlyNamed` and `Refines`. It holds in
  every behaviour when `Foreign` is empty, as in the run `delivery`, and in any
  other up to the first foreign recipient accepted. Without it both are false, and TLC
  finds a counterexample to each with one foreign address.
  `MailsArriveOnce` is what remains true without it: deliveries still happen one
  mail at a time, once, whole and to at least those named.
- `Refines` maps each kind of step to one of `MailTransaction` or a stutter. The
  step that renames the list is `Deliver`: the files of a connection are all of
  its mail's (`OneNumber`), so `delivered` grows by exactly one mail, to the
  recipients of the list, which `StrictInv` says are those named.
- `LineInv` adds to the two invariants of `RequestParser` that the states behind
  a verb remember which one was spelled, and that `request_cr` already has the
  command of its line. In the state `verb` after a CR alone the command of the
  line broken off is still there; no invariant could exclude it, and none has to,
  since the next error or whole command replaces it before the line ends.
- `LoginInv`: `rights[p]` is a function of the state of the node.
  `ToldInv` makes an equation of `UsersCovered`: what `current_users` has over
  the open connections is what the selector refused. Its step lemma goes through
  every action of `SmtpServer`, each either an arrival, an end or neither.
- `FilesInv` says of a copy, while its connection can write to it, that header
  and pieces in the file and in the pipe are one more than the pieces taken,
  unless a write was missed (`Following`); and from the reply on, that the file
  has them all, or will when its child has read the rest (`Complete`). Without
  the bound on `written + piped` of a child that outlives its connection the
  type is not inductive. `Halted` is the lemma for all ends of the process: they
  may leave copies that no longer follow, but only of mails that have not ended,
  and those are not in `new`.
- `TableAgrees` is inductive with the type, for any size of the table.
  `Dispatch` adds to `NoStaleEvent` that the sets waited on are those of the
  table and that nobody asks for both events at once: without the last, a hang-up
  in a read handler would leave a write bit behind. `JobsSignalled` says that a
  job on the list is behind a signal pending or about to be raised, unless the
  loop is about to run the notifications.
- `Buffer`'s invariant is the order of the pointers, the type of the array and
  `EmptyIsRewound`, which is what makes "an emptied buffer has all its room" of
  the queue true after a reset or a read of the last byte.
- `LossInv` counts what the current piece has for `data_buffer` (`Fill`: what is
  there, held back or still to be consumed). `OnlyExcessLost` is not inductive,
  because a byte is lost long after the piece that was too long came; what is
  constant while a piece is consumed is the sum of the bytes missing and
  `Over(Fill)`, those this piece can still lose. As long as nothing was too long
  `Fill` fits, no byte is dropped, and `Found = body` goes on.

Every safety property a passing run checks is also a theorem, `OnlyNamedRecipients`
and `TransactionSpec` under the hypothesis above. The run `supervision` checks
`ServedWithinLimit` and `RejectedStayRejected` again, around a smaller limit;
`LimitKept` and `TurnedAway` are about `SmtpServer`, whose variables a datagram
does not change. The type of `DataParser` is proved as well (`DataProofs!TypeCorrect`),
but says little: that `data_buffer` keeps its size is what `Written` drops bytes for.

Only model-checked: liveness (`EveryLineTaken`, `EveryReplySent`,
`EndedMailDelivered`, `EventsServed`, `SigtermStops`, `ChildrenFinish`), which is
out of the prover's reach, and the counterexamples of section 5.

## 5. What the code does otherwise than it says

Each of these is a run in which TLC finds a counterexample to what a text of the
repository says of the program.

| run | property | what happens |
|---|---|---|
| `foreign_rcpt` | `NoForeignRecipient` | after a first recipient, `DATA_READ` adds another one without `check_email_domain` |
| `pipelining` | `PipelinedLinesTaken` | the second of two lines received together waits in `read_buffer` until the client sends again, though EHLO announces PIPELINING |
| `body_blank` | `TerminatorEnds` | a blank line before the final dot hides the terminator |

`EveryLineTaken` in `progress` and `PipelinedLinesTaken` in `pipelining` are one
formula. It holds for clients that wait for each reply and fails for clients
that do not.

The models do as the code also in these, which no run is spent on. Of the
connections:

- after the foreign recipient of `foreign_rcpt`, `rcpt_to_write`
  (`smtpnio.c:455`) goes back to `RCPT_TO_READ`, where `DATA` is answered
  "503 ... RCPT TO command must precede DATA command" although recipients were
  accepted; they stay in the list for the next mail of the connection, so
  `OnlyNamedRecipients` is checked with local addresses only;
- the -1 of a failed `recv` is added to `transferred_bytes` (`smtpnio.c:162`);
  `ToldBytes` says how far below zero it can go;
- a connection the selector refuses stays in `current_users`
  (`smtpnio.c:776`); `ToldUsers` says by how much the number is too high;
- connections answered 554 that do not leave count towards the limit
  (`smtpnio.c:749`);
- an `accept` that fails ends the process (`smtpnio.c:736`): `PassiveAccept` of
  `Selector` goes to `"crashed"`.

Of the mail files:

- a connection lost during its data leaves the descriptors of its files open
  (`smtpnio.c:701`); with transformations, those that are pipes keep their
  child waiting and delay every child forked before, until the server ends;
- the rename does not wait for the child, so a copy is in `new` before it is
  written (`rcpt_to_list.c:58`), and what a failing child leaves is delivered;
- a write to the pipe of a child that is gone raises SIGPIPE, which ends the
  server; nobody waits for children;
- a write that fails is passed over, and the mail delivered without that piece
  (`rcpt_to_list.c:81`);
- `transon` and `transoff` do not reach connections already open
  (`smtpnio.c:756`);
- an address of 40 bytes or more is cut to 39 (`rcpt_to_list.c:20`).

Of the parsers and the supervision:

- a first line of a single dot does not end the data: `data_parser_init` starts
  in `data_data`, while `data.h:25` marks `data_crlf` as the initial state;
- a `recv` that fills `read_buffer` behind bytes held back overflows
  `data_buffer`, which is as large, and up to four last bytes of the piece are
  dropped (`buffer.c:93`), though `data.h:19` says that the byte behind a CR is
  written with it. With buffers of 4: CR, then a
  piece `x x x x`; the file gets `CR x x x`. "No byte is lost" is therefore false
  at the sizes of the code: TLC refutes `Found = body` as an invariant of the instance
  of `body`, and finds all four bytes of an excess of four missing in it.
  `OnlyExcessLost` says what is true instead;
- the bytes of an argument are stored without asking for room (`request.c:555`, 569,
  588, 602, 638, 687), and behind a CR alone from where the argument before ended:
  `RequestParser` goes to `overrun` where they miss `struct request`;
- a CR where a domain or a `>` is missing is swallowed by the rule that finds
  the error, so that line does not end and gets no reply (`request.c:548`);
- a wrong command line ends in `request_done`, where `request_test.c:61`
  expects `request_error`;
- the words of the supervision are compared over the bytes received
  (`udpserver.c:98`): with the CRLF that the `nc -C` of the user's README sends
  none is right, and any beginning of `user` without a newline is;
- `max` is tested where the command cannot be `max`, and an unknown command is
  answered with the number `rta` was left with (`udpserver.c:200`).

## 6. What is not modelled, and the plan

Not modelled for good: `args.c`, `netutils.c` and the start-up in `main.c`
(input, output and formatting), `parser.c` and `parser_utils.c` (linked, and
called by no handler), allocation failures, the bytes of a command's argument
and what the program does once they have overwritten the parser, `set_max_users`
(no reachable call), the formatting of replies and log lines.

Left out of a model that has the rest: a `send` that takes part of a reply, and
with it the banner that is copied again on every write event
(`smtpnio.c:184`); a pipe that is full, which blocks the whole server in
`write_to_files` until its child reads; blocking jobs beyond the contract of
`selector.h`, since `smtpd` starts none.

What would come next, in order:

1. `ReplyWriter`: `write_status` and the two banner handlers with sends of any
   length, refining "the reply leaves whole, once and in order", with its proof;
2. the full pipe in `MailFiles`, with the liveness it endangers;
3. a version of `MailTransaction` for connections that carry a foreign recipient
   over, refined without the hypothesis.
