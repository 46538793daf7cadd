----------------------------- MODULE SmtpServer -----------------------------
(***************************************************************************)
(* The SMTP side of smtpd: every connection accepted by                     *)
(* smtp_passive_accept, the per-connection state machine of smtpnio.c      *)
(* driven by stm.c and by the readiness events of selector.c, the          *)
(* recipient list and the mail files of rcpt_to_list.c, and the counters    *)
(* the supervision protocol reads.                                         *)
(*                                                                         *)
(* The server is one thread: each action below is one handler, run to its  *)
(* end by handle_iteration, and what interleaves is the handlers of        *)
(* different connections with what the clients and the network do.         *)
(*                                                                         *)
(* Abstraction.  A line of input, terminated by CRLF, is one record and is *)
(* received whole: a recv that ends inside a line leaves the request       *)
(* parser waiting for the rest, as if the line were still in the socket.   *)
(* A byte is a line.  Verb "helo" stands for EHLO and HELO; "text" for a   *)
(* line the request parser answers with request_command_unknown; "eod" for *)
(* the bytes that bring the data parser to data_done, which the request    *)
(* parser takes for unknown too.  A send moves the whole reply.            *)
(*                                                                         *)
(* A definition whose comment starts with MUTANT is a faulty variant of    *)
(* the one after it; no specification uses it.                             *)
(***************************************************************************)
EXTENDS Integers, Sequences, FiniteSets

CONSTANTS
  Clients,         \* the remote ends that connect, each to one socket at a time
  Local,           \* recipient addresses of DOMAIN
  Foreign,         \* recipient addresses of any other domain
  Senders,         \* arguments of MAIL FROM
  NoAddress,       \* the argument of a command that takes none
  MaxUsers,        \* max_user
  SelectorSlots,   \* descriptors left below ITEMS_MAX_SIZE for connections and files
  Pipelining,      \* may a client send before the previous reply reached it
  MaxConnections,  \* bound: connections accepted in a behaviour
  MaxLines,        \* bound: lines sent in a behaviour
  MaxWire          \* bound: lines sent and not yet received, per client

Emails == Local \cup Foreign

ASSUME AddressAssumption ==
  /\ Local \cap Foreign = {}
  /\ NoAddress \notin Emails \cup Senders
ASSUME ClientAssumption == IsFiniteSet(Clients)
ASSUME BoundAssumption ==
  /\ {MaxUsers, SelectorSlots, MaxConnections, MaxLines, MaxWire} \subseteq Nat
  /\ Pipelining \in BOOLEAN

Lines == [verb : {"helo", "data", "quit", "text", "eod"}, arg : {NoAddress}]
           \cup [verb : {"mail"}, arg : Senders]
           \cup [verb : {"rcpt"}, arg : Emails]

\* What request_parser_init leaves: no command, an empty argument.
NoRequest == [verb |-> "noop", arg |-> NoAddress]

CommandStates == {"FAILED_CONNECTION_READ", "EHLO_READ", "MAIL_FROM_READ",
                  "RCPT_TO_READ", "DATA_READ"}
ReadStates == CommandStates \cup {"MAIL_INFO_READ"}
\* States that write_status empties the write buffer in.
ReplyStates == {"EHLO_WRITE", "MAIL_FROM_WRITE", "RCPT_TO_WRITE", "DATA_WRITE",
                "MAIL_INFO_WRITE"}
\* States whose handler composes its message itself.
BannerStates == {"GREETING_WRITE", "FAILED_CONNECTION_WRITE"}
States == ReadStates \cup ReplyStates \cup BannerStates

Replies == {"", "250", "250 mail", "250 rcpt", "250 queued", "354", "500",
            "503 mail", "503 rcpt", "550"}

VARIABLES
  smtp,               \* Clients -> struct smtp of the connection, or Closed
  wire,               \* Clients -> lines sent and not yet received, in order
  peer,               \* Clients -> what the socket knows of the other end
  files,              \* the mail files ever created, in order of creation
  current_users, historic_users, transferred_bytes, mails_sent,
  lines_sent          \* bound on the lines the clients send

vars == <<smtp, wire, peer, files, current_users, historic_users,
          transferred_bytes, mails_sent, lines_sent>>
counters == <<current_users, historic_users, mails_sent>>

(***************************************************************************)
(* struct smtp.  rcpt_list is newest first, a node's file is an index in   *)
(* files (0: not created).  Two fields are not in the code: named, the     *)
(* addresses answered 250 since the last MAIL FROM that was answered 250,  *)
(* and body, the body lines received since the last 354.                   *)
(***************************************************************************)
Closed == [stm |-> "CLOSED", interest |-> "NOOP", read_buffer |-> <<>>,
           request |-> NoRequest, write_buffer |-> "", mailfrom |-> NoAddress,
           rcpt_list |-> <<>>, data_parser |-> "data_data",
           named |-> {}, body |-> 0]

Fresh(initial) == [Closed EXCEPT !.stm = initial, !.interest = "WRITE"]

Open == {c \in Clients : smtp[c].stm # "CLOSED"}
Rejected == {c \in Open : smtp[c].stm \in {"FAILED_CONNECTION_WRITE",
                                           "FAILED_CONNECTION_READ"}}
Served == Open \ Rejected
FilesOf(s) == {s.rcpt_list[i].file : i \in DOMAIN s.rcpt_list} \ {0}
EmailsOf(s) == {s.rcpt_list[i].email : i \in DOMAIN s.rcpt_list}
\* Descriptors held by connections and mail files.
InUse == Cardinality(Open) + Cardinality({i \in DOMAIN files : files[i].open})

Init ==
  /\ smtp = [c \in Clients |-> Closed]
  /\ wire = [c \in Clients |-> <<>>]
  /\ peer = [c \in Clients |-> "none"]
  /\ files = <<>>
  /\ current_users = 0 /\ historic_users = 0
  /\ transferred_bytes = 0 /\ mails_sent = 0
  /\ lines_sent = 0

-----------------------------------------------------------------------------
(***************************************************************************)
(* Accepting.  The counters go up before selector_register, which refuses  *)
(* a descriptor of ITEMS_MAX_SIZE or more.                                 *)
(***************************************************************************)
\* MUTANT: off by one.
InitialStateAtMost == IF current_users <= MaxUsers THEN "GREETING_WRITE"
                                                   ELSE "FAILED_CONNECTION_WRITE"

InitialState == IF current_users < MaxUsers THEN "GREETING_WRITE"
                                            ELSE "FAILED_CONNECTION_WRITE"

Accept(c) ==
  /\ smtp[c].stm = "CLOSED"
  /\ historic_users < MaxConnections
  /\ current_users' = current_users + 1
  /\ historic_users' = historic_users + 1
  /\ \/ /\ smtp' = [smtp EXCEPT ![c] = Fresh(InitialState)]
        /\ peer' = [peer EXCEPT ![c] = "up"]
     \/ /\ InUse >= SelectorSlots
        /\ UNCHANGED <<smtp, peer>>
  /\ UNCHANGED <<wire, files, transferred_bytes, mails_sent, lines_sent>>

\* MUTANT: the connection is not counted out.
DoneUncounted(c) ==
  /\ smtp' = [smtp EXCEPT ![c] = Closed]
  /\ peer' = [peer EXCEPT ![c] = "none"]
  /\ UNCHANGED <<current_users, historic_users, lines_sent>>

\* MUTANT: counted out by the read event and by the write event.
DoneTwice(c) ==
  /\ smtp' = [smtp EXCEPT ![c] = Closed]
  /\ peer' = [peer EXCEPT ![c] = "none"]
  /\ current_users' = current_users - 2
  /\ UNCHANGED <<historic_users, lines_sent>>

(***************************************************************************)
(* smtp_done: unregister, free the list, close the socket.  The            *)
(* descriptors of the files in the list are not closed.                    *)
(***************************************************************************)
Done(c) ==
  /\ smtp' = [smtp EXCEPT ![c] = Closed]
  /\ peer' = [peer EXCEPT ![c] = "none"]
  /\ current_users' = current_users - 1
  /\ UNCHANGED <<historic_users, lines_sent>>

-----------------------------------------------------------------------------
(***************************************************************************)
(* Reading.  pselect reports the socket readable when it holds input, the  *)
(* end of the stream or an error; read_status receives only when nothing   *)
(* is left in read_buffer.                                                 *)
(***************************************************************************)
ReadReady(c, st) ==
  /\ smtp[c].stm = st
  /\ smtp[c].interest = "READ"
  /\ wire[c] # <<>> \/ peer[c] # "up"

\* How many lines recv may return; none when read_buffer still holds some.
Reads(c) == IF smtp[c].read_buffer # <<>> THEN {0} ELSE 1..Len(wire[c])
Input(c, n) == smtp[c].read_buffer \o SubSeq(wire[c], 1, n)
Line(c, n) == Head(Input(c, n))

Receive(c, n) ==
  /\ transferred_bytes' = transferred_bytes + n
  /\ wire' = [wire EXCEPT ![c] = SubSeq(@, n + 1, Len(@))]

\* MUTANT: the connection stays open.
ReadFailsOpen(c, st) ==
  /\ ReadReady(c, st)
  /\ smtp[c].read_buffer = <<>> /\ wire[c] = <<>> /\ peer[c] = "reset"
  /\ transferred_bytes' = transferred_bytes - 1
  /\ UNCHANGED <<smtp, peer, wire, files, counters, lines_sent>>

\* recv found the end of the stream (0) or a reset (-1): ERROR.
ReadFails(c, st) ==
  /\ ReadReady(c, st)
  /\ smtp[c].read_buffer = <<>> /\ wire[c] = <<>>
  /\ transferred_bytes' = transferred_bytes - (IF peer[c] = "reset" THEN 1 ELSE 0)
  /\ Done(c)
  /\ UNCHANGED <<wire, files, mails_sent>>

\* MUTANT: the line stays in the read buffer.
AnsweredUnread(c, n, next, code) ==
  [smtp[c] EXCEPT !.stm = next, !.interest = "WRITE", !.write_buffer = code,
                  !.request = Line(c, n), !.read_buffer = Input(c, n)]

(***************************************************************************)
(* One command line taken from the input, its reply composed.              *)
(***************************************************************************)
Answered(c, n, next, code) ==
  [smtp[c] EXCEPT !.stm = next, !.interest = "WRITE", !.write_buffer = code,
                  !.request = Line(c, n), !.read_buffer = Tail(Input(c, n))]

Answer(c, n, next, code) ==
  /\ smtp' = [smtp EXCEPT ![c] = Answered(c, n, next, code)]
  /\ Receive(c, n)
  /\ UNCHANGED <<peer, files, counters, lines_sent>>

\* QUIT: "221 Bye" goes out if it can, and the connection is over.
Quit(c, n) ==
  /\ Line(c, n).verb = "quit"
  /\ transferred_bytes' = transferred_bytes + n
  /\ wire' = [wire EXCEPT ![c] = <<>>]
  /\ Done(c)
  /\ UNCHANGED <<files, mails_sent>>

FailedConnectionRead(c) ==
  \/ ReadFails(c, "FAILED_CONNECTION_READ")
  \/ /\ ReadReady(c, "FAILED_CONNECTION_READ")
     /\ \E n \in Reads(c) :
          \/ Quit(c, n)
          \/ /\ Line(c, n).verb # "quit"
             /\ Answer(c, n, "FAILED_CONNECTION_WRITE", "")

EhloRead(c) ==
  \/ ReadFails(c, "EHLO_READ")
  \/ /\ ReadReady(c, "EHLO_READ")
     /\ \E n \in Reads(c) :
          \/ Quit(c, n)
          \/ /\ Line(c, n).verb = "helo"
             /\ Answer(c, n, "EHLO_WRITE", "250")
          \/ /\ Line(c, n).verb \notin {"helo", "quit"}
             /\ Answer(c, n, "EHLO_WRITE", "500")

\* MAIL FROM answered 250: the sender is kept, the recipient list as it was.
WithSender(c, n) ==
  [Answered(c, n, "MAIL_FROM_WRITE", "250 mail")
     EXCEPT !.mailfrom = Line(c, n).arg, !.named = {}]

MailFromRead(c) ==
  \/ ReadFails(c, "MAIL_FROM_READ")
  \/ /\ ReadReady(c, "MAIL_FROM_READ")
     /\ \E n \in Reads(c) :
          \/ Quit(c, n)
          \/ /\ Line(c, n).verb = "mail"
             /\ smtp' = [smtp EXCEPT ![c] = WithSender(c, n)]
             /\ Receive(c, n)
             /\ UNCHANGED <<peer, files, counters, lines_sent>>
          \/ /\ Line(c, n).verb = "rcpt"
             /\ Answer(c, n, "MAIL_FROM_WRITE", "503 mail")
          \/ /\ Line(c, n).verb \notin {"mail", "rcpt", "quit"}
             /\ Answer(c, n, "MAIL_FROM_WRITE", "500")

\* MUTANT: the new node is not linked to the list.
WithOnlyRcpt(c, n) ==
  [Answered(c, n, "RCPT_TO_WRITE", "250 rcpt")
     EXCEPT !.rcpt_list = <<[email |-> Line(c, n).arg, file |-> 0]>>,
            !.named = @ \cup {Line(c, n).arg}]

\* RCPT TO answered 250: create_rcpt_node, put before the list.
WithRcpt(c, n) ==
  [Answered(c, n, "RCPT_TO_WRITE", "250 rcpt")
     EXCEPT !.rcpt_list = <<[email |-> Line(c, n).arg, file |-> 0]>> \o @,
            !.named = @ \cup {Line(c, n).arg}]

AddRcpt(c, n) ==
  /\ Line(c, n).verb = "rcpt"
  /\ smtp' = [smtp EXCEPT ![c] = WithRcpt(c, n)]
  /\ Receive(c, n)
  /\ UNCHANGED <<peer, files, counters, lines_sent>>

\* check_email_domain
InDomain(email) == email \in Local

RcptToRead(c) ==
  \/ ReadFails(c, "RCPT_TO_READ")
  \/ /\ ReadReady(c, "RCPT_TO_READ")
     /\ \E n \in Reads(c) :
          \/ Quit(c, n)
          \/ InDomain(Line(c, n).arg) /\ AddRcpt(c, n)
          \/ /\ Line(c, n).verb = "rcpt" /\ ~InDomain(Line(c, n).arg)
             /\ Answer(c, n, "RCPT_TO_WRITE", "550")
          \/ /\ Line(c, n).verb = "data"
             /\ Answer(c, n, "MAIL_FROM_WRITE", "503 rcpt")
          \/ /\ Line(c, n).verb \notin {"rcpt", "data", "quit"}
             /\ Answer(c, n, "RCPT_TO_WRITE", "500")

(***************************************************************************)
(* create_mails_files: one file under tmp/ for each node.  A file records  *)
(* its mailbox, the sender of its header, the mail it belongs to (the      *)
(* files made together share it), where it is, whether its descriptor is   *)
(* open, the body lines written and whether the body is complete.          *)
(***************************************************************************)
NewFiles(s) ==
  [i \in DOMAIN s.rcpt_list |->
     [email |-> s.rcpt_list[i].email, from |-> s.mailfrom, mail |-> Len(files),
      dir |-> "tmp", open |-> TRUE, body |-> 0, ended |-> FALSE]]

\* MUTANT: file names are not unique, only positions in the list.
WithFilesByPosition(s) ==
  [s EXCEPT !.rcpt_list = [i \in DOMAIN @ |-> [@[i] EXCEPT !.file = i]],
            !.body = 0]

WithFiles(s) ==
  [s EXCEPT !.rcpt_list = [i \in DOMAIN @ |-> [@[i] EXCEPT !.file = Len(files) + i]],
            !.body = 0]

CreateMailsFiles(c, n) ==
  /\ Line(c, n).verb = "data"
  /\ smtp' = [smtp EXCEPT ![c] = WithFiles(Answered(c, n, "DATA_WRITE", "354"))]
  /\ files' = files \o NewFiles(smtp[c])
  /\ Receive(c, n)
  /\ UNCHANGED <<peer, counters, lines_sent>>

DataRead(c) ==
  \/ ReadFails(c, "DATA_READ")
  \/ /\ ReadReady(c, "DATA_READ")
     /\ \E n \in Reads(c) :
          \/ Quit(c, n)
          \/ CreateMailsFiles(c, n)
          \/ AddRcpt(c, n)
          \/ /\ Line(c, n).verb \notin {"data", "rcpt", "quit"}
             /\ Answer(c, n, "DATA_WRITE", "500")

(***************************************************************************)
(* mail_info_read_process: data_consume eats the input up to the end of    *)
(* the data (the k-th line), write_to_files appends to every file.         *)
(***************************************************************************)
ConsumesTo(s, input, k) ==
  \/ s.data_parser = "data_done" /\ k = 1
  \/ /\ s.data_parser # "data_done"
     /\ \A i \in 1..(k - 1) : input[i].verb # "eod"
     /\ input[k].verb = "eod" \/ k = Len(input)

\* MUTANT: only the first node's file.
WriteToFirstFile(s, lines, ended) ==
  files' = [i \in DOMAIN files |->
              IF i = s.rcpt_list[1].file
                THEN [files[i] EXCEPT !.body = @ + lines, !.ended = ended]
                ELSE files[i]]

WriteToFiles(s, lines, ended) ==
  files' = [i \in DOMAIN files |->
              IF i \in FilesOf(s)
                THEN [files[i] EXCEPT !.body = @ + lines, !.ended = ended]
                ELSE files[i]]

BodyTaken(c, n, k) ==
  [smtp[c] EXCEPT !.read_buffer = SubSeq(Input(c, n), k + 1, Len(Input(c, n)))]

MailInfoRead(c) ==
  \/ ReadFails(c, "MAIL_INFO_READ")
  \/ /\ ReadReady(c, "MAIL_INFO_READ")
     /\ \E n \in Reads(c) : \E k \in 1..Len(Input(c, n)) :
          /\ ConsumesTo(smtp[c], Input(c, n), k)
          /\ \/ /\ smtp[c].data_parser = "data_done" \/ Input(c, n)[k].verb = "eod"
                /\ WriteToFiles(smtp[c], k - 1, Input(c, n)[k].verb = "eod")
                /\ smtp' = [smtp EXCEPT ![c] =
                     [BodyTaken(c, n, k) EXCEPT
                        !.stm = "MAIL_INFO_WRITE", !.interest = "WRITE",
                        !.write_buffer = "250 queued", !.data_parser = "data_done",
                        !.body = @ + k - 1]]
             \/ /\ smtp[c].data_parser # "data_done" /\ Input(c, n)[k].verb # "eod"
                /\ WriteToFiles(smtp[c], k, FALSE)
                /\ smtp' = [smtp EXCEPT ![c] =
                     [BodyTaken(c, n, k) EXCEPT !.body = @ + k]]
          /\ Receive(c, n)
          /\ UNCHANGED <<peer, counters, lines_sent>>

-----------------------------------------------------------------------------
(***************************************************************************)
(* Writing.  A socket that is not reset takes the whole reply; an empty    *)
(* buffer makes send return 0, which write_status takes for an error.      *)
(***************************************************************************)
WriteReady(c, st) == smtp[c].stm = st /\ smtp[c].interest = "WRITE"
Sends(c) == peer[c] # "reset" /\ smtp[c].write_buffer # ""

\* MUTANT: the interest is not changed to OP_READ.
ArrivedUninterested(s, next) ==
  [s EXCEPT !.stm = next, !.write_buffer = "",
            !.request = IF next \in CommandStates THEN NoRequest ELSE @]

\* stm jump to a state that reads: commands start from request_parser_init.
Arrived(s, next) ==
  [s EXCEPT !.stm = next, !.interest = "READ", !.write_buffer = "",
            !.request = IF next \in CommandStates THEN NoRequest ELSE @]

\* greeting_write and failed_connection_write
BannerWrite(c, st, next) ==
  /\ WriteReady(c, st)
  /\ \/ /\ peer[c] # "reset"
        /\ smtp' = [smtp EXCEPT ![c] = Arrived(@, next)]
        /\ UNCHANGED <<wire, peer, current_users, historic_users, lines_sent>>
     \/ peer[c] = "reset" /\ Done(c) /\ wire' = [wire EXCEPT ![c] = <<>>]
  /\ UNCHANGED <<files, transferred_bytes, mails_sent>>

GreetingWrite(c) == BannerWrite(c, "GREETING_WRITE", "EHLO_READ")
\* MUTANT: goes on as after the greeting.
FailedConnectionServed(c) ==
  BannerWrite(c, "FAILED_CONNECTION_WRITE", "EHLO_READ")

FailedConnectionWrite(c) ==
  BannerWrite(c, "FAILED_CONNECTION_WRITE", "FAILED_CONNECTION_READ")

\* write_status, from state st; left is the connection after on_departure.
WriteStatus(c, st, next, left) ==
  /\ WriteReady(c, st)
  /\ \/ /\ Sends(c)
        /\ smtp' = [smtp EXCEPT ![c] = Arrived(left, next)]
        /\ UNCHANGED <<wire, peer, current_users, historic_users, lines_sent>>
     \/ ~Sends(c) /\ Done(c) /\ wire' = [wire EXCEPT ![c] = <<>>]
  /\ UNCHANGED transferred_bytes

EhloWrite(c) ==
  /\ WriteStatus(c, "EHLO_WRITE",
       IF smtp[c].request.verb = "helo" THEN "MAIL_FROM_READ" ELSE "EHLO_READ",
       smtp[c])
  /\ UNCHANGED <<files, mails_sent>>

MailFromWrite(c) ==
  /\ WriteStatus(c, "MAIL_FROM_WRITE",
       IF smtp[c].request.verb = "mail" THEN "RCPT_TO_READ" ELSE "MAIL_FROM_READ",
       smtp[c])
  /\ UNCHANGED <<files, mails_sent>>

\* MUTANT: the domain is not checked again.
AfterAnyRcptTo(s) == IF s.request.verb = "rcpt" THEN "DATA_READ" ELSE "RCPT_TO_READ"

AfterRcptTo(s) ==
  IF s.request.verb = "rcpt" /\ InDomain(s.request.arg) THEN "DATA_READ"
                                                        ELSE "RCPT_TO_READ"

RcptToWrite(c) ==
  /\ WriteStatus(c, "RCPT_TO_WRITE", AfterRcptTo(smtp[c]), smtp[c])
  /\ UNCHANGED <<files, mails_sent>>

\* MUTANT: the data parser is not reset.
DataBufferKept(s) == s

\* data_buffer_init, on departure from DATA_WRITE
DataBufferInit(s) == [s EXCEPT !.data_parser = "data_data"]

DataWrite(c) ==
  /\ WriteStatus(c, "DATA_WRITE",
       IF smtp[c].request.verb = "data" THEN "MAIL_INFO_READ" ELSE "DATA_READ",
       DataBufferInit(smtp[c]))
  /\ UNCHANGED <<files, mails_sent>>

(***************************************************************************)
(* mail_info_read_close, on departure from MAIL_INFO_WRITE whether the     *)
(* reply went out or not: count the mail, close and rename every file of   *)
(* the list, free the list.                                                *)
(***************************************************************************)
\* MUTANT: only the first node.
CloseFirstFd(s) ==
  files' = [i \in DOMAIN files |->
              IF i = s.rcpt_list[1].file
                THEN [files[i] EXCEPT !.dir = "new", !.open = FALSE]
                ELSE files[i]]

\* MUTANT: everything in the tmp/ of the mailboxes of the list.
CloseFdsOfMailboxes(s) ==
  files' = [i \in DOMAIN files |->
              IF files[i].email \in EmailsOf(s)
                THEN [files[i] EXCEPT !.dir = "new", !.open = FALSE]
                ELSE files[i]]

\* MUTANT: closed and not renamed.
CloseFdsOnly(s) ==
  files' = [i \in DOMAIN files |->
              IF i \in FilesOf(s) THEN [files[i] EXCEPT !.open = FALSE] ELSE files[i]]

CloseFds(s) ==
  files' = [i \in DOMAIN files |->
              IF i \in FilesOf(s)
                THEN [files[i] EXCEPT !.dir = "new", !.open = FALSE]
                ELSE files[i]]

\* MUTANT: the list is not emptied.
RcptListKept(s) == s

FreeRcptList(s) == [s EXCEPT !.rcpt_list = <<>>]

\* MUTANT: counts recipients.
MailInfoWriteByRcpt(c) ==
  /\ WriteStatus(c, "MAIL_INFO_WRITE", "MAIL_FROM_READ", FreeRcptList(smtp[c]))
  /\ CloseFds(smtp[c])
  /\ mails_sent' = mails_sent + Len(smtp[c].rcpt_list)

MailInfoWrite(c) ==
  /\ WriteStatus(c, "MAIL_INFO_WRITE", "MAIL_FROM_READ", FreeRcptList(smtp[c]))
  /\ CloseFds(smtp[c])
  /\ mails_sent' = mails_sent + 1

-----------------------------------------------------------------------------
(***************************************************************************)
(* The clients and the network.  A client that does not pipeline sends its *)
(* next line once the server, its reply written, waits for one.            *)
(***************************************************************************)
Waits(c) ==
  smtp[c].interest = "READ" /\ smtp[c].read_buffer = <<>> /\ wire[c] = <<>>

Send(c) ==
  /\ peer[c] = "up"
  /\ Pipelining \/ Waits(c)
  /\ lines_sent < MaxLines /\ Len(wire[c]) < MaxWire
  /\ \E l \in Lines : wire' = [wire EXCEPT ![c] = Append(@, l)]
  /\ lines_sent' = lines_sent + 1
  /\ UNCHANGED <<smtp, peer, files, counters, transferred_bytes>>

\* The client closes: the server still reads what was sent, then the end.
Fin(c) ==
  /\ peer[c] = "up"
  /\ peer' = [peer EXCEPT ![c] = "eof"]
  /\ UNCHANGED <<smtp, wire, files, counters, transferred_bytes, lines_sent>>

\* The connection breaks: what was sent may be lost.
Reset(c) ==
  /\ peer[c] \in {"up", "eof"}
  /\ peer' = [peer EXCEPT ![c] = "reset"]
  /\ \/ UNCHANGED wire
     \/ wire' = [wire EXCEPT ![c] = <<>>]
  /\ UNCHANGED <<smtp, files, counters, transferred_bytes, lines_sent>>

-----------------------------------------------------------------------------
ReadHandler(c) ==
  \/ FailedConnectionRead(c) \/ EhloRead(c) \/ MailFromRead(c)
  \/ RcptToRead(c) \/ DataRead(c) \/ MailInfoRead(c)

WriteHandler(c) ==
  \/ GreetingWrite(c) \/ FailedConnectionWrite(c) \/ EhloWrite(c)
  \/ MailFromWrite(c) \/ RcptToWrite(c) \/ DataWrite(c) \/ MailInfoWrite(c)

Environment(c) == Send(c) \/ Fin(c) \/ Reset(c)

Next == \E c \in Clients :
          Accept(c) \/ ReadHandler(c) \/ WriteHandler(c) \/ Environment(c)

Spec == Init /\ [][Next]_vars

(***************************************************************************)
(* handle_iteration visits every descriptor pselect reported, so a         *)
(* connection that stays ready is served.  Nothing is asked of clients.    *)
(***************************************************************************)
FairSpec == Spec /\ \A c \in Clients : WF_vars(ReadHandler(c)) /\ WF_vars(WriteHandler(c))
=============================================================================
