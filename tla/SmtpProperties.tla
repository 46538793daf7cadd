--------------------------- MODULE SmtpProperties ---------------------------
(***************************************************************************)
(* What SmtpServer has to keep: its type, the invariants that make the     *)
(* dialogue and the delivery correct, what a step may not do, and what     *)
(* must eventually happen.                                                 *)
(***************************************************************************)
EXTENDS SmtpServer

LineSeqs == Seq(Lines)

Node == [email : Emails, file : Nat]

Session ==
  [stm : States \cup {"CLOSED"}, interest : {"NOOP", "READ", "WRITE"},
   read_buffer : LineSeqs, request : Lines \cup {NoRequest},
   write_buffer : Replies, mailfrom : Senders \cup {NoAddress},
   rcpt_list : Seq(Node), data_parser : {"data_data", "data_done"},
   named : SUBSET Emails, body : Nat]

File ==
  [email : Emails, from : Senders \cup {NoAddress}, mail : Nat,
   dir : {"tmp", "new"}, open : BOOLEAN, body : Nat, ended : BOOLEAN]

\* Every variable has its type; only transferred_bytes may be negative.
TypeOK ==
  /\ smtp \in [Clients -> Session]
  /\ wire \in [Clients -> LineSeqs]
  /\ peer \in [Clients -> {"none", "up", "eof", "reset"}]
  /\ files \in Seq(File)
  /\ current_users \in Nat /\ historic_users \in Nat /\ mails_sent \in Nat
  /\ transferred_bytes \in Int
  /\ lines_sent \in Nat

-----------------------------------------------------------------------------
\* The states between a DATA answered 354 and the end of the transaction.
InData(s) ==
  \/ s.stm \in {"MAIL_INFO_READ", "MAIL_INFO_WRITE"}
  \/ s.stm = "DATA_WRITE" /\ s.request.verb = "data"

\* The states in which a sender has been accepted and recipients may follow.
InTransaction(s) ==
  s.stm \in {"RCPT_TO_READ", "RCPT_TO_WRITE", "DATA_READ", "DATA_WRITE",
             "MAIL_INFO_READ", "MAIL_INFO_WRITE"}

\* The selector never raises an event its state has no handler for (stm_handler_read
\* and stm_handler_write abort), and never waits to write with nothing to write
\* (write_status would close a healthy connection): the interest registered, the
\* state and the write buffer move together through every handler.
DispatchSafe ==
  \A c \in Clients :
    /\ smtp[c].interest = "READ" <=> smtp[c].stm \in ReadStates
    /\ smtp[c].interest = "WRITE" <=> smtp[c].stm \in ReplyStates \cup BannerStates
    /\ smtp[c].write_buffer # "" <=> smtp[c].stm \in ReplyStates

\* From the 354 to the end of the transaction, and only then, each recipient has
\* a file of its own, open under tmp/, made for its mailbox and its sender, and
\* holding exactly the body lines received so far.
FilesMatchRecipients ==
  \A c \in Clients : LET s == smtp[c] IN
    IF InData(s)
      THEN /\ s.rcpt_list # <<>>
           /\ \A i \in DOMAIN s.rcpt_list :
                LET node == s.rcpt_list[i] IN
                /\ node.file \in DOMAIN files
                /\ files[node.file].email = node.email
                /\ files[node.file].from = s.mailfrom
                /\ files[node.file].dir = "tmp" /\ files[node.file].open
                /\ files[node.file].body = s.body
                /\ files[node.file].ended <=> s.stm = "MAIL_INFO_WRITE"
           /\ \A i, j \in DOMAIN s.rcpt_list :
                s.rcpt_list[i].file = s.rcpt_list[j].file => i = j
      ELSE FilesOf(s) = {}

\* Two connections never write to the same file.
FilesNotShared ==
  \A c, d \in Clients :
    FilesOf(smtp[c]) \cap FilesOf(smtp[d]) # {} => c = d

\* A file reaches new/ only closed and with its whole body; and a mail whose end
\* was received is in new/ or about to be renamed, even when its client is gone.
NewMailComplete ==
  \A i \in DOMAIN files :
    /\ files[i].dir = "new" => files[i].ended /\ ~files[i].open
    /\ files[i].ended /\ files[i].dir = "tmp" =>
         \E c \in Clients : smtp[c].stm = "MAIL_INFO_WRITE" /\ i \in FilesOf(smtp[c])

\* Every address answered 250 since the last MAIL FROM is in the list the mail
\* will be delivered to.
AckedRecipientsKept ==
  \A c \in Clients :
    InTransaction(smtp[c]) => smtp[c].named \subseteq EmailsOf(smtp[c])

\* A mail goes to nobody who was not named since its MAIL FROM: no recipient of an
\* earlier mail of the connection is left in the list (while all addresses are local).
OnlyNamedRecipients ==
  \A c \in Clients :
    InTransaction(smtp[c]) => EmailsOf(smtp[c]) \subseteq smtp[c].named

\* DATA is reached only after a MAIL FROM and, since that MAIL FROM, a RCPT TO
\* for a mailbox of the domain were both answered 250.
TransactionOrder ==
  \A c \in Clients :
    smtp[c].stm \in {"DATA_READ", "DATA_WRITE", "MAIL_INFO_READ", "MAIL_INFO_WRITE"}
      => smtp[c].mailfrom \in Senders /\ smtp[c].named \cap Local # {}

\* "mail" is the number of mails delivered, whatever the number of recipients.
MailsCounted ==
  mails_sent = Cardinality({files[i].mail : i \in {j \in DOMAIN files : files[j].dir = "new"}})

\* No more connections are served at once than max_user allows.
ServedWithinLimit == Cardinality(Served) <= MaxUsers

-----------------------------------------------------------------------------
\* A connection answered 554 is never served later: it stays turned away until it is closed.
RejectedStayRejected ==
  [][\A c \in Rejected : c \in Rejected' \/ c \notin Open']_vars

\* A file changes only by a step of the connection receiving its body: a file in
\* new/, or one left behind by a lost connection, never changes again.
OnlyOwnerChangesFile ==
  [][\A i \in DOMAIN files : files'[i] # files[i] =>
       \E c \in Clients :
         /\ i \in FilesOf(smtp[c])
         /\ smtp[c].stm \in {"MAIL_INFO_READ", "MAIL_INFO_WRITE"}]_vars

\* When "250 Ok: queued" has been sent, each recipient named since MAIL FROM has
\* in new/ a file with that sender and the whole body that was received.
QueuedMeansDelivered ==
  [][\A c \in Clients :
       smtp[c].stm = "MAIL_INFO_WRITE" /\ smtp'[c].stm = "MAIL_FROM_READ" =>
         \A a \in smtp[c].named : \E i \in FilesOf(smtp[c]) :
           /\ files'[i].email = a /\ files'[i].from = smtp[c].mailfrom
           /\ files'[i].dir = "new" /\ files'[i].body = smtp[c].body]_vars

-----------------------------------------------------------------------------
(***************************************************************************)
(* The transaction of a connection and the mails in new/, as               *)
(* MailTransaction has them.                                               *)
(***************************************************************************)
Stage(s) ==
  CASE InData(s) /\ s.stm = "MAIL_INFO_WRITE" -> "queued"
    [] InData(s) /\ s.stm # "MAIL_INFO_WRITE" -> "data"
    [] ~InData(s) /\ InTransaction(s) -> "open"
    [] s.stm = "MAIL_FROM_WRITE" /\ s.request.verb = "mail" -> "open"
    [] OTHER -> "none"

Transaction(s) ==
  [stage |-> Stage(s),
   from |-> IF Stage(s) = "none" THEN NoAddress ELSE s.mailfrom,
   to |-> IF Stage(s) = "none" THEN {} ELSE s.named,
   body |-> IF InData(s) THEN s.body ELSE 0]

DeliveredMail(i) ==
  [number |-> files[i].mail, from |-> files[i].from,
   to |-> {files[j].email : j \in {k \in DOMAIN files :
                                    files[k].mail = files[i].mail /\ files[k].dir = "new"}},
   body |-> files[i].body]

Mail == INSTANCE MailTransaction WITH
  tx <- [c \in Clients |-> Transaction(smtp[c])],
  delivered <- {DeliveredMail(i) : i \in {j \in DOMAIN files : files[j].dir = "new"}}

\* The connections, the list and the files together keep the promise of a mail
\* transaction: everything between its DATA and the renames of its copies, with other
\* connections in between and clients lost anywhere, amounts to one delivery to exactly
\* those named, and only a mail whose end has not come is given up.
TransactionSpec == Mail!Spec

-----------------------------------------------------------------------------
\* A line a client sent is eventually taken by the server or the connection is
\* over: no connection is starved by the others or forgotten by the selector.
Unread(c) == wire[c] # <<>> \/ smtp[c].read_buffer # <<>>
EveryLineTaken == \A c \in Clients : Unread(c) ~> ~Unread(c)

\* A reply owed is sent, or the connection is over.
Owes(c) == smtp[c].interest = "WRITE"
EveryReplySent == \A c \in Clients : Owes(c) ~> ~Owes(c)

\* A mail whose end was received gets to new/, even if its client leaves.
Undelivered == {i \in DOMAIN files : files[i].ended /\ files[i].dir = "tmp"}
EndedMailDelivered == Undelivered # {} ~> Undelivered = {}

-----------------------------------------------------------------------------
(***************************************************************************)
(* What the repository's texts say and the code does not do.               *)
(***************************************************************************)
\* "550 Invalid domain. The domain specified does not exist" (smtpnio.c:423):
\* a recipient of another domain is refused, so no list holds one.
NoForeignRecipient ==
  \A c \in Clients : EmailsOf(smtp[c]) \cap Foreign = {}

\* "250-PIPELINING" (smtpnio.c:300): lines sent without waiting are all taken.
PipelinedLinesTaken == EveryLineTaken
=============================================================================
