----------------------------- MODULE SmtpProofs -----------------------------
(***************************************************************************)
(* Theorems about SmtpServer for any clients, addresses and bounds: type   *)
(* correctness with the user count, the limit on served users, that a      *)
(* connection turned away stays so, the agreement of interest, state and   *)
(* write buffer, the commands that precede DATA, and the recipients        *)
(* answered 250.                                                           *)
(***************************************************************************)
EXTENDS SmtpProperties, SequenceTheorems, FiniteSetTheorems, TLAPS

(***************************************************************************)
(* Facts about the operators the handlers are built from.                  *)
(***************************************************************************)
\* A function on 1..m is a sequence.
LEMMA SeqOfFunction ==
  ASSUME NEW S, NEW m \in Nat, NEW f \in [1..m -> S]
  PROVE  f \in Seq(S)
  BY SeqDef

\* A line taken by a command handler is one the client sent.
LEMMA InputType ==
  ASSUME TypeOK, NEW c \in Clients, NEW n \in Reads(c)
  PROVE  /\ n \in Nat
         /\ Input(c, n) \in LineSeqs /\ Input(c, n) # <<>>
         /\ Line(c, n) \in Lines
         /\ Tail(Input(c, n)) \in LineSeqs
<1> DEFINE r == smtp[c].read_buffer
           w == SubSeq(wire[c], 1, n)
<1>1. r \in Seq(Lines) /\ wire[c] \in Seq(Lines)
  BY DEF TypeOK, Session, LineSeqs
<1>2. n \in Nat /\ n <= Len(wire[c]) /\ (r = <<>> => n > 0)
  <2>1. Len(wire[c]) \in Nat
    BY <1>1, LenProperties
  <2>2. CASE r # <<>>
    BY <2>1, <2>2 DEF Reads
  <2>3. CASE r = <<>>
    BY <2>1, <2>3 DEF Reads
  <2> QED
    BY <2>2, <2>3
<1>3. w \in Seq(Lines) /\ Len(w) = n
  <2>1. \A i \in 1..n : wire[c][i] \in Lines
    BY <1>1, <1>2, ElementOfSeq, LenProperties
  <2> QED
    BY <1>2, <2>1, SubSeqProperties
<1>4. Input(c, n) \in Seq(Lines) /\ Len(Input(c, n)) = Len(r) + n
  BY <1>1, <1>3, ConcatProperties DEF Input
<1>5. Input(c, n) # <<>>
  <2>1. CASE r = <<>>
    BY <1>2, <1>4, <2>1, EmptySeq, LenProperties, <1>1
  <2>2. CASE r # <<>>
    <3>1. Len(r) > 0
      BY <1>1, <2>2, EmptySeq
    <3> QED
      BY <1>2, <1>4, <3>1, EmptySeq, LenProperties, <1>1
  <2> QED
    BY <2>1, <2>2
<1>6. Head(Input(c, n)) \in Lines /\ Tail(Input(c, n)) \in Seq(Lines)
  BY <1>4, <1>5, HeadTailProperties
<1> QED
  BY <1>2, <1>4, <1>5, <1>6 DEF Line, LineSeqs

\* What is left in the socket after a recv is still lines.
LEMMA ReceiveType ==
  ASSUME TypeOK, NEW c \in Clients, NEW n \in Nat, Receive(c, n)
  PROVE  wire' \in [Clients -> LineSeqs] /\ transferred_bytes' \in Int
<1>1. wire[c] \in Seq(Lines)
  BY DEF TypeOK, LineSeqs
<1>2. SubSeq(wire[c], n + 1, Len(wire[c])) \in Seq(Lines)
  <2>1. Len(wire[c]) \in Nat /\ \A i \in (n + 1)..Len(wire[c]) : wire[c][i] \in Lines
    BY <1>1, ElementOfSeq, LenProperties
  <2> QED
    BY <2>1, SubSeqProperties
<1> QED
  BY <1>2 DEF Receive, TypeOK, LineSeqs

\* A command answered leaves a well-formed connection.
LEMMA AnsweredType ==
  ASSUME TypeOK, NEW c \in Clients, NEW n \in Reads(c),
         NEW next \in States, NEW code \in Replies
  PROVE  Answered(c, n, next, code) \in Session
<1>1. smtp[c] \in Session /\ Line(c, n) \in Lines /\ Tail(Input(c, n)) \in LineSeqs
  BY InputType DEF TypeOK
<1> QED
  BY <1>1 DEF Answered, Session

\* The closed connection is well formed.
LEMMA ClosedType == Closed \in Session /\ \A st \in States : Fresh(st) \in Session
<1>1. <<>> \in LineSeqs /\ <<>> \in Seq(Node)
  BY EmptySeq DEF LineSeqs
<1>2. NoRequest \in Lines \cup {NoRequest}
  OBVIOUS
<1>3. Closed \in Session
  BY <1>1, <1>2 DEF Closed, Session, Replies
<1> QED
  BY <1>3 DEF Fresh, Closed, Session

-----------------------------------------------------------------------------
(***************************************************************************)
(* Type correctness.  current_users stays a natural number because it      *)
(* counts at least the open connections, so the two go together.           *)
(***************************************************************************)
UsersCovered == Cardinality(Open) <= current_users
TypeInv == TypeOK /\ UsersCovered

\* What a handler that answers, closes or moves on leaves: a well-formed
\* connection, the others as they were, the count going with the open ones.
StepOf(c) ==
  \/ /\ smtp[c].stm # "CLOSED" /\ current_users' = current_users
     /\ \E s \in Session : s.stm # "CLOSED" /\ smtp' = [smtp EXCEPT ![c] = s]
  \/ /\ smtp[c].stm # "CLOSED" /\ current_users' = current_users - 1
     /\ smtp' = [smtp EXCEPT ![c] = Closed]
  \/ /\ smtp[c].stm = "CLOSED" /\ current_users' = current_users + 1
     /\ \/ smtp' = smtp
        \/ smtp' = [smtp EXCEPT ![c] = Fresh(InitialState)]
  \/ smtp' = smtp /\ current_users' = current_users

\* The types of what is left.
RestOK ==
  /\ wire \in [Clients -> LineSeqs]
  /\ peer \in [Clients -> {"none", "up", "eof", "reset"}]
  /\ files \in Seq(File)
  /\ historic_users \in Nat /\ mails_sent \in Nat
  /\ transferred_bytes \in Int
  /\ lines_sent \in Nat

LEMMA FiniteOpen == IsFiniteSet(Open) /\ Cardinality(Open) \in Nat
  BY ClientAssumption, FS_Subset, FS_CardinalityType DEF Open

LEMMA StepOfType ==
  ASSUME TypeInv, NEW c \in Clients, StepOf(c), RestOK'
  PROVE  TypeInv'
<1>1. IsFiniteSet(Open) /\ Cardinality(Open) \in Nat
  BY FiniteOpen
<1>2. smtp \in [Clients -> Session] /\ current_users \in Nat /\ UsersCovered
  BY DEF TypeInv, TypeOK
<1>3. Closed \in Session /\ Fresh(InitialState) \in Session
  BY ClosedType DEF InitialState, States, BannerStates
<1>4. CASE /\ smtp[c].stm # "CLOSED" /\ current_users' = current_users
           /\ \E s \in Session : s.stm # "CLOSED" /\ smtp' = [smtp EXCEPT ![c] = s]
  <2>1. smtp' \in [Clients -> Session] /\ Open' = Open
    BY <1>2, <1>4 DEF Open
  <2> QED
    BY <1>2, <1>4, <2>1 DEF TypeInv, TypeOK, RestOK, UsersCovered
<1>5. CASE /\ smtp[c].stm # "CLOSED" /\ current_users' = current_users - 1
           /\ smtp' = [smtp EXCEPT ![c] = Closed]
  <2>1. smtp' \in [Clients -> Session] /\ Open' = Open \ {c} /\ c \in Open
    BY <1>2, <1>3, <1>5 DEF Open, Closed
  <2>2. Cardinality(Open') = Cardinality(Open) - 1
    BY <1>1, <2>1, FS_RemoveElement
  <2>3. current_users' \in Nat /\ UsersCovered'
    <3>1. Cardinality(Open) >= 1
      BY <1>1, <2>1, FS_EmptySet
    <3> QED
      BY <1>1, <1>2, <1>5, <2>2, <3>1 DEF UsersCovered
  <2> QED
    BY <2>1, <2>3 DEF TypeInv, TypeOK, RestOK
<1>6. CASE smtp[c].stm = "CLOSED" /\ current_users' = current_users + 1 /\ smtp' = smtp
  <2>1. Open' = Open
    BY <1>6 DEF Open
  <2> QED
    BY <1>1, <1>2, <1>6, <2>1 DEF TypeInv, TypeOK, RestOK, UsersCovered
<1>7. CASE /\ smtp[c].stm = "CLOSED" /\ current_users' = current_users + 1
           /\ smtp' = [smtp EXCEPT ![c] = Fresh(InitialState)]
  <2>1. smtp' \in [Clients -> Session] /\ Open' = Open \cup {c} /\ c \notin Open
    BY <1>2, <1>3, <1>7 DEF Open, Fresh, Closed, InitialState
  <2>2. Cardinality(Open') = Cardinality(Open) + 1
    BY <1>1, <2>1, FS_AddElement
  <2> QED
    BY <1>1, <1>2, <1>7, <2>1, <2>2 DEF TypeInv, TypeOK, RestOK, UsersCovered
<1>8. CASE smtp' = smtp /\ current_users' = current_users
  <2>1. Open' = Open
    BY <1>8 DEF Open
  <2> QED
    BY <1>2, <1>8, <2>1 DEF TypeInv, TypeOK, RestOK, UsersCovered
<1> QED
  BY <1>4, <1>5, <1>6, <1>7, <1>8 DEF StepOf

LEMMA AnswerStep ==
  ASSUME TypeOK, NEW c \in Clients, NEW n \in Reads(c), smtp[c].stm # "CLOSED",
         NEW next \in States, NEW code \in Replies, Answer(c, n, next, code)
  PROVE  StepOf(c) /\ RestOK'
<1>1. Answered(c, n, next, code) \in Session /\ Answered(c, n, next, code).stm # "CLOSED"
  <2>1. Answered(c, n, next, code).stm = next
    BY DEF Answered, TypeOK, Session
  <2> QED
    BY <2>1, AnsweredType DEF States, ReadStates, CommandStates, ReplyStates, BannerStates
<1>2. wire' \in [Clients -> LineSeqs] /\ transferred_bytes' \in Int
  BY InputType, ReceiveType DEF Answer
<1> QED
  BY <1>1, <1>2 DEF Answer, StepOf, RestOK, TypeOK, counters

LEMMA DoneStep ==
  ASSUME TypeOK, NEW c \in Clients, smtp[c].stm # "CLOSED", Done(c)
  PROVE  /\ StepOf(c)
         /\ peer' \in [Clients -> {"none", "up", "eof", "reset"}]
         /\ historic_users' \in Nat /\ lines_sent' \in Nat
  BY DEF Done, StepOf, TypeOK

LEMMA QuitStep ==
  ASSUME TypeOK, NEW c \in Clients, NEW n \in Reads(c), smtp[c].stm # "CLOSED",
         Quit(c, n)
  PROVE  StepOf(c) /\ RestOK'
<1>1. n \in Nat /\ <<>> \in LineSeqs
  BY InputType, EmptySeq DEF LineSeqs
<1> QED
  BY <1>1, DoneStep DEF Quit, RestOK, TypeOK

LEMMA ReadFailsStep ==
  ASSUME TypeOK, NEW c \in Clients, NEW st \in States, ReadFails(c, st)
  PROVE  StepOf(c) /\ RestOK'
<1>1. smtp[c].stm # "CLOSED" /\ Done(c)
  BY DEF ReadFails, ReadReady, States, ReadStates, CommandStates, ReplyStates, BannerStates
<1> QED
  BY <1>1, DoneStep DEF ReadFails, RestOK, TypeOK

\* A recipient accepted: the list grows by a node without a file.
LEMMA AddRcptStep ==
  ASSUME TypeOK, NEW c \in Clients, NEW n \in Reads(c), smtp[c].stm # "CLOSED",
         AddRcpt(c, n)
  PROVE  StepOf(c) /\ RestOK'
<1> DEFINE a == Answered(c, n, "RCPT_TO_WRITE", "250 rcpt")
           node == [email |-> Line(c, n).arg, file |-> 0]
<1>1. a \in Session
  BY AnsweredType DEF States, ReplyStates, Replies
<1>2. Line(c, n).arg \in Emails
  BY InputType DEF AddRcpt, Lines
<1>3. <<node>> \o a.rcpt_list \in Seq(Node)
  <2>1. node \in Node /\ a.rcpt_list \in Seq(Node)
    BY <1>1, <1>2 DEF Node, Session
  <2> HIDE DEF a, node
  <2>2. <<node>> \in Seq(Node)
    BY <2>1
  <2> QED
    BY <2>1, <2>2, ConcatProperties
<1>4. WithRcpt(c, n) \in Session /\ WithRcpt(c, n).stm # "CLOSED"
  <2>1. a.named \cup {Line(c, n).arg} \in SUBSET Emails
    BY <1>1, <1>2 DEF Session
  <2>2. a.stm = "RCPT_TO_WRITE"
    BY DEF Answered, TypeOK, Session
  <2>3. WithRcpt(c, n) = [a EXCEPT !.rcpt_list = <<node>> \o a.rcpt_list,
                                   !.named = a.named \cup {Line(c, n).arg}]
    BY <1>1 DEF WithRcpt, Session
  <2> HIDE DEF a, node
  <2> QED
    BY <1>1, <1>3, <2>1, <2>2, <2>3 DEF Session
<1>5. wire' \in [Clients -> LineSeqs] /\ transferred_bytes' \in Int
  BY InputType, ReceiveType DEF AddRcpt
<1> QED
  BY <1>4, <1>5 DEF AddRcpt, StepOf, RestOK, TypeOK, counters

LEMMA CreateMailsFilesStep ==
  ASSUME TypeOK, NEW c \in Clients, NEW n \in Reads(c), smtp[c].stm # "CLOSED",
         CreateMailsFiles(c, n)
  PROVE  StepOf(c) /\ RestOK'
<1> DEFINE a == Answered(c, n, "DATA_WRITE", "354")
<1>1. a \in Session /\ a.rcpt_list = smtp[c].rcpt_list
  <2>1. a \in Session
    BY AnsweredType DEF States, ReplyStates, Replies
  <2>2. a.rcpt_list = smtp[c].rcpt_list
    BY DEF Answered, TypeOK, Session
  <2> QED
    BY <2>1, <2>2
<1>2. Len(files) \in Nat /\ Len(smtp[c].rcpt_list) \in Nat
      /\ DOMAIN smtp[c].rcpt_list = 1..Len(smtp[c].rcpt_list)
      /\ \A i \in DOMAIN smtp[c].rcpt_list : smtp[c].rcpt_list[i] \in Node
  BY ElementOfSeq, LenProperties DEF TypeOK, Session
<1>3. WithFiles(a) \in Session /\ WithFiles(a).stm # "CLOSED"
  <2> DEFINE list == [i \in DOMAIN a.rcpt_list |->
                        [a.rcpt_list[i] EXCEPT !.file = Len(files) + i]]
  <2>1. list \in Seq(Node)
    <3>1. \A i \in 1..Len(smtp[c].rcpt_list) :
            [a.rcpt_list[i] EXCEPT !.file = Len(files) + i] \in Node
      BY <1>1, <1>2 DEF Node
    <3>2. list \in [1..Len(smtp[c].rcpt_list) -> Node]
      BY <1>1, <1>2, <3>1
    <3> HIDE DEF list
    <3> QED
      BY <1>2, <3>2, SeqOfFunction
  <2>2. a.stm = "DATA_WRITE"
    BY DEF Answered, TypeOK, Session
  <2>3. WithFiles(a) = [a EXCEPT !.rcpt_list = list, !.body = 0]
    BY <1>1 DEF WithFiles, Session
  <2> HIDE DEF a, list
  <2>4. [a EXCEPT !.rcpt_list = list, !.body = 0] \in Session
        /\ [a EXCEPT !.rcpt_list = list, !.body = 0].stm = a.stm
    BY <1>1, <2>1 DEF Session
  <2> QED
    BY <2>2, <2>3, <2>4
<1>4. files \o NewFiles(smtp[c]) \in Seq(File)
  <2>1. smtp[c].mailfrom \in Senders \cup {NoAddress}
    BY DEF TypeOK, Session
  <2>2. NewFiles(smtp[c]) \in [1..Len(smtp[c].rcpt_list) -> File]
    BY <1>2, <2>1 DEF NewFiles, File, Node
  <2>3. NewFiles(smtp[c]) \in Seq(File)
    BY <1>2, <2>2, SeqOfFunction
  <2> QED
    BY <2>3, ConcatProperties DEF TypeOK
<1>5. wire' \in [Clients -> LineSeqs] /\ transferred_bytes' \in Int
  BY InputType, ReceiveType DEF CreateMailsFiles
<1> QED
  BY <1>3, <1>4, <1>5 DEF CreateMailsFiles, StepOf, RestOK, TypeOK, counters

LEMMA FileWritten ==
  ASSUME NEW f \in File, NEW body \in Nat, NEW ended \in BOOLEAN
  PROVE  [f EXCEPT !.body = body, !.ended = ended] \in File
  BY DEF File

\* write_to_files and close_fds leave as many files as there were, well formed.
LEMMA WriteToFilesType ==
  ASSUME TypeOK, NEW s, NEW k \in Nat, NEW ended \in BOOLEAN,
         WriteToFiles(s, k, ended)
  PROVE  files' \in Seq(File)
<1>1. Len(files) \in Nat /\ DOMAIN files = 1..Len(files)
      /\ \A i \in DOMAIN files : files[i] \in File
  BY ElementOfSeq, LenProperties DEF TypeOK
<1>2. ASSUME NEW i \in DOMAIN files
      PROVE  [files[i] EXCEPT !.body = files[i].body + k, !.ended = ended] \in File
  <2>1. files[i] \in File /\ files[i].body + k \in Nat
    BY <1>1 DEF File
  <2> QED
    BY <2>1, FileWritten
<1>3. files' \in [1..Len(files) -> File]
  BY <1>1, <1>2 DEF WriteToFiles, File
<1> QED
  BY <1>1, <1>3, SeqOfFunction

LEMMA CloseFdsType ==
  ASSUME TypeOK, NEW s, CloseFds(s)
  PROVE  files' \in Seq(File)
<1>1. Len(files) \in Nat /\ DOMAIN files = 1..Len(files)
      /\ \A i \in DOMAIN files : files[i] \in File
  BY ElementOfSeq, LenProperties DEF TypeOK
<1>2. files' \in [1..Len(files) -> File]
  BY <1>1 DEF CloseFds, File
<1> QED
  BY <1>1, <1>2, SeqOfFunction

LEMMA MailInfoReadStep ==
  ASSUME TypeOK, NEW c \in Clients, MailInfoRead(c)
  PROVE  StepOf(c) /\ RestOK'
<1>1. CASE ReadFails(c, "MAIL_INFO_READ")
  BY <1>1, ReadFailsStep DEF States, ReadStates
<1>2. ASSUME ReadReady(c, "MAIL_INFO_READ"), NEW n \in Reads(c),
             NEW k \in 1..Len(Input(c, n)),
             Receive(c, n), UNCHANGED <<peer, counters, lines_sent>>,
             \/ /\ WriteToFiles(smtp[c], k - 1, Input(c, n)[k].verb = "eod")
                /\ smtp' = [smtp EXCEPT ![c] =
                     [BodyTaken(c, n, k) EXCEPT
                        !.stm = "MAIL_INFO_WRITE", !.interest = "WRITE",
                        !.write_buffer = "250 queued", !.data_parser = "data_done",
                        !.body = @ + k - 1]]
             \/ /\ WriteToFiles(smtp[c], k, FALSE)
                /\ smtp' = [smtp EXCEPT ![c] =
                     [BodyTaken(c, n, k) EXCEPT !.body = @ + k]]
      PROVE  StepOf(c) /\ RestOK'
  <2> DEFINE t == BodyTaken(c, n, k)
  <2>1. n \in Nat /\ Input(c, n) \in Seq(Lines) /\ Len(Input(c, n)) \in Nat
    BY InputType, LenProperties DEF LineSeqs
  <2>2. k \in Nat /\ k - 1 \in Nat
    BY <2>1
  <2>3. t \in Session /\ t.stm = "MAIL_INFO_READ"
    <3>1. SubSeq(Input(c, n), k + 1, Len(Input(c, n))) \in LineSeqs
      <4>1. \A i \in (k + 1)..Len(Input(c, n)) : Input(c, n)[i] \in Lines
        BY <2>1, <2>2, ElementOfSeq
      <4> QED
        BY <2>1, <2>2, <4>1, SubSeqProperties DEF LineSeqs
    <3>2. smtp[c] \in Session /\ smtp[c].stm = "MAIL_INFO_READ"
      BY <1>2 DEF ReadReady, TypeOK
    <3> QED
      BY <3>1, <3>2 DEF BodyTaken, Session
  <2>4. wire' \in [Clients -> LineSeqs] /\ transferred_bytes' \in Int
    BY <1>2, <2>1, ReceiveType
  <2>5. files' \in Seq(File)
    BY <1>2, <2>2, WriteToFilesType
  <2>6. smtp[c].stm # "CLOSED" /\ t.body \in Nat
    BY <1>2, <2>3 DEF ReadReady, Session
  <2>7. StepOf(c)
    <3> HIDE DEF t
    <3>0. t.body + k \in Nat /\ t.body + k - 1 \in Nat
      BY <2>2, <2>6
    <3>1. /\ [t EXCEPT !.stm = "MAIL_INFO_WRITE", !.interest = "WRITE",
                       !.write_buffer = "250 queued", !.data_parser = "data_done",
                       !.body = t.body + k - 1] \in Session
          /\ [t EXCEPT !.body = t.body + k] \in Session
          /\ [t EXCEPT !.stm = "MAIL_INFO_WRITE", !.interest = "WRITE",
                       !.write_buffer = "250 queued", !.data_parser = "data_done",
                       !.body = t.body + k - 1].stm # "CLOSED"
          /\ [t EXCEPT !.body = t.body + k].stm # "CLOSED"
      BY <2>3, <3>0 DEF Session, States, ReplyStates, Replies
    <3>2. CASE smtp' = [smtp EXCEPT ![c] =
                 [t EXCEPT !.stm = "MAIL_INFO_WRITE", !.interest = "WRITE",
                       !.write_buffer = "250 queued", !.data_parser = "data_done",
                       !.body = t.body + k - 1]]
      BY <1>2, <2>6, <3>1, <3>2 DEF StepOf, counters
    <3>3. CASE smtp' = [smtp EXCEPT ![c] = [t EXCEPT !.body = t.body + k]]
      BY <1>2, <2>6, <3>1, <3>3 DEF StepOf, counters
    <3> QED
      BY <1>2, <2>3, <3>2, <3>3 DEF t, Session
  <2> QED
    BY <1>2, <2>4, <2>5, <2>7 DEF RestOK, TypeOK, counters
<1> QED
  BY <1>1, <1>2 DEF MailInfoRead

\* The four command handlers but for the accepted MAIL FROM.
LEMMA MailFromReadStep ==
  ASSUME TypeOK, NEW c \in Clients, MailFromRead(c)
  PROVE  StepOf(c) /\ RestOK'
<1>1. CASE ReadFails(c, "MAIL_FROM_READ")
  BY <1>1, ReadFailsStep DEF States, ReadStates, CommandStates
<1>2. ASSUME ReadReady(c, "MAIL_FROM_READ"), NEW n \in Reads(c),
             Line(c, n).verb = "mail",
             smtp' = [smtp EXCEPT ![c] = WithSender(c, n)],
             Receive(c, n), UNCHANGED <<peer, files, counters, lines_sent>>
      PROVE  StepOf(c) /\ RestOK'
  <2> DEFINE a == Answered(c, n, "MAIL_FROM_WRITE", "250 mail")
  <2>1. a \in Session
    BY AnsweredType DEF States, ReplyStates, Replies
  <2>2. a.stm = "MAIL_FROM_WRITE"
    BY DEF Answered, TypeOK, Session
  <2>3. Line(c, n).arg \in Senders
    BY <1>2, InputType DEF Lines
  <2>4. WithSender(c, n) \in Session /\ WithSender(c, n).stm # "CLOSED"
    <3>1. WithSender(c, n) = [a EXCEPT !.mailfrom = Line(c, n).arg, !.named = {}]
      BY DEF WithSender
    <3> HIDE DEF a
    <3> QED
      BY <2>1, <2>2, <2>3, <3>1 DEF Session
  <2>5. wire' \in [Clients -> LineSeqs] /\ transferred_bytes' \in Int
    BY <1>2, InputType, ReceiveType
  <2>6. smtp[c].stm # "CLOSED"
    BY <1>2 DEF ReadReady
  <2> QED
    BY <1>2, <2>4, <2>5, <2>6 DEF StepOf, RestOK, TypeOK, counters
<1>3. ASSUME ReadReady(c, "MAIL_FROM_READ"), NEW n \in Reads(c),
             \/ Quit(c, n)
             \/ Answer(c, n, "MAIL_FROM_WRITE", "503 mail")
             \/ Answer(c, n, "MAIL_FROM_WRITE", "500")
      PROVE  StepOf(c) /\ RestOK'
  <2>1. smtp[c].stm # "CLOSED"
    BY <1>3 DEF ReadReady
  <2> QED
    BY <1>3, <2>1, QuitStep, AnswerStep DEF States, ReplyStates, Replies
<1> QED
  BY <1>1, <1>2, <1>3 DEF MailFromRead

LEMMA CommandStep ==
  ASSUME TypeOK, NEW c \in Clients,
         FailedConnectionRead(c) \/ EhloRead(c) \/ RcptToRead(c) \/ DataRead(c)
  PROVE  StepOf(c) /\ RestOK'
<1> USE DEF States, ReadStates, CommandStates, ReplyStates, BannerStates, Replies
<1>1. CASE FailedConnectionRead(c)
  BY <1>1, ReadFailsStep, QuitStep, AnswerStep DEF FailedConnectionRead, ReadReady
<1>2. CASE EhloRead(c)
  BY <1>2, ReadFailsStep, QuitStep, AnswerStep DEF EhloRead, ReadReady
<1>3. CASE RcptToRead(c)
  BY <1>3, ReadFailsStep, QuitStep, AnswerStep, AddRcptStep DEF RcptToRead, ReadReady
<1>4. CASE DataRead(c)
  BY <1>4, ReadFailsStep, QuitStep, AnswerStep, AddRcptStep, CreateMailsFilesStep
     DEF DataRead, ReadReady
<1> QED
  BY <1>1, <1>2, <1>3, <1>4

\* A connection that goes on to a reading state is well formed.
LEMMA ArrivedType ==
  ASSUME NEW s \in Session, NEW next \in ReadStates
  PROVE  Arrived(s, next) \in Session /\ Arrived(s, next).stm = next
<1>1. CASE next \in CommandStates
  <2>1. Arrived(s, next) = [s EXCEPT !.stm = next, !.interest = "READ",
                                     !.write_buffer = "", !.request = NoRequest]
    BY <1>1 DEF Arrived, Session
  <2>2. NoRequest \in Lines \cup {NoRequest} /\ next \in States
    BY DEF States
  <2> QED
    BY <2>1, <2>2 DEF Session, Replies
<1>2. CASE next \notin CommandStates
  <2>1. Arrived(s, next) = [s EXCEPT !.stm = next, !.interest = "READ",
                                     !.write_buffer = "", !.request = s.request]
    BY <1>2 DEF Arrived, Session
  <2>2. next \in States
    BY DEF States
  <2> QED
    BY <2>1, <2>2 DEF Session, Replies
<1> QED
  BY <1>1, <1>2

LEMMA BannerWriteStep ==
  ASSUME TypeOK, NEW c \in Clients, NEW st \in States, NEW next \in ReadStates,
         BannerWrite(c, st, next)
  PROVE  StepOf(c) /\ RestOK'
<1>1. smtp[c] \in Session /\ smtp[c].stm # "CLOSED" /\ <<>> \in LineSeqs
  BY EmptySeq DEF BannerWrite, WriteReady, TypeOK, LineSeqs, States, ReadStates,
     CommandStates, ReplyStates, BannerStates
<1>2. Arrived(smtp[c], next) \in Session /\ Arrived(smtp[c], next).stm # "CLOSED"
  BY <1>1, ArrivedType DEF ReadStates, CommandStates
<1>3. CASE /\ smtp' = [smtp EXCEPT ![c] = Arrived(smtp[c], next)]
           /\ UNCHANGED <<wire, peer, current_users, historic_users, lines_sent>>
           /\ UNCHANGED <<files, transferred_bytes, mails_sent>>
  BY <1>1, <1>2, <1>3 DEF StepOf, RestOK, TypeOK
<1>4. CASE /\ Done(c) /\ wire' = [wire EXCEPT ![c] = <<>>]
           /\ UNCHANGED <<files, transferred_bytes, mails_sent>>
  BY <1>1, <1>4, DoneStep DEF RestOK, TypeOK
<1> QED
  BY <1>3, <1>4 DEF BannerWrite, TypeOK

\* write_status, when what on_departure leaves is well formed.
LEMMA WriteStatusStep ==
  ASSUME TypeOK, NEW c \in Clients, NEW st \in States, NEW next \in ReadStates,
         NEW left \in Session, WriteStatus(c, st, next, left),
         files' \in Seq(File), mails_sent' \in Nat
  PROVE  StepOf(c) /\ RestOK'
<1>1. smtp[c].stm # "CLOSED" /\ <<>> \in LineSeqs
  BY EmptySeq DEF WriteStatus, WriteReady, LineSeqs, States, ReadStates,
     CommandStates, ReplyStates, BannerStates
<1>2. Arrived(left, next) \in Session /\ Arrived(left, next).stm # "CLOSED"
  BY ArrivedType DEF ReadStates, CommandStates
<1>3. CASE /\ smtp' = [smtp EXCEPT ![c] = Arrived(left, next)]
           /\ UNCHANGED <<wire, peer, current_users, historic_users, lines_sent>>
           /\ UNCHANGED transferred_bytes
  BY <1>1, <1>2, <1>3 DEF StepOf, RestOK, TypeOK
<1>4. CASE /\ Done(c) /\ wire' = [wire EXCEPT ![c] = <<>>]
           /\ UNCHANGED transferred_bytes
  BY <1>1, <1>4, DoneStep DEF RestOK, TypeOK
<1> QED
  BY <1>3, <1>4 DEF WriteStatus

LEMMA WriteHandlerStep ==
  ASSUME TypeOK, NEW c \in Clients, WriteHandler(c)
  PROVE  StepOf(c) /\ RestOK'
<1> USE DEF States, ReadStates, CommandStates, ReplyStates, BannerStates
<1>1. smtp[c] \in Session /\ files \in Seq(File) /\ mails_sent \in Nat
  BY DEF TypeOK
<1>2. CASE GreetingWrite(c)
  BY <1>2, BannerWriteStep DEF GreetingWrite
<1>3. CASE FailedConnectionWrite(c)
  BY <1>3, BannerWriteStep DEF FailedConnectionWrite
<1>4. CASE EhloWrite(c)
  BY <1>1, <1>4, WriteStatusStep DEF EhloWrite
<1>5. CASE MailFromWrite(c)
  BY <1>1, <1>5, WriteStatusStep DEF MailFromWrite
<1>6. CASE RcptToWrite(c)
  BY <1>1, <1>6, WriteStatusStep DEF RcptToWrite, AfterRcptTo
<1>7. CASE DataWrite(c)
  <2>1. DataBufferInit(smtp[c]) \in Session
    BY <1>1 DEF DataBufferInit, Session
  <2> QED
    BY <1>1, <1>7, <2>1, WriteStatusStep DEF DataWrite
<1>8. CASE MailInfoWrite(c)
  <2>1. FreeRcptList(smtp[c]) \in Session
    <3>1. <<>> \in Seq(Node)
      BY EmptySeq
    <3> QED
      BY <1>1, <3>1 DEF FreeRcptList, Session
  <2>2. files' \in Seq(File) /\ mails_sent' \in Nat
    BY <1>1, <1>8, CloseFdsType DEF MailInfoWrite
  <2> QED
    BY <1>8, <2>1, <2>2, WriteStatusStep DEF MailInfoWrite
<1> QED
  BY <1>2, <1>3, <1>4, <1>5, <1>6, <1>7, <1>8 DEF WriteHandler

LEMMA EnvironmentStep ==
  ASSUME TypeOK, NEW c \in Clients, Accept(c) \/ Environment(c)
  PROVE  StepOf(c) /\ RestOK'
<1>1. CASE Accept(c)
  BY <1>1 DEF Accept, StepOf, RestOK, TypeOK
<1>2. CASE Send(c)
  <2>1. \A l \in Lines : Append(wire[c], l) \in Seq(Lines)
    BY AppendProperties DEF TypeOK, LineSeqs
  <2> QED
    BY <1>2, <2>1 DEF Send, StepOf, RestOK, TypeOK, LineSeqs, counters
<1>3. CASE Fin(c)
  BY <1>3 DEF Fin, StepOf, RestOK, TypeOK, counters
<1>4. CASE Reset(c)
  <2>1. <<>> \in LineSeqs
    BY EmptySeq DEF LineSeqs
  <2> QED
    BY <1>4, <2>1 DEF Reset, StepOf, RestOK, TypeOK, counters
<1> QED
  BY <1>1, <1>2, <1>3, <1>4 DEF Environment

\* Every step is one of those, so the invariant is inductive.
LEMMA NextStep ==
  ASSUME TypeInv, NEW c \in Clients,
         Accept(c) \/ ReadHandler(c) \/ WriteHandler(c) \/ Environment(c)
  PROVE  StepOf(c) /\ RestOK'
  BY EnvironmentStep, WriteHandlerStep, CommandStep, MailFromReadStep, MailInfoReadStep
     DEF ReadHandler, TypeInv

LEMMA InitTypeInv == Init => TypeInv
<1> SUFFICES ASSUME Init PROVE TypeInv
  OBVIOUS
<1>1. <<>> \in LineSeqs /\ <<>> \in Seq(File)
  BY EmptySeq DEF LineSeqs
<1>2. TypeOK
  BY <1>1, ClosedType DEF Init, TypeOK
<1>3. Open = {}
  BY DEF Init, Open, Closed
<1> QED
  BY <1>2, <1>3, FS_EmptySet DEF TypeInv, UsersCovered, Init

\* Every variable keeps its type, and at least the open connections are counted,
\* whatever the clients, the addresses and the limits.
THEOREM TypeCorrect == Spec => [](TypeOK /\ UsersCovered)
<1>1. Init => TypeInv
  BY InitTypeInv
<1>2. TypeInv /\ [Next]_vars => TypeInv'
  <2>1. ASSUME TypeInv, Next PROVE TypeInv'
    BY <2>1, NextStep, StepOfType DEF Next
  <2>2. ASSUME TypeInv, UNCHANGED vars PROVE TypeInv'
    <3>1. Open' = Open
      BY <2>2 DEF vars, Open
    <3> QED
      BY <2>2, <3>1 DEF vars, TypeInv, TypeOK, UsersCovered
  <2> QED
    BY <2>1, <2>2
<1>3. TypeInv => TypeOK /\ UsersCovered
  BY DEF TypeInv
<1> QED
  BY <1>1, <1>2, <1>3, PTL DEF Spec

-----------------------------------------------------------------------------
(***************************************************************************)
(* The limit on served users.  Only Accept adds to Served, and it does so  *)
(* when current_users, which covers the open connections, is below the     *)
(* limit; a connection answered 554 stays among Rejected until it closes.  *)
(***************************************************************************)
RejectedStates == {"FAILED_CONNECTION_WRITE", "FAILED_CONNECTION_READ"}

\* A handler of a served connection, or one that leaves its connection rejected
\* or closed, adds nobody to Served.
LEMMA ServedKept ==
  ASSUME TypeOK, NEW c \in Clients, StepOf(c), smtp[c].stm # "CLOSED",
         \/ smtp[c].stm \notin RejectedStates
         \/ smtp'[c].stm \in RejectedStates \cup {"CLOSED"}
         \/ smtp' = smtp
  PROVE  Served' \subseteq Served
<1>1. \A d \in Clients : d # c => smtp'[d] = smtp[d]
  BY DEF StepOf, TypeOK
<1> QED
  BY <1>1 DEF Served, Open, Rejected, RejectedStates

\* The handlers of a connection answered 554 leave it so, or closed.
LEMMA RejectedHandlers ==
  ASSUME TypeOK, NEW c \in Clients, FailedConnectionRead(c) \/ FailedConnectionWrite(c)
  PROVE  smtp'[c].stm \in RejectedStates \cup {"CLOSED"}
<1>1. CASE Done(c)
  BY <1>1 DEF Done, Closed, TypeOK
<1>2. CASE FailedConnectionRead(c)
  <2>1. ASSUME NEW n \in Reads(c), Answer(c, n, "FAILED_CONNECTION_WRITE", "")
        PROVE  smtp'[c].stm = "FAILED_CONNECTION_WRITE"
    BY <2>1 DEF Answer, Answered, TypeOK, Session
  <2> QED
    BY <1>1, <1>2, <2>1 DEF FailedConnectionRead, ReadFails, Quit, RejectedStates
<1>3. CASE FailedConnectionWrite(c)
  <2>1. CASE smtp' = [smtp EXCEPT ![c] = Arrived(smtp[c], "FAILED_CONNECTION_READ")]
    <3>1. /\ smtp'[c] = Arrived(smtp[c], "FAILED_CONNECTION_READ")
          /\ smtp[c] \in Session
      BY <2>1 DEF TypeOK
    <3> QED
      BY <3>1, ArrivedType DEF RejectedStates, ReadStates, CommandStates
  <2> QED
    BY <1>1, <1>3, <2>1 DEF FailedConnectionWrite, BannerWrite
<1> QED
  BY <1>2, <1>3

\* Every step but Accept keeps Served within what it was.
LEMMA ServedStep ==
  ASSUME TypeInv, NEW c \in Clients,
         ReadHandler(c) \/ WriteHandler(c) \/ Environment(c)
  PROVE  Served' \subseteq Served
<1>1. TypeOK /\ StepOf(c)
  BY NextStep DEF TypeInv
<1>2. CASE Environment(c)
  BY <1>2 DEF Environment, Send, Fin, Reset, Served, Open, Rejected
<1>3. CASE FailedConnectionRead(c) \/ FailedConnectionWrite(c)
  <2>1. smtp[c].stm # "CLOSED"
    BY <1>3 DEF FailedConnectionRead, FailedConnectionWrite, BannerWrite, ReadFails,
       ReadReady, WriteReady
  <2> QED
    BY <1>1, <1>3, <2>1, RejectedHandlers, ServedKept
<1>4. CASE EhloRead(c) \/ MailFromRead(c) \/ RcptToRead(c) \/ DataRead(c) \/ MailInfoRead(c)
  <2>1. smtp[c].stm \notin RejectedStates \cup {"CLOSED"}
    BY <1>4 DEF EhloRead, MailFromRead, RcptToRead, DataRead, MailInfoRead, ReadFails,
       ReadReady, RejectedStates
  <2> QED
    BY <1>1, <2>1, ServedKept
<1>5. CASE \/ GreetingWrite(c) \/ EhloWrite(c) \/ MailFromWrite(c) \/ RcptToWrite(c)
           \/ DataWrite(c) \/ MailInfoWrite(c)
  <2>1. smtp[c].stm \notin RejectedStates \cup {"CLOSED"}
    BY <1>5 DEF GreetingWrite, EhloWrite, MailFromWrite, RcptToWrite, DataWrite,
       MailInfoWrite, BannerWrite, WriteStatus, WriteReady, RejectedStates
  <2> QED
    BY <1>1, <2>1, ServedKept
<1> QED
  BY <1>2, <1>3, <1>4, <1>5 DEF ReadHandler, WriteHandler

\* Accept adds at most the new connection, and that only below the limit.
LEMMA ServedAccept ==
  ASSUME TypeInv, NEW c \in Clients, Accept(c)
  PROVE  /\ Served' \subseteq Served \cup {c} /\ c \notin Open
         /\ Served' \subseteq Served \/ current_users < MaxUsers
<1>1. \/ smtp' = smtp
      \/ smtp' = [smtp EXCEPT ![c] = Fresh(InitialState)]
  BY DEF Accept
<1>2. c \notin Open /\ Fresh(InitialState).stm = InitialState
  BY DEF Accept, Open, Fresh, Closed
<1>3. CASE smtp' = smtp
  BY <1>2, <1>3 DEF Served, Open, Rejected
<1>4. CASE smtp' = [smtp EXCEPT ![c] = Fresh(InitialState)]
  <2>1. smtp'[c].stm = InitialState /\ \A d \in Clients : d # c => smtp'[d] = smtp[d]
    BY <1>2, <1>4 DEF TypeInv, TypeOK
  <2> QED
    BY <1>2, <2>1 DEF Served, Open, Rejected, InitialState
<1> QED
  BY <1>1, <1>3, <1>4

\* However clients come and go, and whatever descriptors the selector refuses, no
\* more than max_user connections are served at once.
THEOREM LimitKept == Spec => []ServedWithinLimit
<1> DEFINE Inv == TypeInv /\ ServedWithinLimit
<1>1. Init => Inv
  <2> SUFFICES ASSUME Init PROVE ServedWithinLimit
    BY InitTypeInv
  <2>1. Served = {}
    BY DEF Init, Served, Open, Closed
  <2> QED
    BY <2>1, FS_EmptySet, BoundAssumption DEF ServedWithinLimit
<1>2. Inv /\ [Next]_vars => Inv'
  <2> SUFFICES ASSUME Inv, [Next]_vars PROVE Inv'
    OBVIOUS
  <2>1. IsFiniteSet(Served) /\ Cardinality(Served) \in Nat
    BY ClientAssumption, FS_Subset, FS_CardinalityType DEF Served, Open
  <2>2. \A T \in SUBSET Served : IsFiniteSet(T) /\ Cardinality(T) <= Cardinality(Served)
                                 /\ Cardinality(T) \in Nat
    BY <2>1, FS_Subset, FS_CardinalityType
  <2>3. MaxUsers \in Nat
    BY BoundAssumption
  <2>4. CASE UNCHANGED vars
    <3>1. Served' = Served /\ Open' = Open
      BY <2>4 DEF vars, Served, Open, Rejected
    <3> QED
      BY <2>4, <3>1 DEF vars, TypeInv, TypeOK, UsersCovered, ServedWithinLimit
  <2>5. ASSUME NEW c \in Clients,
               Accept(c) \/ ReadHandler(c) \/ WriteHandler(c) \/ Environment(c)
        PROVE  Inv'
    <3>1. TypeInv'
      BY <2>5, NextStep, StepOfType
    <3>2. CASE Served' \subseteq Served
      BY <2>1, <2>2, <2>3, <3>1, <3>2 DEF ServedWithinLimit
    <3>3. CASE ~(Served' \subseteq Served)
      <4>1. Served' \subseteq Served \cup {c} /\ c \notin Served /\ current_users < MaxUsers
        BY <2>5, <3>3, ServedStep, ServedAccept DEF Served
      <4>2. /\ IsFiniteSet(Served \cup {c})
            /\ Cardinality(Served \cup {c}) = Cardinality(Served) + 1
        BY <2>1, <4>1, FS_AddElement
      <4>3. /\ Cardinality(Served') <= Cardinality(Served) + 1
            /\ Cardinality(Served') \in Nat
        BY <4>1, <4>2, FS_Subset, FS_CardinalityType
      <4>4. Cardinality(Served) <= Cardinality(Open)
        BY FiniteOpen, FS_Subset DEF Served
      <4>5. Cardinality(Open) <= current_users /\ current_users \in Nat
        BY DEF TypeInv, TypeOK, UsersCovered
      <4>6. Cardinality(Open) \in Nat
        BY FiniteOpen
      <4>7. Cardinality(Served') <= MaxUsers
        BY <2>1, <2>3, <4>1, <4>3, <4>4, <4>5, <4>6
      <4> QED
        BY <3>1, <4>7 DEF ServedWithinLimit
    <3> QED
      BY <3>2, <3>3
  <2> QED
    BY <2>4, <2>5 DEF Next
<1>3. Inv => ServedWithinLimit
  OBVIOUS
<1> QED
  BY <1>1, <1>2, <1>3, PTL DEF Spec

\* A client answered 554 Service not available is never served later on that
\* connection, whatever it sends and whoever leaves meanwhile.
THEOREM TurnedAway == Spec => RejectedStayRejected
<1> DEFINE A == \A c \in Rejected : c \in Rejected' \/ c \notin Open'
<1>1. Init => TypeInv
  BY InitTypeInv
<1>2. TypeInv /\ [Next]_vars => TypeInv' /\ [A]_vars
  <2> SUFFICES ASSUME TypeInv, [Next]_vars PROVE TypeInv' /\ [A]_vars
    OBVIOUS
  <2>1. CASE UNCHANGED vars
    <3>1. Open' = Open
      BY <2>1 DEF vars, Open
    <3> QED
      BY <2>1, <3>1 DEF vars, TypeInv, TypeOK, UsersCovered
  <2>2. ASSUME NEW d \in Clients,
               Accept(d) \/ ReadHandler(d) \/ WriteHandler(d) \/ Environment(d)
        PROVE  TypeInv' /\ A
    <3>1. TypeInv' /\ StepOf(d)
      BY <2>2, NextStep, StepOfType
    <3>2. ASSUME NEW c \in Rejected, c # d PROVE c \in Rejected'
      BY <3>1, <3>2 DEF StepOf, TypeInv, TypeOK, Rejected, Open
    <3>3. ASSUME d \in Rejected PROVE d \in Rejected' \/ d \notin Open'
      <4>1. smtp[d].stm \in RejectedStates
        BY <3>3 DEF Rejected, RejectedStates
      <4>2. \/ FailedConnectionRead(d) \/ FailedConnectionWrite(d) \/ smtp' = smtp
        BY <2>2, <4>1 DEF ReadHandler, WriteHandler, Environment, Accept, Send, Fin, Reset,
           EhloRead, MailFromRead, RcptToRead, DataRead, MailInfoRead, ReadFails, ReadReady,
           GreetingWrite, EhloWrite, MailFromWrite, RcptToWrite, DataWrite, MailInfoWrite,
           BannerWrite, WriteStatus, WriteReady, RejectedStates
      <4>3. smtp'[d].stm \in RejectedStates \cup {"CLOSED"}
        BY <4>1, <4>2, RejectedHandlers DEF TypeInv
      <4> QED
        BY <4>3 DEF Rejected, Open, RejectedStates
    <3> QED
      BY <3>1, <3>2, <3>3
  <2> QED
    BY <2>1, <2>2 DEF Next
<1> QED
  BY <1>1, <1>2, PTL DEF Spec, RejectedStayRejected

-----------------------------------------------------------------------------
(***************************************************************************)
(* The agreement of interest, state and write buffer.  Each handler leaves *)
(* its own connection in agreement, whatever it finds, and the others as   *)
(* they were.                                                              *)
(***************************************************************************)
Agrees(s) ==
  /\ s.interest = "READ" <=> s.stm \in ReadStates
  /\ s.interest = "WRITE" <=> s.stm \in ReplyStates \cup BannerStates
  /\ s.write_buffer # "" <=> s.stm \in ReplyStates

LEMMA DoneAgrees ==
  ASSUME TypeOK, NEW c \in Clients, Done(c)
  PROVE  Agrees(smtp'[c])
<1>1. smtp'[c] = Closed
  BY DEF Done, TypeOK
<1>2. Closed.stm = "CLOSED" /\ Closed.interest = "NOOP" /\ Closed.write_buffer = ""
  BY DEF Closed
<1> QED
  BY <1>1, <1>2 DEF Agrees, ReadStates, CommandStates, ReplyStates, BannerStates

\* A reply is composed for a state that sends it, an empty one for a banner.
LEMMA AnsweredAgrees ==
  ASSUME TypeOK, NEW c \in Clients, NEW n, NEW next, NEW code,
         \/ next \in ReplyStates /\ code # ""
         \/ next \in BannerStates /\ code = ""
  PROVE  Agrees(Answered(c, n, next, code))
<1>1. /\ Answered(c, n, next, code).stm = next
      /\ Answered(c, n, next, code).interest = "WRITE"
      /\ Answered(c, n, next, code).write_buffer = code
  <2>1. smtp[c] \in Session
    BY DEF TypeOK
  <2> QED
    BY <2>1 DEF Answered, Session
<1> QED
  BY <1>1 DEF Agrees, ReadStates, CommandStates, ReplyStates, BannerStates

LEMMA AnswerAgrees ==
  ASSUME TypeOK, NEW c \in Clients, NEW n, NEW next, NEW code, Answer(c, n, next, code),
         \/ next \in ReplyStates /\ code # ""
         \/ next \in BannerStates /\ code = ""
  PROVE  Agrees(smtp'[c])
<1>1. smtp'[c] = Answered(c, n, next, code)
  BY DEF Answer, TypeOK
<1> QED
  BY <1>1, AnsweredAgrees

LEMMA ArrivedAgrees ==
  ASSUME NEW s \in Session, NEW next \in ReadStates
  PROVE  Agrees(Arrived(s, next))
<1>1. /\ Arrived(s, next).stm = next
      /\ Arrived(s, next).interest = "READ"
      /\ Arrived(s, next).write_buffer = ""
  BY DEF Arrived, Session
<1> QED
  BY <1>1 DEF Agrees, ReadStates, CommandStates, ReplyStates, BannerStates

LEMMA AddRcptAgrees ==
  ASSUME TypeOK, NEW c \in Clients, NEW n, AddRcpt(c, n)
  PROVE  Agrees(smtp'[c])
<1> DEFINE a == Answered(c, n, "RCPT_TO_WRITE", "250 rcpt")
<1>1. smtp'[c] = WithRcpt(c, n)
  BY DEF AddRcpt, TypeOK
<1>2. Agrees(a)
  BY AnsweredAgrees DEF ReplyStates
<1>3. /\ WithRcpt(c, n).stm = a.stm /\ WithRcpt(c, n).interest = a.interest
      /\ WithRcpt(c, n).write_buffer = a.write_buffer
  BY DEF WithRcpt, Answered, TypeOK, Session
<1> QED
  BY <1>1, <1>2, <1>3 DEF Agrees

LEMMA ReadHandlerAgrees ==
  ASSUME TypeOK, NEW c \in Clients, ReadHandler(c), Agrees(smtp[c])
  PROVE  Agrees(smtp'[c])
<1> USE DEF ReplyStates, BannerStates
<1>1. CASE Done(c)
  BY <1>1, DoneAgrees
<1>2. CASE FailedConnectionRead(c)
  BY <1>1, <1>2, AnswerAgrees DEF FailedConnectionRead, ReadFails, Quit
<1>3. CASE EhloRead(c)
  BY <1>1, <1>3, AnswerAgrees DEF EhloRead, ReadFails, Quit
<1>4. CASE MailFromRead(c)
  <2>1. ASSUME NEW n \in Reads(c), smtp' = [smtp EXCEPT ![c] = WithSender(c, n)]
        PROVE  Agrees(smtp'[c])
    <3> DEFINE a == Answered(c, n, "MAIL_FROM_WRITE", "250 mail")
    <3>1. smtp'[c] = WithSender(c, n)
      BY <2>1 DEF TypeOK
    <3>2. Agrees(a)
      BY AnsweredAgrees
    <3>3. /\ WithSender(c, n).stm = a.stm /\ WithSender(c, n).interest = a.interest
          /\ WithSender(c, n).write_buffer = a.write_buffer
      BY DEF WithSender, Answered, TypeOK, Session
    <3> QED
      BY <3>1, <3>2, <3>3 DEF Agrees
  <2> QED
    BY <1>1, <1>4, <2>1, AnswerAgrees DEF MailFromRead, ReadFails, Quit
<1>5. CASE RcptToRead(c)
  BY <1>1, <1>5, AnswerAgrees, AddRcptAgrees DEF RcptToRead, ReadFails, Quit
<1>6. CASE DataRead(c)
  <2>1. ASSUME NEW n \in Reads(c), CreateMailsFiles(c, n)
        PROVE  Agrees(smtp'[c])
    <3> DEFINE a == Answered(c, n, "DATA_WRITE", "354")
    <3>1. smtp'[c] = WithFiles(a)
      BY <2>1 DEF CreateMailsFiles, TypeOK
    <3>2. Agrees(a)
      BY AnsweredAgrees
    <3>3. /\ WithFiles(a).stm = a.stm /\ WithFiles(a).interest = a.interest
          /\ WithFiles(a).write_buffer = a.write_buffer
      BY DEF WithFiles, Answered, TypeOK, Session
    <3> QED
      BY <3>1, <3>2, <3>3 DEF Agrees
  <2> QED
    BY <1>1, <1>6, <2>1, AnswerAgrees, AddRcptAgrees DEF DataRead, ReadFails, Quit
<1>7. CASE MailInfoRead(c)
  <2>1. ASSUME NEW n \in Reads(c), NEW k \in 1..Len(Input(c, n)),
               \/ smtp' = [smtp EXCEPT ![c] =
                     [BodyTaken(c, n, k) EXCEPT
                        !.stm = "MAIL_INFO_WRITE", !.interest = "WRITE",
                        !.write_buffer = "250 queued", !.data_parser = "data_done",
                        !.body = @ + k - 1]]
               \/ smtp' = [smtp EXCEPT ![c] =
                     [BodyTaken(c, n, k) EXCEPT !.body = @ + k]]
        PROVE  Agrees(smtp'[c])
    <3> DEFINE b == BodyTaken(c, n, k)
               done == [b EXCEPT !.stm = "MAIL_INFO_WRITE", !.interest = "WRITE",
                                 !.write_buffer = "250 queued",
                                 !.data_parser = "data_done", !.body = b.body + k - 1]
               more == [b EXCEPT !.body = b.body + k]
    <3>1. smtp'[c] = done \/ smtp'[c] = more
      BY <2>1 DEF TypeOK
    <3>2. smtp[c] \in Session
      BY DEF TypeOK
    <3>3. /\ b.stm = smtp[c].stm /\ b.interest = smtp[c].interest
          /\ b.write_buffer = smtp[c].write_buffer
      BY <3>2 DEF BodyTaken, Session
    <3>4. DOMAIN b = DOMAIN smtp[c]
      BY DEF BodyTaken
    <3>5. {"stm", "interest", "write_buffer"} \subseteq DOMAIN b
      BY <3>2, <3>4 DEF Session
    <3> HIDE DEF b
    <3>6. CASE smtp'[c] = done
      <4>1. done.stm = "MAIL_INFO_WRITE" /\ done.interest = "WRITE"
            /\ done.write_buffer = "250 queued"
        BY <3>5
      <4> HIDE DEF done
      <4> QED
        BY <3>6, <4>1 DEF Agrees, ReadStates, CommandStates
    <3>7. CASE smtp'[c] = more
      <4>1. more.stm = b.stm /\ more.interest = b.interest
            /\ more.write_buffer = b.write_buffer
        BY <3>5
      <4> HIDE DEF more
      <4> QED
        BY <3>3, <3>7, <4>1 DEF Agrees
    <3> QED
      BY <3>1, <3>6, <3>7
  <2> QED
    BY <1>1, <1>7, <2>1 DEF MailInfoRead, ReadFails
<1> QED
  BY <1>2, <1>3, <1>4, <1>5, <1>6, <1>7 DEF ReadHandler

LEMMA WriteHandlerAgrees ==
  ASSUME TypeOK, NEW c \in Clients, WriteHandler(c)
  PROVE  Agrees(smtp'[c])
<1>1. CASE Done(c)
  BY <1>1, DoneAgrees
<1>2. ASSUME NEW s \in Session, NEW next \in ReadStates,
             smtp' = [smtp EXCEPT ![c] = Arrived(s, next)]
      PROVE  Agrees(smtp'[c])
  <2>1. smtp'[c] = Arrived(s, next)
    BY <1>2 DEF TypeOK
  <2> QED
    BY <2>1, ArrivedAgrees
<1>3. /\ smtp[c] \in Session
      /\ DataBufferInit(smtp[c]) \in Session /\ FreeRcptList(smtp[c]) \in Session
  <2>1. smtp[c] \in Session /\ <<>> \in Seq(Node)
    BY EmptySeq DEF TypeOK
  <2> QED
    BY <2>1 DEF DataBufferInit, FreeRcptList, Session
<1> USE DEF ReadStates, CommandStates, BannerWrite, WriteStatus
<1>4. CASE GreetingWrite(c) \/ FailedConnectionWrite(c)
  BY <1>1, <1>2, <1>3, <1>4 DEF GreetingWrite, FailedConnectionWrite
<1>5. CASE EhloWrite(c)
  BY <1>1, <1>2, <1>3, <1>5 DEF EhloWrite
<1>6. CASE MailFromWrite(c)
  BY <1>1, <1>2, <1>3, <1>6 DEF MailFromWrite
<1>7. CASE RcptToWrite(c)
  BY <1>1, <1>2, <1>3, <1>7 DEF RcptToWrite, AfterRcptTo
<1>8. CASE DataWrite(c)
  BY <1>1, <1>2, <1>3, <1>8 DEF DataWrite
<1>9. CASE MailInfoWrite(c)
  BY <1>1, <1>2, <1>3, <1>9 DEF MailInfoWrite
<1> QED
  BY <1>4, <1>5, <1>6, <1>7, <1>8, <1>9 DEF WriteHandler

LEMMA EnvironmentAgrees ==
  ASSUME TypeOK, NEW c \in Clients, Accept(c) \/ Environment(c), Agrees(smtp[c])
  PROVE  Agrees(smtp'[c])
<1>1. CASE smtp' = [smtp EXCEPT ![c] = Fresh(InitialState)]
  <2>1. smtp'[c] = Fresh(InitialState)
    BY <1>1 DEF TypeOK
  <2> QED
    BY <2>1 DEF Fresh, Closed, InitialState, Agrees, ReadStates, CommandStates,
       ReplyStates, BannerStates
<1>2. CASE smtp' = smtp
  BY <1>2
<1> QED
  BY <1>1, <1>2 DEF Accept, Environment, Send, Fin, Reset

\* No readiness event finds its connection in a state without a handler for it, and no
\* connection waits to write an empty reply, whatever is received and when it breaks.
THEOREM DispatchIsSafe == Spec => []DispatchSafe
<1> DEFINE Inv == TypeInv /\ DispatchSafe
<1>1. Init => Inv
  <2> SUFFICES ASSUME Init PROVE DispatchSafe
    BY InitTypeInv
  <2> QED
    BY DEF Init, DispatchSafe, Closed, ReadStates, CommandStates, ReplyStates, BannerStates
<1>2. Inv /\ [Next]_vars => Inv'
  <2> SUFFICES ASSUME Inv, [Next]_vars PROVE Inv'
    OBVIOUS
  <2>1. \A d \in Clients : Agrees(smtp[d])
    BY DEF DispatchSafe, Agrees
  <2>2. CASE UNCHANGED vars
    <3>1. Open' = Open
      BY <2>2 DEF vars, Open
    <3> QED
      BY <2>2, <3>1 DEF vars, TypeInv, TypeOK, UsersCovered, DispatchSafe
  <2>3. ASSUME NEW c \in Clients,
               Accept(c) \/ ReadHandler(c) \/ WriteHandler(c) \/ Environment(c)
        PROVE  Inv'
    <3>1. TypeInv' /\ StepOf(c)
      BY <2>3, NextStep, StepOfType
    <3>2. Agrees(smtp'[c])
      BY <2>1, <2>3, ReadHandlerAgrees, WriteHandlerAgrees, EnvironmentAgrees DEF TypeInv
    <3>3. \A d \in Clients : d # c => smtp'[d] = smtp[d]
      BY <3>1 DEF StepOf, TypeInv, TypeOK
    <3>4. \A d \in Clients : Agrees(smtp'[d])
      BY <2>1, <3>2, <3>3
    <3> QED
      BY <3>1, <3>4 DEF DispatchSafe, Agrees
  <2> QED
    BY <2>2, <2>3 DEF Next
<1>3. Inv => DispatchSafe
  OBVIOUS
<1> QED
  BY <1>1, <1>2, <1>3, PTL DEF Spec

-----------------------------------------------------------------------------
(***************************************************************************)
(* What one connection remembers of its dialogue.  The first and third     *)
(* conjuncts are about replies under way, from which the next state is     *)
(* decided: they make the other two inductive.                             *)
(***************************************************************************)
Ordered(s) ==
  /\ s.stm = "MAIL_FROM_WRITE" /\ s.request.verb = "mail" =>
       s.named = {} /\ s.mailfrom \in Senders
  /\ InTransaction(s) => s.named \subseteq EmailsOf(s) /\ s.mailfrom \in Senders
  /\ s.stm = "RCPT_TO_WRITE" /\ s.request.verb = "rcpt" /\ s.request.arg \in Local =>
       s.request.arg \in s.named
  /\ s.stm \in {"DATA_READ", "DATA_WRITE", "MAIL_INFO_READ", "MAIL_INFO_WRITE"} =>
       s.named \cap Local # {}


LEMMA AnsweredFields ==
  ASSUME TypeOK, NEW c \in Clients, NEW n, NEW next, NEW code
  PROVE  LET a == Answered(c, n, next, code)
         IN  /\ a.stm = next /\ a.request = Line(c, n)
             /\ a.named = smtp[c].named /\ a.mailfrom = smtp[c].mailfrom
             /\ a.rcpt_list = smtp[c].rcpt_list
             /\ DOMAIN a = DOMAIN smtp[c]
<1>1. smtp[c] \in Session
  BY DEF TypeOK
<1> QED
  BY <1>1 DEF Answered, Session

LEMMA DoneOrdered ==
  ASSUME TypeOK, NEW c \in Clients, Done(c)
  PROVE  Ordered(smtp'[c])
<1>1. smtp'[c] = Closed /\ Closed.stm = "CLOSED"
  BY DEF Done, TypeOK, Closed
<1> QED
  BY <1>1 DEF Ordered, InTransaction

\* A command answered without effect on the mail.
LEMMA AnswerOrdered ==
  ASSUME TypeOK, NEW c \in Clients, NEW n, NEW next, NEW code,
         Answer(c, n, next, code), Ordered(smtp[c]),
         \/ ~InTransaction([stm |-> next])
              /\ (next = "MAIL_FROM_WRITE" => Line(c, n).verb # "mail")
         \/ next = "RCPT_TO_WRITE" /\ InTransaction(smtp[c])
              /\ (Line(c, n).verb = "rcpt" => Line(c, n).arg \notin Local)
         \/ next = "DATA_WRITE" /\ smtp[c].stm = "DATA_READ"
  PROVE  Ordered(smtp'[c])
<1> DEFINE a == Answered(c, n, next, code)
<1>1. smtp'[c] = a
  BY DEF Answer, TypeOK
<1>2. /\ a.stm = next /\ a.request = Line(c, n)
      /\ a.named = smtp[c].named /\ a.mailfrom = smtp[c].mailfrom
      /\ a.rcpt_list = smtp[c].rcpt_list
  BY AnsweredFields
<1> HIDE DEF a
<1>3. EmailsOf(a) = EmailsOf(smtp[c])
  BY <1>2 DEF EmailsOf
<1> QED
  BY <1>1, <1>2, <1>3 DEF Ordered, InTransaction

\* A recipient accepted, whichever state accepts it.
LEMMA AddRcptOrdered ==
  ASSUME TypeOK, NEW c \in Clients, NEW n \in Reads(c), AddRcpt(c, n),
         Ordered(smtp[c]), InTransaction(smtp[c])
  PROVE  Ordered(smtp'[c])
<1> DEFINE s == smtp[c]
           t == smtp'[c]
           arg == Line(c, n).arg
           node == [email |-> arg, file |-> 0]
<1>1. s \in Session /\ Line(c, n) \in Lines /\ Line(c, n).verb = "rcpt"
  BY InputType DEF TypeOK, AddRcpt
<1>2. /\ t.stm = "RCPT_TO_WRITE" /\ t.request = Line(c, n)
      /\ t.named = s.named \cup {arg} /\ t.mailfrom = s.mailfrom
      /\ t.rcpt_list = <<node>> \o s.rcpt_list
  <2> DEFINE a == Answered(c, n, "RCPT_TO_WRITE", "250 rcpt")
  <2>1. t = WithRcpt(c, n)
    BY DEF AddRcpt, TypeOK
  <2>2. /\ a.stm = "RCPT_TO_WRITE" /\ a.request = Line(c, n)
        /\ a.named = s.named /\ a.mailfrom = s.mailfrom
        /\ a.rcpt_list = s.rcpt_list /\ DOMAIN a = DOMAIN s
    BY <1>1 DEF Answered, Session
  <2>3. {"stm", "request", "named", "mailfrom", "rcpt_list"} \subseteq DOMAIN a
    BY <1>1, <2>2 DEF Session
  <2>4. WithRcpt(c, n) = [a EXCEPT !.rcpt_list = <<node>> \o a.rcpt_list,
                                   !.named = a.named \cup {arg}]
    BY DEF WithRcpt
  <2> HIDE DEF a
  <2> QED
    BY <2>1, <2>2, <2>3, <2>4
<1>3. EmailsOf(s) \cup {arg} \subseteq EmailsOf(t)
  <2>1. s.rcpt_list \in Seq(Node) /\ node \in Node
    BY <1>1 DEF Session, Node, Lines
  <2>2. <<node>> \in Seq(Node) /\ Len(<<node>>) = 1 /\ <<node>>[1] = node
    BY <2>1
  <2>3. /\ Len(t.rcpt_list) = 1 + Len(s.rcpt_list)
        /\ t.rcpt_list[1] = node
        /\ \A i \in 1..Len(s.rcpt_list) : t.rcpt_list[i + 1] = s.rcpt_list[i]
    BY <1>2, <2>1, <2>2, ConcatProperties
  <2>4. t.rcpt_list \in Seq(Node)
    BY <1>2, <2>1, <2>2, ConcatProperties
  <2>5. /\ DOMAIN s.rcpt_list = 1..Len(s.rcpt_list)
        /\ DOMAIN t.rcpt_list = 1..Len(t.rcpt_list)
        /\ Len(s.rcpt_list) \in Nat
    BY <2>1, <2>4, LenProperties
  <2>6. arg \in EmailsOf(t)
    BY <2>3, <2>5 DEF EmailsOf
  <2>7. ASSUME NEW i \in DOMAIN s.rcpt_list PROVE s.rcpt_list[i].email \in EmailsOf(t)
    <3>1. i + 1 \in DOMAIN t.rcpt_list /\ t.rcpt_list[i + 1] = s.rcpt_list[i]
      BY <2>3, <2>5
    <3> QED
      BY <3>1 DEF EmailsOf
  <2> QED
    BY <2>6, <2>7 DEF EmailsOf
<1> HIDE DEF s, t, arg
<1>4. Ordered(s) /\ InTransaction(s)
  BY DEF s
<1>5. t.named \subseteq EmailsOf(t) /\ t.mailfrom \in Senders
  BY <1>2, <1>3, <1>4 DEF Ordered
<1>6. t.request.arg \in t.named
  BY <1>2 DEF arg
<1> QED
  BY <1>2, <1>5, <1>6 DEF Ordered, t

LEMMA WithSenderOrdered ==
  ASSUME TypeOK, NEW c \in Clients, NEW n \in Reads(c),
         Line(c, n).verb = "mail", smtp' = [smtp EXCEPT ![c] = WithSender(c, n)]
  PROVE  Ordered(smtp'[c])
<1> DEFINE a == Answered(c, n, "MAIL_FROM_WRITE", "250 mail")
           t == smtp'[c]
<1>1. t = [a EXCEPT !.mailfrom = Line(c, n).arg, !.named = {}]
  BY DEF WithSender, TypeOK
<1>2. Line(c, n).arg \in Senders
  BY InputType DEF Lines
<1>3. a.stm = "MAIL_FROM_WRITE" /\ {"stm", "named", "mailfrom"} \subseteq DOMAIN a
  <2>1. smtp[c] \in Session
    BY DEF TypeOK
  <2> QED
    BY <2>1 DEF Answered, Session
<1> HIDE DEF a
<1>4. t.stm = "MAIL_FROM_WRITE" /\ t.mailfrom = Line(c, n).arg /\ t.named = {}
  BY <1>1, <1>3
<1> QED
  BY <1>2, <1>4 DEF Ordered, InTransaction

LEMMA CreateMailsFilesOrdered ==
  ASSUME TypeOK, NEW c \in Clients, NEW n \in Reads(c), CreateMailsFiles(c, n),
         smtp[c].stm = "DATA_READ", Ordered(smtp[c])
  PROVE  Ordered(smtp'[c])
<1> DEFINE a == Answered(c, n, "DATA_WRITE", "354")
           s == smtp[c]
           t == smtp'[c]
           g == [i \in DOMAIN a.rcpt_list |->
                   [a.rcpt_list[i] EXCEPT !.file = Len(files) + i]]
<1>1. t = [a EXCEPT !.rcpt_list = g, !.body = 0]
  BY DEF CreateMailsFiles, WithFiles, TypeOK
<1>2. /\ a.stm = "DATA_WRITE" /\ a.request = Line(c, n)
      /\ a.named = s.named /\ a.mailfrom = s.mailfrom
      /\ a.rcpt_list = s.rcpt_list /\ DOMAIN a = DOMAIN s
  BY AnsweredFields
<1>3. s \in Session
  BY DEF TypeOK
<1>4. {"stm", "request", "named", "mailfrom", "rcpt_list"} \subseteq DOMAIN a
  BY <1>2, <1>3 DEF Session
<1> HIDE DEF a, g
<1>5. /\ t.stm = "DATA_WRITE" /\ t.named = s.named /\ t.mailfrom = s.mailfrom
      /\ t.rcpt_list = g
  BY <1>1, <1>2, <1>4
<1>6. EmailsOf(t) = EmailsOf(s)
  <2>1. s.rcpt_list \in Seq(Node)
    BY <1>3 DEF Session
  <2>2. \A i \in DOMAIN s.rcpt_list : s.rcpt_list[i] \in Node
    BY <2>1, ElementOfSeq, LenProperties
  <2>3. DOMAIN g = DOMAIN s.rcpt_list
    BY <1>2 DEF g
  <2>4. \A i \in DOMAIN s.rcpt_list : g[i].email = s.rcpt_list[i].email
    BY <1>2, <2>2 DEF g, Node
  <2> QED
    BY <1>5, <2>3, <2>4 DEF EmailsOf
<1> QED
  BY <1>5, <1>6 DEF Ordered, InTransaction

LEMMA ReadHandlerOrdered ==
  ASSUME TypeOK, NEW c \in Clients, ReadHandler(c), Ordered(smtp[c])
  PROVE  Ordered(smtp'[c])
<1> USE DEF InTransaction
<1>1. CASE Done(c)
  BY <1>1, DoneOrdered
<1>2. CASE FailedConnectionRead(c)
  BY <1>1, <1>2, AnswerOrdered DEF FailedConnectionRead, ReadFails, Quit
<1>3. CASE EhloRead(c)
  BY <1>1, <1>3, AnswerOrdered DEF EhloRead, ReadFails, Quit
<1>4. CASE MailFromRead(c)
  BY <1>1, <1>4, AnswerOrdered, WithSenderOrdered DEF MailFromRead, ReadFails, Quit
<1>5. CASE RcptToRead(c)
  <2>1. smtp[c].stm = "RCPT_TO_READ"
    BY <1>5 DEF RcptToRead, ReadFails, ReadReady
  <2> QED
    BY <1>1, <1>5, <2>1, AnswerOrdered, AddRcptOrdered
    DEF RcptToRead, ReadFails, Quit, InDomain
<1>6. CASE DataRead(c)
  <2>1. smtp[c].stm = "DATA_READ"
    BY <1>6 DEF DataRead, ReadFails, ReadReady
  <2> QED
    BY <1>1, <1>6, <2>1, AnswerOrdered, AddRcptOrdered, CreateMailsFilesOrdered
    DEF DataRead, ReadFails, Quit
<1>7. CASE MailInfoRead(c)
  <2>1. smtp[c].stm = "MAIL_INFO_READ" /\ smtp[c] \in Session
    BY <1>7 DEF MailInfoRead, ReadFails, ReadReady, TypeOK
  <2>2. ASSUME NEW n \in Reads(c), NEW k \in 1..Len(Input(c, n)),
               \/ smtp' = [smtp EXCEPT ![c] =
                     [BodyTaken(c, n, k) EXCEPT
                        !.stm = "MAIL_INFO_WRITE", !.interest = "WRITE",
                        !.write_buffer = "250 queued", !.data_parser = "data_done",
                        !.body = @ + k - 1]]
               \/ smtp' = [smtp EXCEPT ![c] =
                     [BodyTaken(c, n, k) EXCEPT !.body = @ + k]]
        PROVE  Ordered(smtp'[c])
    <3> DEFINE b == BodyTaken(c, n, k)
               done == [b EXCEPT !.stm = "MAIL_INFO_WRITE", !.interest = "WRITE",
                                 !.write_buffer = "250 queued",
                                 !.data_parser = "data_done", !.body = b.body + k - 1]
               more == [b EXCEPT !.body = b.body + k]
    <3>1. smtp'[c] = done \/ smtp'[c] = more
      BY <2>2 DEF TypeOK
    <3>2. /\ b.stm = smtp[c].stm /\ b.named = smtp[c].named
          /\ b.mailfrom = smtp[c].mailfrom /\ b.rcpt_list = smtp[c].rcpt_list
      BY <2>1 DEF BodyTaken, Session
    <3>3. {"stm", "named", "mailfrom", "rcpt_list"} \subseteq DOMAIN b
      BY <2>1 DEF BodyTaken, Session
    <3> HIDE DEF b
    <3>4. /\ done.stm = "MAIL_INFO_WRITE" /\ done.named = b.named
          /\ done.mailfrom = b.mailfrom /\ done.rcpt_list = b.rcpt_list
      BY <3>3
    <3>5. /\ more.stm = b.stm /\ more.named = b.named
          /\ more.mailfrom = b.mailfrom /\ more.rcpt_list = b.rcpt_list
      BY <3>3
    <3> HIDE DEF done, more
    <3>6. /\ smtp'[c].stm \in {"MAIL_INFO_READ", "MAIL_INFO_WRITE"}
          /\ smtp'[c].named = smtp[c].named /\ smtp'[c].mailfrom = smtp[c].mailfrom
          /\ smtp'[c].rcpt_list = smtp[c].rcpt_list
      BY <2>1, <3>1, <3>2, <3>4, <3>5
    <3>7. EmailsOf(smtp'[c]) = EmailsOf(smtp[c])
      BY <3>6 DEF EmailsOf
    <3> QED
      BY <2>1, <3>6, <3>7 DEF Ordered
  <2> QED
    BY <1>1, <1>7, <2>2 DEF MailInfoRead, ReadFails
<1> QED
  BY <1>2, <1>3, <1>4, <1>5, <1>6, <1>7 DEF ReadHandler

\* A reply sent: the next state is one the reply under way warrants.
LEMMA ArrivedOrdered ==
  ASSUME NEW s \in Session, NEW next \in ReadStates,
         InTransaction([stm |-> next]) =>
           s.named \subseteq EmailsOf(s) /\ s.mailfrom \in Senders,
         next \in {"DATA_READ", "MAIL_INFO_READ"} => s.named \cap Local # {}
  PROVE  Ordered(Arrived(s, next))
<1> DEFINE t == Arrived(s, next)
<1>1. /\ t.stm = next /\ t.named = s.named /\ t.mailfrom = s.mailfrom
      /\ t.rcpt_list = s.rcpt_list
  BY DEF Arrived, Session
<1> HIDE DEF t
<1>2. EmailsOf(t) = EmailsOf(s)
  BY <1>1 DEF EmailsOf
<1> QED
  BY <1>1, <1>2 DEF Ordered, InTransaction, ReadStates, CommandStates, t

LEMMA WriteHandlerOrdered ==
  ASSUME TypeOK, NEW c \in Clients, WriteHandler(c), Ordered(smtp[c])
  PROVE  Ordered(smtp'[c])
<1> DEFINE s == smtp[c]
<1>1. CASE Done(c)
  BY <1>1, DoneOrdered
<1>2. s \in Session
  BY DEF TypeOK
<1>3. ASSUME NEW left \in Session, NEW next \in ReadStates,
             smtp' = [smtp EXCEPT ![c] = Arrived(left, next)],
             InTransaction([stm |-> next]) =>
               left.named \subseteq EmailsOf(left) /\ left.mailfrom \in Senders,
             next \in {"DATA_READ", "MAIL_INFO_READ"} => left.named \cap Local # {}
      PROVE  Ordered(smtp'[c])
  <2>1. smtp'[c] = Arrived(left, next)
    BY <1>3 DEF TypeOK
  <2> QED
    BY <1>3, <2>1, ArrivedOrdered
<1> USE DEF ReadStates, CommandStates, BannerWrite, WriteStatus, WriteReady, InTransaction
<1>4. CASE GreetingWrite(c) \/ FailedConnectionWrite(c)
  BY <1>1, <1>2, <1>3, <1>4 DEF GreetingWrite, FailedConnectionWrite
<1>5. CASE EhloWrite(c)
  BY <1>1, <1>2, <1>3, <1>5 DEF EhloWrite
<1>6. CASE MailFromWrite(c)
  <2>1. s.request.verb = "mail" => s.named \subseteq EmailsOf(s) /\ s.mailfrom \in Senders
    BY <1>6 DEF MailFromWrite, Ordered
  <2> QED
    BY <1>1, <1>2, <1>3, <1>6, <2>1 DEF MailFromWrite
<1>7. CASE RcptToWrite(c)
  <2>1. /\ s.named \subseteq EmailsOf(s) /\ s.mailfrom \in Senders
        /\ s.request.verb = "rcpt" /\ s.request.arg \in Local => s.named \cap Local # {}
    BY <1>7 DEF RcptToWrite, Ordered
  <2> QED
    BY <1>1, <1>2, <1>3, <1>7, <2>1 DEF RcptToWrite, AfterRcptTo, InDomain
<1>8. CASE DataWrite(c)
  <2> DEFINE left == DataBufferInit(s)
  <2>1. /\ left \in Session /\ left.named = s.named /\ left.mailfrom = s.mailfrom
        /\ left.rcpt_list = s.rcpt_list
    BY <1>2 DEF DataBufferInit, Session
  <2> HIDE DEF left
  <2>2. EmailsOf(left) = EmailsOf(s)
    BY <2>1 DEF EmailsOf
  <2>3. s.named \subseteq EmailsOf(s) /\ s.mailfrom \in Senders /\ s.named \cap Local # {}
    BY <1>8 DEF DataWrite, Ordered
  <2> QED
    BY <1>1, <1>3, <1>8, <2>1, <2>2, <2>3 DEF DataWrite, left
<1>9. CASE MailInfoWrite(c)
  <2>1. FreeRcptList(s) \in Session
    BY <1>2, EmptySeq DEF FreeRcptList, Session
  <2> QED
    BY <1>1, <1>3, <1>9, <2>1 DEF MailInfoWrite
<1> QED
  BY <1>4, <1>5, <1>6, <1>7, <1>8, <1>9 DEF WriteHandler

LEMMA EnvironmentOrdered ==
  ASSUME TypeOK, NEW c \in Clients, Accept(c) \/ Environment(c), Ordered(smtp[c])
  PROVE  Ordered(smtp'[c])
<1>1. CASE smtp' = [smtp EXCEPT ![c] = Fresh(InitialState)]
  <2>1. smtp'[c].stm = InitialState
    BY <1>1 DEF TypeOK, Fresh, Closed
  <2> QED
    BY <2>1 DEF InitialState, Ordered, InTransaction
<1>2. CASE smtp' = smtp
  BY <1>2
<1> QED
  BY <1>1, <1>2 DEF Accept, Environment, Send, Fin, Reset

OrderInv == TypeInv /\ \A d \in Clients : Ordered(smtp[d])

LEMMA InitOrder == Init => OrderInv
<1> SUFFICES ASSUME Init PROVE OrderInv
  OBVIOUS
<1>1. \A d \in Clients : smtp[d].stm = "CLOSED"
  BY DEF Init, Closed
<1> QED
  BY <1>1, InitTypeInv DEF OrderInv, Ordered, InTransaction

LEMMA StepOrder == OrderInv /\ [Next]_vars => OrderInv'
<1> SUFFICES ASSUME OrderInv, [Next]_vars PROVE OrderInv'
  OBVIOUS
<1>1. CASE UNCHANGED vars
  <2>1. Open' = Open
    BY <1>1 DEF vars, Open
  <2> QED
    BY <1>1, <2>1 DEF vars, OrderInv, TypeInv, TypeOK, UsersCovered
<1>2. ASSUME NEW c \in Clients,
             Accept(c) \/ ReadHandler(c) \/ WriteHandler(c) \/ Environment(c)
      PROVE  OrderInv'
  <2>1. TypeInv' /\ StepOf(c)
    BY <1>2, NextStep, StepOfType DEF OrderInv
  <2>2. Ordered(smtp'[c])
    BY <1>2, ReadHandlerOrdered, WriteHandlerOrdered, EnvironmentOrdered
    DEF OrderInv, TypeInv
  <2>3. \A d \in Clients : d # c => smtp'[d] = smtp[d]
    BY <2>1 DEF StepOf, OrderInv, TypeInv, TypeOK
  <2>4. \A d \in Clients : Ordered(smtp'[d])
    BY <2>2, <2>3 DEF OrderInv
  <2> QED
    BY <2>1, <2>4 DEF OrderInv
<1> QED
  BY <1>1, <1>2 DEF Next

\* However a client mixes its commands, the data of a mail begins only behind a MAIL
\* FROM and, since it, a recipient of the domain, both answered 250.
THEOREM DataInOrder == Spec => []TransactionOrder
<1>1. OrderInv => TransactionOrder
  BY DEF OrderInv, Ordered, InTransaction, TransactionOrder
<1> QED
  BY <1>1, InitOrder, StepOrder, PTL DEF Spec

\* Every recipient answered 250 stays in the list until the mail is over, refused and
\* repeated commands in between notwithstanding.
THEOREM RecipientsKept == Spec => []AckedRecipientsKept
<1>1. OrderInv => AckedRecipientsKept
  BY DEF OrderInv, Ordered, AckedRecipientsKept
<1> QED
  BY <1>1, InitOrder, StepOrder, PTL DEF Spec
=============================================================================
