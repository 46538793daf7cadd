------------------------- MODULE TransactionProofs -------------------------
(***************************************************************************)
(* Theorems about the mails of SmtpServer, for any clients, addresses and  *)
(* limits: the files of a mail, and what a transaction comes to.           *)
(*                                                                         *)
(* First, what a step does to the mail of its connection and to the files, *)
(* one definition for each way; everything else is proved from these.      *)
(***************************************************************************)
EXTENDS SmtpProofs

\* The mail of a connection is left as it was.
SameMail(s, t) ==
  /\ t.rcpt_list = s.rcpt_list /\ t.named = s.named
  /\ t.mailfrom = s.mailfrom /\ t.body = s.body

\* A command answered without effect on the mail.
Answers(s, t) ==
  /\ SameMail(s, t)
  /\ \/ s.stm = "FAILED_CONNECTION_READ" /\ t.stm = "FAILED_CONNECTION_WRITE"
     \/ s.stm = "EHLO_READ" /\ t.stm = "EHLO_WRITE"
     \/ s.stm = "MAIL_FROM_READ" /\ t.stm = "MAIL_FROM_WRITE" /\ t.request.verb # "mail"
     \/ /\ s.stm = "RCPT_TO_READ" /\ t.stm = "RCPT_TO_WRITE"
        /\ ~(t.request.verb = "rcpt" /\ t.request.arg \in Local)
     \/ s.stm = "RCPT_TO_READ" /\ t.stm = "MAIL_FROM_WRITE" /\ t.request.verb # "mail"
     \/ s.stm = "DATA_READ" /\ t.stm = "DATA_WRITE" /\ t.request.verb # "data"

\* MAIL FROM answered 250.
BeginsMail(s, t) ==
  /\ s.stm = "MAIL_FROM_READ" /\ t.stm = "MAIL_FROM_WRITE" /\ t.request.verb = "mail"
  /\ t.mailfrom \in Senders /\ t.named = {}
  /\ t.rcpt_list = s.rcpt_list /\ t.body = s.body

\* RCPT TO answered 250.
NamesRcpt(s, t) ==
  /\ \/ s.stm = "RCPT_TO_READ" /\ t.request.arg \in Local
     \/ s.stm = "DATA_READ"
  /\ t.stm = "RCPT_TO_WRITE" /\ t.request.verb = "rcpt" /\ t.request.arg \in Emails
  /\ t.rcpt_list = <<[email |-> t.request.arg, file |-> 0]>> \o s.rcpt_list
  /\ t.named = s.named \cup {t.request.arg}
  /\ t.mailfrom = s.mailfrom /\ t.body = s.body

\* A reply sent that leaves the mail as it is.
MovesOn(s, t) ==
  /\ SameMail(s, t)
  /\ \/ s.stm = "GREETING_WRITE" /\ t.stm = "EHLO_READ"
     \/ s.stm = "FAILED_CONNECTION_WRITE" /\ t.stm = "FAILED_CONNECTION_READ"
     \/ s.stm = "EHLO_WRITE" /\ t.stm \in {"EHLO_READ", "MAIL_FROM_READ"}
     \/ s.stm = "MAIL_FROM_WRITE" /\ s.request.verb = "mail" /\ t.stm = "RCPT_TO_READ"
     \/ s.stm = "MAIL_FROM_WRITE" /\ s.request.verb # "mail" /\ t.stm = "MAIL_FROM_READ"
     \/ s.stm = "RCPT_TO_WRITE" /\ t.stm = AfterRcptTo(s)
     \/ s.stm = "DATA_WRITE" /\ s.request.verb # "data" /\ t.stm = "DATA_READ"
     \/ /\ s.stm = "DATA_WRITE" /\ s.request.verb = "data" /\ t.stm = "MAIL_INFO_READ"
        /\ t.data_parser = "data_data"

\* DATA answered 354: a file for each node.
CreatesFiles(s, t) ==
  /\ s.stm = "DATA_READ" /\ t.stm = "DATA_WRITE" /\ t.request.verb = "data"
  /\ t.rcpt_list = [i \in DOMAIN s.rcpt_list |->
                      [s.rcpt_list[i] EXCEPT !.file = Len(files) + i]]
  /\ t.named = s.named /\ t.mailfrom = s.mailfrom /\ t.body = 0
  /\ files' = files \o NewFiles(s)

\* lines of the body, with its end or without.
TakesLines(s, t, lines, ended) ==
  /\ s.stm = "MAIL_INFO_READ"
  /\ t.stm = IF ended THEN "MAIL_INFO_WRITE" ELSE "MAIL_INFO_READ"
  /\ ~ended => t.data_parser = s.data_parser
  /\ t.rcpt_list = s.rcpt_list /\ t.named = s.named
  /\ t.mailfrom = s.mailfrom /\ t.body = s.body + lines
  /\ WriteToFiles(s, lines, ended)

\* The mail is counted and its files renamed, its reply sent or not.
Delivers(s, t) ==
  /\ s.stm = "MAIL_INFO_WRITE" /\ t.stm \in {"MAIL_FROM_READ", "CLOSED"}
  /\ t.rcpt_list = <<>>
  /\ CloseFds(s)
  /\ mails_sent' = mails_sent + 1

\* A connection begins or ends; not one that delivers.
Enters(s, t) ==
  /\ s.stm = "CLOSED" /\ t.stm \in BannerStates
  /\ t.rcpt_list = <<>>
Leaves(s, t) ==
  /\ s.stm \notin {"CLOSED", "MAIL_INFO_WRITE"} /\ t.stm = "CLOSED"
  /\ t.rcpt_list = <<>>

\* A connection that touches no file.
Talks(s, t) ==
  \/ Answers(s, t) \/ BeginsMail(s, t) \/ NamesRcpt(s, t) \/ MovesOn(s, t)
  \/ Enters(s, t) \/ Leaves(s, t)

\* A step of c: of its connection, of one of its files, or of neither.
MailStep(c) ==
  LET s == smtp[c]
      t == smtp'[c]
  IN  /\ \A d \in Clients : d # c => smtp'[d] = smtp[d]
      /\ \/ smtp' = smtp /\ UNCHANGED <<files, mails_sent>>
         \/ Talks(s, t) /\ UNCHANGED <<files, mails_sent>>
         \/ CreatesFiles(s, t) /\ UNCHANGED mails_sent
         \/ \E lines \in Nat, ended \in BOOLEAN :
              TakesLines(s, t, lines, ended) /\ UNCHANGED mails_sent
         \/ Delivers(s, t)

-----------------------------------------------------------------------------
LEMMA AnsweredMail ==
  ASSUME TypeOK, NEW c \in Clients, NEW n, NEW next, NEW code
  PROVE  LET a == Answered(c, n, next, code)
         IN  a.stm = next /\ a.request = Line(c, n) /\ SameMail(smtp[c], a)
<1>1. smtp[c] \in Session
  BY DEF TypeOK
<1> QED
  BY <1>1 DEF Answered, Session, SameMail

LEMMA AnswerTalks ==
  ASSUME TypeOK, NEW c \in Clients, NEW n, NEW next, NEW code,
         Answer(c, n, next, code)
  PROVE  /\ smtp'[c].stm = next /\ smtp'[c].request = Line(c, n)
         /\ SameMail(smtp[c], smtp'[c])
         /\ UNCHANGED <<files, mails_sent>>
<1>1. smtp'[c] = Answered(c, n, next, code)
  BY DEF Answer, TypeOK
<1> QED
  BY <1>1, AnsweredMail DEF Answer, counters

\* The end of a connection by any handler but that of MAIL_INFO_WRITE.
LEMMA DoneLeaves ==
  ASSUME TypeOK, NEW c \in Clients, Done(c),
         smtp[c].stm \notin {"CLOSED", "MAIL_INFO_WRITE"}
  PROVE  Leaves(smtp[c], smtp'[c])
<1>1. smtp'[c] = Closed
  BY DEF Done, TypeOK
<1>2. Closed.stm = "CLOSED" /\ Closed.rcpt_list = <<>>
  BY DEF Closed
<1> QED
  BY <1>1, <1>2 DEF Leaves

LEMMA QuitTalks ==
  ASSUME TypeOK, NEW c \in Clients, NEW n, Quit(c, n),
         smtp[c].stm \notin {"CLOSED", "MAIL_INFO_WRITE"}
  PROVE  Talks(smtp[c], smtp'[c]) /\ UNCHANGED <<files, mails_sent>>
  BY DoneLeaves DEF Quit, Talks

LEMMA ReadFailsTalks ==
  ASSUME TypeOK, NEW c \in Clients, NEW st \in ReadStates, ReadFails(c, st)
  PROVE  Talks(smtp[c], smtp'[c]) /\ UNCHANGED <<files, mails_sent>>
<1>1. smtp[c].stm \notin {"CLOSED", "MAIL_INFO_WRITE"}
  BY DEF ReadFails, ReadReady, ReadStates, CommandStates
<1> QED
  BY <1>1, DoneLeaves DEF ReadFails, Talks

LEMMA WithSenderBegins ==
  ASSUME TypeOK, NEW c \in Clients, NEW n \in Reads(c), smtp[c].stm = "MAIL_FROM_READ",
         Line(c, n).verb = "mail", smtp' = [smtp EXCEPT ![c] = WithSender(c, n)]
  PROVE  BeginsMail(smtp[c], smtp'[c])
<1> DEFINE a == Answered(c, n, "MAIL_FROM_WRITE", "250 mail")
           s == smtp[c]
           t == smtp'[c]
<1>1. t = [a EXCEPT !.mailfrom = Line(c, n).arg, !.named = {}]
  BY DEF WithSender, TypeOK
<1>2. Line(c, n).arg \in Senders
  BY InputType DEF Lines
<1>3. a.stm = "MAIL_FROM_WRITE" /\ a.request = Line(c, n) /\ SameMail(s, a)
  BY AnsweredMail
<1>4. {"stm", "request", "named", "mailfrom", "rcpt_list", "body"} \subseteq DOMAIN a
  <2>1. smtp[c] \in Session
    BY DEF TypeOK
  <2> QED
    BY <2>1 DEF Answered, Session
<1> HIDE DEF a
<1>5. /\ t.stm = a.stm /\ t.mailfrom = Line(c, n).arg /\ t.named = {}
      /\ t.request = a.request /\ t.rcpt_list = a.rcpt_list /\ t.body = a.body
  BY <1>1, <1>4
<1> QED
  BY <1>2, <1>3, <1>5 DEF BeginsMail, SameMail

LEMMA AddRcptNames ==
  ASSUME TypeOK, NEW c \in Clients, NEW n \in Reads(c), AddRcpt(c, n),
         \/ smtp[c].stm = "RCPT_TO_READ" /\ Line(c, n).arg \in Local
         \/ smtp[c].stm = "DATA_READ"
  PROVE  NamesRcpt(smtp[c], smtp'[c])
<1> DEFINE a == Answered(c, n, "RCPT_TO_WRITE", "250 rcpt")
           s == smtp[c]
           t == smtp'[c]
           arg == Line(c, n).arg
           node == [email |-> arg, file |-> 0]
<1>1. t = [a EXCEPT !.rcpt_list = <<node>> \o a.rcpt_list, !.named = a.named \cup {arg}]
  BY DEF AddRcpt, WithRcpt, TypeOK
<1>2. Line(c, n).verb = "rcpt" /\ arg \in Emails
  BY InputType DEF AddRcpt, Lines
<1>3. a.stm = "RCPT_TO_WRITE" /\ a.request = Line(c, n) /\ SameMail(s, a)
  BY AnsweredMail
<1>4. {"stm", "request", "named", "mailfrom", "rcpt_list", "body"} \subseteq DOMAIN a
  <2>1. smtp[c] \in Session
    BY DEF TypeOK
  <2> QED
    BY <2>1 DEF Answered, Session
<1> HIDE DEF a
<1>5. /\ t.stm = a.stm /\ t.mailfrom = a.mailfrom /\ t.named = a.named \cup {arg}
      /\ t.request = a.request /\ t.rcpt_list = <<node>> \o a.rcpt_list
      /\ t.body = a.body
  BY <1>1, <1>4
<1> QED
  BY <1>2, <1>3, <1>5 DEF NamesRcpt, SameMail, AddRcpt

LEMMA CreateMailsFilesCreates ==
  ASSUME TypeOK, NEW c \in Clients, NEW n \in Reads(c), CreateMailsFiles(c, n),
         smtp[c].stm = "DATA_READ"
  PROVE  CreatesFiles(smtp[c], smtp'[c]) /\ UNCHANGED mails_sent
<1> DEFINE a == Answered(c, n, "DATA_WRITE", "354")
           s == smtp[c]
           t == smtp'[c]
           g == [i \in DOMAIN a.rcpt_list |->
                   [a.rcpt_list[i] EXCEPT !.file = Len(files) + i]]
<1>1. t = [a EXCEPT !.rcpt_list = g, !.body = 0]
  BY DEF CreateMailsFiles, WithFiles, TypeOK
<1>2. a.stm = "DATA_WRITE" /\ a.request = Line(c, n) /\ SameMail(s, a)
  BY AnsweredMail
<1>3. {"stm", "request", "named", "mailfrom", "rcpt_list", "body"} \subseteq DOMAIN a
  <2>1. smtp[c] \in Session
    BY DEF TypeOK
  <2> QED
    BY <2>1 DEF Answered, Session
<1> HIDE DEF a
<1>4. g = [i \in DOMAIN s.rcpt_list |->
             [s.rcpt_list[i] EXCEPT !.file = Len(files) + i]]
  BY <1>2 DEF SameMail
<1> HIDE DEF g
<1>5. /\ t.stm = a.stm /\ t.mailfrom = a.mailfrom /\ t.named = a.named
      /\ t.request = a.request /\ t.rcpt_list = g /\ t.body = 0
  BY <1>1, <1>3
<1> QED
  BY <1>2, <1>4, <1>5 DEF CreatesFiles, SameMail, CreateMailsFiles, counters

LEMMA MailInfoReadTakes ==
  ASSUME TypeOK, NEW c \in Clients, smtp[c].data_parser = "data_data",
         NEW n \in Reads(c), NEW k \in 1..Len(Input(c, n)),
         smtp[c].stm = "MAIL_INFO_READ",
         \/ /\ smtp[c].data_parser = "data_done" \/ Input(c, n)[k].verb = "eod"
            /\ WriteToFiles(smtp[c], k - 1, Input(c, n)[k].verb = "eod")
            /\ smtp' = [smtp EXCEPT ![c] =
                 [BodyTaken(c, n, k) EXCEPT
                    !.stm = "MAIL_INFO_WRITE", !.interest = "WRITE",
                    !.write_buffer = "250 queued", !.data_parser = "data_done",
                    !.body = @ + k - 1]]
         \/ /\ smtp[c].data_parser # "data_done" /\ Input(c, n)[k].verb # "eod"
            /\ WriteToFiles(smtp[c], k, FALSE)
            /\ smtp' = [smtp EXCEPT ![c] =
                 [BodyTaken(c, n, k) EXCEPT !.body = @ + k]]
  PROVE  \E lines \in Nat, ended \in BOOLEAN :
           TakesLines(smtp[c], smtp'[c], lines, ended)
<1> DEFINE b == BodyTaken(c, n, k)
           s == smtp[c]
           t == smtp'[c]
<1>1. k \in Nat /\ k - 1 \in Nat
  <2>1. Len(Input(c, n)) \in Nat
    BY InputType, LenProperties DEF LineSeqs
  <2> QED
    BY <2>1
<1>2. s \in Session
  BY DEF TypeOK
<1>3. /\ b.stm = s.stm /\ b.data_parser = s.data_parser /\ SameMail(s, b)
  BY <1>2 DEF BodyTaken, Session, SameMail
<1>4. {"stm", "interest", "write_buffer", "data_parser", "named", "mailfrom",
       "rcpt_list", "body"} \subseteq DOMAIN b
  BY <1>2 DEF BodyTaken, Session
<1>5. s.body \in Nat
  BY <1>2 DEF Session
<1>6. CASE /\ Input(c, n)[k].verb = "eod"
           /\ WriteToFiles(s, k - 1, Input(c, n)[k].verb = "eod")
           /\ smtp' = [smtp EXCEPT ![c] =
                [b EXCEPT
                   !.stm = "MAIL_INFO_WRITE", !.interest = "WRITE",
                   !.write_buffer = "250 queued", !.data_parser = "data_done",
                   !.body = b.body + k - 1]]
  <2>1. t = [b EXCEPT !.stm = "MAIL_INFO_WRITE", !.interest = "WRITE",
                      !.write_buffer = "250 queued", !.data_parser = "data_done",
                      !.body = b.body + k - 1]
    BY <1>6, <1>2 DEF TypeOK
  <2> HIDE DEF b
  <2>2. /\ t.stm = "MAIL_INFO_WRITE" /\ t.named = b.named /\ t.mailfrom = b.mailfrom
        /\ t.rcpt_list = b.rcpt_list /\ t.body = b.body + k - 1
    BY <1>4, <2>1
  <2>3. t.body = s.body + (k - 1)
    BY <1>1, <1>3, <1>5, <2>2 DEF SameMail
  <2>4. (Input(c, n)[k].verb = "eod") = TRUE
    BY <1>6
  <2>5. WriteToFiles(s, k - 1, TRUE)
    BY <1>6, <2>4
  <2>6. TakesLines(s, t, k - 1, TRUE)
    BY <1>3, <2>2, <2>3, <2>5 DEF TakesLines, SameMail
  <2> QED
    BY <1>1, <2>6
<1>7. CASE /\ WriteToFiles(s, k, FALSE)
           /\ smtp' = [smtp EXCEPT ![c] = [b EXCEPT !.body = b.body + k]]
  <2>1. t = [b EXCEPT !.body = b.body + k]
    BY <1>7, <1>2 DEF TypeOK
  <2> HIDE DEF b
  <2>2. /\ t.stm = b.stm /\ t.named = b.named /\ t.mailfrom = b.mailfrom
        /\ t.rcpt_list = b.rcpt_list /\ t.body = b.body + k
        /\ t.data_parser = b.data_parser
    BY <1>4, <2>1
  <2>3. TakesLines(s, t, k, FALSE)
    BY <1>3, <1>7, <2>2 DEF TakesLines, SameMail
  <2> QED
    BY <1>1, <2>3
<1> QED
  BY <1>6, <1>7

LEMMA ReadHandlerMail ==
  ASSUME TypeOK, NEW c \in Clients, ReadHandler(c),
         smtp[c].stm = "MAIL_INFO_READ" => smtp[c].data_parser = "data_data"
  PROVE  \/ Talks(smtp[c], smtp'[c]) /\ UNCHANGED <<files, mails_sent>>
         \/ CreatesFiles(smtp[c], smtp'[c]) /\ UNCHANGED mails_sent
         \/ \E lines \in Nat, ended \in BOOLEAN :
              TakesLines(smtp[c], smtp'[c], lines, ended) /\ UNCHANGED mails_sent
<1> DEFINE s == smtp[c]
           t == smtp'[c]
           Talking == Talks(s, t) /\ UNCHANGED <<files, mails_sent>>
<1>1. ASSUME NEW st \in ReadStates, ReadFails(c, st) PROVE Talking
  BY <1>1, ReadFailsTalks
<1>2. ASSUME NEW n, Quit(c, n), s.stm \notin {"CLOSED", "MAIL_INFO_WRITE"} PROVE Talking
  BY <1>2, QuitTalks
<1>3. CASE FailedConnectionRead(c)
  <2>1. ASSUME NEW n, Answer(c, n, "FAILED_CONNECTION_WRITE", ""),
               s.stm = "FAILED_CONNECTION_READ"
        PROVE  Talking
    BY <2>1, AnswerTalks DEF Talks, Answers
  <2> QED
    BY <1>1, <1>2, <1>3, <2>1
    DEF FailedConnectionRead, ReadReady, ReadStates, CommandStates
<1>4. CASE EhloRead(c)
  <2>1. ASSUME NEW n, NEW code, Answer(c, n, "EHLO_WRITE", code), s.stm = "EHLO_READ"
        PROVE  Talking
    BY <2>1, AnswerTalks DEF Talks, Answers
  <2> QED
    BY <1>1, <1>2, <1>4, <2>1 DEF EhloRead, ReadReady, ReadStates, CommandStates
<1>5. CASE MailFromRead(c)
  <2>1. ASSUME NEW n, NEW code, Answer(c, n, "MAIL_FROM_WRITE", code),
               Line(c, n).verb # "mail", s.stm = "MAIL_FROM_READ"
        PROVE  Talking
    BY <2>1, AnswerTalks DEF Talks, Answers
  <2>2. ASSUME NEW n \in Reads(c), Line(c, n).verb = "mail", s.stm = "MAIL_FROM_READ",
               smtp' = [smtp EXCEPT ![c] = WithSender(c, n)],
               UNCHANGED <<files, counters>>
        PROVE  Talking
    BY <2>2, WithSenderBegins DEF Talks, counters
  <2> QED
    BY <1>1, <1>2, <1>5, <2>1, <2>2 DEF MailFromRead, ReadReady, ReadStates, CommandStates
<1>6. CASE RcptToRead(c)
  <2>1. ASSUME NEW n, NEW code, Answer(c, n, "RCPT_TO_WRITE", code),
               ~(Line(c, n).verb = "rcpt" /\ Line(c, n).arg \in Local),
               s.stm = "RCPT_TO_READ"
        PROVE  Talking
    BY <2>1, AnswerTalks DEF Talks, Answers
  <2>2. ASSUME NEW n, NEW code, Answer(c, n, "MAIL_FROM_WRITE", code),
               Line(c, n).verb # "mail", s.stm = "RCPT_TO_READ"
        PROVE  Talking
    BY <2>2, AnswerTalks DEF Talks, Answers
  <2>3. ASSUME NEW n \in Reads(c), InDomain(Line(c, n).arg), AddRcpt(c, n),
               s.stm = "RCPT_TO_READ"
        PROVE  Talking
    BY <2>3, AddRcptNames DEF Talks, InDomain, AddRcpt, counters
  <2> QED
    BY <1>1, <1>2, <1>6, <2>1, <2>2, <2>3
    DEF RcptToRead, ReadReady, InDomain, ReadStates, CommandStates
<1>7. CASE DataRead(c)
  <2>1. ASSUME NEW n, NEW code, Answer(c, n, "DATA_WRITE", code),
               Line(c, n).verb # "data", s.stm = "DATA_READ"
        PROVE  Talking
    BY <2>1, AnswerTalks DEF Talks, Answers
  <2>2. ASSUME NEW n \in Reads(c), AddRcpt(c, n), s.stm = "DATA_READ"
        PROVE  Talking
    BY <2>2, AddRcptNames DEF Talks, AddRcpt, counters
  <2> QED
    BY <1>1, <1>2, <1>7, <2>1, <2>2, CreateMailsFilesCreates
    DEF DataRead, ReadReady, ReadStates, CommandStates
<1>8. CASE MailInfoRead(c)
  <2>1. ReadFails(c, "MAIL_INFO_READ") \/ s.stm = "MAIL_INFO_READ"
    BY <1>8 DEF MailInfoRead, ReadReady
  <2>2. CASE ReadFails(c, "MAIL_INFO_READ")
    BY <1>1, <2>2 DEF ReadStates
  <2>3. CASE ~ReadFails(c, "MAIL_INFO_READ")
    <3>1. mails_sent' = mails_sent
      BY <1>8, <2>3 DEF MailInfoRead, counters
    <3>2. \E lines \in Nat, ended \in BOOLEAN : TakesLines(s, t, lines, ended)
      BY <1>8, <2>1, <2>3, MailInfoReadTakes DEF MailInfoRead
    <3> QED
      BY <3>1, <3>2
  <2> QED
    BY <2>2, <2>3
<1> QED
  BY <1>3, <1>4, <1>5, <1>6, <1>7, <1>8 DEF ReadHandler

\* A reply sent: what it leaves of the mail.
LEMMA ArrivedMail ==
  ASSUME NEW s \in Session, NEW next
  PROVE  /\ Arrived(s, next).stm = next /\ SameMail(s, Arrived(s, next))
         /\ Arrived(s, next).data_parser = s.data_parser
  BY DEF Arrived, Session, SameMail

LEMMA WriteHandlerMail ==
  ASSUME TypeOK, NEW c \in Clients, WriteHandler(c)
  PROVE  \/ Talks(smtp[c], smtp'[c]) /\ UNCHANGED <<files, mails_sent>>
         \/ Delivers(smtp[c], smtp'[c])
<1> DEFINE s == smtp[c]
           t == smtp'[c]
           Talking == Talks(s, t) /\ UNCHANGED <<files, mails_sent>>
<1>1. s \in Session
  BY DEF TypeOK
<1>2. ASSUME Done(c), UNCHANGED <<files, mails_sent>>,
             s.stm \notin {"CLOSED", "MAIL_INFO_WRITE"}
      PROVE  Talking
  BY <1>2, DoneLeaves DEF Talks
<1>3. ASSUME NEW next, smtp' = [smtp EXCEPT ![c] = Arrived(s, next)]
      PROVE  t.stm = next /\ SameMail(s, t)
  <2>1. t = Arrived(s, next)
    BY <1>3 DEF TypeOK
  <2> QED
    BY <1>1, <2>1, ArrivedMail
<1>4. CASE GreetingWrite(c)
  BY <1>2, <1>3, <1>4 DEF GreetingWrite, BannerWrite, WriteReady, Talks, MovesOn
<1>5. CASE FailedConnectionWrite(c)
  BY <1>2, <1>3, <1>5 DEF FailedConnectionWrite, BannerWrite, WriteReady, Talks, MovesOn
<1>6. CASE EhloWrite(c)
  BY <1>2, <1>3, <1>6 DEF EhloWrite, WriteStatus, WriteReady, Talks, MovesOn
<1>7. CASE MailFromWrite(c)
  BY <1>2, <1>3, <1>7 DEF MailFromWrite, WriteStatus, WriteReady, Talks, MovesOn
<1>8. CASE RcptToWrite(c)
  BY <1>2, <1>3, <1>8 DEF RcptToWrite, WriteStatus, WriteReady, Talks, MovesOn
<1>9. CASE DataWrite(c)
  <2> DEFINE left == DataBufferInit(s)
  <2>1. left \in Session /\ SameMail(s, left) /\ left.data_parser = "data_data"
    BY <1>1 DEF DataBufferInit, Session, SameMail
  <2> HIDE DEF left
  <2>2. ASSUME NEW next, smtp' = [smtp EXCEPT ![c] = Arrived(left, next)]
        PROVE  t.stm = next /\ SameMail(s, t) /\ t.data_parser = "data_data"
    <3>1. t = Arrived(left, next)
      BY <2>2 DEF TypeOK
    <3>2. t.stm = next /\ SameMail(left, t) /\ t.data_parser = left.data_parser
      BY <2>1, <3>1, ArrivedMail
    <3> QED
      BY <2>1, <3>2 DEF SameMail
  <2> QED
    BY <1>2, <1>9, <2>2 DEF DataWrite, WriteStatus, WriteReady, Talks, MovesOn, left
<1>10. CASE MailInfoWrite(c)
  <2> DEFINE left == FreeRcptList(s)
  <2>1. left \in Session /\ left.rcpt_list = <<>>
    <3>1. <<>> \in Seq(Node)
      BY EmptySeq
    <3> QED
      BY <1>1, <3>1 DEF FreeRcptList, Session
  <2> HIDE DEF left
  <2>2. CASE smtp' = [smtp EXCEPT ![c] = Arrived(left, "MAIL_FROM_READ")]
    <3>1. t = Arrived(left, "MAIL_FROM_READ")
      BY <2>2 DEF TypeOK
    <3>2. t.stm = "MAIL_FROM_READ" /\ t.rcpt_list = <<>>
      BY <2>1, <3>1, ArrivedMail DEF SameMail
    <3> QED
      BY <1>10, <3>2 DEF MailInfoWrite, WriteStatus, WriteReady, Delivers
  <2>3. CASE Done(c)
    <3>1. t.stm = "CLOSED" /\ t.rcpt_list = <<>>
      BY <2>3 DEF Done, Closed, TypeOK
    <3> QED
      BY <1>10, <3>1 DEF MailInfoWrite, WriteStatus, WriteReady, Delivers
  <2> QED
    BY <1>10, <2>2, <2>3 DEF MailInfoWrite, WriteStatus, left
<1> QED
  BY <1>4, <1>5, <1>6, <1>7, <1>8, <1>9, <1>10 DEF WriteHandler

LEMMA EnvironmentMail ==
  ASSUME TypeOK, NEW c \in Clients, Accept(c) \/ Environment(c)
  PROVE  /\ smtp' = smtp \/ Talks(smtp[c], smtp'[c])
         /\ UNCHANGED <<files, mails_sent>>
<1>1. CASE Accept(c)
  <2>1. CASE smtp' = [smtp EXCEPT ![c] = Fresh(InitialState)]
    <3>1. smtp'[c] = Fresh(InitialState)
      BY <2>1 DEF TypeOK
    <3>2. Fresh(InitialState).stm = InitialState /\ Fresh(InitialState).rcpt_list = <<>>
      BY DEF Fresh, Closed
    <3>3. Enters(smtp[c], smtp'[c])
      BY <1>1, <3>1, <3>2 DEF Accept, Enters, InitialState, BannerStates
    <3> QED
      BY <1>1, <3>3 DEF Accept, Talks
  <2> QED
    BY <1>1, <2>1 DEF Accept
<1>2. CASE Environment(c)
  BY <1>2 DEF Environment, Send, Fin, Reset, counters
<1> QED
  BY <1>1, <1>2

\* Every step is a step of one of the mails.
LEMMA StepMail ==
  ASSUME TypeInv, NEW c \in Clients,
         smtp[c].stm = "MAIL_INFO_READ" => smtp[c].data_parser = "data_data",
         Accept(c) \/ ReadHandler(c) \/ WriteHandler(c) \/ Environment(c)
  PROVE  MailStep(c)
<1>1. TypeOK /\ StepOf(c)
  BY NextStep DEF TypeInv
<1>2. \A d \in Clients : d # c => smtp'[d] = smtp[d]
  BY <1>1 DEF StepOf, TypeOK
<1>3. CASE Accept(c) \/ Environment(c)
  BY <1>1, <1>2, <1>3, EnvironmentMail DEF MailStep
<1>4. CASE ReadHandler(c)
  BY <1>1, <1>2, <1>4, ReadHandlerMail DEF MailStep
<1>5. CASE WriteHandler(c)
  BY <1>1, <1>2, <1>5, WriteHandlerMail DEF MailStep
<1> QED
  BY <1>3, <1>4, <1>5

-----------------------------------------------------------------------------
(***************************************************************************)
(* The files.  FilesMatchRecipients says of each connection HasFiles or    *)
(* that its list has none; the files of a mail are all those with its      *)
(* number, which is what a rename of the whole list comes to.              *)
(***************************************************************************)
HasFiles(s, fs) ==
  /\ s.rcpt_list # <<>>
  /\ \A i \in DOMAIN s.rcpt_list :
       LET node == s.rcpt_list[i] IN
       /\ node.file \in DOMAIN fs
       /\ fs[node.file].email = node.email
       /\ fs[node.file].from = s.mailfrom
       /\ fs[node.file].dir = "tmp" /\ fs[node.file].open
       /\ fs[node.file].body = s.body
       /\ fs[node.file].ended <=> s.stm = "MAIL_INFO_WRITE"
  /\ \A i, j \in DOMAIN s.rcpt_list :
       s.rcpt_list[i].file = s.rcpt_list[j].file => i = j

Matches(s, fs) == IF InData(s) THEN HasFiles(s, fs) ELSE FilesOf(s) = {}

Numbered(m, fs) == {j \in DOMAIN fs : fs[j].mail = m}
OneNumber(s, fs) == InData(s) => \E m \in Nat : FilesOf(s) = Numbered(m, fs)

NumbersBelow(fs) == \A j \in DOMAIN fs : fs[j].mail < j
NewNumbers(fs) == {fs[i].mail : i \in {j \in DOMAIN fs : fs[j].dir = "new"}}

Receiving(s) == s.stm = "MAIL_INFO_READ" => s.data_parser = "data_data"

FileInv ==
  /\ OrderInv
  /\ \A c \in Clients :
       Matches(smtp[c], files) /\ OneNumber(smtp[c], files) /\ Receiving(smtp[c])
  /\ FilesNotShared /\ NewMailComplete
  /\ NumbersBelow(files)
  /\ mails_sent = Cardinality(NewNumbers(files))

LEMMA FilesDomain ==
  ASSUME TypeOK
  PROVE  /\ Len(files) \in Nat /\ DOMAIN files = 1..Len(files)
         /\ \A i \in DOMAIN files : files[i] \in File
  BY ElementOfSeq, LenProperties DEF TypeOK

LEMMA ListDomain ==
  ASSUME NEW s \in Session
  PROVE  /\ Len(s.rcpt_list) \in Nat /\ DOMAIN s.rcpt_list = 1..Len(s.rcpt_list)
         /\ \A i \in DOMAIN s.rcpt_list : s.rcpt_list[i] \in Node
         /\ s.rcpt_list = <<>> <=> Len(s.rcpt_list) = 0
  BY ElementOfSeq, LenProperties, EmptySeq DEF Session

\* A list without nodes has no file and no address.
LEMMA EmptyList ==
  ASSUME NEW s, s.rcpt_list = <<>>
  PROVE  FilesOf(s) = {} /\ EmailsOf(s) = {}
<1>1. DOMAIN s.rcpt_list = {}
  OBVIOUS
<1> QED
  BY <1>1 DEF FilesOf, EmailsOf

\* The files of a connection that has them are the files of its nodes.
LEMMA HasFilesOf ==
  ASSUME TypeOK, NEW s \in Session, HasFiles(s, files)
  PROVE  /\ FilesOf(s) = {s.rcpt_list[i].file : i \in DOMAIN s.rcpt_list}
         /\ FilesOf(s) \subseteq DOMAIN files /\ FilesOf(s) # {}
<1>1. 0 \notin DOMAIN files
  BY FilesDomain
<1>2. \A i \in DOMAIN s.rcpt_list : s.rcpt_list[i].file \in DOMAIN files
  BY DEF HasFiles
<1>3. DOMAIN s.rcpt_list # {}
  <2>1. Len(s.rcpt_list) \in Nat /\ Len(s.rcpt_list) # 0
    BY ListDomain DEF HasFiles
  <2>2. 1 \in 1..Len(s.rcpt_list)
    BY <2>1
  <2> QED
    BY <2>2, ListDomain
<1> QED
  BY <1>1, <1>2, <1>3 DEF FilesOf

\* The node put before a list has no file.
LEMMA NamesFiles ==
  ASSUME NEW s \in Session, NEW t \in Session, NamesRcpt(s, t)
  PROVE  FilesOf(t) \subseteq FilesOf(s) /\ EmailsOf(t) = EmailsOf(s) \cup {t.request.arg}
<1> DEFINE node == [email |-> t.request.arg, file |-> 0]
<1>1. s.rcpt_list \in Seq(Node) /\ node \in Node
  BY DEF Session, Node, NamesRcpt
<1>2. <<node>> \in Seq(Node) /\ Len(<<node>>) = 1 /\ <<node>>[1] = node
  BY <1>1
<1>3. t.rcpt_list = <<node>> \o s.rcpt_list
  BY DEF NamesRcpt
<1>4. node.email = t.request.arg /\ node.file = 0
  OBVIOUS
<1> HIDE DEF node
<1>5. /\ Len(t.rcpt_list) = 1 + Len(s.rcpt_list)
      /\ t.rcpt_list[1] = node
      /\ \A i \in 1..Len(s.rcpt_list) : t.rcpt_list[i + 1] = s.rcpt_list[i]
  BY <1>1, <1>2, <1>3, ConcatProperties
<1>6. /\ DOMAIN t.rcpt_list = 1..Len(t.rcpt_list)
      /\ DOMAIN s.rcpt_list = 1..Len(s.rcpt_list) /\ Len(s.rcpt_list) \in Nat
  BY ListDomain
<1>7. ASSUME NEW i \in DOMAIN t.rcpt_list
      PROVE  \/ t.rcpt_list[i] = node
             \/ \E j \in DOMAIN s.rcpt_list : t.rcpt_list[i] = s.rcpt_list[j]
  <2>1. CASE i = 1
    BY <1>5, <2>1
  <2>2. CASE i # 1
    <3>0. Len(s.rcpt_list) \in Nat /\ i \in 1..(1 + Len(s.rcpt_list))
      BY <1>5, <1>6
    <3>1. i - 1 \in 1..Len(s.rcpt_list) /\ (i - 1) + 1 = i
      BY <2>2, <3>0
    <3>2. t.rcpt_list[i] = s.rcpt_list[i - 1]
      BY <1>5, <3>1
    <3> QED
      BY <1>6, <3>1, <3>2
  <2> QED
    BY <2>1, <2>2
<1>8. ASSUME NEW j \in DOMAIN s.rcpt_list
      PROVE  \E i \in DOMAIN t.rcpt_list : t.rcpt_list[i] = s.rcpt_list[j]
  <2>1. j + 1 \in DOMAIN t.rcpt_list /\ t.rcpt_list[j + 1] = s.rcpt_list[j]
    BY <1>5, <1>6
  <2> QED
    BY <2>1
<1>9. 1 \in DOMAIN t.rcpt_list
  BY <1>5, <1>6
<1>10. FilesOf(t) \subseteq FilesOf(s)
  BY <1>4, <1>7 DEF FilesOf
<1>11. EmailsOf(t) = EmailsOf(s) \cup {t.request.arg}
  BY <1>4, <1>5, <1>7, <1>8, <1>9 DEF EmailsOf
<1> QED
  BY <1>10, <1>11

\* Whoever keeps its list keeps its files and addresses.
LEMMA SameList ==
  ASSUME NEW s, NEW t, t.rcpt_list = s.rcpt_list
  PROVE  FilesOf(t) = FilesOf(s) /\ EmailsOf(t) = EmailsOf(s)
  BY DEF FilesOf, EmailsOf

LEMMA TalksFiles ==
  ASSUME NEW s \in Session, NEW t \in Session, Talks(s, t)
  PROVE  /\ FilesOf(t) \subseteq FilesOf(s)
         /\ InData(t) => /\ InData(s) /\ MovesOn(s, t)
                         /\ s.stm = "DATA_WRITE" /\ t.stm = "MAIL_INFO_READ"
                         /\ t.data_parser = "data_data"
         /\ InData(s) => s.stm # "MAIL_INFO_WRITE" /\ (~InData(t) => Leaves(s, t))
<1>1. FilesOf(t) \subseteq FilesOf(s)
  <2>1. CASE Answers(s, t) \/ BeginsMail(s, t) \/ MovesOn(s, t)
    BY <2>1, SameList DEF Answers, BeginsMail, MovesOn, SameMail
  <2>2. CASE NamesRcpt(s, t)
    BY <2>2, NamesFiles
  <2>3. CASE Enters(s, t) \/ Leaves(s, t)
    BY <2>3, EmptyList DEF Enters, Leaves
  <2> QED
    BY <2>1, <2>2, <2>3 DEF Talks
<1>2. CASE Answers(s, t) \/ BeginsMail(s, t) \/ NamesRcpt(s, t)
  BY <1>1, <1>2 DEF Answers, BeginsMail, NamesRcpt, InData
<1>3. CASE MovesOn(s, t)
  BY <1>1, <1>3 DEF MovesOn, InData, AfterRcptTo
<1>4. CASE Enters(s, t) \/ Leaves(s, t)
  BY <1>1, <1>4 DEF Enters, Leaves, InData, BannerStates
<1> QED
  BY <1>2, <1>3, <1>4 DEF Talks

(***************************************************************************)
(* What the three operations on files do to each of them.                  *)
(***************************************************************************)
LEMMA WrittenFiles ==
  ASSUME TypeOK, NEW s, NEW lines \in Nat, NEW ended \in BOOLEAN,
         WriteToFiles(s, lines, ended)
  PROVE  /\ DOMAIN files' = DOMAIN files
         /\ \A j \in DOMAIN files : j \notin FilesOf(s) => files'[j] = files[j]
         /\ \A j \in DOMAIN files : j \in FilesOf(s) =>
              /\ files'[j].email = files[j].email /\ files'[j].from = files[j].from
              /\ files'[j].mail = files[j].mail /\ files'[j].dir = files[j].dir
              /\ files'[j].open = files[j].open
              /\ files'[j].body = files[j].body + lines /\ files'[j].ended = ended
<1>1. DOMAIN files' = DOMAIN files
  BY DEF WriteToFiles
<1>2. ASSUME NEW j \in DOMAIN files, j \notin FilesOf(s) PROVE files'[j] = files[j]
  BY <1>2 DEF WriteToFiles
<1>3. ASSUME NEW j \in DOMAIN files, j \in FilesOf(s)
      PROVE  /\ files'[j].email = files[j].email /\ files'[j].from = files[j].from
             /\ files'[j].mail = files[j].mail /\ files'[j].dir = files[j].dir
             /\ files'[j].open = files[j].open
             /\ files'[j].body = files[j].body + lines /\ files'[j].ended = ended
  <2>1. files[j] \in File
    BY FilesDomain
  <2>2. files'[j] = [files[j] EXCEPT !.body = files[j].body + lines, !.ended = ended]
    BY <1>3 DEF WriteToFiles
  <2>3. {"email", "from", "mail", "dir", "open", "body", "ended"} = DOMAIN files[j]
    BY <2>1 DEF File
  <2> QED
    BY <2>2, <2>3
<1> QED
  BY <1>1, <1>2, <1>3

LEMMA ClosedFiles ==
  ASSUME TypeOK, NEW s, CloseFds(s)
  PROVE  /\ DOMAIN files' = DOMAIN files
         /\ \A j \in DOMAIN files : j \notin FilesOf(s) => files'[j] = files[j]
         /\ \A j \in DOMAIN files : j \in FilesOf(s) =>
              /\ files'[j].email = files[j].email /\ files'[j].from = files[j].from
              /\ files'[j].mail = files[j].mail /\ files'[j].body = files[j].body
              /\ files'[j].ended = files[j].ended
              /\ files'[j].dir = "new" /\ ~files'[j].open
<1>1. DOMAIN files' = DOMAIN files
  BY DEF CloseFds
<1>2. ASSUME NEW j \in DOMAIN files, j \notin FilesOf(s) PROVE files'[j] = files[j]
  BY <1>2 DEF CloseFds
<1>3. ASSUME NEW j \in DOMAIN files, j \in FilesOf(s)
      PROVE  /\ files'[j].email = files[j].email /\ files'[j].from = files[j].from
             /\ files'[j].mail = files[j].mail /\ files'[j].body = files[j].body
             /\ files'[j].ended = files[j].ended
             /\ files'[j].dir = "new" /\ ~files'[j].open
  <2>1. files[j] \in File
    BY FilesDomain
  <2>2. files'[j] = [files[j] EXCEPT !.dir = "new", !.open = FALSE]
    BY <1>3 DEF CloseFds
  <2>3. {"email", "from", "mail", "dir", "open", "body", "ended"} = DOMAIN files[j]
    BY <2>1 DEF File
  <2> QED
    BY <2>2, <2>3
<1> QED
  BY <1>1, <1>2, <1>3

LEMMA CreatedFiles ==
  ASSUME TypeOK, NEW s \in Session, files' = files \o NewFiles(s)
  PROVE  /\ DOMAIN files' = 1..(Len(files) + Len(s.rcpt_list))
         /\ \A j \in DOMAIN files : files'[j] = files[j]
         /\ \A i \in DOMAIN s.rcpt_list :
              files'[Len(files) + i] =
                [email |-> s.rcpt_list[i].email, from |-> s.mailfrom, mail |-> Len(files),
                 dir |-> "tmp", open |-> TRUE, body |-> 0, ended |-> FALSE]
         /\ \A j \in DOMAIN files' \ DOMAIN files :
              \E i \in DOMAIN s.rcpt_list : j = Len(files) + i
<1>1. /\ Len(s.rcpt_list) \in Nat /\ DOMAIN s.rcpt_list = 1..Len(s.rcpt_list)
      /\ \A i \in DOMAIN s.rcpt_list : s.rcpt_list[i] \in Node
  BY ListDomain
<1>2. Len(files) \in Nat /\ DOMAIN files = 1..Len(files) /\ files \in Seq(File)
  BY FilesDomain DEF TypeOK
<1>3. s.mailfrom \in Senders \cup {NoAddress}
  BY DEF Session
<1>4. NewFiles(s) \in [1..Len(s.rcpt_list) -> File]
  BY <1>1, <1>2, <1>3 DEF NewFiles, File, Node
<1>5. NewFiles(s) \in Seq(File) /\ Len(NewFiles(s)) = Len(s.rcpt_list)
  <2>1. NewFiles(s) \in Seq(File)
    BY <1>1, <1>4, SeqOfFunction
  <2>2. DOMAIN NewFiles(s) = 1..Len(s.rcpt_list)
    BY <1>4
  <2> QED
    BY <1>1, <2>1, <2>2, LenProperties
<1>6. /\ files' \in Seq(File) /\ Len(files') = Len(files) + Len(s.rcpt_list)
      /\ \A j \in 1..Len(files) : files'[j] = files[j]
      /\ \A i \in 1..Len(s.rcpt_list) : files'[Len(files) + i] = NewFiles(s)[i]
  <2> DEFINE new == NewFiles(s)
             both == files \o new
  <2>1. Len(files) \in Nat /\ Len(new) \in Nat
    BY <1>1, <1>2, <1>5
  <2>2. /\ both \in Seq(File) /\ Len(both) = Len(files) + Len(new)
        /\ \A j \in 1..(Len(files) + Len(new)) :
             both[j] = IF j <= Len(files) THEN files[j] ELSE new[j - Len(files)]
    BY <1>2, <1>5, ConcatProperties
  <2> HIDE DEF both, new
  <2>3. \A j \in 1..Len(files) : both[j] = files[j]
    BY <2>1, <2>2
  <2>4. ASSUME NEW i \in 1..Len(new) PROVE both[Len(files) + i] = new[i]
    <3>1. /\ Len(files) + i \in 1..(Len(files) + Len(new))
          /\ ~(Len(files) + i <= Len(files)) /\ (Len(files) + i) - Len(files) = i
      BY <2>1
    <3> QED
      BY <2>2, <3>1
  <2> QED
    BY <1>5, <2>2, <2>3, <2>4 DEF both, new
<1>7. DOMAIN files' = 1..(Len(files) + Len(s.rcpt_list))
  BY <1>6, LenProperties
<1>8. \A i \in DOMAIN s.rcpt_list : NewFiles(s)[i] =
        [email |-> s.rcpt_list[i].email, from |-> s.mailfrom, mail |-> Len(files),
         dir |-> "tmp", open |-> TRUE, body |-> 0, ended |-> FALSE]
  BY DEF NewFiles
<1>9. ASSUME NEW j \in DOMAIN files' \ DOMAIN files
      PROVE  \E i \in DOMAIN s.rcpt_list : j = Len(files) + i
  <2>1. j \in Nat /\ j > Len(files) /\ j <= Len(files) + Len(s.rcpt_list)
    BY <1>1, <1>2, <1>7, <1>9
  <2>2. j - Len(files) \in 1..Len(s.rcpt_list) /\ j = Len(files) + (j - Len(files))
    BY <1>1, <1>2, <2>1
  <2> QED
    BY <1>1, <2>2
<1> QED
  BY <1>1, <1>2, <1>6, <1>7, <1>8, <1>9

(***************************************************************************)
(* A step by the mail of s keeps every other file, never loses or renumbers *)
(* one, and numbers the new ones by how many there were.                   *)
(***************************************************************************)
FilesKept(s) ==
  /\ DOMAIN files \subseteq DOMAIN files'
  /\ \A j \in DOMAIN files :
       /\ files'[j].mail = files[j].mail
       /\ j \notin FilesOf(s) => files'[j] = files[j]
  /\ \A j \in DOMAIN files' \ DOMAIN files :
       /\ j \in Nat /\ j > Len(files)
       /\ files'[j].mail = Len(files)
       /\ files'[j].dir = "tmp" /\ files'[j].ended = FALSE

LEMMA StepKeepsFiles ==
  ASSUME TypeOK, NEW c \in Clients, MailStep(c)
  PROVE  FilesKept(smtp[c])
<1> DEFINE s == smtp[c]
           t == smtp'[c]
<1>0. s \in Session
  BY DEF TypeOK
<1>1. CASE files' = files
  BY <1>1 DEF FilesKept
<1>2. CASE CreatesFiles(s, t)
  <2>1. files' = files \o NewFiles(s)
    BY <1>2 DEF CreatesFiles
  <2>2. Len(files) \in Nat /\ DOMAIN files = 1..Len(files)
    BY FilesDomain
  <2>3. Len(s.rcpt_list) \in Nat /\ DOMAIN s.rcpt_list = 1..Len(s.rcpt_list)
    BY <1>0, ListDomain
  <2>4. DOMAIN files \subseteq DOMAIN files'
    BY <1>0, <2>1, <2>2, <2>3, CreatedFiles
  <2>5. \A j \in DOMAIN files : files'[j] = files[j]
    BY <1>0, <2>1, CreatedFiles
  <2>6. ASSUME NEW j \in DOMAIN files' \ DOMAIN files
        PROVE  /\ j \in Nat /\ j > Len(files)
               /\ files'[j].mail = Len(files)
               /\ files'[j].dir = "tmp" /\ files'[j].ended = FALSE
    <3>1. PICK i \in DOMAIN s.rcpt_list : j = Len(files) + i
      BY <1>0, <2>1, CreatedFiles
    <3>2. files'[j] =
            [email |-> s.rcpt_list[i].email, from |-> s.mailfrom, mail |-> Len(files),
             dir |-> "tmp", open |-> TRUE, body |-> 0, ended |-> FALSE]
      BY <1>0, <2>1, <3>1, CreatedFiles
    <3>3. j \in Nat /\ j > Len(files)
      BY <2>2, <2>3, <3>1
    <3> QED
      BY <3>2, <3>3
  <2> QED
    BY <2>4, <2>5, <2>6 DEF FilesKept
<1>3. ASSUME NEW lines \in Nat, NEW ended \in BOOLEAN, TakesLines(s, t, lines, ended)
      PROVE  FilesKept(s)
  <2>1. WriteToFiles(s, lines, ended)
    BY <1>3 DEF TakesLines
  <2> QED
    BY <2>1, WrittenFiles DEF FilesKept
<1>4. CASE Delivers(s, t)
  <2>1. CloseFds(s)
    BY <1>4 DEF Delivers
  <2> QED
    BY <2>1, ClosedFiles DEF FilesKept
<1> QED
  BY <1>1, <1>2, <1>3, <1>4 DEF MailStep

(***************************************************************************)
(* Connections other than the one that steps.                              *)
(***************************************************************************)
LEMMA OtherMatches ==
  ASSUME TypeOK, NEW s \in Session, NEW r, FilesKept(r),
         Matches(s, files), FilesOf(s) \cap FilesOf(r) = {}
  PROVE  Matches(s, files')
<1>1. CASE ~InData(s)
  BY <1>1 DEF Matches
<1>2. CASE InData(s)
  <2>1. HasFiles(s, files)
    BY <1>2 DEF Matches
  <2>2. \A i \in DOMAIN s.rcpt_list :
          /\ s.rcpt_list[i].file \in DOMAIN files
          /\ s.rcpt_list[i].file \in FilesOf(s)
    BY <2>1, HasFilesOf DEF HasFiles
  <2>3. \A i \in DOMAIN s.rcpt_list :
          /\ s.rcpt_list[i].file \in DOMAIN files'
          /\ files'[s.rcpt_list[i].file] = files[s.rcpt_list[i].file]
    BY <2>2 DEF FilesKept
  <2>4. HasFiles(s, files')
    BY <2>1, <2>3 DEF HasFiles
  <2> QED
    BY <1>2, <2>4 DEF Matches
<1> QED
  BY <1>1, <1>2

\* The files of a mail stay all those with its number: a new number is higher.
LEMMA NumberKept ==
  ASSUME TypeOK, NEW s \in Session, NEW r, FilesKept(r), NumbersBelow(files),
         NEW m, FilesOf(s) = Numbered(m, files), FilesOf(s) # {}
  PROVE  FilesOf(s) = Numbered(m, files')
<1>1. Len(files) \in Nat /\ DOMAIN files = 1..Len(files)
      /\ \A j \in DOMAIN files : files[j].mail \in Nat
  BY FilesDomain DEF File
<1>2. PICK j \in DOMAIN files : files[j].mail = m
  BY DEF Numbered
<1>3. m \in Nat /\ m < Len(files)
  <2>1. j \in Nat /\ j <= Len(files) /\ m \in Nat /\ m < j
    BY <1>1, <1>2 DEF NumbersBelow
  <2> QED
    BY <1>1, <2>1
<1>4. \A i \in DOMAIN files' \ DOMAIN files : files'[i].mail # m
  BY <1>1, <1>3 DEF FilesKept
<1>5. \A i \in DOMAIN files : i \in DOMAIN files' /\ files'[i].mail = files[i].mail
  BY DEF FilesKept
<1> QED
  BY <1>4, <1>5 DEF Numbered

LEMMA OtherOneNumber ==
  ASSUME TypeOK, NEW s \in Session, NEW r, FilesKept(r), NumbersBelow(files),
         Matches(s, files), OneNumber(s, files)
  PROVE  OneNumber(s, files')
<1> SUFFICES ASSUME InData(s) PROVE \E m \in Nat : FilesOf(s) = Numbered(m, files')
  BY DEF OneNumber
<1>1. FilesOf(s) # {}
  BY HasFilesOf DEF Matches
<1>2. PICK m \in Nat : FilesOf(s) = Numbered(m, files)
  BY DEF OneNumber
<1> QED
  BY <1>1, <1>2, NumberKept

LEMMA NumbersStayBelow ==
  ASSUME TypeOK, NEW r, FilesKept(r), NumbersBelow(files)
  PROVE  NumbersBelow(files')
<1>1. Len(files) \in Nat
  BY FilesDomain
<1>2. ASSUME NEW j \in DOMAIN files' PROVE files'[j].mail < j
  <2>1. CASE j \in DOMAIN files
    BY <2>1 DEF FilesKept, NumbersBelow
  <2>2. CASE j \notin DOMAIN files
    BY <1>1, <2>2 DEF FilesKept
  <2> QED
    BY <2>1, <2>2
<1> QED
  BY <1>2 DEF NumbersBelow

(***************************************************************************)
(* The connection that steps, by what it does.                             *)
(***************************************************************************)
LEMMA TalksMatches ==
  ASSUME TypeOK, NEW s \in Session, NEW t \in Session, Talks(s, t),
         Matches(s, files), OneNumber(s, files)
  PROVE  Matches(t, files) /\ OneNumber(t, files) /\ Receiving(t)
<1>1. CASE InData(t)
  <2>1. /\ InData(s) /\ s.stm = "DATA_WRITE" /\ t.stm = "MAIL_INFO_READ"
        /\ MovesOn(s, t) /\ t.data_parser = "data_data"
    BY <1>1, TalksFiles
  <2>2. t.rcpt_list = s.rcpt_list /\ t.mailfrom = s.mailfrom /\ t.body = s.body
    BY <2>1 DEF MovesOn, SameMail
  <2>3. HasFiles(s, files)
    BY <2>1 DEF Matches
  <2>4. HasFiles(t, files)
    BY <2>1, <2>2, <2>3 DEF HasFiles
  <2>5. FilesOf(t) = FilesOf(s)
    BY <2>2, SameList
  <2> QED
    BY <1>1, <2>1, <2>4, <2>5 DEF Matches, OneNumber, Receiving
<1>2. CASE ~InData(t)
  <2>1. CASE InData(s)
    <3>1. t.rcpt_list = <<>>
      BY <1>2, <2>1, TalksFiles DEF Leaves
    <3> QED
      BY <1>2, <3>1, EmptyList DEF Matches, OneNumber, Receiving, InData
  <2>2. CASE ~InData(s)
    <3>1. FilesOf(t) = {}
      BY <2>2, TalksFiles DEF Matches
    <3> QED
      BY <1>2, <3>1 DEF Matches, OneNumber, Receiving, InData
  <2> QED
    BY <2>1, <2>2
<1> QED
  BY <1>1, <1>2

\* A recipient of the domain has been answered, so that there is a node to create for.
LEMMA SomeRecipient ==
  ASSUME NEW s \in Session, Ordered(s), s.stm = "DATA_READ"
  PROVE  s.rcpt_list # <<>>
<1>1. s.named \cap Local # {} /\ s.named \subseteq EmailsOf(s)
  BY DEF Ordered, InTransaction
<1> QED
  BY <1>1, EmptyList

LEMMA CreatesMatches ==
  ASSUME TypeOK, NEW s \in Session, NEW t \in Session, CreatesFiles(s, t),
         Ordered(s), NumbersBelow(files)
  PROVE  /\ Matches(t, files') /\ OneNumber(t, files') /\ Receiving(t)
         /\ FilesOf(t) \cap DOMAIN files = {}
<1> DEFINE len == Len(files)
           list == s.rcpt_list
<1>1. /\ Len(list) \in Nat /\ DOMAIN list = 1..Len(list)
      /\ \A i \in DOMAIN list : list[i] \in Node
      /\ list # <<>>
  BY ListDomain, SomeRecipient DEF CreatesFiles
<1>2. /\ len \in Nat /\ DOMAIN files = 1..len
      /\ \A i \in DOMAIN files : files[i].mail \in Nat
  BY FilesDomain DEF File
<1>3. /\ t.stm = "DATA_WRITE" /\ t.request.verb = "data"
      /\ t.mailfrom = s.mailfrom /\ t.body = 0
      /\ t.rcpt_list = [i \in DOMAIN list |-> [list[i] EXCEPT !.file = len + i]]
      /\ files' = files \o NewFiles(s)
  BY DEF CreatesFiles
<1>4. /\ DOMAIN t.rcpt_list = DOMAIN list
      /\ \A i \in DOMAIN list : t.rcpt_list[i].file = len + i
                               /\ t.rcpt_list[i].email = list[i].email
  BY <1>1, <1>3 DEF Node
<1>5. /\ DOMAIN files' = 1..(len + Len(list))
      /\ \A j \in DOMAIN files : files'[j] = files[j]
      /\ \A i \in DOMAIN list :
           files'[len + i] =
             [email |-> list[i].email, from |-> s.mailfrom, mail |-> len,
              dir |-> "tmp", open |-> TRUE, body |-> 0, ended |-> FALSE]
      /\ \A j \in DOMAIN files' \ DOMAIN files : \E i \in DOMAIN list : j = len + i
  BY <1>3, CreatedFiles
<1> HIDE DEF len, list
<1>6. \A i \in DOMAIN list : len + i \in DOMAIN files' /\ len + i \notin DOMAIN files
  BY <1>1, <1>2, <1>5
<1>7. t.rcpt_list # <<>>
  <2>1. DOMAIN t.rcpt_list # {}
    <3>1. Len(list) # 0
      BY <1>1, ListDomain DEF list
    <3>2. 1 \in DOMAIN list
      BY <1>1, <3>1
    <3> QED
      BY <1>4, <3>2
  <2> QED
    BY <2>1
<1>8. HasFiles(t, files')
  <2>1. ASSUME NEW i \in DOMAIN t.rcpt_list
        PROVE  LET node == t.rcpt_list[i] IN
               /\ node.file \in DOMAIN files'
               /\ files'[node.file].email = node.email
               /\ files'[node.file].from = t.mailfrom
               /\ files'[node.file].dir = "tmp" /\ files'[node.file].open
               /\ files'[node.file].body = t.body
               /\ files'[node.file].ended <=> t.stm = "MAIL_INFO_WRITE"
    <3>1. i \in DOMAIN list /\ t.rcpt_list[i].file = len + i
          /\ t.rcpt_list[i].email = list[i].email
      BY <1>4
    <3>2. files'[len + i] =
            [email |-> list[i].email, from |-> s.mailfrom, mail |-> len,
             dir |-> "tmp", open |-> TRUE, body |-> 0, ended |-> FALSE]
      BY <1>5, <3>1
    <3> QED
      BY <1>3, <1>6, <3>1, <3>2
  <2>2. \A i, j \in DOMAIN t.rcpt_list :
          t.rcpt_list[i].file = t.rcpt_list[j].file => i = j
    BY <1>1, <1>2, <1>4
  <2> QED
    BY <1>7, <2>1, <2>2 DEF HasFiles
<1>9. InData(t)
  BY <1>3 DEF InData
<1>10. FilesOf(t) = {len + i : i \in DOMAIN list}
  <2>1. \A i \in DOMAIN list : len + i # 0
    BY <1>1, <1>2
  <2> QED
    BY <1>4, <2>1 DEF FilesOf
<1>11. FilesOf(t) \cap DOMAIN files = {}
  BY <1>6, <1>10
<1>12. FilesOf(t) = Numbered(len, files')
  <2>1. ASSUME NEW j \in DOMAIN files PROVE files'[j].mail # len
    <3>1. files[j].mail < j /\ j <= len /\ j \in Nat /\ files[j].mail \in Nat
      BY <1>2 DEF NumbersBelow
    <3>2. files[j].mail # len
      BY <1>2, <3>1
    <3> QED
      BY <1>5, <3>2
  <2>2. ASSUME NEW i \in DOMAIN list
        PROVE  len + i \in DOMAIN files' /\ files'[len + i].mail = len
    <3>1. files'[len + i] =
            [email |-> list[i].email, from |-> s.mailfrom, mail |-> len,
             dir |-> "tmp", open |-> TRUE, body |-> 0, ended |-> FALSE]
      BY <1>5
    <3> QED
      BY <1>6, <3>1
  <2> QED
    BY <1>5, <1>10, <2>1, <2>2 DEF Numbered
<1> QED
  BY <1>2, <1>3, <1>8, <1>9, <1>11, <1>12 DEF Matches, OneNumber, Receiving

LEMMA TakesMatches ==
  ASSUME TypeOK, NEW s \in Session, NEW t \in Session,
         NEW lines \in Nat, NEW ended \in BOOLEAN, TakesLines(s, t, lines, ended),
         Matches(s, files), OneNumber(s, files), Receiving(s)
  PROVE  /\ Matches(t, files') /\ Receiving(t)
         /\ FilesOf(t) = FilesOf(s)
<1>1. /\ s.stm = "MAIL_INFO_READ"
      /\ t.stm = IF ended THEN "MAIL_INFO_WRITE" ELSE "MAIL_INFO_READ"
      /\ ~ended => t.data_parser = s.data_parser
      /\ t.rcpt_list = s.rcpt_list
      /\ t.mailfrom = s.mailfrom /\ t.body = s.body + lines
      /\ WriteToFiles(s, lines, ended)
  BY DEF TakesLines
<1>2. InData(s) /\ InData(t) /\ HasFiles(s, files)
  BY <1>1 DEF InData, Matches
<1>3. ASSUME NEW i \in DOMAIN t.rcpt_list
      PROVE  LET node == t.rcpt_list[i] IN
             /\ node.file \in DOMAIN files'
             /\ files'[node.file].email = node.email
             /\ files'[node.file].from = t.mailfrom
             /\ files'[node.file].dir = "tmp" /\ files'[node.file].open
             /\ files'[node.file].body = t.body
             /\ files'[node.file].ended <=> t.stm = "MAIL_INFO_WRITE"
  <2> DEFINE f == s.rcpt_list[i].file
  <2>1. f \in DOMAIN files /\ f \in FilesOf(s)
    BY <1>1, <1>2, HasFilesOf DEF HasFiles
  <2>2. /\ files[f].email = s.rcpt_list[i].email /\ files[f].from = s.mailfrom
        /\ files[f].dir = "tmp" /\ files[f].open /\ files[f].body = s.body
    BY <1>1, <1>2 DEF HasFiles
  <2>3. /\ DOMAIN files' = DOMAIN files
        /\ files'[f].email = files[f].email /\ files'[f].from = files[f].from
        /\ files'[f].dir = files[f].dir
        /\ files'[f].open = files[f].open
        /\ files'[f].body = files[f].body + lines /\ files'[f].ended = ended
    BY <1>1, <2>1, WrittenFiles
  <2>4. ended <=> t.stm = "MAIL_INFO_WRITE"
    BY <1>1
  <2> HIDE DEF f
  <2>5. t.rcpt_list[i].file = f /\ t.rcpt_list[i].email = s.rcpt_list[i].email
    BY <1>1 DEF f
  <2>6. files'[f].ended <=> t.stm = "MAIL_INFO_WRITE"
    BY <2>3, <2>4
  <2>7. /\ f \in DOMAIN files'
        /\ files'[f].email = t.rcpt_list[i].email /\ files'[f].from = t.mailfrom
        /\ files'[f].dir = "tmp" /\ files'[f].open /\ files'[f].body = t.body
    BY <1>1, <2>1, <2>2, <2>3, <2>5
  <2> QED
    BY <2>5, <2>6, <2>7
<1>4. HasFiles(t, files')
  BY <1>1, <1>2, <1>3 DEF HasFiles
<1>5. FilesOf(t) = FilesOf(s)
  BY <1>1, SameList
<1>6. Receiving(t)
  BY <1>1 DEF Receiving
<1> QED
  BY <1>2, <1>4, <1>5, <1>6 DEF Matches

LEMMA DeliversMatches ==
  ASSUME NEW s, NEW t, Delivers(s, t)
  PROVE  ~InData(t) /\ Matches(t, files') /\ Receiving(t) /\ FilesOf(t) = {}
<1>1. t.rcpt_list = <<>> /\ t.stm \in {"MAIL_FROM_READ", "CLOSED"}
  BY DEF Delivers
<1> QED
  BY <1>1, EmptyList DEF Matches, Receiving, InData

LEMMA StepMatches ==
  ASSUME FileInv, NEW c \in Clients, MailStep(c), smtp'[c] \in Session
  PROVE  /\ Matches(smtp'[c], files') /\ OneNumber(smtp'[c], files') /\ Receiving(smtp'[c])
         /\ \/ FilesOf(smtp'[c]) \subseteq FilesOf(smtp[c])
            \/ FilesOf(smtp'[c]) \cap DOMAIN files = {}
<1> DEFINE s == smtp[c]
           t == smtp'[c]
<1>1. /\ TypeOK /\ s \in Session /\ t \in Session /\ Ordered(s) /\ NumbersBelow(files)
      /\ Matches(s, files) /\ OneNumber(s, files) /\ Receiving(s)
  BY DEF FileInv, OrderInv, TypeInv, TypeOK
<1>2. FilesKept(s)
  BY <1>1, StepKeepsFiles
<1>3. CASE smtp' = smtp /\ files' = files
  BY <1>1, <1>3
<1>4. CASE Talks(s, t) /\ files' = files
  BY <1>1, <1>4, TalksMatches, TalksFiles
<1>5. CASE CreatesFiles(s, t)
  BY <1>1, <1>5, CreatesMatches
<1>6. ASSUME NEW lines \in Nat, NEW ended \in BOOLEAN, TakesLines(s, t, lines, ended)
      PROVE  /\ Matches(t, files') /\ OneNumber(t, files') /\ Receiving(t)
             /\ FilesOf(t) \subseteq FilesOf(s)
  <2>1. Matches(t, files') /\ Receiving(t) /\ FilesOf(t) = FilesOf(s)
    BY <1>1, <1>6, TakesMatches
  <2>2. OneNumber(s, files')
    BY <1>1, <1>2, OtherOneNumber
  <2>3. InData(s)
    BY <1>6 DEF TakesLines, InData
  <2> QED
    BY <2>1, <2>2, <2>3 DEF OneNumber
<1>7. CASE Delivers(s, t)
  BY <1>7, DeliversMatches DEF OneNumber
<1> HIDE DEF s, t
<1> QED
  BY <1>3, <1>4, <1>5, <1>6, <1>7 DEF MailStep, s, t

LEMMA MatchesDomain ==
  ASSUME TypeOK, NEW s \in Session, Matches(s, files)
  PROVE  FilesOf(s) \subseteq DOMAIN files
  BY HasFilesOf DEF Matches

LEMMA StepNotShared ==
  ASSUME FileInv, NEW c \in Clients, MailStep(c), smtp'[c] \in Session
  PROVE  FilesNotShared'
<1>1. /\ TypeOK /\ \A d \in Clients : smtp[d] \in Session /\ Matches(smtp[d], files)
      /\ \A d \in Clients : d # c => smtp'[d] = smtp[d]
  BY DEF FileInv, OrderInv, TypeInv, TypeOK, MailStep
<1>2. \A d \in Clients : FilesOf(smtp[d]) \subseteq DOMAIN files
  BY <1>1, MatchesDomain
<1>3. \A d, e \in Clients : FilesOf(smtp[d]) \cap FilesOf(smtp[e]) # {} => d = e
  BY DEF FileInv, FilesNotShared
<1>4. \/ FilesOf(smtp'[c]) \subseteq FilesOf(smtp[c])
      \/ FilesOf(smtp'[c]) \cap DOMAIN files = {}
  BY StepMatches
<1>5. ASSUME NEW d \in Clients, d # c
      PROVE  FilesOf(smtp'[c]) \cap FilesOf(smtp'[d]) = {}
  <2>1. smtp'[d] = smtp[d] /\ FilesOf(smtp[d]) \subseteq DOMAIN files
    BY <1>1, <1>2, <1>5
  <2>2. FilesOf(smtp[c]) \cap FilesOf(smtp[d]) = {}
    BY <1>3, <1>5
  <2> QED
    BY <1>4, <2>1, <2>2
<1>6. ASSUME NEW d \in Clients, NEW e \in Clients,
             FilesOf(smtp'[d]) \cap FilesOf(smtp'[e]) # {}
      PROVE  d = e
  BY <1>1, <1>3, <1>5, <1>6
<1> QED
  BY <1>6 DEF FilesNotShared

LEMMA StepComplete ==
  ASSUME FileInv, NEW c \in Clients, MailStep(c), smtp'[c] \in Session
  PROVE  NewMailComplete'
<1> DEFINE s == smtp[c]
           t == smtp'[c]
           Owned(i) == \E d \in Clients : smtp'[d].stm = "MAIL_INFO_WRITE"
                                          /\ i \in FilesOf(smtp'[d])
<1>1. /\ TypeOK /\ s \in Session /\ Matches(s, files)
      /\ \A d \in Clients : d # c => smtp'[d] = smtp[d]
  BY DEF FileInv, OrderInv, TypeInv, TypeOK, MailStep
<1>2. FilesKept(s)
  BY <1>1, StepKeepsFiles
<1>3. ASSUME NEW i \in DOMAIN files
      PROVE  /\ files[i].dir = "new" => files[i].ended /\ ~files[i].open
             /\ files[i].ended /\ files[i].dir = "tmp" =>
                  \E d \in Clients : smtp[d].stm = "MAIL_INFO_WRITE" /\ i \in FilesOf(smtp[d])
  BY DEF FileInv, NewMailComplete
<1>4. \A i \in DOMAIN files : files[i].dir = "tmp" \/ files[i].dir = "new"
  BY <1>1, FilesDomain DEF File
\* A file of nobody, or of another connection.
<1>5. ASSUME NEW i \in DOMAIN files, i \notin FilesOf(s)
      PROVE  /\ files'[i].dir = "new" => files'[i].ended /\ ~files'[i].open
             /\ files'[i].ended /\ files'[i].dir = "tmp" => Owned(i)
  <2>1. files'[i] = files[i]
    BY <1>2, <1>5 DEF FilesKept
  <2>2. ASSUME files[i].ended, files[i].dir = "tmp" PROVE Owned(i)
    <3>1. PICK d \in Clients : smtp[d].stm = "MAIL_INFO_WRITE" /\ i \in FilesOf(smtp[d])
      BY <1>3, <2>2
    <3>2. smtp'[d] = smtp[d]
      BY <1>1, <1>5, <3>1
    <3> QED
      BY <3>1, <3>2
  <2> QED
    BY <1>3, <2>1, <2>2
\* A file just created.
<1>6. ASSUME NEW i \in DOMAIN files', i \notin DOMAIN files
      PROVE  files'[i].dir = "tmp" /\ ~files'[i].ended
  BY <1>2, <1>6 DEF FilesKept
\* A file of the connection.
<1>7. ASSUME NEW i \in DOMAIN files, i \in FilesOf(s)
      PROVE  /\ files'[i].dir = "new" => files'[i].ended /\ ~files'[i].open
             /\ files'[i].ended /\ files'[i].dir = "tmp" => Owned(i)
  <2>1. InData(s) /\ HasFiles(s, files)
    BY <1>1, <1>7 DEF Matches
  <2>2. /\ files[i].dir = "tmp"
        /\ files[i].ended <=> s.stm = "MAIL_INFO_WRITE"
    <3>1. PICK n \in DOMAIN s.rcpt_list : i = s.rcpt_list[n].file
      BY <1>7 DEF FilesOf
    <3> QED
      BY <2>1, <3>1 DEF HasFiles
  <2>3. CASE smtp' = smtp /\ files' = files
    BY <1>3, <2>3
  <2>4. CASE Talks(s, t) /\ files' = files
    <3>1. t \in Session /\ s.stm # "MAIL_INFO_WRITE"
      BY <1>1, <2>1, <2>4, TalksFiles
    <3> QED
      BY <2>2, <2>4, <3>1
  <2>5. CASE CreatesFiles(s, t)
    BY <2>1, <2>5 DEF CreatesFiles, InData
  <2>6. ASSUME NEW lines \in Nat, NEW ended \in BOOLEAN, TakesLines(s, t, lines, ended)
        PROVE  files'[i].dir = "tmp" /\ (files'[i].ended => Owned(i))
    <3>1. /\ WriteToFiles(s, lines, ended) /\ t.rcpt_list = s.rcpt_list
          /\ ended => t.stm = "MAIL_INFO_WRITE"
      BY <2>6 DEF TakesLines
    <3>2. files'[i].dir = "tmp" /\ files'[i].ended = ended
      BY <1>1, <1>7, <2>2, <3>1, WrittenFiles
    <3>3. i \in FilesOf(t)
      BY <1>7, <3>1, SameList
    <3> QED
      BY <3>1, <3>2, <3>3
  <2>7. CASE Delivers(s, t)
    <3>1. CloseFds(s) /\ s.stm = "MAIL_INFO_WRITE"
      BY <2>7 DEF Delivers
    <3>2. files'[i].dir = "new" /\ ~files'[i].open /\ files'[i].ended = files[i].ended
      BY <1>1, <1>7, <3>1, ClosedFiles
    <3> QED
      BY <2>2, <3>1, <3>2
  <2> HIDE DEF Owned, s, t
  <2> QED
    BY <2>3, <2>4, <2>5, <2>6, <2>7 DEF MailStep, s, t
<1> HIDE DEF s, t
<1>8. \A i \in DOMAIN files' :
        /\ files'[i].dir = "new" => files'[i].ended /\ ~files'[i].open
        /\ files'[i].ended /\ files'[i].dir = "tmp" => Owned(i)
  BY <1>5, <1>6, <1>7
<1> QED
  BY <1>8 DEF NewMailComplete

LEMMA NewNumbersFinite ==
  ASSUME TypeOK, NumbersBelow(files)
  PROVE  IsFiniteSet(NewNumbers(files)) /\ Cardinality(NewNumbers(files)) \in Nat
<1>1. /\ Len(files) \in Nat /\ DOMAIN files = 1..Len(files)
      /\ \A i \in DOMAIN files : files[i].mail \in Nat
  BY FilesDomain DEF File
<1>2. NewNumbers(files) \subseteq 0..Len(files)
  <2>1. ASSUME NEW i \in DOMAIN files PROVE files[i].mail \in 0..Len(files)
    <3>1. files[i].mail < i /\ i <= Len(files) /\ i \in Nat
      BY <1>1 DEF NumbersBelow
    <3> QED
      BY <1>1, <3>1
  <2> QED
    BY <2>1 DEF NewNumbers
<1>3. IsFiniteSet(0..Len(files))
  BY <1>1, FS_Interval
<1> QED
  BY <1>2, <1>3, FS_Subset, FS_CardinalityType

\* No mail is delivered by a step that renames nothing.
LEMMA SameNewNumbers ==
  ASSUME NEW r, FilesKept(r), \A j \in DOMAIN files : files'[j].dir = files[j].dir
  PROVE  NewNumbers(files') = NewNumbers(files)
<1>1. {j \in DOMAIN files' : files'[j].dir = "new"} = {j \in DOMAIN files : files[j].dir = "new"}
  BY DEF FilesKept
<1>2. \A j \in DOMAIN files : files'[j].mail = files[j].mail
  BY DEF FilesKept
<1> QED
  BY <1>1, <1>2 DEF NewNumbers

\* The rename of a list adds the number of its mail, whatever the length of the list.
LEMMA DeliveredNumber ==
  ASSUME TypeOK, NEW s \in Session, HasFiles(s, files), CloseFds(s),
         NEW m, FilesOf(s) = Numbered(m, files)
  PROVE  m \notin NewNumbers(files) /\ NewNumbers(files') = NewNumbers(files) \cup {m}
<1>1. /\ DOMAIN files' = DOMAIN files
      /\ \A j \in DOMAIN files : files'[j].mail = files[j].mail
      /\ \A j \in DOMAIN files : j \notin FilesOf(s) => files'[j] = files[j]
      /\ \A j \in DOMAIN files : j \in FilesOf(s) => files'[j].dir = "new"
  BY ClosedFiles
<1>2. FilesOf(s) \subseteq DOMAIN files /\ FilesOf(s) # {}
      /\ \A j \in FilesOf(s) : files[j].dir = "tmp"
  BY HasFilesOf DEF HasFiles
<1>3. \A j \in DOMAIN files : j \in FilesOf(s) <=> files[j].mail = m
  BY DEF Numbered
<1> QED
  BY <1>1, <1>2, <1>3 DEF NewNumbers

LEMMA StepCounted ==
  ASSUME FileInv, NEW c \in Clients, MailStep(c)
  PROVE  mails_sent' = Cardinality(NewNumbers(files'))
<1> DEFINE s == smtp[c]
           t == smtp'[c]
<1>1. /\ TypeOK /\ s \in Session /\ Matches(s, files) /\ OneNumber(s, files)
      /\ NumbersBelow(files) /\ mails_sent = Cardinality(NewNumbers(files))
  BY DEF FileInv, OrderInv, TypeInv, TypeOK
<1>2. FilesKept(s)
  BY <1>1, StepKeepsFiles
<1>3. CASE files' = files /\ mails_sent' = mails_sent
  BY <1>1, <1>3
<1>4. CASE CreatesFiles(s, t) /\ mails_sent' = mails_sent
  <2>1. \A j \in DOMAIN files : files'[j].dir = files[j].dir
    BY <1>1, <1>4, CreatedFiles DEF CreatesFiles
  <2> QED
    BY <1>1, <1>2, <1>4, <2>1, SameNewNumbers
<1>5. ASSUME NEW lines \in Nat, NEW ended \in BOOLEAN, TakesLines(s, t, lines, ended),
             mails_sent' = mails_sent
      PROVE  mails_sent' = Cardinality(NewNumbers(files'))
  <2>1. \A j \in DOMAIN files : files'[j].dir = files[j].dir
    BY <1>1, <1>5, WrittenFiles DEF TakesLines
  <2> QED
    BY <1>1, <1>2, <1>5, <2>1, SameNewNumbers
<1>6. CASE Delivers(s, t)
  <2>1. InData(s) /\ CloseFds(s) /\ mails_sent' = mails_sent + 1
    BY <1>6 DEF Delivers, InData
  <2>2. PICK m \in Nat : FilesOf(s) = Numbered(m, files)
    BY <1>1, <2>1 DEF OneNumber
  <2>3. m \notin NewNumbers(files) /\ NewNumbers(files') = NewNumbers(files) \cup {m}
    BY <1>1, <2>1, <2>2, DeliveredNumber DEF Matches
  <2>4. IsFiniteSet(NewNumbers(files))
    BY <1>1, NewNumbersFinite
  <2> QED
    BY <1>1, <2>1, <2>3, <2>4, FS_AddElement
<1> HIDE DEF s, t
<1> QED
  BY <1>3, <1>4, <1>5, <1>6 DEF MailStep, s, t

-----------------------------------------------------------------------------
(***************************************************************************)
(* FileInv is inductive, and the properties of the files follow from it.   *)
(***************************************************************************)
LEMMA InitFiles == Init => FileInv
<1> SUFFICES ASSUME Init PROVE FileInv
  OBVIOUS
<1>1. /\ \A c \in Clients : smtp[c].stm = "CLOSED" /\ smtp[c].rcpt_list = <<>>
      /\ files = <<>> /\ mails_sent = 0
  BY DEF Init, Closed
<1>2. DOMAIN files = {}
  BY <1>1
<1>3. \A c \in Clients : FilesOf(smtp[c]) = {} /\ ~InData(smtp[c])
  BY <1>1, EmptyList DEF InData
<1>4. FilesNotShared
  BY <1>3 DEF FilesNotShared
<1>5. NewNumbers(files) = {}
  BY <1>2 DEF NewNumbers
<1>6. NewMailComplete /\ NumbersBelow(files)
  BY <1>2 DEF NewMailComplete, NumbersBelow
<1>7. \A c \in Clients :
        Matches(smtp[c], files) /\ OneNumber(smtp[c], files) /\ Receiving(smtp[c])
  BY <1>1, <1>3 DEF Matches, OneNumber, Receiving
<1> QED
  BY <1>1, <1>4, <1>5, <1>6, <1>7, InitOrder, FS_EmptySet DEF FileInv

LEMMA ClientStep ==
  ASSUME FileInv, NEW c \in Clients,
         Accept(c) \/ ReadHandler(c) \/ WriteHandler(c) \/ Environment(c)
  PROVE  MailStep(c)
  BY StepMail DEF FileInv, OrderInv, Receiving

LEMMA StepFiles == FileInv /\ [Next]_vars => FileInv'
<1> SUFFICES ASSUME FileInv, [Next]_vars PROVE FileInv'
  OBVIOUS
<1>1. OrderInv'
  BY StepOrder DEF FileInv
<1>2. CASE UNCHANGED vars
  <2>1. smtp' = smtp /\ files' = files /\ mails_sent' = mails_sent
    BY <1>2 DEF vars
  <2> QED
    BY <1>1, <2>1 DEF FileInv, FilesNotShared, NewMailComplete
<1>3. ASSUME NEW c \in Clients,
             Accept(c) \/ ReadHandler(c) \/ WriteHandler(c) \/ Environment(c)
      PROVE  FileInv'
  <2>1. MailStep(c)
    BY <1>3, ClientStep
  <2>2. TypeOK /\ TypeOK' /\ NumbersBelow(files)
    BY <1>1 DEF FileInv, OrderInv, TypeInv
  <2>3. smtp[c] \in Session /\ smtp'[c] \in Session
    BY <2>2 DEF TypeOK
  <2>4. FilesKept(smtp[c])
    BY <2>1, <2>2, StepKeepsFiles
  <2>5. Matches(smtp'[c], files') /\ OneNumber(smtp'[c], files') /\ Receiving(smtp'[c])
    BY <2>1, <2>3, StepMatches
  <2>6. ASSUME NEW d \in Clients, d # c
        PROVE  Matches(smtp'[d], files') /\ OneNumber(smtp'[d], files') /\ Receiving(smtp'[d])
    <3>1. smtp'[d] = smtp[d] /\ smtp[d] \in Session
      BY <2>1, <2>2, <2>6 DEF MailStep, TypeOK
    <3>2. /\ Matches(smtp[d], files) /\ OneNumber(smtp[d], files) /\ Receiving(smtp[d])
          /\ FilesOf(smtp[d]) \cap FilesOf(smtp[c]) = {}
      BY <2>6 DEF FileInv, FilesNotShared
    <3>3. Matches(smtp[d], files')
      BY <2>2, <2>4, <3>1, <3>2, OtherMatches
    <3>4. OneNumber(smtp[d], files')
      BY <2>2, <2>4, <3>1, <3>2, OtherOneNumber
    <3> QED
      BY <3>1, <3>2, <3>3, <3>4
  <2>7. \A d \in Clients :
          Matches(smtp'[d], files') /\ OneNumber(smtp'[d], files') /\ Receiving(smtp'[d])
    BY <2>5, <2>6
  <2>8. FilesNotShared' /\ NewMailComplete'
    BY <2>1, <2>3, StepNotShared, StepComplete
  <2>9. NumbersBelow(files') /\ mails_sent' = Cardinality(NewNumbers(files'))
    BY <2>1, <2>2, <2>4, NumbersStayBelow, StepCounted
  <2> QED
    BY <1>1, <2>7, <2>8, <2>9 DEF FileInv
<1> QED
  BY <1>2, <1>3 DEF Next

\* Whichever connections receive mails at once, each recipient of each has a file of
\* its own, with the right mailbox, sender and body, from the 354 to the end.
THEOREM FilesMatch == Spec => []FilesMatchRecipients
<1>1. FileInv => FilesMatchRecipients
  BY DEF FileInv, Matches, HasFiles, FilesMatchRecipients
<1> QED
  BY <1>1, InitFiles, StepFiles, PTL DEF Spec

\* No two of any number of connections ever write to one file.
THEOREM FilesSeparate == Spec => []FilesNotShared
<1>1. FileInv => FilesNotShared
  BY DEF FileInv
<1> QED
  BY <1>1, InitFiles, StepFiles, PTL DEF Spec

\* Clients leave at any point: a file in new/ is closed and has its whole body, and a
\* mail whose end was received is in new/ or still with the connection that renames it.
THEOREM NewComplete == Spec => []NewMailComplete
<1>1. FileInv => NewMailComplete
  BY DEF FileInv
<1> QED
  BY <1>1, InitFiles, StepFiles, PTL DEF Spec

\* The supervision's number of mails is that of the mails in new/, each once however
\* many recipients it had.
THEOREM CountIsRight == Spec => []MailsCounted
<1>1. FileInv => MailsCounted
  BY DEF FileInv, NewNumbers, MailsCounted
<1> QED
  BY <1>1, InitFiles, StepFiles, PTL DEF Spec

\* A file changes only while, and because, its own connection receives or delivers:
\* what was delivered, or left behind by a lost connection, stays as it was.
THEOREM OwnersChangeFiles == Spec => OnlyOwnerChangesFile
<1> DEFINE A == \A i \in DOMAIN files : files'[i] # files[i] =>
                  \E c \in Clients :
                    /\ i \in FilesOf(smtp[c])
                    /\ smtp[c].stm \in {"MAIL_INFO_READ", "MAIL_INFO_WRITE"}
<1>1. FileInv /\ [Next]_vars => [A]_vars
  <2> SUFFICES ASSUME FileInv, Next PROVE A
    OBVIOUS
  <2>1. PICK c \in Clients :
          Accept(c) \/ ReadHandler(c) \/ WriteHandler(c) \/ Environment(c)
    BY DEF Next
  <2>2. MailStep(c)
    BY <2>1, ClientStep
  <2>3. TypeOK /\ smtp[c] \in Session
    BY DEF FileInv, OrderInv, TypeInv, TypeOK
  <2>4. ASSUME NEW i \in DOMAIN files, files'[i] # files[i]
        PROVE  /\ i \in FilesOf(smtp[c])
               /\ smtp[c].stm \in {"MAIL_INFO_READ", "MAIL_INFO_WRITE"}
    <3>1. i \in FilesOf(smtp[c])
      BY <2>2, <2>3, <2>4, StepKeepsFiles DEF FilesKept
    <3>2. ~CreatesFiles(smtp[c], smtp'[c])
      BY <2>3, <2>4, CreatedFiles DEF CreatesFiles
    <3>3. smtp[c].stm \in {"MAIL_INFO_READ", "MAIL_INFO_WRITE"}
      BY <2>2, <2>4, <3>2 DEF MailStep, TakesLines, Delivers
    <3> QED
      BY <3>1, <3>3
  <2> QED
    BY <2>4
<1> QED
  BY <1>1, InitFiles, StepFiles, PTL DEF Spec, OnlyOwnerChangesFile

\* The step that sends "250 Ok: queued" has put in new/, for each recipient answered
\* 250 since MAIL FROM, a file with the sender and the whole body.
THEOREM QueuedIsDelivered == Spec => QueuedMeansDelivered
<1> DEFINE A == \A c \in Clients :
                  smtp[c].stm = "MAIL_INFO_WRITE" /\ smtp'[c].stm = "MAIL_FROM_READ" =>
                    \A a \in smtp[c].named : \E i \in FilesOf(smtp[c]) :
                      /\ files'[i].email = a /\ files'[i].from = smtp[c].mailfrom
                      /\ files'[i].dir = "new" /\ files'[i].body = smtp[c].body
<1>1. FileInv /\ [Next]_vars => [A]_vars
  <2> SUFFICES ASSUME FileInv, Next, NEW c \in Clients,
                      smtp[c].stm = "MAIL_INFO_WRITE", smtp'[c].stm = "MAIL_FROM_READ",
                      NEW a \in smtp[c].named
               PROVE  \E i \in FilesOf(smtp[c]) :
                        /\ files'[i].email = a /\ files'[i].from = smtp[c].mailfrom
                        /\ files'[i].dir = "new" /\ files'[i].body = smtp[c].body
    OBVIOUS
  <2> DEFINE s == smtp[c]
  <2>1. PICK d \in Clients : MailStep(d)
    BY ClientStep DEF Next
  <2>2. d = c
    BY <2>1 DEF MailStep
  <2>3. /\ TypeOK /\ s \in Session /\ Ordered(s) /\ HasFiles(s, files)
    BY DEF FileInv, OrderInv, TypeInv, TypeOK, Matches, InData
  <2>4. CloseFds(s)
    <3>1. smtp' # smtp /\ ~CreatesFiles(s, smtp'[c])
      BY DEF CreatesFiles
    <3>2. ~Talks(s, smtp'[c])
      BY DEF Talks, Answers, BeginsMail, NamesRcpt, MovesOn, Enters, Leaves
    <3>3. \A lines \in Nat, ended \in BOOLEAN : ~TakesLines(s, smtp'[c], lines, ended)
      BY DEF TakesLines
    <3> QED
      BY <2>1, <2>2, <3>1, <3>2, <3>3 DEF MailStep, Delivers
  <2>5. PICK n \in DOMAIN s.rcpt_list : s.rcpt_list[n].email = a
    BY <2>3 DEF Ordered, InTransaction, EmailsOf
  <2> DEFINE i == s.rcpt_list[n].file
  <2>6. /\ i \in FilesOf(s) /\ i \in DOMAIN files
        /\ files[i].email = a /\ files[i].from = s.mailfrom /\ files[i].body = s.body
    BY <2>3, <2>5, HasFilesOf DEF HasFiles
  <2>7. /\ files'[i].email = files[i].email /\ files'[i].from = files[i].from
        /\ files'[i].body = files[i].body /\ files'[i].dir = "new"
    BY <2>3, <2>4, <2>6, ClosedFiles
  <2> QED
    BY <2>6, <2>7
<1> QED
  BY <1>1, InitFiles, StepFiles, PTL DEF Spec, QueuedMeansDelivered

-----------------------------------------------------------------------------
(***************************************************************************)
(* Nobody but those named, as long as no recipient of another domain is    *)
(* accepted.  DATA_READ accepts any: one of another domain leads back to   *)
(* RCPT_TO_READ with a list that is not empty, and a DATA from there to    *)
(* MAIL_FROM_READ, where no mail is under way, with that list.             *)
(***************************************************************************)
EmptyBeforeRcpt(s) ==
  \/ ~InTransaction(s)
  \/ s.stm = "RCPT_TO_READ"
  \/ s.stm = "RCPT_TO_WRITE" /\ ~(s.request.verb = "rcpt" /\ s.request.arg \in Local)

Strict(s) ==
  /\ EmptyBeforeRcpt(s) => s.rcpt_list = <<>>
  /\ InTransaction(s) => EmailsOf(s) \subseteq s.named

StrictInv == FileInv /\ \A c \in Clients : Strict(smtp[c])

LEMMA TalksStrict ==
  ASSUME NEW s \in Session, NEW t \in Session, Talks(s, t), Strict(s),
         EmailsOf(t) \cap Foreign = {}
  PROVE  Strict(t)
<1> USE DEF InTransaction, EmptyBeforeRcpt
<1>1. CASE Answers(s, t)
  <2>1. t.rcpt_list = s.rcpt_list /\ t.named = s.named /\ EmailsOf(t) = EmailsOf(s)
    BY <1>1, SameList DEF Answers, SameMail
  <2> QED
    BY <1>1, <2>1 DEF Answers, Strict
<1>2. CASE BeginsMail(s, t)
  BY <1>2 DEF BeginsMail, Strict
<1>3. CASE NamesRcpt(s, t)
  <2>1. EmailsOf(t) = EmailsOf(s) \cup {t.request.arg} /\ t.named = s.named \cup {t.request.arg}
    BY <1>3, NamesFiles DEF NamesRcpt
  <2>2. t.request.verb = "rcpt" /\ t.request.arg \in Local /\ t.stm = "RCPT_TO_WRITE"
    BY <1>3, <2>1 DEF NamesRcpt, Emails
  <2>3. EmailsOf(s) \subseteq s.named
    BY <1>3 DEF NamesRcpt, Strict
  <2> QED
    BY <2>1, <2>2, <2>3 DEF Strict
<1>4. CASE MovesOn(s, t)
  <2>1. t.rcpt_list = s.rcpt_list /\ t.named = s.named /\ EmailsOf(t) = EmailsOf(s)
    BY <1>4, SameList DEF MovesOn, SameMail
  <2>2. s.rcpt_list = <<>> => EmailsOf(s) = {}
    BY EmptyList
  <2> QED
    BY <1>4, <2>1, <2>2 DEF MovesOn, Strict, AfterRcptTo, InDomain
<1>5. CASE Enters(s, t) \/ Leaves(s, t)
  BY <1>5, EmptyList DEF Enters, Leaves, Strict
<1> QED
  BY <1>1, <1>2, <1>3, <1>4, <1>5 DEF Talks

\* The nodes have the addresses they had.
LEMMA CreatesEmails ==
  ASSUME NEW s \in Session, NEW t, CreatesFiles(s, t)
  PROVE  EmailsOf(t) = EmailsOf(s)
<1>1. \A i \in DOMAIN s.rcpt_list : s.rcpt_list[i] \in Node
  BY ListDomain
<1>2. t.rcpt_list = [i \in DOMAIN s.rcpt_list |->
                       [s.rcpt_list[i] EXCEPT !.file = Len(files) + i]]
  BY DEF CreatesFiles
<1>3. /\ DOMAIN t.rcpt_list = DOMAIN s.rcpt_list
      /\ \A i \in DOMAIN s.rcpt_list : t.rcpt_list[i].email = s.rcpt_list[i].email
  BY <1>1, <1>2 DEF Node
<1> QED
  BY <1>3 DEF EmailsOf

LEMMA StepStrict ==
  ASSUME StrictInv, NEW c \in Clients, MailStep(c), smtp'[c] \in Session,
         EmailsOf(smtp'[c]) \cap Foreign = {}
  PROVE  Strict(smtp'[c])
<1> DEFINE s == smtp[c]
           t == smtp'[c]
<1>1. s \in Session /\ t \in Session /\ Strict(s)
  BY DEF StrictInv, FileInv, OrderInv, TypeInv, TypeOK
<1>2. CASE smtp' = smtp
  BY <1>1, <1>2
<1>3. CASE Talks(s, t)
  BY <1>1, <1>3, TalksStrict
<1>4. CASE CreatesFiles(s, t)
  BY <1>1, <1>4, CreatesEmails DEF CreatesFiles, Strict, EmptyBeforeRcpt, InTransaction
<1>5. ASSUME NEW lines \in Nat, NEW ended \in BOOLEAN, TakesLines(s, t, lines, ended)
      PROVE  Strict(t)
  <2>1. EmailsOf(t) = EmailsOf(s) /\ t.named = s.named
    BY <1>5, SameList DEF TakesLines
  <2> QED
    BY <1>1, <1>5, <2>1 DEF TakesLines, Strict, EmptyBeforeRcpt, InTransaction
<1>6. CASE Delivers(s, t)
  BY <1>6, EmptyList DEF Delivers, Strict, InTransaction
<1> HIDE DEF s, t
<1> QED
  BY <1>2, <1>3, <1>4, <1>5, <1>6 DEF MailStep, s, t

LEMMA InitStrict == Init => StrictInv
<1> SUFFICES ASSUME Init PROVE StrictInv
  OBVIOUS
<1>1. \A c \in Clients : smtp[c].stm = "CLOSED" /\ smtp[c].rcpt_list = <<>>
  BY DEF Init, Closed
<1> QED
  BY <1>1, InitFiles DEF StrictInv, Strict, InTransaction

LEMMA NextStrict == StrictInv /\ [Next]_vars /\ NoForeignRecipient' => StrictInv'
<1> SUFFICES ASSUME StrictInv, [Next]_vars, NoForeignRecipient' PROVE StrictInv'
  OBVIOUS
<1>1. FileInv'
  BY StepFiles DEF StrictInv
<1>2. CASE UNCHANGED vars
  BY <1>1, <1>2 DEF vars, StrictInv
<1>3. ASSUME NEW c \in Clients, MailStep(c) PROVE StrictInv'
  <2>1. smtp'[c] \in Session
    BY <1>1 DEF FileInv, OrderInv, TypeInv, TypeOK
  <2>2. Strict(smtp'[c])
    BY <1>3, <2>1, StepStrict DEF NoForeignRecipient
  <2> QED
    BY <1>1, <1>3, <2>2 DEF StrictInv, MailStep
<1> QED
  BY <1>2, <1>3, ClientStep DEF Next, StrictInv

\* As long as no recipient of another domain has been accepted, none of an earlier
\* mail of the connection, given up or refused, is left in the list of this one.
THEOREM OnlyNamed == Spec /\ []NoForeignRecipient => []OnlyNamedRecipients
<1>1. StrictInv => OnlyNamedRecipients
  BY DEF StrictInv, Strict, OnlyNamedRecipients
<1> QED
  BY <1>1, InitStrict, NextStrict, PTL DEF Spec

-----------------------------------------------------------------------------
(***************************************************************************)
(* The refinement of MailTransaction: a step that talks, creates or takes  *)
(* lines is a step of the client's transaction or none, one that renames   *)
(* the list is the delivery of the mail.                                   *)
(***************************************************************************)
NewFilesOf(fs) == {j \in DOMAIN fs : fs[j].dir = "new"}

MailIn(i, fs) ==
  [number |-> fs[i].mail, from |-> fs[i].from,
   to |-> {fs[j].email : j \in {k \in DOMAIN fs : fs[k].mail = fs[i].mail /\ fs[k].dir = "new"}},
   body |-> fs[i].body]

Delivered(fs) == {MailIn(i, fs) : i \in NewFilesOf(fs)}

LEMMA DeliveredIs ==
  /\ {DeliveredMail(i) : i \in {j \in DOMAIN files : files[j].dir = "new"}} = Delivered(files)
  /\ {DeliveredMail(i) : i \in {j \in DOMAIN files : files[j].dir = "new"}}' = Delivered(files')
  BY DEF DeliveredMail, Delivered, MailIn, NewFilesOf

\* Nothing is delivered, and no mail delivered before changes, by a step that leaves
\* the files of new/ as they are.
LEMMA SameDelivered ==
  ASSUME NEW fs, NEW gs, NewFilesOf(gs) = NewFilesOf(fs),
         \A j \in NewFilesOf(fs) : gs[j] = fs[j]
  PROVE  Delivered(gs) = Delivered(fs)
<1>1. ASSUME NEW i \in NewFilesOf(fs) PROVE MailIn(i, gs) = MailIn(i, fs)
  <2>1. gs[i] = fs[i]
    BY <1>1
  <2>2. {k \in DOMAIN gs : gs[k].mail = gs[i].mail /\ gs[k].dir = "new"}
          = {k \in DOMAIN fs : fs[k].mail = fs[i].mail /\ fs[k].dir = "new"}
    BY <2>1 DEF NewFilesOf
  <2>3. \A k \in DOMAIN fs : fs[k].dir = "new" => gs[k].email = fs[k].email
    BY DEF NewFilesOf
  <2>4. {gs[j].email : j \in {k \in DOMAIN gs : gs[k].mail = gs[i].mail /\ gs[k].dir = "new"}}
          = {fs[j].email : j \in {k \in DOMAIN fs : fs[k].mail = fs[i].mail /\ fs[k].dir = "new"}}
    BY <2>2, <2>3
  <2> QED
    BY <2>1, <2>4 DEF MailIn
<1> QED
  BY <1>1 DEF Delivered

LEMMA StepDelivered ==
  ASSUME FileInv, NEW c \in Clients, MailStep(c), ~Delivers(smtp[c], smtp'[c])
  PROVE  Delivered(files') = Delivered(files)
<1> DEFINE s == smtp[c]
           t == smtp'[c]
<1>1. TypeOK /\ s \in Session /\ Matches(s, files)
  BY DEF FileInv, OrderInv, TypeInv, TypeOK
<1>2. FilesKept(s)
  BY <1>1, StepKeepsFiles
<1>3. CASE files' = files
  BY <1>3
<1>4. CASE CreatesFiles(s, t)
  <2>1. \A j \in DOMAIN files : files'[j] = files[j]
    BY <1>1, <1>4, CreatedFiles DEF CreatesFiles
  <2>2. NewFilesOf(files') = NewFilesOf(files)
    BY <1>2, <2>1 DEF FilesKept, NewFilesOf
  <2> QED
    BY <2>1, <2>2, SameDelivered DEF NewFilesOf
<1>5. ASSUME NEW lines \in Nat, NEW ended \in BOOLEAN, TakesLines(s, t, lines, ended)
      PROVE  Delivered(files') = Delivered(files)
  <2>1. WriteToFiles(s, lines, ended) /\ HasFiles(s, files)
    BY <1>1, <1>5 DEF TakesLines, Matches, InData
  <2>2. \A j \in FilesOf(s) : files[j].dir = "tmp"
    BY <1>1, <2>1, HasFilesOf DEF HasFiles
  <2>3. /\ DOMAIN files' = DOMAIN files
        /\ \A j \in DOMAIN files : files'[j].dir = files[j].dir
    BY <1>1, <2>1, WrittenFiles
  <2>4. NewFilesOf(files') = NewFilesOf(files)
    BY <2>3 DEF NewFilesOf
  <2>5. \A j \in NewFilesOf(files) : files'[j] = files[j]
    BY <1>2, <2>2 DEF NewFilesOf, FilesKept
  <2> QED
    BY <2>4, <2>5, SameDelivered
<1> HIDE DEF s, t
<1> QED
  BY <1>3, <1>4, <1>5 DEF MailStep, s, t

\* What the rename of a list delivers is one mail more.
LEMMA DeliversOne ==
  ASSUME FileInv, NEW s \in Session, HasFiles(s, files), CloseFds(s),
         NEW m, FilesOf(s) = Numbered(m, files)
  PROVE  /\ Delivered(files') = Delivered(files) \cup
              {[number |-> m, from |-> s.mailfrom, to |-> EmailsOf(s), body |-> s.body]}
         /\ \A other \in Delivered(files) : other.number # m
<1> DEFINE mail == [number |-> m, from |-> s.mailfrom, to |-> EmailsOf(s), body |-> s.body]
<1>1. TypeOK
  BY DEF FileInv, OrderInv, TypeInv
<1>2. /\ DOMAIN files' = DOMAIN files
      /\ \A j \in DOMAIN files : j \notin FilesOf(s) => files'[j] = files[j]
      /\ \A j \in DOMAIN files : j \in FilesOf(s) =>
           /\ files'[j].email = files[j].email /\ files'[j].from = files[j].from
           /\ files'[j].mail = files[j].mail /\ files'[j].body = files[j].body
           /\ files'[j].dir = "new"
  BY <1>1, ClosedFiles
<1>3. /\ FilesOf(s) = {s.rcpt_list[i].file : i \in DOMAIN s.rcpt_list}
      /\ FilesOf(s) \subseteq DOMAIN files /\ FilesOf(s) # {}
  BY <1>1, HasFilesOf
<1>4. \A j \in DOMAIN files : j \in FilesOf(s) <=> files[j].mail = m
  BY DEF Numbered
<1>5. \A j \in FilesOf(s) :
        files[j].dir = "tmp" /\ files[j].from = s.mailfrom /\ files[j].body = s.body
  BY <1>3 DEF HasFiles
<1>6. EmailsOf(s) = {files[j].email : j \in FilesOf(s)}
  BY <1>3 DEF HasFiles, EmailsOf
<1>7. NewFilesOf(files') = NewFilesOf(files) \cup FilesOf(s)
  BY <1>2, <1>3 DEF NewFilesOf
<1>8. ASSUME NEW i \in FilesOf(s) PROVE MailIn(i, files') = mail
  <2>1. i \in DOMAIN files /\ files'[i].mail = m
        /\ files'[i].from = s.mailfrom /\ files'[i].body = s.body
    BY <1>2, <1>3, <1>4, <1>5, <1>8
  <2>2. {k \in DOMAIN files' : files'[k].mail = m /\ files'[k].dir = "new"} = FilesOf(s)
    BY <1>2, <1>3, <1>4
  <2>3. {files'[j].email : j \in FilesOf(s)} = EmailsOf(s)
    BY <1>2, <1>3, <1>6
  <2> QED
    BY <2>1, <2>2, <2>3 DEF MailIn
<1>9. ASSUME NEW i \in NewFilesOf(files)
      PROVE  files[i].mail # m /\ MailIn(i, files') = MailIn(i, files)
  <2>1. i \in DOMAIN files /\ i \notin FilesOf(s) /\ files[i].mail # m
    BY <1>4, <1>5, <1>9 DEF NewFilesOf
  <2>2. files'[i] = files[i]
    BY <1>2, <2>1
  <2>3. {k \in DOMAIN files' : files'[k].mail = files'[i].mail /\ files'[k].dir = "new"}
          = {k \in DOMAIN files : files[k].mail = files[i].mail /\ files[k].dir = "new"}
    BY <1>2, <1>4, <2>1, <2>2
  <2>4. \A k \in DOMAIN files : files'[k].email = files[k].email
    BY <1>2
  <2>5. {files'[j].email : j \in {k \in DOMAIN files' : files'[k].mail = files'[i].mail
                                                      /\ files'[k].dir = "new"}}
          = {files[j].email : j \in {k \in DOMAIN files : files[k].mail = files[i].mail
                                                      /\ files[k].dir = "new"}}
    BY <2>3, <2>4
  <2> QED
    BY <2>1, <2>2, <2>5 DEF MailIn
<1> HIDE DEF mail
<1>10. Delivered(files') = Delivered(files) \cup {mail}
  BY <1>3, <1>7, <1>8, <1>9 DEF Delivered
<1>11. \A other \in Delivered(files) : other.number # m
  <2>1. \A i \in NewFilesOf(files) : MailIn(i, files).number = files[i].mail
    BY DEF MailIn
  <2> QED
    BY <1>9, <2>1 DEF Delivered
<1> QED
  BY <1>10, <1>11 DEF mail

\* Foreign recipients or not: a step delivers one mail more or none, and never touches one
\* delivered before.  It is the mail of a connection that has its end, with that
\* connection's sender and body, to at least those answered 250 since MAIL FROM.
DeliversOnlyEnded ==
  [][\/ Delivered(files') = Delivered(files)
     \/ \E c \in Clients, mail \in Delivered(files') :
          /\ smtp[c].stm = "MAIL_INFO_WRITE" /\ mails_sent' = mails_sent + 1
          /\ Delivered(files') = Delivered(files) \cup {mail}
          /\ \A other \in Delivered(files) : other.number # mail.number
          /\ mail.from = smtp[c].mailfrom /\ mail.body = smtp[c].body
          /\ smtp[c].named \subseteq mail.to]_vars

\* mail_info_write delivers, once for each mail, and nothing else in the server does.
THEOREM MailsArriveOnce == Spec => DeliversOnlyEnded
<1> DEFINE A == \/ Delivered(files') = Delivered(files)
                \/ \E c \in Clients, mail \in Delivered(files') :
                     /\ smtp[c].stm = "MAIL_INFO_WRITE" /\ mails_sent' = mails_sent + 1
                     /\ Delivered(files') = Delivered(files) \cup {mail}
                     /\ \A other \in Delivered(files) : other.number # mail.number
                     /\ mail.from = smtp[c].mailfrom /\ mail.body = smtp[c].body
                     /\ smtp[c].named \subseteq mail.to
<1>1. FileInv /\ [Next]_vars => [A]_vars
  <2> SUFFICES ASSUME FileInv, Next PROVE A
    OBVIOUS
  <2>1. PICK c \in Clients : MailStep(c)
    BY ClientStep DEF Next
  <2> DEFINE s == smtp[c]
  <2>2. CASE ~Delivers(s, smtp'[c])
    BY <2>1, <2>2, StepDelivered
  <2>3. CASE Delivers(s, smtp'[c])
    <3>1. /\ s \in Session /\ Ordered(s) /\ HasFiles(s, files) /\ CloseFds(s)
          /\ s.stm = "MAIL_INFO_WRITE" /\ mails_sent' = mails_sent + 1
      BY <2>3 DEF Delivers, FileInv, OrderInv, TypeInv, TypeOK, Matches, InData
    <3>2. PICK m \in Nat : FilesOf(s) = Numbered(m, files)
      BY <3>1 DEF FileInv, OneNumber, InData
    <3> DEFINE mail == [number |-> m, from |-> s.mailfrom, to |-> EmailsOf(s), body |-> s.body]
    <3>3. /\ Delivered(files') = Delivered(files) \cup {mail}
          /\ \A other \in Delivered(files) : other.number # m
      BY <3>1, <3>2, DeliversOne
    <3>4. s.named \subseteq EmailsOf(s)
      BY <3>1 DEF Ordered, InTransaction
    <3>5. /\ mail.number = m /\ mail.from = s.mailfrom /\ mail.body = s.body
          /\ mail.to = EmailsOf(s)
      OBVIOUS
    <3> HIDE DEF mail, s
    <3>6. mail \in Delivered(files') /\ s.named \subseteq mail.to
      BY <3>3, <3>4, <3>5
    <3> QED
      BY <3>1, <3>3, <3>5, <3>6 DEF s
  <2> QED
    BY <2>2, <2>3
<1> QED
  BY <1>1, InitFiles, StepFiles, PTL DEF Spec, DeliversOnlyEnded

\* The transaction of a connection that talks: as it was, begun, with a recipient
\* more, or given up.
LEMMA TalksTransaction ==
  ASSUME NEW s \in Session, NEW t \in Session, Talks(s, t)
  PROVE  \/ Transaction(t) = Transaction(s)
         \/ /\ Stage(s) = "none"
            /\ \E a \in Senders : Transaction(t) = [stage |-> "open", from |-> a,
                                                   to |-> {}, body |-> 0]
         \/ /\ Stage(s) = "open"
            /\ \E e \in Emails : Transaction(t) =
                 [stage |-> "open", from |-> s.mailfrom, to |-> s.named \cup {e}, body |-> 0]
         \/ Stage(s) \in {"open", "data"} /\ Transaction(t) = Mail!None
<1> USE DEF InData, InTransaction
<1>1. CASE Answers(s, t)
  <2>1. CASE s.stm = "RCPT_TO_READ" /\ t.stm = "MAIL_FROM_WRITE"
    <3>1. Stage(s) = "open" /\ Stage(t) = "none" /\ ~InData(t)
      BY <1>1, <2>1 DEF Answers, Stage
    <3> QED
      BY <3>1 DEF Transaction, Mail!None
  <2>2. CASE ~(s.stm = "RCPT_TO_READ" /\ t.stm = "MAIL_FROM_WRITE")
    <3>1. Stage(t) = Stage(s) /\ ~InData(s) /\ ~InData(t)
      BY <1>1, <2>2 DEF Answers, Stage
    <3>2. t.mailfrom = s.mailfrom /\ t.named = s.named
      BY <1>1 DEF Answers, SameMail
    <3> QED
      BY <3>1, <3>2 DEF Transaction
  <2> QED
    BY <2>1, <2>2
<1>2. CASE BeginsMail(s, t)
  <2>1. Stage(s) = "none" /\ Stage(t) = "open" /\ ~InData(t)
    BY <1>2 DEF BeginsMail, Stage
  <2> QED
    BY <1>2, <2>1 DEF BeginsMail, Transaction
<1>3. CASE NamesRcpt(s, t)
  <2>1. Stage(s) = "open" /\ Stage(t) = "open" /\ ~InData(t)
    BY <1>3 DEF NamesRcpt, Stage
  <2> QED
    BY <1>3, <2>1 DEF NamesRcpt, Transaction
<1>4. CASE MovesOn(s, t)
  <2>1. Stage(t) = Stage(s) /\ (InData(t) <=> InData(s))
    BY <1>4 DEF MovesOn, AfterRcptTo, Stage
  <2>2. t.mailfrom = s.mailfrom /\ t.named = s.named /\ t.body = s.body
    BY <1>4 DEF MovesOn, SameMail
  <2> QED
    BY <2>1, <2>2 DEF Transaction
<1>5. CASE Enters(s, t)
  <2>1. Stage(s) = "none" /\ Stage(t) = "none" /\ ~InData(s) /\ ~InData(t)
    BY <1>5 DEF Enters, Stage, BannerStates
  <2> QED
    BY <2>1 DEF Transaction
<1>6. CASE Leaves(s, t)
  <2>1. Stage(s) \in {"none", "open", "data"} /\ Stage(t) = "none" /\ ~InData(t)
    BY <1>6 DEF Leaves, Stage
  <2>2. Stage(s) = "none" => ~InData(s)
    BY <1>6 DEF Leaves, Stage
  <2> QED
    BY <2>1, <2>2 DEF Transaction, Mail!None
<1> QED
  BY <1>1, <1>2, <1>3, <1>4, <1>5, <1>6 DEF Talks

LEMMA NamedInRecord ==
  ASSUME NEW r, NEW stage, NEW from, NEW to, NEW body, NEW e,
         r = [stage |-> stage, from |-> from, to |-> to, body |-> body]
  PROVE  [r EXCEPT !.to = r.to \cup {e}] =
           [stage |-> stage, from |-> from, to |-> to \cup {e}, body |-> body]
  OBVIOUS

LEMMA StageInRecord ==
  ASSUME NEW r, NEW stage, NEW from, NEW to, NEW body, NEW next,
         r = [stage |-> stage, from |-> from, to |-> to, body |-> body]
  PROVE  [r EXCEPT !.stage = next] =
           [stage |-> next, from |-> from, to |-> to, body |-> body]
  OBVIOUS

LEMMA StepTransaction ==
  ASSUME StrictInv, NEW c \in Clients, MailStep(c), smtp'[c] \in Session
  PROVE  Mail!Next \/ UNCHANGED Mail!vars
<1> DEFINE s == smtp[c]
           t == smtp'[c]
           tx == [d \in Clients |-> Transaction(smtp[d])]
           tx1 == [d \in Clients |-> Transaction(smtp'[d])]
<1>1. /\ FileInv /\ TypeOK /\ s \in Session /\ t \in Session
      /\ Ordered(s) /\ Strict(s) /\ Matches(s, files) /\ OneNumber(s, files)
  BY DEF StrictInv, FileInv, OrderInv, TypeInv, TypeOK
<1>2. tx1 = [tx EXCEPT ![c] = Transaction(t)] /\ tx[c] = Transaction(s)
  BY DEF MailStep
<1>3. /\ Transaction(s).stage = Stage(s)
      /\ Stage(s) # "none" => Transaction(s).from = s.mailfrom /\ Transaction(s).to = s.named
      /\ InData(s) => Transaction(s).body = s.body
  BY DEF Transaction
\* Steps of the abstract transaction, in terms of the two functions.
<1>4. ASSUME tx1 = tx, Delivered(files') = Delivered(files)
      PROVE  UNCHANGED Mail!vars
  BY <1>4, DeliveredIs DEF Mail!vars
<1>5. ASSUME Stage(s) = "none", NEW a \in Senders, Delivered(files') = Delivered(files),
             Transaction(t) = [stage |-> "open", from |-> a, to |-> {}, body |-> 0]
      PROVE  Mail!Begin(c)
  <2>1. tx1 = [tx EXCEPT ![c] = [stage |-> "open", from |-> a, to |-> {}, body |-> 0]]
    BY <1>2, <1>5
  <2>2. tx[c].stage = "none"
    BY <1>2, <1>3, <1>5
  <2> QED
    BY <1>5, <2>1, <2>2, DeliveredIs DEF Mail!Begin
<1>6. ASSUME Stage(s) = "open", NEW e \in Emails, Delivered(files') = Delivered(files),
             Transaction(t) =
               [stage |-> "open", from |-> s.mailfrom, to |-> s.named \cup {e}, body |-> 0]
      PROVE  Mail!Name(c)
  <2>1. ~InData(s)
    BY <1>6 DEF Stage, InData, InTransaction
  <2>2. tx[c] = [stage |-> "open", from |-> s.mailfrom, to |-> s.named, body |-> 0]
    BY <1>2, <1>6, <2>1 DEF Transaction
  <2> HIDE DEF tx, tx1
  <2>3. [tx[c] EXCEPT !.to = tx[c].to \cup {e}] =
          [stage |-> "open", from |-> s.mailfrom, to |-> s.named \cup {e}, body |-> 0]
    BY <2>2, NamedInRecord
  <2>4. tx1 = [tx EXCEPT ![c].to = tx[c].to \cup {e}]
    BY <1>2, <1>6, <2>3
  <2>5. tx[c].stage = "open"
    BY <2>2
  <2> USE DEF tx, tx1
  <2> QED
    BY <1>6, <2>4, <2>5, DeliveredIs DEF Mail!Name
<1>7. ASSUME Stage(s) \in {"open", "data"}, Delivered(files') = Delivered(files),
             Transaction(t) = Mail!None
      PROVE  Mail!Abandon(c)
  <2>1. tx1 = [tx EXCEPT ![c] = Mail!None] /\ tx[c].stage \in {"open", "data"}
    BY <1>2, <1>3, <1>7
  <2> QED
    BY <1>7, <2>1, DeliveredIs DEF Mail!Abandon
<1>8. CASE smtp' = smtp /\ UNCHANGED <<files, mails_sent>>
  <2>1. tx1 = tx
    BY <1>8
  <2> QED
    BY <1>4, <1>8, <2>1
<1>9. CASE Talks(s, t) /\ UNCHANGED <<files, mails_sent>>
  <2>1. Delivered(files') = Delivered(files)
    BY <1>9
  <2>2. CASE Transaction(t) = Transaction(s)
    <3>1. tx1 = tx
      BY <1>2, <2>2
    <3> QED
      BY <1>4, <2>1, <3>1
  <2> HIDE DEF s, t, tx, tx1
  <2>3. Mail!Begin(c) \/ Mail!Name(c) \/ Mail!Abandon(c) \/ Transaction(t) = Transaction(s)
    BY <1>1, <1>5, <1>6, <1>7, <1>9, <2>1, TalksTransaction
  <2> QED
    BY <2>2, <2>3 DEF Mail!Next
<1>10. CASE CreatesFiles(s, t)
  <2>1. Delivered(files') = Delivered(files)
    <3>1. ~Delivers(s, t)
      BY <1>10 DEF CreatesFiles, Delivers
    <3> QED
      BY <1>1, <3>1, StepDelivered
  <2>2. /\ Transaction(s) = [stage |-> "open", from |-> s.mailfrom, to |-> s.named, body |-> 0]
        /\ Transaction(t) = [stage |-> "data", from |-> s.mailfrom, to |-> s.named, body |-> 0]
    <3>1. Stage(s) = "open" /\ ~InData(s) /\ Stage(t) = "data" /\ InData(t)
      BY <1>10 DEF CreatesFiles, Stage, InData, InTransaction
    <3>2. t.mailfrom = s.mailfrom /\ t.named = s.named /\ t.body = 0
      BY <1>10 DEF CreatesFiles
    <3> QED
      BY <3>1, <3>2 DEF Transaction
  <2>3. s.named # {}
    BY <1>1, <1>10 DEF CreatesFiles, Ordered
  <2> HIDE DEF s, t, tx, tx1
  <2>4. [tx[c] EXCEPT !.stage = "data"] = Transaction(t)
    BY <1>2, <2>2, StageInRecord
  <2>5. tx1 = [tx EXCEPT ![c].stage = "data"]
    BY <1>2, <2>4
  <2>6. tx[c].stage = "open" /\ tx[c].to # {}
    BY <1>2, <2>2, <2>3
  <2> USE DEF tx, tx1
  <2>7. Mail!Data(c)
    BY <2>1, <2>5, <2>6, DeliveredIs DEF Mail!Data
  <2> QED
    BY <2>7 DEF Mail!Next
<1>11. ASSUME NEW lines \in Nat, NEW ended \in BOOLEAN, TakesLines(s, t, lines, ended)
       PROVE  Mail!Next
  <2> DEFINE stage == IF ended THEN "queued" ELSE "data"
             n == s.body + lines
  <2>1. Delivered(files') = Delivered(files)
    <3>1. ~Delivers(s, t)
      BY <1>11 DEF TakesLines, Delivers
    <3> QED
      BY <1>1, <3>1, StepDelivered
  <2>2. /\ Transaction(s) = [stage |-> "data", from |-> s.mailfrom, to |-> s.named,
                             body |-> s.body]
        /\ Transaction(t) = [stage |-> stage, from |-> s.mailfrom, to |-> s.named, body |-> n]
    <3>1. Stage(s) = "data" /\ InData(s)
      BY <1>11 DEF TakesLines, Stage, InData
    <3>2. Stage(t) = stage /\ InData(t) /\ stage # "none"
      BY <1>11 DEF TakesLines, Stage, InData
    <3>3. t.mailfrom = s.mailfrom /\ t.named = s.named /\ t.body = n
      BY <1>11 DEF TakesLines
    <3> HIDE DEF stage, n
    <3> QED
      BY <3>1, <3>2, <3>3 DEF Transaction
  <2>3. n \in Nat /\ n >= s.body
    <3>1. s.body \in Nat
      BY <1>1 DEF Session
    <3> QED
      BY <3>1
  <2>4. stage \in {"data", "queued"}
    OBVIOUS
  <2> HIDE DEF s, t, tx, tx1, stage, n
  <2>5. [tx[c] EXCEPT !.stage = stage, !.body = n] = Transaction(t)
    <3> DEFINE p == Transaction(t)
               q == [tx[c] EXCEPT !.stage = stage, !.body = n]
    <3>1. tx[c] = [stage |-> "data", from |-> s.mailfrom, to |-> s.named, body |-> s.body]
      BY <1>2, <2>2
    <3>2. DOMAIN q = DOMAIN p /\ DOMAIN p = {"stage", "from", "to", "body"}
      BY <2>2, <3>1
    <3>3. q.stage = p.stage /\ q.from = p.from /\ q.to = p.to /\ q.body = p.body
      BY <2>2, <3>1
    <3>4. q = [k \in DOMAIN q |-> q[k]] /\ p = [k \in DOMAIN p |-> p[k]]
      BY <2>2
    <3> HIDE DEF p, q
    <3>5. \A k \in DOMAIN p : q[k] = p[k]
      BY <3>2, <3>3
    <3>6. q = p
      BY <3>2, <3>4, <3>5
    <3> QED
      BY <3>6 DEF p, q
  <2>6. tx1 = [tx EXCEPT ![c].stage = stage, ![c].body = n]
    BY <1>2, <2>5
  <2>7. tx[c].stage = "data" /\ tx1[c].body = n /\ tx[c].body = s.body
    BY <1>2, <2>2 DEF tx, tx1
  <2> USE DEF tx, tx1
  <2>8. Mail!Lines(c)
    BY <2>1, <2>3, <2>4, <2>6, <2>7, DeliveredIs DEF Mail!Lines
  <2> QED
    BY <2>8 DEF Mail!Next
<1>12. CASE Delivers(s, t)
  <2>1. InData(s) /\ Stage(s) = "queued"
    BY <1>12 DEF Delivers, Stage, InData
  <2>2. Transaction(t) = Mail!None
    <3>1. Stage(t) = "none" /\ ~InData(t)
      BY <1>12 DEF Delivers, Stage, InData, InTransaction
    <3> QED
      BY <3>1 DEF Transaction, Mail!None
  <2>3. EmailsOf(s) = s.named
    BY <1>1, <1>12 DEF Delivers, Ordered, Strict, InTransaction
  <2>4. PICK m \in Nat : FilesOf(s) = Numbered(m, files)
    BY <1>1, <2>1 DEF OneNumber
  <2> DEFINE mail == [number |-> m, from |-> s.mailfrom, to |-> s.named, body |-> s.body]
  <2>5. /\ Delivered(files') = Delivered(files) \cup {mail}
        /\ \A other \in Delivered(files) : other.number # m
    BY <1>1, <1>12, <2>1, <2>3, <2>4, DeliversOne DEF Delivers, Matches
  <2>6. /\ tx[c].stage = "queued" /\ tx[c].from = s.mailfrom
        /\ tx[c].to = s.named /\ tx[c].body = s.body
    BY <1>2, <1>3, <2>1
  <2>7. tx1 = [tx EXCEPT ![c] = Mail!None]
    BY <1>2, <2>2
  <2>8. /\ mail.number = m
        /\ mail = [number |-> mail.number, from |-> tx[c].from, to |-> tx[c].to,
                   body |-> tx[c].body]
    BY <2>6
  <2> HIDE DEF mail, s, t
  <2>9. Mail!Deliver(c)
    BY <2>5, <2>6, <2>7, <2>8, DeliveredIs DEF Mail!Deliver
  <2> QED
    BY <2>9 DEF Mail!Next
<1> HIDE DEF tx, tx1
<1> QED
  BY <1>8, <1>9, <1>10, <1>11, <1>12 DEF MailStep

LEMMA InitTransaction == Init => Mail!Init
<1> SUFFICES ASSUME Init PROVE Mail!Init
  OBVIOUS
<1>1. ASSUME NEW c \in Clients PROVE Transaction(smtp[c]) = Mail!None
  <2>1. smtp[c].stm = "CLOSED"
    BY DEF Init, Closed
  <2>2. Stage(smtp[c]) = "none" /\ ~InData(smtp[c])
    BY <2>1 DEF Stage, InData, InTransaction
  <2> QED
    BY <2>2 DEF Transaction, Mail!None
<1>2. Delivered(files) = {}
  BY DEF Init, Delivered, NewFilesOf
<1> QED
  BY <1>1, <1>2, DeliveredIs DEF Mail!Init

\* The connections, their lists and the files of all mails together keep the promise of
\* MailTransaction, as long as no recipient of another domain has been accepted:
\* whatever else goes on between its DATA and the renames of its copies, a mail is
\* delivered once, to those named and nobody else, or given up before its end.
THEOREM Refines == Spec /\ []NoForeignRecipient => TransactionSpec
<1>1. /\ StrictInv /\ [Next]_vars /\ StrictInv' => [Mail!Next]_(Mail!vars)
  <2> SUFFICES ASSUME StrictInv, [Next]_vars, StrictInv'
               PROVE  Mail!Next \/ UNCHANGED Mail!vars
    OBVIOUS
  <2>1. CASE UNCHANGED vars
    <3>1. /\ [c \in Clients |-> Transaction(smtp[c])]' = [c \in Clients |-> Transaction(smtp[c])]
          /\ Delivered(files') = Delivered(files)
      BY <2>1 DEF vars
    <3> QED
      BY <3>1, DeliveredIs DEF Mail!vars
  <2>2. ASSUME NEW c \in Clients, MailStep(c) PROVE Mail!Next \/ UNCHANGED Mail!vars
    <3>1. smtp'[c] \in Session
      BY DEF StrictInv, FileInv, OrderInv, TypeInv, TypeOK
    <3> QED
      BY <2>2, <3>1, StepTransaction
  <2> QED
    BY <2>1, <2>2, ClientStep DEF Next, StrictInv
<1> QED
  BY <1>1, InitTransaction, InitStrict, NextStrict, PTL
  DEF Spec, TransactionSpec, Mail!Spec
=============================================================================
