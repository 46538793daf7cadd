------------------------- MODULE SupervisionProofs -------------------------
(***************************************************************************)
(* Theorems about Supervision for any clients, peers and limits: who is    *)
(* logged in, and how far the numbers told are from the truth.             *)
(***************************************************************************)
EXTENDS Supervision, SmtpProofs

-----------------------------------------------------------------------------
(***************************************************************************)
(* The login.  Between the two words a peer has one right word to its      *)
(* name, before them none, behind them two.                                *)
(***************************************************************************)
WordsOf(p) ==
  CASE clients[p] = "STATE_WAIT_PASSWORD" -> 1
    [] clients[p] = "STATE_AUTH_SUCCESS" -> 2
    [] OTHER -> 0

LoginInv == SupervisionTypeOK /\ \A p \in Peers : rights[p] = WordsOf(p)

LEMMA InitLogin == SupervisionInit => LoginInv
  BY DEF SupervisionInit, LoginInv, SupervisionTypeOK, ClientStates, WordsOf

LEMMA WordAuthenticates ==
  ASSUME LoginInv, NEW p \in Peers, NEW word \in Words, Authenticate(p, word)
  PROVE  LoginInv'
<1> USE DEF LoginInv, SupervisionTypeOK, ClientStates
<1>1. /\ clients' = [clients EXCEPT ![p] = AfterWord(clients[p], word)]
      /\ rights' = [rights EXCEPT ![p] =
           IF clients[p] # "STATE_INIT" /\ Right(word) THEN rights[p] + 1 ELSE 0]
      /\ clients[p] # "STATE_AUTH_SUCCESS"
      /\ UNCHANGED <<transformations, refused>>
  BY DEF Authenticate, find_client, LoggedIn
<1>2. /\ AfterWord(clients[p], word) \in ClientStates
      /\ rights'[p] \in 0..2
      /\ rights'[p] = WordsOf(p)'
  <2>1. clients[p] \in {"STATE_INIT", "STATE_WAIT_USERNAME", "STATE_WAIT_PASSWORD"}
    BY <1>1
  <2>2. clients'[p] = AfterWord(clients[p], word)
    BY <1>1
  <2>3. rights'[p] = IF clients[p] # "STATE_INIT" /\ Right(word) THEN rights[p] + 1 ELSE 0
    BY <1>1
  <2> QED
    BY <2>1, <2>2, <2>3 DEF AfterWord, WordsOf
<1>3. \A q \in Peers : q # p => clients'[q] = clients[q] /\ rights'[q] = rights[q]
  BY <1>1
<1>4. \A q \in Peers : rights'[q] = WordsOf(q)'
  BY <1>2, <1>3 DEF WordsOf
<1> QED
  BY <1>1, <1>2, <1>3, <1>4

LEMMA StepLogin == LoginInv /\ [SupervisionNext]_allVars => LoginInv'
<1> SUFFICES ASSUME LoginInv, [SupervisionNext]_allVars PROVE LoginInv'
  OBVIOUS
<1> USE DEF LoginInv, SupervisionTypeOK
<1>1. ASSUME NEW p \in Peers, NEW word \in Words, SetNewStatus(p, word)
      PROVE  LoginInv'
  BY <1>1 DEF SetNewStatus, WordsOf
<1>2. CASE SmtpStep
  BY <1>2 DEF SmtpStep, WordsOf
<1>3. CASE UNCHANGED allVars
  BY <1>3 DEF allVars, WordsOf
<1> QED
  BY <1>1, <1>2, <1>3, WordAuthenticates DEF SupervisionNext

LEMMA LoginInductive == SupervisionSpec => []LoginInv
  BY InitLogin, StepLogin, PTL DEF SupervisionSpec

\* A peer is in one of the states a datagram can lead to, with two right words at most.
THEOREM SupervisionTypes == SupervisionSpec => []SupervisionTypeOK
<1>1. LoginInv => SupervisionTypeOK
  BY DEF LoginInv
<1> QED
  BY <1>1, LoginInductive, PTL

\* Two right words in a row, and nothing else that any peer sends, log a peer in.
THEOREM LoginNeedsBothWords == SupervisionSpec => []LoggedInByTwoWords
<1>1. LoginInv => LoggedInByTwoWords
  BY DEF LoginInv, SupervisionTypeOK, ClientStates, WordsOf, LoggedInByTwoWords, LoggedIn
<1> QED
  BY <1>1, LoginInductive, PTL

-----------------------------------------------------------------------------
(***************************************************************************)
(* The counters.                                                           *)
(***************************************************************************)
\* What a handler does to "bytes" and "historico".  A byte is taken away only with
\* the connection.
Accounted ==
  /\ historic_users' = historic_users
  /\ transferred_bytes' \in Int
  /\ \/ transferred_bytes' >= transferred_bytes
     \/ transferred_bytes' = transferred_bytes - 1 /\ current_users' = current_users - 1

LEMMA ReceiveAccounted ==
  ASSUME TypeOK, NEW c \in Clients, NEW n \in Reads(c),
         transferred_bytes' = transferred_bytes + n, historic_users' = historic_users
  PROVE  Accounted
<1>1. n \in Nat /\ transferred_bytes \in Int
  BY InputType DEF TypeOK
<1> QED
  BY <1>1 DEF Accounted

LEMMA HandlerAccounted ==
  ASSUME TypeOK, NEW c \in Clients,
         ReadHandler(c) \/ WriteHandler(c) \/ Environment(c)
  PROVE  Accounted
<1>1. transferred_bytes \in Int
  BY DEF TypeOK
<1>2. ASSUME NEW st \in States, ReadFails(c, st) PROVE Accounted
  BY <1>1, <1>2 DEF ReadFails, Done, Accounted
<1>3. ASSUME NEW n \in Reads(c), Quit(c, n) PROVE Accounted
  BY <1>3, ReceiveAccounted DEF Quit, Done
<1>4. ASSUME NEW n \in Reads(c), Receive(c, n), UNCHANGED counters PROVE Accounted
  BY <1>4, ReceiveAccounted DEF Receive, counters
<1>5. CASE ReadHandler(c)
  <2> USE DEF States, ReadStates, CommandStates
  <2>1. CASE FailedConnectionRead(c)
    BY <2>1, <1>2, <1>3, <1>4 DEF FailedConnectionRead, Answer
  <2>2. CASE EhloRead(c)
    BY <2>2, <1>2, <1>3, <1>4 DEF EhloRead, Answer
  <2>3. CASE MailFromRead(c)
    BY <2>3, <1>2, <1>3, <1>4 DEF MailFromRead, Answer
  <2>4. CASE RcptToRead(c)
    BY <2>4, <1>2, <1>3, <1>4 DEF RcptToRead, Answer, AddRcpt
  <2>5. CASE DataRead(c)
    <3>1. ASSUME NEW n \in Reads(c), CreateMailsFiles(c, n) PROVE Accounted
      BY <3>1, ReceiveAccounted DEF CreateMailsFiles, Receive, counters
    <3> QED
      BY <2>5, <3>1, <1>2, <1>3, <1>4 DEF DataRead, Answer, AddRcpt
  <2>6. CASE MailInfoRead(c)
    BY <2>6, <1>2, <1>4 DEF MailInfoRead
  <2> QED
    BY <1>5, <2>1, <2>2, <2>3, <2>4, <2>5, <2>6 DEF ReadHandler
<1>6. CASE WriteHandler(c)
  <2>1. historic_users' = historic_users /\ transferred_bytes' = transferred_bytes
    BY <1>6 DEF WriteHandler, GreetingWrite, FailedConnectionWrite, EhloWrite,
       MailFromWrite, RcptToWrite, DataWrite, MailInfoWrite, BannerWrite, WriteStatus, Done
  <2> QED
    BY <1>1, <2>1 DEF Accounted
<1>7. CASE Environment(c)
  BY <1>1, <1>7 DEF Environment, Send, Fin, Reset, counters, Accounted
<1> QED
  BY <1>5, <1>6, <1>7

\* A step of the SMTP side opens a connection, refuses one, ends one or goes on.
Opens(c) ==
  /\ c \notin Open /\ Open' = Open \cup {c}
  /\ current_users' = current_users + 1 /\ historic_users' = historic_users + 1
  /\ transferred_bytes' = transferred_bytes
Turns ==
  /\ Open' = Open
  /\ current_users' = current_users + 1 /\ historic_users' = historic_users + 1
  /\ transferred_bytes' = transferred_bytes
Ends(c) ==
  /\ c \in Open /\ Open' = Open \ {c}
  /\ current_users' = current_users - 1 /\ historic_users' = historic_users
  /\ transferred_bytes' \in Int /\ transferred_bytes' >= transferred_bytes - 1
GoesOn ==
  /\ Open' = Open
  /\ current_users' = current_users /\ historic_users' = historic_users
  /\ transferred_bytes' \in Int /\ transferred_bytes' >= transferred_bytes

LEMMA StepCounts ==
  ASSUME TypeInv, NEW c \in Clients,
         Accept(c) \/ ReadHandler(c) \/ WriteHandler(c) \/ Environment(c)
  PROVE  Opens(c) \/ Turns \/ Ends(c) \/ GoesOn
<1>1. /\ TypeOK /\ StepOf(c)
      /\ smtp \in [Clients -> Session] /\ transferred_bytes \in Int /\ current_users \in Nat
  BY NextStep DEF TypeInv, TypeOK
<1>2. CASE Accept(c)
  <2>1. CASE smtp' = smtp
    BY <1>2, <2>1 DEF Accept, Turns, Open
  <2>2. CASE smtp' = [smtp EXCEPT ![c] = Fresh(InitialState)]
    <3>1. smtp'[c].stm # "CLOSED" /\ \A d \in Clients : d # c => smtp'[d] = smtp[d]
      BY <1>1, <2>2 DEF Fresh, Closed, InitialState
    <3>2. smtp[c].stm = "CLOSED"
      BY <1>2 DEF Accept
    <3>3. c \notin Open /\ Open' = Open \cup {c}
      BY <3>1, <3>2 DEF Open
    <3> QED
      BY <1>2, <3>3 DEF Accept, Opens
  <2> QED
    BY <1>2, <2>1, <2>2 DEF Accept
<1>3. CASE ReadHandler(c) \/ WriteHandler(c) \/ Environment(c)
  <2>1. Accounted
    BY <1>1, <1>3, HandlerAccounted
  <2>2. CASE smtp[c].stm # "CLOSED" /\ current_users' = current_users
              /\ \E s \in Session : s.stm # "CLOSED" /\ smtp' = [smtp EXCEPT ![c] = s]
    <3>1. Open' = Open
      BY <1>1, <2>2 DEF Open
    <3> QED
      BY <1>1, <2>1, <2>2, <3>1 DEF Accounted, GoesOn
  <2>3. CASE smtp[c].stm # "CLOSED" /\ current_users' = current_users - 1
              /\ smtp' = [smtp EXCEPT ![c] = Closed]
    <3>1. c \in Open /\ Open' = Open \ {c}
      BY <1>1, <2>3 DEF Open, Closed
    <3> QED
      BY <1>1, <2>1, <2>3, <3>1 DEF Accounted, Ends
  <2>4. CASE smtp' = smtp /\ current_users' = current_users
    <3>1. Open' = Open
      BY <2>4 DEF Open
    <3> QED
      BY <1>1, <2>1, <2>4, <3>1 DEF Accounted, GoesOn
  <2>5. CASE smtp[c].stm = "CLOSED"
    <3>1. Environment(c)
      BY <1>3, <2>5 DEF ReadHandler, WriteHandler, FailedConnectionRead, EhloRead,
         MailFromRead, RcptToRead, DataRead, MailInfoRead, ReadFails, ReadReady,
         GreetingWrite, FailedConnectionWrite, EhloWrite, MailFromWrite, RcptToWrite,
         DataWrite, MailInfoWrite, BannerWrite, WriteStatus, WriteReady
    <3>2. smtp' = smtp /\ current_users' = current_users
      BY <3>1 DEF Environment, Send, Fin, Reset, counters
    <3> QED
      BY <2>4, <3>2
  <2> QED
    BY <1>1, <2>2, <2>3, <2>4, <2>5 DEF StepOf
<1> QED
  BY <1>2, <1>3

ToldInv == TypeInv /\ refused \in Nat /\ ToldUsers /\ ToldBytes

LEMMA StepTold ==
  ASSUME ToldInv, Next, refused' = refused + (IF Refuses THEN 1 ELSE 0)
  PROVE  ToldInv'
<1>1. PICK c \in Clients : Accept(c) \/ ReadHandler(c) \/ WriteHandler(c) \/ Environment(c)
  BY DEF Next
<1>2. TypeInv'
  BY <1>1, NextStep, StepOfType DEF ToldInv
<1>3. /\ current_users \in Nat /\ historic_users \in Nat /\ transferred_bytes \in Int
      /\ current_users' \in Nat /\ historic_users' \in Nat /\ transferred_bytes' \in Int
      /\ refused \in Nat
  BY <1>2 DEF ToldInv, TypeInv, TypeOK
<1>4. IsFiniteSet(Open) /\ Cardinality(Open) \in Nat
  BY FiniteOpen
<1> DEFINE n == Cardinality(Open)
<1>5. /\ current_users = n + refused /\ current_users <= historic_users
      /\ 0 <= transferred_bytes + historic_users - n
  BY DEF ToldInv, ToldUsers, ToldBytes, Told
<1>6. SUFFICES /\ refused' \in Nat /\ current_users' = n' + refused'
               /\ current_users' <= historic_users'
               /\ 0 <= transferred_bytes' + historic_users' - n'
  BY <1>2 DEF ToldInv, ToldUsers, ToldBytes, Told
<1>7. CASE Opens(c)
  <2>1. n' = n + 1 /\ refused' = refused
    <3>1. Open' = Open \cup {c} /\ c \notin Open
      BY <1>7 DEF Opens
    <3>2. n' = n + 1
      BY <1>4, <3>1, FS_AddElement
    <3>3. Open' # Open
      BY <3>1
    <3> QED
      BY <1>3, <3>2, <3>3 DEF Refuses
  <2> HIDE DEF n
  <2> QED
    BY <1>3, <1>4, <1>5, <1>7, <2>1 DEF Opens, n
<1>8. CASE Turns
  <2>1. n' = n /\ refused' = refused + 1
    BY <1>3, <1>8 DEF Turns, Refuses
  <2> HIDE DEF n
  <2> QED
    BY <1>3, <1>4, <1>5, <1>8, <2>1 DEF Turns, n
<1>9. CASE Ends(c)
  <2>1. n' = n - 1 /\ refused' = refused
    <3>1. Open' = Open \ {c} /\ c \in Open
      BY <1>9 DEF Ends
    <3>2. n' = n - 1
      BY <1>4, <3>1, FS_RemoveElement
    <3> QED
      BY <1>3, <1>9, <3>2 DEF Ends, Refuses
  <2> HIDE DEF n
  <2> QED
    BY <1>3, <1>4, <1>5, <1>9, <2>1 DEF Ends, n
<1>10. CASE GoesOn
  <2>1. n' = n /\ refused' = refused
    BY <1>3, <1>10 DEF GoesOn, Refuses
  <2> HIDE DEF n
  <2> QED
    BY <1>3, <1>4, <1>5, <1>10, <2>1 DEF GoesOn, n
<1> QED
  BY <1>1, <1>7, <1>8, <1>9, <1>10, StepCounts DEF ToldInv

LEMMA ToldInductive == SupervisionSpec => []ToldInv
<1>1. SupervisionInit => ToldInv
  <2> SUFFICES ASSUME SupervisionInit PROVE ToldInv
    OBVIOUS
  <2>1. Open = {}
    BY DEF SupervisionInit, Init, Open, Closed
  <2> QED
    BY <2>1, InitTypeInv, FS_EmptySet
    DEF SupervisionInit, Init, ToldInv, ToldUsers, ToldBytes, Told
<1>2. ToldInv /\ [SupervisionNext]_allVars => ToldInv'
  <2> SUFFICES ASSUME ToldInv, [SupervisionNext]_allVars PROVE ToldInv'
    OBVIOUS
  <2>1. CASE SmtpStep
    BY <2>1, StepTold DEF SmtpStep
  <2>2. CASE UNCHANGED <<vars, refused>>
    <3>1. Open' = Open
      BY <2>2 DEF vars, Open
    <3> QED
      BY <2>2, <3>1
      DEF vars, ToldInv, TypeInv, TypeOK, UsersCovered, ToldUsers, ToldBytes, Told
  <2> QED
    BY <2>1, <2>2 DEF SupervisionNext, Authenticate, SetNewStatus, allVars
<1> QED
  BY <1>1, <1>2, PTL DEF SupervisionSpec

\* "actual" counts the connections open and those the selector refused, which are never
\* counted out again, and never exceeds "historico".
THEOREM UsersTold == SupervisionSpec => []ToldUsers
<1>1. ToldInv => ToldUsers
  BY DEF ToldInv
<1> QED
  BY <1>1, ToldInductive, PTL

\* "bytes" is at most one too low for each connection that is over.
THEOREM BytesTold == SupervisionSpec => []ToldBytes
<1>1. ToldInv => ToldBytes
  BY DEF ToldInv
<1> QED
  BY <1>1, ToldInductive, PTL
=============================================================================
