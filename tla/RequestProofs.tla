--------------------------- MODULE RequestProofs ---------------------------
(***************************************************************************)
(* request.c finishes a line at its CRLF and with the command it spelled,  *)
(* whatever bytes come and wherever recv cuts them, up to a store behind   *)
(* the end of struct request.                                              *)
(***************************************************************************)
EXTENDS RequestParser, TLAPS

\* The states of a command behind its verb: what was spelled is that verb.
BehindVerb(s, w) ==
  /\ \A v \in DOMAIN SepState : s = SepState[v] => w = Verbs[v]
  /\ \A v \in DOMAIN DomainState : s = DomainState[v] => w = Verbs[v]
  /\ \A v \in DOMAIN ArgState : s = ArgState[v] => w = Verbs[v]
  /\ \A v \in DOMAIN ClosedState : s = ClosedState[v] => w = Verbs[v]

\* A line that has only its LF to come, or not even that, has the command it spelled.
Spelled == command = "unknown" \/ (command \in DOMAIN Verbs /\ word = Verbs[command])

\* The command of an earlier line survives a CR alone, in "verb" and the states behind
\* it; it is "cr" and "done" that say what was spelled.
LineInv ==
  /\ TypeOK
  /\ BehindVerb(state, word)
  /\ state = "cr" => Spelled /\ last[2] = "CR"
  /\ state = "done" => Spelled /\ last = <<"CR", "LF">>

States == {"verb", "cr", "done", "error", "overrun", "helo_sep", "ehlo_sep", "mail_from_sep",
           "rcpt_to_sep", "helo_domain", "ehlo_domain", "mail_from", "rcpt_to",
           "mail_from_sender", "rcpt_to_recipient"}

LEMMA StateNames ==
  {"verb", "cr", "done", "error", "overrun"} \cup ImageOf(SepState) \cup ImageOf(DomainState)
     \cup ImageOf(ArgState) \cup ImageOf(ClosedState) = States
<1>1. ImageOf(SepState) = {"helo_sep", "ehlo_sep", "mail_from_sep", "rcpt_to_sep"}
  BY DEF ImageOf, SepState
<1>2. ImageOf(DomainState) = {"helo_domain", "ehlo_domain"}
  BY DEF ImageOf, DomainState
<1>3. ImageOf(ArgState) = {"mail_from", "rcpt_to"}
  BY DEF ImageOf, ArgState
<1>4. ImageOf(ClosedState) = {"mail_from_sender", "rcpt_to_recipient"}
  BY DEF ImageOf, ClosedState
<1> QED
  BY <1>1, <1>2, <1>3, <1>4 DEF States

\* BehindVerb, state by state.
LEMMA BehindIs ==
  ASSUME NEW s, NEW w
  PROVE  BehindVerb(s, w) <=>
           /\ s \in {"helo_sep", "helo_domain"} => w = Verbs["helo"]
           /\ s \in {"ehlo_sep", "ehlo_domain"} => w = Verbs["ehlo"]
           /\ s \in {"mail_from_sep", "mail_from", "mail_from_sender"} => w = Verbs["mail"]
           /\ s \in {"rcpt_to_sep", "rcpt_to", "rcpt_to_recipient"} => w = Verbs["rcpt"]
<1>1. /\ DOMAIN SepState = {"helo", "ehlo", "mail", "rcpt"}
      /\ DOMAIN DomainState = {"helo", "ehlo"}
      /\ DOMAIN ArgState = {"mail", "rcpt"} /\ DOMAIN ClosedState = {"mail", "rcpt"}
  BY DEF SepState, DomainState, ArgState, ClosedState
<1>2. /\ SepState["helo"] = "helo_sep" /\ SepState["ehlo"] = "ehlo_sep"
      /\ SepState["mail"] = "mail_from_sep" /\ SepState["rcpt"] = "rcpt_to_sep"
      /\ DomainState["helo"] = "helo_domain" /\ DomainState["ehlo"] = "ehlo_domain"
      /\ ArgState["mail"] = "mail_from" /\ ArgState["rcpt"] = "rcpt_to"
      /\ ClosedState["mail"] = "mail_from_sender" /\ ClosedState["rcpt"] = "rcpt_to_recipient"
  BY DEF SepState, DomainState, ArgState, ClosedState
<1> QED
  BY <1>1, <1>2 DEF BehindVerb

\* DOMAIN Verbs, and that nothing spelled is the beginning of every verb.
LEMMA VerbNames ==
  /\ DOMAIN Verbs = {"helo", "ehlo", "mail", "rcpt", "data", "quit"}
  /\ Begun(<<>>)
<1>1. DOMAIN Verbs = {"helo", "ehlo", "mail", "rcpt", "data", "quit"}
  BY DEF Verbs
<1>2. Verbs["data"] = <<"d", "a", "t", "a">> /\ "data" \in DOMAIN Verbs
  BY DEF Verbs
<1>3. SubSeq(Verbs["data"], 1, 0) = <<>> /\ 0 \in 0..Len(Verbs["data"])
  BY <1>2
<1> QED
  BY <1>1, <1>2, <1>3 DEF Begun

LEMMA InitLine == Init => LineInv
<1> SUFFICES ASSUME Init PROVE LineInv
  OBVIOUS
<1>1. TypeOK
  <2>1. i \in 0..ArgRoom
    BY RoomAssumption DEF Init
  <2> QED
    BY <2>1, StateNames, VerbNames DEF Init, TypeOK, States, Bytes
<1>2. BehindVerb(state, word)
  BY BehindIs DEF Init
<1> QED
  BY <1>1, <1>2 DEF Init, LineInv

\* A byte that leaves the verb spelled and is no end of a line.
LEMMA GotoLine ==
  ASSUME LineInv, NEW s \in States \ {"cr", "done"}, Goto(s), NEW c \in Bytes,
         last' = <<last[2], c>>,
         /\ s \in {"helo_sep", "helo_domain"} => word = Verbs["helo"]
         /\ s \in {"ehlo_sep", "ehlo_domain"} => word = Verbs["ehlo"]
         /\ s \in {"mail_from_sep", "mail_from", "mail_from_sender"} => word = Verbs["mail"]
         /\ s \in {"rcpt_to_sep", "rcpt_to", "rcpt_to_recipient"} => word = Verbs["rcpt"]
  PROVE  LineInv'
<1>1. state' = s /\ word' = word /\ command' = command /\ i' = i
  BY DEF Goto
<1>2. TypeOK'
  BY <1>1, StateNames DEF LineInv, TypeOK
<1>3. BehindVerb(state', word')
  BY <1>1, BehindIs
<1> QED
  BY <1>1, <1>2, <1>3 DEF LineInv

\* A byte of an argument is stored in struct request, or the parser is overrun.
LEMMA StoreLine ==
  ASSUME LineInv, NEW s \in States \ {"cr", "done"}, NEW at \in {0, i},
         NEW room \in {DomainRoom, ArgRoom}, Store(s, at, room),
         NEW c \in Bytes, last' = <<last[2], c>>,
         /\ s \in {"helo_sep", "helo_domain"} => word = Verbs["helo"]
         /\ s \in {"ehlo_sep", "ehlo_domain"} => word = Verbs["ehlo"]
         /\ s \in {"mail_from_sep", "mail_from", "mail_from_sender"} => word = Verbs["mail"]
         /\ s \in {"rcpt_to_sep", "rcpt_to", "rcpt_to_recipient"} => word = Verbs["rcpt"]
  PROVE  LineInv'
<1>1. state' \in {s, "overrun"} /\ word' = word /\ command' = command
  BY DEF Store
<1>2. i' \in 0..ArgRoom
  <2>1. i \in 0..ArgRoom
    BY DEF LineInv, TypeOK
  <2> QED
    BY <2>1, RoomAssumption DEF Store
<1>3. TypeOK'
  BY <1>1, <1>2, StateNames DEF LineInv, TypeOK, States
<1>4. BehindVerb(state', word')
  BY <1>1, BehindIs
<1> QED
  BY <1>1, <1>3, <1>4 DEF LineInv

LEMMA FailLine ==
  ASSUME LineInv, NEW c \in Bytes, Fail(c), last' = <<last[2], c>>
  PROVE  LineInv'
<1>1. state' = (IF c = "CR" THEN "cr" ELSE "error") /\ word' = word /\ command' = "unknown"
      /\ i' = i
  BY DEF Fail
<1>2. TypeOK'
  BY <1>1, StateNames DEF LineInv, TypeOK, States
<1>3. BehindVerb(state', word')
  BY <1>1, BehindIs
<1>4. last'[2] = c
  OBVIOUS
<1> QED
  BY <1>1, <1>2, <1>3, <1>4 DEF LineInv, Spelled

LEMMA CompleteLine ==
  ASSUME LineInv, NEW v \in DOMAIN Verbs, Complete(v), word = Verbs[v],
         last' = <<last[2], "CR">>
  PROVE  LineInv'
<1>1. state' = "cr" /\ word' = word /\ command' = v /\ i' = i
  BY DEF Complete
<1>2. TypeOK'
  <2>1. "CR" \in Bytes
    BY DEF Bytes
  <2> QED
    BY <1>1, <2>1, StateNames DEF LineInv, TypeOK, States
<1>3. BehindVerb(state', word')
  BY <1>1, BehindIs
<1> QED
  BY <1>1, <1>2, <1>3 DEF LineInv, Spelled

\* A byte of a verb, or the one behind it.
LEMMA VerbLine ==
  ASSUME LineInv, NEW c \in Bytes, verb(c), last' = <<last[2], c>>
  PROVE  LineInv'
<1>1. state = "verb" /\ Begun(word) /\ command \in DOMAIN Verbs \cup {"noop", "unknown"}
      /\ last[2] \in Bytes /\ i \in 0..ArgRoom
  BY DEF verb, LineInv, TypeOK
<1>2. ASSUME NEW s \in {"verb", "error"}, Goto(s) PROVE LineInv'
  BY <1>2, GotoLine DEF States
<1>3. ASSUME NEW v \in {"helo", "ehlo"}, word = Verbs[v], Goto(SepState[v])
      PROVE  LineInv'
  <2>1. SepState["helo"] = "helo_sep" /\ SepState["ehlo"] = "ehlo_sep"
    BY DEF SepState
  <2> QED
    BY <1>3, <2>1, GotoLine DEF States
<1>4. CASE Spell(c)
  <2>1. /\ Begun(word') /\ command' = command /\ i' = i
        /\ state' = IF word' = Verbs["mail"] THEN "mail_from_sep"
                    ELSE IF word' = Verbs["rcpt"] THEN "rcpt_to_sep" ELSE "verb"
    BY <1>4 DEF Spell, SepState
  <2>2. TypeOK'
    BY <1>1, <2>1, StateNames DEF TypeOK, States
  <2>3. BehindVerb(state', word')
    BY <2>1, BehindIs
  <2> QED
    BY <2>1, <2>2, <2>3 DEF LineInv
<1>5. ASSUME NEW v \in {"data", "quit"}, word = Verbs[v], c = "CR", Complete(v)
      PROVE  LineInv'
  BY <1>5, VerbNames, CompleteLine
<1>6. CASE EndOfVerb(c)
  BY <1>2, <1>3, <1>5, <1>6, FailLine DEF EndOfVerb
<1> QED
  BY <1>2, <1>4, <1>6, FailLine DEF verb

\* A byte of an argument, or of what is around it.
LEMMA ArgumentLine ==
  ASSUME LineInv, NEW c \in Bytes, last' = <<last[2], c>>,
         \/ \E v \in {"helo", "ehlo"} : domain(v, c)
         \/ \E v \in {"mail", "rcpt"} : argument(v, c) \/ closed(v, c)
  PROVE  LineInv'
<1>1. /\ SepState["helo"] = "helo_sep" /\ SepState["ehlo"] = "ehlo_sep"
      /\ SepState["mail"] = "mail_from_sep" /\ SepState["rcpt"] = "rcpt_to_sep"
      /\ DomainState["helo"] = "helo_domain" /\ DomainState["ehlo"] = "ehlo_domain"
      /\ ArgState["mail"] = "mail_from" /\ ArgState["rcpt"] = "rcpt_to"
      /\ ClosedState["mail"] = "mail_from_sender" /\ ClosedState["rcpt"] = "rcpt_to_recipient"
  BY DEF SepState, DomainState, ArgState, ClosedState
<1>2. /\ state \in {"helo_sep", "helo_domain"} => word = Verbs["helo"]
      /\ state \in {"ehlo_sep", "ehlo_domain"} => word = Verbs["ehlo"]
      /\ state \in {"mail_from_sep", "mail_from", "mail_from_sender"} => word = Verbs["mail"]
      /\ state \in {"rcpt_to_sep", "rcpt_to", "rcpt_to_recipient"} => word = Verbs["rcpt"]
  BY BehindIs DEF LineInv
<1>3. ASSUME NEW v \in {"helo", "ehlo"}, domain(v, c) PROVE LineInv'
  <2>1. word = Verbs[v]
    BY <1>1, <1>2, <1>3 DEF domain
  <2>2. ASSUME NEW s \in {SepState[v], "error"}, Goto(s) PROVE LineInv'
    BY <1>1, <2>1, <2>2, GotoLine DEF States
  <2>3. CASE c = "CR" /\ Complete(v)
    BY <2>1, <2>3, VerbNames, CompleteLine
  <2>4. ASSUME NEW at \in {0, i}, Store(DomainState[v], at, DomainRoom) PROVE LineInv'
    BY <1>1, <2>1, <2>4, StoreLine DEF States
  <2> QED
    BY <1>3, <2>2, <2>3, <2>4 DEF domain
<1>4. ASSUME NEW v \in {"mail", "rcpt"}, argument(v, c) \/ closed(v, c) PROVE LineInv'
  <2>1. word = Verbs[v]
    BY <1>1, <1>2, <1>4 DEF argument, closed
  <2>2. ASSUME NEW s \in {SepState[v], ArgState[v], ClosedState[v], "error"}, Goto(s)
        PROVE  LineInv'
    BY <1>1, <2>1, <2>2, GotoLine DEF States
  <2>3. CASE c = "CR" /\ Complete(v)
    BY <2>1, <2>3, VerbNames, CompleteLine
  <2>4. ASSUME Store(ArgState[v], i, ArgRoom) PROVE LineInv'
    BY <1>1, <2>1, <2>4, StoreLine DEF States
  <2>5. CASE argument(v, c)
    BY <2>2, <2>4, <2>5, FailLine DEF argument
  <2>6. CASE closed(v, c)
    BY <2>2, <2>3, <2>6 DEF closed
  <2> QED
    BY <1>4, <2>5, <2>6
<1> QED
  BY <1>3, <1>4

LEMMA StepLine == LineInv /\ [Next]_vars => LineInv'
<1> SUFFICES ASSUME LineInv, [Next]_vars PROVE LineInv'
  OBVIOUS
<1>1. ASSUME NEW c \in Bytes, Feed(c) PROVE LineInv'
  <2>1. last' = <<last[2], c>>
    BY <1>1 DEF Feed
  <2>2. CASE cr(c)
    <3>1. CASE c = "LF" /\ Goto("done")
      <4>1. state' = "done" /\ word' = word /\ command' = command /\ i' = i
        BY <3>1 DEF Goto
      <4>2. Spelled' /\ last' = <<"CR", "LF">>
        BY <2>1, <2>2, <3>1, <4>1 DEF cr, LineInv, Spelled
      <4>3. TypeOK'
        BY <2>1, <4>1, StateNames DEF LineInv, TypeOK, States
      <4> QED
        BY <4>1, <4>2, <4>3, BehindIs DEF LineInv
    <3>2. CASE state' = "verb" /\ word' = <<>> /\ UNCHANGED <<command, i>>
      <4>1. TypeOK'
        BY <2>1, <3>2, StateNames, VerbNames DEF LineInv, TypeOK, States
      <4> QED
        BY <3>2, <4>1, BehindIs DEF LineInv
    <3> QED
      BY <2>2, <3>1, <3>2 DEF cr
  <2>3. CASE error(c)
    BY <2>1, <2>3, FailLine DEF error
  <2>4. CASE overrun(c)
    BY <2>1, <2>4, GotoLine DEF overrun, States
  <2> QED
    BY <1>1, <2>1, <2>2, <2>3, <2>4, VerbLine, ArgumentLine DEF Feed
<1>2. CASE Reinit
  <2>1. state' = "verb" /\ word' = <<>> /\ command' = "noop" /\ last' = <<"x", "x">>
    BY <1>2 DEF Reinit
  <2>2. i' \in 0..ArgRoom
    BY <1>2, RoomAssumption DEF Reinit
  <2>3. TypeOK'
    BY <2>1, <2>2, StateNames, VerbNames DEF TypeOK, States, Bytes
  <2> QED
    BY <2>1, <2>3, BehindIs DEF LineInv
<1>3. CASE UNCHANGED vars
  BY <1>3 DEF vars, LineInv, TypeOK, BehindVerb, Spelled
<1> QED
  BY <1>1, <1>2, <1>3 DEF Next

LEMMA LineInductive == Spec => []LineInv
  BY InitLine, StepLine, PTL DEF Spec

\* The automaton stays in its states, with a beginning of a verb read.
THEOREM TypeCorrect == Spec => []TypeOK
<1>1. LineInv => TypeOK
  BY DEF LineInv
<1> QED
  BY <1>1, LineInductive, PTL

\* A finished line is answered for what it spelled, or as unknown: no command of an
\* earlier line, broken off by a CR alone or by an error, is left in its place.
THEOREM CommandSpelled == Spec => []CommandAsSpelled
<1>1. LineInv => CommandAsSpelled
  BY DEF LineInv, Spelled, CommandAsSpelled
<1> QED
  BY <1>1, LineInductive, PTL

\* A line is over at CRLF and no sooner, wherever the pieces it came in were cut.
THEOREM OverAtLineEnd == Spec => []DoneAtLineEnd
<1>1. LineInv => DoneAtLineEnd
  BY DEF LineInv, DoneAtLineEnd
<1> QED
  BY <1>1, LineInductive, PTL
=============================================================================
