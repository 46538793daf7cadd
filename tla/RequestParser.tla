--------------------------- MODULE RequestParser ---------------------------
(***************************************************************************)
(* request.c: the automaton that reads a command line byte by byte, in     *)
(* whatever pieces recv returns them.                                      *)
(*                                                                         *)
(* Abstraction.  A letter stands for its upper and lower case, "x" for the *)
(* bytes no rule names.  The 31 request_verb_* states are one state and    *)
(* the part of the verb read so far.  Of the arguments only the place      *)
(* where the next byte is stored is kept, and not the bytes.               *)
(*                                                                         *)
(* The stores into arg and domain are not checked.  One that misses struct *)
(* request changes the parser itself, in a way C leaves open: the state    *)
(* "overrun" ends the model there, and what is said of lines is said of    *)
(* those whose arguments fit.                                              *)
(*                                                                         *)
(* A definition whose comment starts with MUTANT is a faulty variant of    *)
(* the one after it; no specification uses it.                             *)
(***************************************************************************)
EXTENDS Integers, Sequences

CONSTANTS
  DomainRoom,  \* 32: the size of domain, the last field of struct request
  ArgRoom      \* 64: the size of arg and of domain behind it

ASSUME RoomAssumption ==
  ArgRoom \in 1..255 /\ DomainRoom \in 1..ArgRoom  \* i is a uint8_t: it does not wrap

Bytes == {"a", "c", "d", "e", "f", "h", "i", "l", "m", "o", "p", "q", "r", "t", "u",
          " ", "TAB", ":", "<", ">", "CR", "LF", "x"}
Blank == {" ", "TAB"}

\* What is spelled before the arguments of each command, or before the end of the line.
Verbs == [helo |-> <<"h", "e", "l", "o">>,
          ehlo |-> <<"e", "h", "l", "o">>,
          mail |-> <<"m", "a", "i", "l", " ", "f", "r", "o", "m", ":">>,
          rcpt |-> <<"r", "c", "p", "t", " ", "t", "o", ":">>,
          data |-> <<"d", "a", "t", "a">>,
          quit |-> <<"q", "u", "i", "t">>]
Begun(w) == \E v \in DOMAIN Verbs : \E n \in 0..Len(Verbs[v]) : w = SubSeq(Verbs[v], 1, n)

\* The states of each command behind its verb.
SepState == [helo |-> "helo_sep", ehlo |-> "ehlo_sep",
             mail |-> "mail_from_sep", rcpt |-> "rcpt_to_sep"]
DomainState == [helo |-> "helo_domain", ehlo |-> "ehlo_domain"]
ArgState == [mail |-> "mail_from", rcpt |-> "rcpt_to"]
ClosedState == [mail |-> "mail_from_sender", rcpt |-> "rcpt_to_recipient"]

VARIABLES
  state,    \* enum request_state
  word,     \* the verb read so far; what it was, behind it
  command,  \* enum request_command
  i,        \* where the next byte of an argument is stored
  last      \* not in the code: the last two bytes fed

vars == <<state, word, command, i, last>>

\* request_parser_init
Init ==
  /\ state = "verb" /\ word = <<>>
  /\ command = "noop" /\ i = 0
  /\ last = <<"x", "x">>

Goto(s) == state' = s /\ UNCHANGED <<word, command, i>>

\* MUTANT: the command of a line is kept when the line goes wrong.
FailKeepsCommand(c) ==
  /\ state' = IF c = "CR" THEN "cr" ELSE "error"
  /\ UNCHANGED <<word, command, i>>

\* request_error, which the byte that went wrong is fed to again
Fail(c) ==
  /\ state' = IF c = "CR" THEN "cr" ELSE "error"
  /\ command' = "unknown"
  /\ UNCHANGED <<word, i>>

\* MUTANT: the line is over at its CR.
CompleteAtCR(v) == state' = "done" /\ command' = v /\ UNCHANGED <<word, i>>

\* The CR behind a whole command.
Complete(v) == state' = "cr" /\ command' = v /\ UNCHANGED <<word, i>>

\* A byte of an argument stored at p->i++, in an array with room for so many.
Store(s, at, room) ==
  /\ \/ at < room /\ state' = s /\ i' = at + 1
     \/ at >= room /\ state' = "overrun" /\ UNCHANGED i
  /\ UNCHANGED <<word, command>>

-----------------------------------------------------------------------------
\* MUTANT: any byte goes on with the verb.
SpellAnything(c) == word' = Append(word, c) /\ UNCHANGED <<state, command, i>>

\* One more byte of a verb; the ":" of MAIL FROM and RCPT TO ends it.
Spell(c) ==
  /\ Begun(Append(word, c))
  /\ word' = Append(word, c)
  /\ state' = IF word' = Verbs.mail THEN SepState.mail
              ELSE IF word' = Verbs.rcpt THEN SepState.rcpt ELSE "verb"
  /\ UNCHANGED <<command, i>>

EndOfVerb(c) ==
  \/ \E v \in {"helo", "ehlo"} :
       /\ word = Verbs[v]
       /\ \/ c \in Blank /\ Goto(SepState[v])
          \/ c \notin Blank /\ Fail(c)
  \/ \E v \in {"data", "quit"} :
       /\ word = Verbs[v]
       /\ \/ c = "CR" /\ Complete(v)
          \/ c # "CR" /\ Goto("error")

verb(c) ==
  /\ state = "verb"
  /\ \/ word = <<>> /\ c \in Blank /\ Goto("verb")
     \/ Spell(c)
     \/ EndOfVerb(c)
     \/ /\ \A v \in {"helo", "ehlo", "data", "quit"} : word # Verbs[v]
        /\ ~Begun(Append(word, c)) /\ (word # <<>> \/ c \notin Blank)
        /\ Fail(c)

\* request_helo_sep, request_helo_domain and the same of EHLO: a CR instead of a domain
\* is an error and is not fed to request_error.
domain(v, c) ==
  \/ /\ state = SepState[v]
     /\ \/ c \in Blank /\ Goto(SepState[v])
        \/ c = "CR" /\ Goto("error")
        \/ c \notin Blank \cup {"CR"} /\ Store(DomainState[v], 0, DomainRoom)
  \/ /\ state = DomainState[v]
     /\ \/ c = "CR" /\ Complete(v)
        \/ c # "CR" /\ Store(DomainState[v], i, DomainRoom)

\* request_mail_from_sep, request_mail_from and the same of RCPT TO: a CR before the ">"
\* is an error and is not fed to request_error.  Only request_parser_init sets i to 0, so
\* behind a CR alone an address goes on where the argument before it ended.
argument(v, c) ==
  \/ /\ state = SepState[v]
     /\ \/ c \in Blank /\ Goto(SepState[v])
        \/ c = "<" /\ Goto(ArgState[v])
        \/ c \notin Blank \cup {"<"} /\ Fail(c)
  \/ /\ state = ArgState[v]
     /\ \/ c = ">" /\ Goto(ClosedState[v])
        \/ c = "CR" /\ Goto("error")
        \/ c \notin {">", "CR"} /\ Store(ArgState[v], i, ArgRoom)

\* Behind the ">": MAIL FROM ignores what follows, RCPT TO does not take it.
closed(v, c) ==
  /\ state = ClosedState[v]
  /\ \/ c = "CR" /\ Complete(v)
     \/ c # "CR" /\ Goto(IF v = "mail" THEN ClosedState[v] ELSE "error")

\* A CR not followed by LF: another verb is looked for, without request_parser_init.
cr(c) ==
  /\ state = "cr"
  /\ \/ c = "LF" /\ Goto("done")
     \/ c # "LF" /\ state' = "verb" /\ word' = <<>> /\ UNCHANGED <<command, i>>

error(c) == state = "error" /\ Fail(c)

\* Nothing is said of what follows.
overrun(c) == state = "overrun" /\ Goto("overrun")

\* request_parser_feed; request_consume feeds nothing more once the request is done.
Feed(c) ==
  /\ \/ verb(c) \/ cr(c) \/ error(c) \/ overrun(c)
     \/ \E v \in {"helo", "ehlo"} : domain(v, c)
     \/ \E v \in {"mail", "rcpt"} : argument(v, c) \/ closed(v, c)
  /\ last' = <<last[2], c>>

\* request_read_init, on arrival at the state that reads the next command.
Reinit ==
  /\ state = "done"
  /\ state' = "verb" /\ word' = <<>> /\ command' = "noop" /\ i' = 0
  /\ last' = <<"x", "x">>

Next == (\E c \in Bytes : Feed(c)) \/ Reinit

Spec == Init /\ [][Next]_vars

-----------------------------------------------------------------------------
ImageOf(f) == {f[v] : v \in DOMAIN f}

TypeOK ==
  /\ state \in {"verb", "cr", "done", "error", "overrun"}
                 \cup ImageOf(SepState) \cup ImageOf(DomainState) \cup ImageOf(ArgState)
                 \cup ImageOf(ClosedState)
  /\ Begun(word)
  /\ command \in DOMAIN Verbs \cup {"noop", "unknown"}
  /\ i \in 0..ArgRoom
  /\ last \in Bytes \X Bytes

\* A finished request names the command whose verb was spelled last, or unknown: an
\* error, and the search for another verb behind a CR alone, leave no stale command.
CommandAsSpelled ==
  state = "done" => command = "unknown" \/ (command \in DOMAIN Verbs /\ word = Verbs[command])

\* A request is finished by CRLF and by nothing less: what is left in the buffer begins
\* the next line.
DoneAtLineEnd == state = "done" => last = <<"CR", "LF">>
=============================================================================
