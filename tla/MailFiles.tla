----------------------------- MODULE MailFiles -----------------------------
(***************************************************************************)
(* rcpt_to_list.c with what can go wrong around it: writes that lose data, *)
(* calls that fail and abort the server, a server that stops between any   *)
(* two steps and is started again, and the child that transforms a copy.   *)
(*                                                                         *)
(* A mail is one transaction of one connection, with its recipients.       *)
(* A step is one node of the loop of create_mails_files or close_fds, or   *)
(* one handler; the loops run without another handler in between, but not  *)
(* without a child or a stop.  SmtpServer has the rest of the connection.  *)
(*                                                                         *)
(* Children inherit the server's open write ends, their own excepted, so   *)
(* that a pipe ends only when every later child is gone too.               *)
(*                                                                         *)
(* A pipe takes every piece while its reader lives: that a full one blocks *)
(* the server is left out.                                                 *)
(***************************************************************************)
EXTENDS Integers

CONSTANTS
  Mails,        \* the mails of a behaviour
  Nodes,        \* Mails -> its recipients: the nodes of its list, from the head
  MaxPieces,    \* bound: pieces of data received for a mail
  MaxRestarts   \* bound: times the server is started again

ASSUME NodesAssumption == Nodes \in [Mails -> Nat \ {0}]
ASSUME BoundAssumption == {MaxPieces, MaxRestarts} \subseteq Nat

Copies == UNION {{m} \X (1..Nodes[m]) : m \in Mails}

VARIABLES
  up,               \* does the server run
  transformations,  \* the flag of smtpnio.c
  mail,             \* Mails -> how far its connection is
  copy,             \* Copies -> the file, its descriptor, its child and its pipe
  restarts          \* bound

vars == <<up, transformations, mail, copy, restarts>>

(***************************************************************************)
(* held: a connection has the list of the mail.  node: where a loop over   *)
(* the list is.  taken: pieces received.  answered: 250 Ok: queued sent.   *)
(***************************************************************************)
Mail == [stage : {"none", "accepted", "creating", "data", "reply", "closing", "done"},
         held : BOOLEAN, node : Nat, transformation : BOOLEAN,
         taken : 0..MaxPieces, answered : BOOLEAN]

NoMail == [stage |-> "none", held |-> FALSE, node |-> 1, transformation |-> FALSE,
           taken |-> 0, answered |-> FALSE]

(***************************************************************************)
(* written: the header and pieces in the file.  missed: a write to it      *)
(* failed.  fd: file_fd, while the server has it open.  piped: pieces the  *)
(* child has read or can read.  writers: the copies whose children hold    *)
(* the write end of its pipe too.                                          *)
(***************************************************************************)
Copy == [dir : {"none", "tmp", "new"}, fd : {"none", "file", "pipe"},
         written : 0..(MaxPieces + 1), missed : BOOLEAN, piped : 0..MaxPieces,
         child : {"none", "reading", "exited", "failed"},
         writers : SUBSET Copies]

NoCopy == [dir |-> "none", fd |-> "none", written |-> 0, missed |-> FALSE,
           piped |-> 0, child |-> "none", writers |-> {}]

Init ==
  /\ up = TRUE
  /\ transformations = TRUE
  /\ mail = [m \in Mails |-> NoMail]
  /\ copy = [c \in Copies |-> NoCopy]
  /\ restarts = 0

\* m may be served: no other connection is inside a loop of its own.
Handles(m) ==
  /\ up /\ mail[m].held
  /\ \A n \in Mails \ {m} : ~(mail[n].held /\ mail[n].stage \in {"creating", "closing"})
InLoop(m) == mail[m].stage \in {"creating", "closing"}
Idle(m) == Handles(m) /\ ~InLoop(m)

\* MUTANT: one turn too many.
AdvancePast(m, loop, after) ==
  IF mail[m].node <= Nodes[m]
    THEN [mail[m] EXCEPT !.stage = loop, !.node = @ + 1]
    ELSE [mail[m] EXCEPT !.stage = after, !.node = 1]

\* The turn of a loop over the list that m is in.
Advance(m, loop, after) ==
  IF mail[m].node < Nodes[m]
    THEN [mail[m] EXCEPT !.stage = loop, !.node = @ + 1]
    ELSE [mail[m] EXCEPT !.stage = after, !.node = 1]

-----------------------------------------------------------------------------
(***************************************************************************)
(* The end of the server, by a crash, SIGTERM, SIGPIPE or an abort of its  *)
(* own: its descriptors are closed and what files it left stay.            *)
(***************************************************************************)
HaltWith(left) ==
  /\ up' = FALSE
  /\ mail' = [m \in Mails |-> [mail[m] EXCEPT !.held = FALSE]]
  /\ copy' = [c \in Copies |-> [left[c] EXCEPT !.fd = "none"]]
  /\ UNCHANGED <<transformations, restarts>>

\* Between two steps.  A stat or a rename of close_fds that fails stops it here.
Stop == up /\ HaltWith(copy)

\* main.  Nothing is looked for in tmp.
Restart ==
  /\ ~up /\ restarts < MaxRestarts
  /\ up' = TRUE /\ transformations' = TRUE
  /\ restarts' = restarts + 1
  /\ UNCHANGED <<mail, copy>>

-----------------------------------------------------------------------------
Accept(m) ==
  /\ up /\ mail[m].stage = "none"
  /\ \A n \in Mails : ~(mail[n].held /\ InLoop(n))
  /\ mail' = [mail EXCEPT ![m].stage = "accepted", ![m].held = TRUE,
                          ![m].transformation = transformations]
  /\ UNCHANGED <<up, transformations, copy, restarts>>

\* transon and transoff.
set_new_status(new_status) ==
  /\ up /\ \A n \in Mails : ~(mail[n].held /\ InLoop(n))
  /\ transformations' = new_status
  /\ UNCHANGED <<up, mail, copy, restarts>>

\* MUTANT: the child does not close its own write end.
ChildKeepsEnd(c, header) ==
  [NoCopy EXCEPT !.dir = "tmp", !.written = header, !.missed = header = 0,
                 !.fd = "pipe", !.child = "reading", !.writers = {c}]

\* The file of the node, its header, and the child that will write the rest.
Forked(c, header) ==
  [NoCopy EXCEPT !.dir = "tmp", !.written = header, !.missed = header = 0,
                 !.fd = "pipe", !.child = "reading"]

Opened(header) ==
  [NoCopy EXCEPT !.dir = "tmp", !.written = header, !.missed = header = 0, !.fd = "file"]

\* fork: the write ends of the other pipes are inherited.
Inherited(d, c) ==
  IF copy[d].fd = "pipe"
    THEN [copy[d] EXCEPT !.writers = @ \cup {c}]
    ELSE copy[d]

CreatesCopy(m) == Handles(m) /\ mail[m].stage \in {"accepted", "creating"}

\* One turn of create_mails_files; the write of the header may fail.
CreateCopy(m) ==
  LET c == <<m, mail[m].node>>
  IN  /\ CreatesCopy(m)
      /\ \E header \in {0, 1} :
           copy' = [d \in Copies |->
                      CASE ~mail[m].transformation /\ d = c -> Opened(header)
                        [] mail[m].transformation /\ d = c -> Forked(c, header)
                        [] mail[m].transformation /\ d # c -> Inherited(d, c)
                        [] OTHER -> copy[d]]
      /\ mail' = [mail EXCEPT ![m] = Advance(m, "creating", "data")]
      /\ UNCHANGED <<up, transformations, restarts>>

\* A call that fails behind the open of the file aborts.
FailedCreate(m) ==
  /\ CreatesCopy(m)
  /\ HaltWith([copy EXCEPT ![<<m, mail[m].node>>].dir = "tmp"])

(***************************************************************************)
(* write_to_files, as far as the node reached.  A full disk loses a piece  *)
(* without a word; a pipe whose child is gone is never written to and      *)
(* survived.                                                               *)
(***************************************************************************)
NodesTo(m, reached) == {c \in Copies : c[1] = m /\ c[2] <= reached}
OnDisk(c) == copy[c].fd = "file"
ReaderGone(c) == copy[c].fd = "pipe" /\ copy[c].child # "reading"

PieceWritten(m, reached, full) ==
  [c \in Copies |->
     IF c \notin NodesTo(m, reached) THEN copy[c]
     ELSE CASE c \in full -> [copy[c] EXCEPT !.missed = TRUE]
            [] c \notin full /\ OnDisk(c) -> [copy[c] EXCEPT !.written = @ + 1]
            [] OTHER -> [copy[c] EXCEPT !.piped = @ + 1]]

Receives(m) == Idle(m) /\ mail[m].stage = "data" /\ mail[m].taken < MaxPieces

\* mail_info_read: a piece for every file, and the reply behind the last.
Receive(m) ==
  /\ Receives(m)
  /\ \A c \in NodesTo(m, Nodes[m]) : ~ReaderGone(c)
  /\ \E full \in SUBSET {c \in NodesTo(m, Nodes[m]) : OnDisk(c)} :
       copy' = PieceWritten(m, Nodes[m], full)
  /\ \E stage \in {"data", "reply"} :
       mail' = [mail EXCEPT ![m].stage = stage, ![m].taken = @ + 1]
  /\ UNCHANGED <<up, transformations, restarts>>

\* The server stops inside write_to_files: killed, or by SIGPIPE.
ReceiveCut(m) ==
  /\ Receives(m)
  /\ \E reached \in 0..(Nodes[m] - 1) :
       /\ \A c \in NodesTo(m, reached) : ~ReaderGone(c)
       /\ HaltWith(PieceWritten(m, reached, {}))

\* MUTANT: the files are closed with the connection.
LoseClosing(m) ==
  /\ Idle(m) /\ mail[m].stage = "data"
  /\ mail' = [mail EXCEPT ![m].held = FALSE]
  /\ copy' = [c \in Copies |->
                IF c[1] = m
                  THEN [copy[c] EXCEPT !.fd = "none", !.dir = "new"]
                  ELSE copy[c]]
  /\ UNCHANGED <<up, transformations, restarts>>

\* smtp_destroy during the data: the list is freed, its descriptors stay open.
Lose(m) ==
  /\ Idle(m) /\ mail[m].stage = "data"
  /\ mail' = [mail EXCEPT ![m].held = FALSE]
  /\ UNCHANGED <<up, transformations, copy, restarts>>

\* mail_info_write sends 250, or fails to, and leaves the state either way.
Reply(m) ==
  /\ Idle(m) /\ mail[m].stage = "reply"
  /\ \E sent \in BOOLEAN :
       mail' = [mail EXCEPT ![m].answered = sent, ![m].stage = "closing"]
  /\ UNCHANGED <<up, transformations, copy, restarts>>

\* MUTANT: a rename that fails is passed over.
CloseCopyUnchecked(m) ==
  LET c == <<m, mail[m].node>>
  IN  /\ Handles(m) /\ mail[m].stage = "closing"
      /\ \E dir \in {"tmp", "new"} :
           copy' = [copy EXCEPT ![c].fd = "none", ![c].dir = dir]
      /\ mail' = [mail EXCEPT ![m] = Advance(m, "closing", "done")]
      /\ UNCHANGED <<up, transformations, restarts>>

\* One turn of close_fds: close, rename.  Behind the last the list is freed.
CloseCopy(m) ==
  LET c == <<m, mail[m].node>>
      next == Advance(m, "closing", "done")
  IN  /\ Handles(m) /\ mail[m].stage = "closing"
      /\ copy' = [copy EXCEPT ![c].fd = "none", ![c].dir = "new"]
      /\ mail' = [mail EXCEPT ![m] = [next EXCEPT !.held = next.stage = "closing"]]
      /\ UNCHANGED <<up, transformations, restarts>>

-----------------------------------------------------------------------------
(***************************************************************************)
(* The child of a copy.  Its end closes the write ends it inherited.       *)
(***************************************************************************)
Exit(c, status, output) ==
  copy' = [d \in Copies |->
             IF d = c THEN [output EXCEPT !.child = status]
                      ELSE [copy[d] EXCEPT !.writers = @ \ {c}]]

\* It reads to the end of its input and writes what it made of it.
ChildFinishes(c) ==
  /\ copy[c].child = "reading" /\ copy[c].fd # "pipe" /\ copy[c].writers = {}
  /\ Exit(c, "exited", [copy[c] EXCEPT !.written = @ + copy[c].piped])
  /\ UNCHANGED <<up, transformations, mail, restarts>>

\* The program cannot be executed, or ends without having read and written all.
ChildFails(c) ==
  /\ copy[c].child = "reading"
  /\ Exit(c, "failed", copy[c])
  /\ UNCHANGED <<up, transformations, mail, restarts>>

-----------------------------------------------------------------------------
MailStep(m) ==
  \/ Accept(m) \/ CreateCopy(m) \/ FailedCreate(m)
  \/ Receive(m) \/ ReceiveCut(m) \/ Lose(m) \/ Reply(m) \/ CloseCopy(m)

Next ==
  \/ Stop \/ Restart
  \/ \E on \in BOOLEAN : set_new_status(on)
  \/ \E m \in Mails : MailStep(m)
  \/ \E c \in Copies : ChildFinishes(c) \/ ChildFails(c)

Spec == Init /\ [][Next]_vars

\* The loops go on, and a child whose input has ended ends.
FairSpec ==
  /\ Spec
  /\ \A m \in Mails : WF_vars(CreateCopy(m)) /\ WF_vars(CloseCopy(m))
  /\ \A c \in Copies : WF_vars(ChildFinishes(c))

-----------------------------------------------------------------------------
TypeOK ==
  /\ up \in BOOLEAN /\ transformations \in BOOLEAN
  /\ mail \in [Mails -> Mail] /\ \A m \in Mails : mail[m].node \in 1..Nodes[m]
  /\ copy \in [Copies -> Copy]
  /\ restarts \in 0..MaxRestarts

\* Whatever stops the server wherever it is, a copy in new of which no write
\* failed, and whose child if it has one has done its work, is the whole mail:
\* header and every piece up to the terminator.
NewIsWhole ==
  \A c \in Copies :
    copy[c].dir = "new" /\ ~copy[c].missed /\ copy[c].child \in {"none", "exited"} =>
      /\ copy[c].written = mail[c[1]].taken + 1
      /\ mail[c[1]].stage \in {"closing", "done"}

\* A mail answered 250 Ok: queued has all its copies in new, but for those the loop
\* of close_fds has before it, or had when the server stopped inside it.
AnsweredIsInNew ==
  \A m \in Mails :
    mail[m].answered =>
      \A k \in 1..Nodes[m] :
        \/ copy[<<m, k>>].dir = "new"
        \/ mail[m].stage = "closing" /\ mail[m].node <= k

\* Children do not wait for each other for ever: once the server holds no pipe they
\* all come to the end of their input, though each inherited ends of others.
ChildrenFinish ==
  \A c \in Copies :
    []<>(copy[c].child # "reading" \/ \E d \in Copies : copy[d].fd = "pipe")
=============================================================================
