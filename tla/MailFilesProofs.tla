-------------------------- MODULE MailFilesProofs --------------------------
(***************************************************************************)
(* Theorems about MailFiles for any mails, any number of copies, pieces    *)
(* and restarts: what a copy in new holds, and where the copies of an      *)
(* answered mail are.                                                      *)
(***************************************************************************)
EXTENDS MailFiles, TLAPS

(***************************************************************************)
(* The invariant.  A mail keeps to its stages.  A copy the connection can *)
(* still write to follows what was received; one whose mail has come to    *)
(* close_fds is complete, by whatever hand the server ends.                *)
(***************************************************************************)
MailInv(m) ==
  /\ mail[m].stage \notin {"creating", "closing"} => mail[m].node = 1
  /\ mail[m].stage \in {"none", "accepted", "creating"} => mail[m].taken = 0
  /\ mail[m].answered => mail[m].stage \in {"closing", "done"}

Ended(m) == mail[m].stage \in {"closing", "done"}

\* The server has the descriptor of c.
Writable(c) ==
  /\ mail[c[1]].held
  /\ \/ mail[c[1]].stage \in {"data", "reply"}
     \/ mail[c[1]].stage = "creating" /\ c[2] < mail[c[1]].node

\* All that was received is in the file or on the way to it, unless a write failed.
Following(c, taken) ==
  /\ copy[c].dir = "tmp"
  /\ copy[c].written + copy[c].piped <= taken + 1 /\ copy[c].piped <= taken
  /\ \/ /\ copy[c].fd = "file" /\ copy[c].child = "none"
        /\ copy[c].missed \/ copy[c].written = taken + 1
     \/ copy[c].fd = "pipe" /\ copy[c].child = "failed"
     \/ /\ copy[c].fd = "pipe" /\ copy[c].child = "reading"
        /\ copy[c].missed \/ copy[c].written + copy[c].piped = taken + 1

Complete(c, taken) ==
  \/ copy[c].missed \/ copy[c].child = "failed"
  \/ copy[c].child \in {"none", "exited"} /\ copy[c].written = taken + 1
  \/ copy[c].child = "reading" /\ copy[c].written + copy[c].piped = taken + 1

CopyInv(c) ==
  /\ Writable(c) => Following(c, mail[c[1]].taken)
  /\ Ended(c[1]) => Complete(c, mail[c[1]].taken)
  /\ copy[c].dir = "new" => Ended(c[1])
  /\ \/ mail[c[1]].stage = "closing" /\ c[2] < mail[c[1]].node
     \/ mail[c[1]].stage = "done"
     => copy[c].dir = "new"
  /\ copy[c].child = "reading" => copy[c].written + copy[c].piped <= MaxPieces + 1

FilesInv ==
  /\ TypeOK
  /\ \A m \in Mails : MailInv(m)
  /\ \A c \in Copies : CopyInv(c)

-----------------------------------------------------------------------------
LEMMA CopyOf ==
  /\ \A m \in Mails : \A k \in 1..Nodes[m] :
       <<m, k>> \in Copies /\ <<m, k>>[1] = m /\ <<m, k>>[2] = k
  /\ \A c \in Copies : c[1] \in Mails /\ c[2] \in 1..Nodes[c[1]] /\ c = <<c[1], c[2]>>
  BY DEF Copies

LEMMA InitFiles == Init => FilesInv
<1> SUFFICES ASSUME Init PROVE FilesInv
  OBVIOUS
<1>1. TypeOK
  BY NodesAssumption, BoundAssumption
  DEF Init, TypeOK, NoMail, NoCopy, Mail, Copy
<1>2. \A m \in Mails : MailInv(m) /\ ~Ended(m) /\ ~mail[m].held
  BY DEF Init, MailInv, NoMail, Ended
<1>3. \A c \in Copies : copy[c].dir = "none" /\ copy[c].child = "none"
  BY DEF Init, NoCopy
<1>4. \A c \in Copies : mail[c[1]].stage = "none"
  BY CopyOf DEF Init, NoMail
<1> QED
  BY <1>1, <1>2, <1>3, <1>4, CopyOf DEF FilesInv, CopyInv, Writable, Ended

-----------------------------------------------------------------------------
(***************************************************************************)
(* The end of the server, whatever it leaves in the files it was writing.  *)
(***************************************************************************)
LEMMA Halted ==
  ASSUME FilesInv, NEW left \in [Copies -> Copy], HaltWith(left),
         \A c \in Copies :
           /\ left[c].dir = "new" <=> copy[c].dir = "new"
           /\ Ended(c[1]) => left[c] = copy[c]
           /\ left[c].child = "reading" => left[c].written + left[c].piped <= MaxPieces + 1
  PROVE  FilesInv'
<1>1. /\ mail' = [m \in Mails |-> [mail[m] EXCEPT !.held = FALSE]]
      /\ copy' = [c \in Copies |-> [left[c] EXCEPT !.fd = "none"]]
      /\ up' = FALSE /\ UNCHANGED <<transformations, restarts>>
  BY DEF HaltWith
<1>2. \A m \in Mails :
        /\ mail'[m] \in Mail /\ mail'[m].held = FALSE
        /\ mail'[m].stage = mail[m].stage /\ mail'[m].node = mail[m].node
        /\ mail'[m].taken = mail[m].taken /\ mail'[m].answered = mail[m].answered
  BY <1>1 DEF FilesInv, TypeOK, Mail
<1>3. \A c \in Copies :
        /\ copy'[c] \in Copy
        /\ copy'[c].dir = left[c].dir /\ copy'[c].missed = left[c].missed
        /\ copy'[c].child = left[c].child
        /\ copy'[c].written = left[c].written /\ copy'[c].piped = left[c].piped
  BY <1>1 DEF Copy
<1>4. TypeOK'
  BY <1>1, <1>2, <1>3 DEF FilesInv, TypeOK
<1>5. \A m \in Mails : MailInv(m)'
  BY <1>2 DEF FilesInv, MailInv
<1>6. ASSUME NEW c \in Copies PROVE CopyInv(c)'
  <2>1. c[1] \in Mails
    BY CopyOf
  <2>2. CopyInv(c)
    BY DEF FilesInv
  <2>3. ~Writable(c)'
    BY <1>2, <2>1 DEF Writable
  <2>4. Ended(c[1])' <=> Ended(c[1])
    BY <1>2, <2>1 DEF Ended
  <2>5. Ended(c[1]) => Complete(c, mail[c[1]].taken)'
    BY <1>2, <1>3, <2>1, <2>2 DEF CopyInv, Complete
  <2> QED
    BY <1>2, <1>3, <2>1, <2>2, <2>3, <2>4, <2>5 DEF CopyInv
<1> QED
  BY <1>4, <1>5, <1>6 DEF FilesInv

LEMMA StopStep ==
  ASSUME FilesInv, Stop
  PROVE  FilesInv'
<1>1. HaltWith(copy) /\ copy \in [Copies -> Copy]
  BY DEF Stop, FilesInv, TypeOK
<1> QED
  BY <1>1, Halted DEF FilesInv, CopyInv

LEMMA FailedCreateStep ==
  ASSUME FilesInv, NEW m \in Mails, FailedCreate(m)
  PROVE  FilesInv'
<1> DEFINE c0 == <<m, mail[m].node>>
           left == [copy EXCEPT ![c0].dir = "tmp"]
<1>1. c0 \in Copies /\ c0[1] = m
  BY CopyOf DEF FilesInv, TypeOK
<1>2. mail[m].stage \in {"accepted", "creating"} /\ HaltWith(left)
  BY DEF FailedCreate, CreatesCopy
<1>3. ~Ended(m)
  BY <1>2 DEF Ended
<1>4. copy \in [Copies -> Copy] /\ copy[c0].dir # "new"
  BY <1>1, <1>3 DEF FilesInv, TypeOK, CopyInv
<1>5. left \in [Copies -> Copy]
  BY <1>1, <1>4 DEF Copy
<1>6. /\ left[c0].dir = "tmp" /\ left[c0].child = copy[c0].child
      /\ left[c0].written = copy[c0].written /\ left[c0].piped = copy[c0].piped
      /\ \A c \in Copies : c # c0 => left[c] = copy[c]
  BY <1>1, <1>4 DEF Copy
<1> HIDE DEF left, c0
<1> QED
  BY <1>1, <1>2, <1>3, <1>4, <1>5, <1>6, Halted DEF FilesInv, CopyInv

\* A piece leaves the files it reaches following the mail, one piece further.
LEMMA PieceFollows ==
  ASSUME FilesInv, NEW m \in Mails, NEW reached \in 0..Nodes[m], NEW full,
         mail[m].held, mail[m].stage = "data", mail[m].taken < MaxPieces,
         \A c \in NodesTo(m, reached) : ~ReaderGone(c),
         NEW c \in Copies, c[1] = m, c[2] <= reached
  PROVE  LET new == PieceWritten(m, reached, full)[c]
         IN  /\ new \in Copy
             /\ new.dir = "tmp" /\ new.child = copy[c].child /\ new.fd = copy[c].fd
             /\ new.written + new.piped <= mail[m].taken + 2
             /\ new.piped <= mail[m].taken + 1
             /\ \/ /\ new.fd = "file" /\ new.child = "none"
                   /\ new.missed \/ new.written = mail[m].taken + 2
                \/ /\ new.fd = "pipe" /\ new.child = "reading"
                   /\ new.missed \/ new.written + new.piped = mail[m].taken + 2
<1> DEFINE old == copy[c]
           new == PieceWritten(m, reached, full)[c]
           taken == mail[m].taken
<1>1. Following(c, taken)
  BY DEF FilesInv, CopyInv, Writable
<1>2. old \in Copy /\ taken \in Nat /\ MaxPieces \in Nat
  BY BoundAssumption DEF FilesInv, TypeOK, Mail
<1>3. c \in NodesTo(m, reached) /\ ~ReaderGone(c)
  BY DEF NodesTo
<1>4. new = CASE c \in full -> [old EXCEPT !.missed = TRUE]
              [] c \notin full /\ OnDisk(c) -> [old EXCEPT !.written = old.written + 1]
              [] OTHER -> [old EXCEPT !.piped = old.piped + 1]
  BY <1>3 DEF PieceWritten
<1>5. /\ old.dir = "tmp" /\ old.written \in Nat /\ old.piped \in Nat
      /\ old.written + old.piped <= taken + 1 /\ old.piped <= taken
      /\ \/ /\ old.fd = "file" /\ old.child = "none"
            /\ old.missed \/ old.written = taken + 1
         \/ /\ old.fd = "pipe" /\ old.child = "reading"
            /\ old.missed \/ old.written + old.piped = taken + 1
  BY <1>1, <1>2, <1>3 DEF Following, ReaderGone, Copy
<1>6. CASE c \in full
  <2>1. new = [old EXCEPT !.missed = TRUE]
    BY <1>4, <1>6
  <2> HIDE DEF new, old
  <2>2. /\ new \in Copy /\ new.missed = TRUE
        /\ new.dir = old.dir /\ new.child = old.child /\ new.fd = old.fd
        /\ new.written = old.written /\ new.piped = old.piped
    BY <1>2, <2>1 DEF Copy
  <2> QED
    BY <1>2, <1>5, <2>2 DEF new, old
<1>7. CASE c \notin full /\ OnDisk(c)
  <2>1. new = [old EXCEPT !.written = old.written + 1]
    BY <1>4, <1>7
  <2>2. old.fd = "file"
    BY <1>7 DEF OnDisk
  <2> HIDE DEF new, old
  <2>3. /\ new \in Copy /\ new.missed = old.missed
        /\ new.dir = old.dir /\ new.child = old.child /\ new.fd = old.fd
        /\ new.written = old.written + 1 /\ new.piped = old.piped
    BY <1>2, <1>5, <2>1 DEF Copy
  <2> QED
    BY <1>2, <1>5, <2>2, <2>3 DEF new, old
<1>8. CASE c \notin full /\ ~OnDisk(c)
  <2>1. new = [old EXCEPT !.piped = old.piped + 1]
    BY <1>4, <1>8
  <2>2. old.fd # "file"
    BY <1>8 DEF OnDisk
  <2> HIDE DEF new, old
  <2>3. /\ new \in Copy /\ new.missed = old.missed
        /\ new.dir = old.dir /\ new.child = old.child /\ new.fd = old.fd
        /\ new.written = old.written /\ new.piped = old.piped + 1
    BY <1>2, <1>5, <2>1 DEF Copy
  <2> QED
    BY <1>2, <1>5, <2>2, <2>3 DEF new, old
<1> QED
  BY <1>6, <1>7, <1>8

LEMMA PieceElsewhere ==
  ASSUME NEW m, NEW reached, NEW full, NEW c \in Copies, c[1] # m \/ ~(c[2] <= reached)
  PROVE  PieceWritten(m, reached, full)[c] = copy[c]
<1>1. c \notin NodesTo(m, reached)
  BY DEF NodesTo
<1> QED
  BY <1>1 DEF PieceWritten

LEMMA ReceiveCutStep ==
  ASSUME FilesInv, NEW m \in Mails, ReceiveCut(m)
  PROVE  FilesInv'
<1>1. PICK reached \in 0..(Nodes[m] - 1) :
        /\ \A c \in NodesTo(m, reached) : ~ReaderGone(c)
        /\ HaltWith(PieceWritten(m, reached, {}))
  BY DEF ReceiveCut
<1> DEFINE left == PieceWritten(m, reached, {})
<1>2. /\ mail[m].held /\ mail[m].stage = "data" /\ mail[m].taken < MaxPieces
      /\ mail[m].taken \in Nat /\ MaxPieces \in Nat
  BY BoundAssumption DEF ReceiveCut, Receives, Idle, Handles, FilesInv, TypeOK, Mail
<1>3. reached \in 0..Nodes[m]
  BY NodesAssumption
<1>4. ASSUME NEW c \in Copies
      PROVE  /\ left[c] \in Copy
             /\ left[c].dir = "new" <=> copy[c].dir = "new"
             /\ Ended(c[1]) => left[c] = copy[c]
             /\ left[c].child = "reading" => left[c].written + left[c].piped <= MaxPieces + 1
  <2>1. copy[c] \in Copy /\ CopyInv(c)
    BY DEF FilesInv, TypeOK
  <2>2. CASE c[1] = m /\ c[2] <= reached
    <3>1. /\ left[c] \in Copy /\ left[c].dir = "tmp"
          /\ left[c].written + left[c].piped <= mail[m].taken + 2
      BY <1>1, <1>2, <1>3, <2>2, PieceFollows
    <3>2. copy[c].dir # "new" /\ ~Ended(c[1])
      BY <1>2, <2>1, <2>2 DEF CopyInv, Ended
    <3>3. left[c].written \in Nat /\ left[c].piped \in Nat
      BY <3>1 DEF Copy
    <3> HIDE DEF left
    <3> QED
      BY <1>2, <3>1, <3>2, <3>3
  <2>3. CASE c[1] # m \/ ~(c[2] <= reached)
    <3>1. left[c] = copy[c]
      BY <2>3, PieceElsewhere
    <3> QED
      BY <2>1, <3>1 DEF CopyInv
  <2> QED
    BY <2>2, <2>3
<1>5. left \in [Copies -> Copy]
  <2>1. left = [c \in Copies |-> left[c]]
    BY DEF PieceWritten
  <2> HIDE DEF left
  <2> QED
    BY <1>4, <2>1
<1> HIDE DEF left
<1> QED
  BY <1>1, <1>4, <1>5, Halted DEF left

-----------------------------------------------------------------------------
(***************************************************************************)
(* The steps of a mail and its children.  Each is reduced to what it does  *)
(* to one mail and to the copies.                                          *)
(***************************************************************************)
\* A step that changes only the mail m, or only writers of pipes besides.
SameCopy(c) ==
  /\ copy'[c].dir = copy[c].dir /\ copy'[c].fd = copy[c].fd
  /\ copy'[c].written = copy[c].written /\ copy'[c].missed = copy[c].missed
  /\ copy'[c].piped = copy[c].piped /\ copy'[c].child = copy[c].child

LEMMA OthersKept ==
  ASSUME FilesInv, NEW c \in Copies, CopyInv(c), SameCopy(c), mail'[c[1]] = mail[c[1]]
  PROVE  CopyInv(c)'
  BY DEF CopyInv, SameCopy, Writable, Following, Ended, Complete

LEMMA AcceptStep ==
  ASSUME FilesInv, NEW m \in Mails, Accept(m)
  PROVE  FilesInv'
<1>1. /\ mail' = [mail EXCEPT ![m].stage = "accepted", ![m].held = TRUE,
                              ![m].transformation = transformations]
      /\ mail[m].stage = "none"
      /\ UNCHANGED <<up, transformations, copy, restarts>>
  BY DEF Accept
<1>2. /\ mail'[m] \in Mail /\ mail'[m].stage = "accepted"
      /\ mail'[m].node = mail[m].node /\ mail'[m].taken = mail[m].taken
      /\ mail'[m].answered = mail[m].answered
      /\ \A n \in Mails : n # m => mail'[n] = mail[n]
  BY <1>1 DEF FilesInv, TypeOK, Mail
<1>3. TypeOK'
  BY <1>1, <1>2 DEF FilesInv, TypeOK
<1>4. \A n \in Mails : MailInv(n)'
  BY <1>1, <1>2 DEF FilesInv, MailInv
<1>5. ASSUME NEW c \in Copies PROVE CopyInv(c)'
  <2>1. CopyInv(c) /\ c[1] \in Mails /\ SameCopy(c)
    BY <1>1, CopyOf DEF FilesInv, SameCopy
  <2>2. CASE c[1] # m
    BY <1>2, <2>1, <2>2, OthersKept
  <2>3. CASE c[1] = m
    BY <1>1, <1>2, <2>1, <2>3 DEF CopyInv, SameCopy, Writable, Ended
  <2> QED
    BY <2>2, <2>3
<1> QED
  BY <1>3, <1>4, <1>5 DEF FilesInv

\* What a turn of a loop leaves of the mail.
LEMMA AdvanceType ==
  ASSUME FilesInv, NEW m \in Mails,
         NEW loop \in {"creating", "closing"}, NEW after \in {"data", "done"}
  PROVE  LET new == Advance(m, loop, after)
         IN  /\ new \in Mail /\ new.node \in 1..Nodes[m]
             /\ new.held = mail[m].held /\ new.taken = mail[m].taken
             /\ new.answered = mail[m].answered
             /\ \/ new.stage = loop /\ new.node = mail[m].node + 1
                \/ new.stage = after /\ new.node = 1 /\ mail[m].node = Nodes[m]
<1> DEFINE old == mail[m]
           new == Advance(m, loop, after)
<1>1. old \in Mail /\ old.node \in 1..Nodes[m] /\ Nodes[m] \in Nat /\ old.node \in Nat
  BY NodesAssumption DEF FilesInv, TypeOK
<1>2. CASE old.node < Nodes[m]
  <2>1. new = [old EXCEPT !.stage = loop, !.node = old.node + 1]
    BY <1>2 DEF Advance
  <2>0. old.node + 1 \in Nat
    BY <1>1
  <2> HIDE DEF old, new
  <2>2. /\ new.stage = loop /\ new.node = old.node + 1 /\ new.held = old.held
        /\ new.taken = old.taken /\ new.answered = old.answered
        /\ new \in Mail
    BY <1>1, <2>0, <2>1 DEF Mail
  <2>3. new.node \in 1..Nodes[m]
    BY <1>1, <1>2, <2>2
  <2> QED
    BY <2>2, <2>3 DEF old, new
<1>3. CASE ~(old.node < Nodes[m])
  <2>1. new = [old EXCEPT !.stage = after, !.node = 1]
    BY <1>3 DEF Advance
  <2> HIDE DEF old, new
  <2>2. /\ new.stage = after /\ new.node = 1 /\ new.held = old.held
        /\ new.taken = old.taken /\ new.answered = old.answered
        /\ new \in Mail
    BY <1>1, <2>1 DEF Mail
  <2>3. old.node = Nodes[m] /\ new.node \in 1..Nodes[m]
    BY <1>1, <1>3, <2>2
  <2> QED
    BY <2>2, <2>3 DEF old, new
<1> QED
  BY <1>2, <1>3

\* A copy just created: its header is all there is, or is missed.
LEMMA Created ==
  ASSUME NEW c \in Copies, NEW header \in {0, 1},
         NEW new \in {Opened(header), Forked(c, header)}
  PROVE  /\ new \in Copy
         /\ new.dir = "tmp" /\ new.written = header /\ new.piped = 0
         /\ new.missed <=> header = 0
         /\ \/ new.fd = "file" /\ new.child = "none"
            \/ new.fd = "pipe" /\ new.child = "reading"
<1>1. MaxPieces \in Nat /\ header \in 0..(MaxPieces + 1) /\ 0 \in 0..MaxPieces
  BY BoundAssumption
<1>2. ASSUME NEW missed \in BOOLEAN,
             NEW file, file = [NoCopy EXCEPT !.dir = "tmp", !.written = header,
                                             !.missed = missed, !.fd = "file"]
      PROVE  /\ file \in Copy
             /\ file.dir = "tmp" /\ file.written = header /\ file.piped = 0
             /\ file.missed = missed /\ file.fd = "file" /\ file.child = "none"
  BY <1>1, <1>2 DEF NoCopy, Copy
<1>3. ASSUME NEW missed \in BOOLEAN,
             NEW pipe, pipe = [NoCopy EXCEPT !.dir = "tmp", !.written = header,
                                             !.missed = missed, !.fd = "pipe",
                                             !.child = "reading"]
      PROVE  /\ pipe \in Copy
             /\ pipe.dir = "tmp" /\ pipe.written = header /\ pipe.piped = 0
             /\ pipe.missed = missed /\ pipe.fd = "pipe" /\ pipe.child = "reading"
  BY <1>1, <1>3 DEF NoCopy, Copy
<1>4. CASE new = Opened(header)
  BY <1>2, <1>4 DEF Opened
<1>5. CASE new = Forked(c, header)
  BY <1>3, <1>5 DEF Forked
<1> QED
  BY <1>4, <1>5

LEMMA CreateCopyStep ==
  ASSUME FilesInv, NEW m \in Mails, CreateCopy(m)
  PROVE  FilesInv'
<1> DEFINE c0 == <<m, mail[m].node>>
           new == Advance(m, "creating", "data")
<1>0. c0 \in Copies /\ c0[1] = m /\ c0[2] = mail[m].node
  BY CopyOf DEF FilesInv, TypeOK
<1>1. PICK header \in {0, 1} :
        copy' = [d \in Copies |->
                   CASE ~mail[m].transformation /\ d = c0 -> Opened(header)
                     [] mail[m].transformation /\ d = c0 -> Forked(c0, header)
                     [] mail[m].transformation /\ d # c0 -> Inherited(d, c0)
                     [] OTHER -> copy[d]]
  BY DEF CreateCopy
<1>2. /\ mail' = [mail EXCEPT ![m] = new]
      /\ mail[m].stage \in {"accepted", "creating"} /\ mail[m].held
      /\ UNCHANGED <<up, transformations, restarts>>
  BY DEF CreateCopy, CreatesCopy, Handles
<1>3. copy'[c0] \in {Opened(header), Forked(c0, header)}
  <2>1. mail[m].transformation \in BOOLEAN
    BY DEF FilesInv, TypeOK, Mail
  <2>2. CASE mail[m].transformation = TRUE
    BY <1>0, <1>1, <2>2
  <2>3. CASE mail[m].transformation = FALSE
    BY <1>0, <1>1, <2>3
  <2> QED
    BY <2>1, <2>2, <2>3
<1>4. \A d \in Copies : d # c0 => copy'[d] \in {Inherited(d, c0), copy[d]}
  <2>1. mail[m].transformation \in BOOLEAN
    BY DEF FilesInv, TypeOK, Mail
  <2>2. CASE mail[m].transformation = TRUE
    BY <1>0, <1>1, <2>2
  <2>3. CASE mail[m].transformation = FALSE
    BY <1>0, <1>1, <2>3
  <2> QED
    BY <2>1, <2>2, <2>3
<1>5. /\ copy'[c0] \in Copy
      /\ copy'[c0].dir = "tmp" /\ copy'[c0].written = header /\ copy'[c0].piped = 0
      /\ copy'[c0].missed <=> header = 0
      /\ \/ copy'[c0].fd = "file" /\ copy'[c0].child = "none"
         \/ copy'[c0].fd = "pipe" /\ copy'[c0].child = "reading"
  BY <1>0, <1>3, Created
<1>6. \A d \in Copies : d # c0 => copy'[d] \in Copy /\ SameCopy(d)
  <2>1. \A d \in Copies : copy[d] \in Copy
    BY DEF FilesInv, TypeOK
  <2>2. \A d \in Copies :
          /\ Inherited(d, c0) \in Copy
          /\ Inherited(d, c0).dir = copy[d].dir /\ Inherited(d, c0).fd = copy[d].fd
          /\ Inherited(d, c0).written = copy[d].written
          /\ Inherited(d, c0).missed = copy[d].missed
          /\ Inherited(d, c0).piped = copy[d].piped
          /\ Inherited(d, c0).child = copy[d].child
    BY <1>0, <2>1 DEF Inherited, Copy
  <2> QED
    BY <1>4, <2>1, <2>2 DEF SameCopy
<1>7. DOMAIN copy' = Copies /\ copy' = [d \in Copies |-> copy'[d]]
  BY <1>1
<1>8. copy' \in [Copies -> Copy]
  BY <1>5, <1>6, <1>7
<1>9. /\ new \in Mail /\ new.node \in 1..Nodes[m]
      /\ new.held = mail[m].held /\ new.taken = mail[m].taken
      /\ new.answered = mail[m].answered
      /\ \/ new.stage = "creating" /\ new.node = mail[m].node + 1
         \/ new.stage = "data" /\ new.node = 1 /\ mail[m].node = Nodes[m]
  BY AdvanceType
<1> HIDE DEF new, c0
<1>10. mail'[m] = new /\ \A n \in Mails : n # m => mail'[n] = mail[n]
  BY <1>2 DEF FilesInv, TypeOK
<1>11. TypeOK'
  BY <1>2, <1>8, <1>9, <1>10 DEF FilesInv, TypeOK
<1>12. mail[m].taken = 0 /\ ~mail[m].answered /\ ~Ended(m)
  BY <1>2 DEF FilesInv, MailInv, Ended
<1>13. \A n \in Mails : MailInv(n)'
  BY <1>9, <1>10, <1>12 DEF FilesInv, MailInv
<1>14. ASSUME NEW c \in Copies PROVE CopyInv(c)'
  <2>1. CopyInv(c) /\ c[1] \in Mails /\ c[2] \in 1..Nodes[c[1]]
    BY CopyOf DEF FilesInv
  <2>2. CASE c[1] # m
    BY <1>0, <1>6, <1>10, <2>1, <2>2, OthersKept
  <2>3. CASE c = c0
    <3>1. ~Ended(m)' /\ mail'[m].taken = 0 /\ mail'[m].stage \in {"creating", "data"}
      BY <1>9, <1>10, <1>12 DEF Ended
    <3>2. /\ MaxPieces \in Nat
          /\ copy'[c].written + copy'[c].piped <= 0 + 1 /\ copy'[c].piped <= 0
          /\ copy'[c].missed \/ copy'[c].written + copy'[c].piped = 0 + 1
          /\ copy'[c].missed \/ copy'[c].written = 0 + 1
      <4>1. CASE header = 0
        BY <1>5, <2>3, <4>1, BoundAssumption
      <4>2. CASE header = 1
        BY <1>5, <2>3, <4>2, BoundAssumption
      <4> QED
        BY <4>1, <4>2
    <3>3. Following(c, 0)'
      BY <1>5, <2>3, <3>2, Zenon DEF Following
    <3>4. c[1] = m /\ copy'[c].dir = "tmp"
      BY <1>0, <1>5, <2>3
    <3>5. copy'[c].written + copy'[c].piped <= MaxPieces + 1
      BY <1>5, <2>3, <3>2
    <3>6. (Writable(c) => Following(c, mail[c[1]].taken))'
      <4>1. mail'[c[1]].taken = 0
        BY <3>1, <3>4
      <4>2. Following(c, 0)'
        BY <3>3
      <4> QED
        BY <4>1, <4>2, Zenon DEF Following
    <3>7. ~Ended(c[1])' /\ mail'[c[1]].stage \notin {"closing", "done"}
      BY <3>1, <3>4
    <3> QED
      BY <3>4, <3>5, <3>6, <3>7 DEF CopyInv
  <2>4. CASE c[1] = m /\ c # c0
    <3>1. c[2] # mail[m].node
      BY <2>4, CopyOf DEF c0
    <3>2. Writable(c)' => Writable(c)
      <4>1. mail[m].node \in 1..Nodes[m] /\ Nodes[m] \in Nat /\ mail[m].node \in Nat
        BY NodesAssumption DEF FilesInv, TypeOK
      <4>2. mail[m].stage = "accepted" => mail[m].node = 1
        BY DEF FilesInv, MailInv
      <4>3. c[2] \in 1..Nodes[m]
        BY <2>1, <2>4
      <4>4. Writable(c)' => c[2] < mail[m].node
        BY <1>9, <1>10, <2>4, <3>1, <4>1, <4>3 DEF Writable
      <4> QED
        BY <1>2, <2>4, <4>1, <4>2, <4>3, <4>4 DEF Writable
    <3>3. ~Ended(m)' /\ mail'[m].taken = mail[m].taken
          /\ mail'[m].stage \in {"creating", "data"}
      BY <1>9, <1>10 DEF Ended
    <3>4. SameCopy(c)
      BY <1>6, <2>4
    <3>5. Following(c, mail[m].taken) => Following(c, mail[m].taken)'
      BY <3>3, <3>4 DEF Following, SameCopy
    <3> QED
      BY <1>12, <2>1, <2>4, <3>2, <3>3, <3>4, <3>5 DEF CopyInv, SameCopy
  <2> QED
    BY <2>2, <2>3, <2>4
<1> QED
  BY <1>11, <1>13, <1>14 DEF FilesInv

LEMMA NothingServed ==
  ASSUME FilesInv, UNCHANGED <<mail, copy>>,
         up' \in BOOLEAN, transformations' \in BOOLEAN, restarts' \in 0..MaxRestarts
  PROVE  FilesInv'
<1>1. TypeOK'
  BY DEF FilesInv, TypeOK
<1>2. \A m \in Mails : MailInv(m)'
  BY DEF FilesInv, MailInv
<1>3. ASSUME NEW c \in Copies PROVE CopyInv(c)'
  <2>1. CopyInv(c) /\ SameCopy(c) /\ mail'[c[1]] = mail[c[1]]
    BY DEF FilesInv, SameCopy
  <2> QED
    BY <2>1, OthersKept
<1> QED
  BY <1>1, <1>2, <1>3 DEF FilesInv

LEMMA ReceiveStep ==
  ASSUME FilesInv, NEW m \in Mails, Receive(m)
  PROVE  FilesInv'
<1>1. PICK full : copy' = PieceWritten(m, Nodes[m], full)
  BY DEF Receive
<1>2. PICK stage \in {"data", "reply"} :
        mail' = [mail EXCEPT ![m].stage = stage, ![m].taken = mail[m].taken + 1]
  BY DEF Receive
<1>3. /\ mail[m].held /\ mail[m].stage = "data" /\ mail[m].taken < MaxPieces
      /\ \A c \in NodesTo(m, Nodes[m]) : ~ReaderGone(c)
      /\ UNCHANGED <<up, transformations, restarts>>
  BY DEF Receive, Receives, Idle, Handles
<1>4. /\ Nodes[m] \in 0..Nodes[m] /\ MaxPieces \in Nat /\ mail[m].taken \in Nat
      /\ mail[m].taken + 1 \in 0..MaxPieces
  BY <1>3, NodesAssumption, BoundAssumption DEF FilesInv, TypeOK, Mail
<1>5. /\ mail'[m] \in Mail /\ mail'[m].stage = stage /\ mail'[m].held = mail[m].held
      /\ mail'[m].node = mail[m].node /\ mail'[m].taken = mail[m].taken + 1
      /\ mail'[m].answered = mail[m].answered
  <2>1. mail[m] \in Mail
    BY DEF FilesInv, TypeOK
  <2>2. mail'[m] = [mail[m] EXCEPT !.stage = stage, !.taken = mail[m].taken + 1]
    BY <1>2 DEF FilesInv, TypeOK
  <2> QED
    BY <1>4, <2>1, <2>2 DEF Mail
<1>6. /\ mail' \in [Mails -> Mail] /\ \A n \in Mails : n # m => mail'[n] = mail[n]
      /\ \A n \in Mails : mail'[n].node \in 1..Nodes[n]
  BY <1>2, <1>5 DEF FilesInv, TypeOK
<1>7. \A n \in Mails : MailInv(n)'
  BY <1>3, <1>5, <1>6 DEF FilesInv, MailInv
<1>8. ASSUME NEW c \in Copies PROVE copy'[c] \in Copy /\ CopyInv(c)'
  <2>1. /\ CopyInv(c) /\ copy[c] \in Copy /\ c[1] \in Mails
        /\ c[2] \in 1..Nodes[c[1]] /\ Nodes[c[1]] \in Nat
    BY CopyOf, NodesAssumption DEF FilesInv, TypeOK
  <2>2. CASE c[1] = m
    <3>1. c[2] <= Nodes[m]
      BY <2>1, <2>2
    <3>2. /\ copy'[c] \in Copy /\ copy'[c].dir = "tmp"
          /\ copy'[c].written + copy'[c].piped <= mail[m].taken + 2
          /\ copy'[c].piped <= mail[m].taken + 1
          /\ \/ /\ copy'[c].fd = "file" /\ copy'[c].child = "none"
                /\ copy'[c].missed \/ copy'[c].written = mail[m].taken + 2
             \/ /\ copy'[c].fd = "pipe" /\ copy'[c].child = "reading"
                /\ copy'[c].missed \/ copy'[c].written + copy'[c].piped = mail[m].taken + 2
      BY <1>1, <1>3, <1>4, <2>2, <3>1, PieceFollows
    <3>3. mail'[c[1]].taken = mail[m].taken + 1 /\ (mail[m].taken + 1) + 1 = mail[m].taken + 2
      BY <1>4, <1>5, <2>2
    <3>4. Following(c, mail[c[1]].taken)'
      BY <3>2, <3>3 DEF Following
    <3>5. mail'[c[1]].stage \in {"data", "reply"} /\ ~Ended(c[1])'
      BY <1>5, <2>2 DEF Ended
    <3>6. copy'[c].written + copy'[c].piped <= MaxPieces + 1
      <4>1. copy'[c].written \in Nat /\ copy'[c].piped \in Nat
        BY <3>2 DEF Copy
      <4> QED
        BY <1>3, <1>4, <3>2, <4>1
    <3> QED
      BY <3>2, <3>4, <3>5, <3>6 DEF CopyInv
  <2>3. CASE c[1] # m
    <3>1. copy'[c] = copy[c] /\ mail'[c[1]] = mail[c[1]]
      BY <1>1, <1>6, <2>1, <2>3, PieceElsewhere
    <3> QED
      BY <2>1, <3>1, OthersKept DEF SameCopy
  <2> QED
    BY <2>2, <2>3
<1>9. copy' \in [Copies -> Copy]
  BY <1>1, <1>8 DEF PieceWritten
<1> QED
  BY <1>3, <1>6, <1>7, <1>8, <1>9 DEF FilesInv, TypeOK

LEMMA LoseStep ==
  ASSUME FilesInv, NEW m \in Mails, Lose(m)
  PROVE  FilesInv'
<1>1. /\ mail' = [mail EXCEPT ![m].held = FALSE]
      /\ UNCHANGED <<up, transformations, copy, restarts>>
  BY DEF Lose
<1>2. \A n \in Mails :
        /\ mail'[n] \in Mail /\ (mail'[n].held => mail[n].held)
        /\ mail'[n].stage = mail[n].stage /\ mail'[n].node = mail[n].node
        /\ mail'[n].taken = mail[n].taken /\ mail'[n].answered = mail[n].answered
  BY <1>1 DEF FilesInv, TypeOK, Mail
<1>3. TypeOK'
  BY <1>1, <1>2 DEF FilesInv, TypeOK
<1>4. \A n \in Mails : MailInv(n)'
  BY <1>2 DEF FilesInv, MailInv
<1>5. ASSUME NEW c \in Copies PROVE CopyInv(c)'
  <2>1. CopyInv(c) /\ c[1] \in Mails
    BY CopyOf DEF FilesInv
  <2> QED
    BY <1>1, <1>2, <2>1 DEF CopyInv, Writable, Following, Ended, Complete
<1> QED
  BY <1>3, <1>4, <1>5 DEF FilesInv

LEMMA ReplyStep ==
  ASSUME FilesInv, NEW m \in Mails, Reply(m)
  PROVE  FilesInv'
<1>1. PICK sent \in BOOLEAN :
        mail' = [mail EXCEPT ![m].answered = sent, ![m].stage = "closing"]
  BY DEF Reply
<1>2. /\ mail[m].stage = "reply" /\ mail[m].held
      /\ UNCHANGED <<up, transformations, copy, restarts>>
  BY DEF Reply, Idle, Handles
<1>3. /\ mail'[m] \in Mail /\ mail'[m].stage = "closing"
      /\ mail'[m].node = mail[m].node /\ mail'[m].taken = mail[m].taken
      /\ \A n \in Mails : n # m => mail'[n] = mail[n]
  BY <1>1 DEF FilesInv, TypeOK, Mail
<1>4. TypeOK'
  BY <1>1, <1>2, <1>3 DEF FilesInv, TypeOK
<1>5. \A n \in Mails : MailInv(n)'
  BY <1>2, <1>3 DEF FilesInv, MailInv
<1>6. ASSUME NEW c \in Copies PROVE CopyInv(c)'
  <2>1. CopyInv(c) /\ c[1] \in Mails /\ c[2] \in 1..Nodes[c[1]] /\ SameCopy(c)
    BY <1>2, CopyOf DEF FilesInv, SameCopy
  <2>2. CASE c[1] # m
    BY <1>3, <2>1, <2>2, OthersKept
  <2>3. CASE c[1] = m
    <3>1. Following(c, mail[c[1]].taken)
      BY <1>2, <2>1, <2>3 DEF CopyInv, Writable
    <3>2. Complete(c, mail[c[1]].taken)'
      BY <1>2, <1>3, <2>3, <3>1 DEF Complete, Following
    <3>3. mail'[m].node = 1
      BY <1>2, <1>3 DEF FilesInv, MailInv
    <3>4. ~(c[2] < mail'[m].node)
      BY <2>1, <2>3, <3>3, NodesAssumption
    <3>5. Ended(c[1])' /\ ~Writable(c)' /\ copy'[c] = copy[c] /\ copy[c].dir # "new"
      BY <1>2, <1>3, <2>3, <3>1 DEF Ended, Writable, Following
    <3> QED
      BY <1>3, <2>1, <2>3, <3>2, <3>4, <3>5 DEF CopyInv
  <2> QED
    BY <2>2, <2>3
<1> QED
  BY <1>4, <1>5, <1>6 DEF FilesInv

LEMMA CloseCopyStep ==
  ASSUME FilesInv, NEW m \in Mails, CloseCopy(m)
  PROVE  FilesInv'
<1> DEFINE c0 == <<m, mail[m].node>>
           next == Advance(m, "closing", "done")
           new == [next EXCEPT !.held = next.stage = "closing"]
<1>1. c0 \in Copies /\ c0[1] = m /\ c0[2] = mail[m].node
  BY CopyOf DEF FilesInv, TypeOK
<1>2. /\ mail[m].stage = "closing"
      /\ copy' = [copy EXCEPT ![c0].fd = "none", ![c0].dir = "new"]
      /\ mail' = [mail EXCEPT ![m] = new]
      /\ UNCHANGED <<up, transformations, restarts>>
  BY DEF CloseCopy
<1>3. /\ next \in Mail /\ next.node \in 1..Nodes[m]
      /\ next.taken = mail[m].taken /\ next.answered = mail[m].answered
      /\ \/ next.stage = "closing" /\ next.node = mail[m].node + 1
         \/ next.stage = "done" /\ next.node = 1 /\ mail[m].node = Nodes[m]
  BY AdvanceType
<1> HIDE DEF next
<1>4. /\ new \in Mail /\ new.node = next.node /\ new.stage = next.stage
      /\ new.taken = next.taken /\ new.answered = next.answered
  <2>1. (next.stage = "closing") \in BOOLEAN
    OBVIOUS
  <2> QED
    BY <1>3, <2>1 DEF Mail
<1> HIDE DEF new
<1>5. mail'[m] = new /\ \A n \in Mails : n # m => mail'[n] = mail[n]
  BY <1>2 DEF FilesInv, TypeOK
<1> HIDE DEF c0
<1>6. \A c \in Copies :
        /\ copy'[c] \in Copy
        /\ copy'[c].written = copy[c].written /\ copy'[c].missed = copy[c].missed
        /\ copy'[c].piped = copy[c].piped /\ copy'[c].child = copy[c].child
        /\ c = c0 => copy'[c].dir = "new"
        /\ c # c0 => copy'[c] = copy[c]
  <2>1. /\ copy[c0] \in Copy /\ copy'[c0] = [copy[c0] EXCEPT !.fd = "none", !.dir = "new"]
        /\ \A c \in Copies : copy[c] \in Copy /\ (c # c0 => copy'[c] = copy[c])
    BY <1>1, <1>2 DEF FilesInv, TypeOK
  <2>2. /\ copy'[c0] \in Copy /\ copy'[c0].dir = "new"
        /\ copy'[c0].written = copy[c0].written /\ copy'[c0].missed = copy[c0].missed
        /\ copy'[c0].piped = copy[c0].piped /\ copy'[c0].child = copy[c0].child
    BY <2>1 DEF Copy
  <2> QED
    BY <2>1, <2>2
<1>7. TypeOK'
  <2>1. copy' \in [Copies -> Copy] /\ mail' \in [Mails -> Mail]
    BY <1>2, <1>4, <1>5, <1>6 DEF FilesInv, TypeOK
  <2> QED
    BY <1>2, <1>3, <1>4, <1>5, <2>1 DEF FilesInv, TypeOK
<1>8. \A n \in Mails : MailInv(n)'
  BY <1>2, <1>3, <1>4, <1>5 DEF FilesInv, MailInv
<1>9. ASSUME NEW c \in Copies PROVE CopyInv(c)'
  <2>1. /\ CopyInv(c) /\ c[1] \in Mails /\ c = <<c[1], c[2]>>
        /\ c[2] \in 1..Nodes[c[1]] /\ Nodes[c[1]] \in Nat
    BY CopyOf, NodesAssumption DEF FilesInv
  <2>2. CASE c[1] # m
    <3>1. SameCopy(c) /\ mail'[c[1]] = mail[c[1]]
      BY <1>1, <1>5, <1>6, <2>1, <2>2 DEF SameCopy
    <3> QED
      BY <2>1, <3>1, OthersKept
  <2>3. CASE c[1] = m
    <3>1. /\ Ended(c[1]) /\ Ended(c[1])' /\ ~Writable(c)'
          /\ mail'[m].taken = mail[m].taken
      BY <1>2, <1>3, <1>4, <1>5, <2>3 DEF Ended, Writable
    <3>2. Complete(c, mail[c[1]].taken)'
      BY <1>6, <2>1, <2>3, <3>1 DEF CopyInv, Complete
    <3>3. c # c0 => c[2] # mail[m].node
      BY <2>1, <2>3 DEF c0
    <3>4. /\ mail[m].node \in Nat /\ c[2] \in Nat
          /\ c[2] < mail[m].node => copy[c].dir = "new"
      BY <1>2, <2>1, <2>3, NodesAssumption DEF FilesInv, TypeOK, CopyInv
    <3>5. \/ mail'[m].stage = "closing" /\ c[2] < mail'[m].node
          \/ mail'[m].stage = "done"
          => c = c0 \/ c[2] < mail[m].node
      BY <1>3, <1>4, <1>5, <2>1, <2>3, <3>3, <3>4
    <3> QED
      BY <1>6, <2>1, <2>3, <3>1, <3>2, <3>4, <3>5 DEF CopyInv
  <2> QED
    BY <2>2, <2>3
<1> QED
  BY <1>7, <1>8, <1>9 DEF FilesInv

-----------------------------------------------------------------------------
\* The end of the child of c0: the rest of the pipe is in its file, or lost.
LEMMA ChildStep ==
  ASSUME FilesInv, NEW c0 \in Copies,
         copy[c0].child = "reading", UNCHANGED <<up, transformations, mail, restarts>>,
         NEW status \in {"exited", "failed"}, NEW output, Exit(c0, status, output),
         \/ status = "failed" /\ output = copy[c0]
         \/ /\ status = "exited" /\ copy[c0].fd # "pipe"
            /\ output = [copy[c0] EXCEPT !.written = copy[c0].written + copy[c0].piped]
  PROVE  FilesInv'
<1>1. /\ CopyInv(c0) /\ copy[c0] \in Copy /\ c0[1] \in Mails /\ MaxPieces \in Nat
  BY CopyOf, BoundAssumption DEF FilesInv, TypeOK
<1>2. copy' = [d \in Copies |->
                 IF d = c0 THEN [output EXCEPT !.child = status]
                           ELSE [copy[d] EXCEPT !.writers = copy[d].writers \ {c0}]]
  BY DEF Exit
<1>3. copy[c0].written + copy[c0].piped \in 0..(MaxPieces + 1)
  BY <1>1 DEF CopyInv, Copy
<1>4. copy'[c0] = [output EXCEPT !.child = status]
  BY <1>2
<1>5. /\ copy'[c0] \in Copy /\ copy'[c0].child = status
      /\ copy'[c0].dir = copy[c0].dir /\ copy'[c0].missed = copy[c0].missed
      /\ copy'[c0].fd = copy[c0].fd /\ copy'[c0].piped = copy[c0].piped
      /\ status = "failed" => copy'[c0].written = copy[c0].written
      /\ status = "exited" =>
           copy'[c0].written = copy[c0].written + copy[c0].piped
  BY <1>1, <1>3, <1>4 DEF Copy
<1>6. \A c \in Copies : c # c0 => copy'[c] \in Copy /\ SameCopy(c)
  <2>1. ASSUME NEW c \in Copies, c # c0 PROVE copy'[c] \in Copy /\ SameCopy(c)
    <3>1. copy'[c] = [copy[c] EXCEPT !.writers = copy[c].writers \ {c0}]
      BY <1>2, <2>1
    <3>2. copy[c] \in Copy
      BY DEF FilesInv, TypeOK
    <3> QED
      BY <3>1, <3>2 DEF Copy, SameCopy
  <2> QED
    BY <2>1
<1>7. copy' \in [Copies -> Copy]
  BY <1>2, <1>5, <1>6
<1>8. TypeOK'
  BY <1>7 DEF FilesInv, TypeOK
<1>9. \A n \in Mails : MailInv(n)'
  BY DEF FilesInv, MailInv
<1>10. CopyInv(c0)'
  <2>1. Writable(c0) => copy[c0].fd = "pipe"
    BY <1>1 DEF CopyInv, Following
  <2>2. (Writable(c0) => Following(c0, mail[c0[1]].taken))'
    BY <1>1, <1>5, <2>1 DEF CopyInv, Writable, Following
  <2>3. (Ended(c0[1]) => Complete(c0, mail[c0[1]].taken))'
    BY <1>1, <1>5 DEF CopyInv, Ended, Complete
  <2> QED
    BY <1>1, <1>5, <2>2, <2>3 DEF CopyInv, Ended
<1>11. \A c \in Copies : c # c0 => CopyInv(c)'
  BY <1>6, OthersKept DEF FilesInv
<1> QED
  BY <1>8, <1>9, <1>10, <1>11 DEF FilesInv

LEMMA StepFiles ==
  ASSUME FilesInv, [Next]_vars
  PROVE  FilesInv'
<1>1. CASE Stop
  BY <1>1, StopStep
<1>2. CASE Restart
  BY <1>2, NothingServed, BoundAssumption DEF Restart, FilesInv, TypeOK
<1>3. ASSUME NEW on \in BOOLEAN, set_new_status(on) PROVE FilesInv'
  BY <1>3, NothingServed DEF set_new_status, FilesInv, TypeOK
<1>4. ASSUME NEW m \in Mails, MailStep(m) PROVE FilesInv'
  BY <1>4, AcceptStep, CreateCopyStep, FailedCreateStep, ReceiveStep, ReceiveCutStep,
     LoseStep, ReplyStep, CloseCopyStep DEF MailStep
<1>5. ASSUME NEW c \in Copies, ChildFinishes(c) PROVE FilesInv'
  BY <1>5, ChildStep DEF ChildFinishes
<1>6. ASSUME NEW c \in Copies, ChildFails(c) PROVE FilesInv'
  BY <1>6, ChildStep DEF ChildFails
<1>7. CASE UNCHANGED vars
  BY <1>7, NothingServed DEF vars, FilesInv, TypeOK
<1> QED
  BY <1>1, <1>2, <1>3, <1>4, <1>5, <1>6, <1>7 DEF Next

LEMMA FilesHold == Spec => []FilesInv
  BY InitFiles, StepFiles, PTL DEF Spec

-----------------------------------------------------------------------------
\* The state of every mail and copy keeps to its shape, whatever fails and whoever
\* stops: no loop of rcpt_to_list.c leaves its list.
THEOREM TypeCorrect == Spec => []TypeOK
<1>1. FilesInv => TypeOK
  BY DEF FilesInv
<1> QED
  BY <1>1, FilesHold, PTL

\* close_fds never shows half a mail: a copy in new of which no write failed, and whose
\* child, if it has one, has read all and ended well, is the header and every piece,
\* whenever the server stops.
THEOREM NewHoldsWholeMail == Spec => []NewIsWhole
<1>1. FilesInv => NewIsWhole
  <2> SUFFICES ASSUME FilesInv, NEW c \in Copies, copy[c].dir = "new",
                      ~copy[c].missed, copy[c].child \in {"none", "exited"}
               PROVE  /\ copy[c].written = mail[c[1]].taken + 1
                      /\ Ended(c[1])
    BY DEF NewIsWhole, Ended
  <2>1. CopyInv(c)
    BY DEF FilesInv
  <2> QED
    BY <2>1 DEF CopyInv, Complete
<1> QED
  BY <1>1, FilesHold, PTL

\* After "250 Ok: queued" the copies are in new, but for those close_fds has not come to.
THEOREM AnsweredMailIsInNew == Spec => []AnsweredIsInNew
<1>1. FilesInv => AnsweredIsInNew
  <2> SUFFICES ASSUME FilesInv, NEW m \in Mails, mail[m].answered, NEW k \in 1..Nodes[m]
               PROVE  \/ copy[<<m, k>>].dir = "new"
                      \/ mail[m].stage = "closing" /\ mail[m].node <= k
    BY DEF AnsweredIsInNew
  <2>1. Ended(m) /\ mail[m].node \in Nat /\ k \in Nat
    BY NodesAssumption DEF FilesInv, MailInv, TypeOK, Ended
  <2>2. CopyInv(<<m, k>>) /\ <<m, k>>[1] = m /\ <<m, k>>[2] = k
    BY CopyOf DEF FilesInv
  <2> QED
    BY <2>1, <2>2 DEF CopyInv, Ended
<1> QED
  BY <1>1, FilesHold, PTL

\* What reached new is there for good: no step of the server, no failure, stop or restart
\* takes a copy out of it or changes what it holds.  The child of the copy may still add
\* to it, once.
NewIsKept ==
  [][\A c \in Copies : copy[c].dir = "new" =>
       /\ copy'[c].dir = "new"
       /\ \/ copy'[c].written = copy[c].written
          \/ copy[c].child = "reading" /\ copy'[c].child = "exited"]_vars

\* The end of the server leaves what is in new.
LEMMA HaltKeeps ==
  ASSUME NEW left, HaltWith(left), NEW c \in Copies, left[c] = copy[c], copy[c] \in Copy
  PROVE  copy'[c].dir = copy[c].dir /\ copy'[c].written = copy[c].written
<1>1. copy'[c] = [copy[c] EXCEPT !.fd = "none"]
  BY DEF HaltWith
<1> QED
  BY <1>1 DEF Copy

\* A step of a mail touches no copy that is in new.
LEMMA MailKeeps ==
  ASSUME FilesInv, NEW m \in Mails, MailStep(m), NEW c \in Copies, copy[c].dir = "new"
  PROVE  copy'[c].dir = "new" /\ copy'[c].written = copy[c].written
<1>1. /\ CopyInv(c) /\ Ended(c[1]) /\ copy[c] \in Copy /\ copy \in [Copies -> Copy]
      /\ c[1] \in Mails
  BY CopyOf DEF FilesInv, CopyInv, TypeOK
<1>2. CASE copy' = copy
  BY <1>2
<1>3. CASE CreateCopy(m)
  <2>1. mail[m].stage \in {"accepted", "creating"}
    BY <1>3 DEF CreateCopy, CreatesCopy
  <2>2. c # <<m, mail[m].node>>
    BY <1>1, <2>1 DEF Ended
  <2>3. copy'[c] = copy[c] \/ copy'[c] = Inherited(c, <<m, mail[m].node>>)
    BY <1>3, <2>2 DEF CreateCopy
  <2>4. ASSUME NEW d PROVE /\ Inherited(c, d).dir = copy[c].dir
                           /\ Inherited(c, d).written = copy[c].written
    BY <1>1 DEF Inherited, Copy
  <2> QED
    BY <2>3, <2>4
<1>4. CASE FailedCreate(m)
  <2>1. c # <<m, mail[m].node>>
    BY <1>1, <1>4 DEF FailedCreate, CreatesCopy, Ended
  <2>2. [copy EXCEPT ![<<m, mail[m].node>>].dir = "tmp"][c] = copy[c]
    BY <1>1, <2>1
  <2> QED
    BY <1>1, <1>4, <2>2, HaltKeeps DEF FailedCreate
<1>5. ASSUME NEW reached, NEW full, mail[m].stage = "data"
      PROVE  PieceWritten(m, reached, full)[c] = copy[c]
  <2>1. c[1] # m
    BY <1>1, <1>5 DEF Ended
  <2> QED
    BY <2>1 DEF PieceWritten, NodesTo
<1>6. CASE Receive(m)
  BY <1>5, <1>6 DEF Receive, Receives
<1>7. CASE ReceiveCut(m)
  BY <1>1, <1>5, <1>7, HaltKeeps DEF ReceiveCut, Receives
<1>8. CASE CloseCopy(m)
  <2> DEFINE d == <<m, mail[m].node>>
  <2>1. copy' = [copy EXCEPT ![d].fd = "none", ![d].dir = "new"]
    BY <1>8 DEF CloseCopy
  <2>2. CASE c # d
    <3>1. copy'[c] = copy[c]
      BY <1>1, <2>1, <2>2
    <3> QED
      BY <3>1
  <2>3. CASE c = d
    <3>1. copy'[c] = [copy[c] EXCEPT !.fd = "none", !.dir = "new"]
      BY <1>1, <2>1, <2>3
    <3> QED
      BY <1>1, <3>1 DEF Copy
  <2> QED
    BY <2>2, <2>3
<1> QED
  BY <1>2, <1>3, <1>4, <1>6, <1>7, <1>8 DEF MailStep, Accept, Lose, Reply

\* The child of a copy writes to it at its end.
LEMMA ChildKeeps ==
  ASSUME FilesInv, NEW d \in Copies, ChildFinishes(d) \/ ChildFails(d),
         NEW c \in Copies, copy[c].dir = "new"
  PROVE  /\ copy'[c].dir = "new"
         /\ \/ copy'[c].written = copy[c].written
            \/ copy[c].child = "reading" /\ copy'[c].child = "exited"
<1>1. copy[c] \in Copy /\ copy[d] \in Copy
  BY DEF FilesInv, TypeOK
<1>2. ASSUME NEW status, NEW output, Exit(d, status, output)
      PROVE  copy'[c] = IF c = d THEN [output EXCEPT !.child = status]
                                 ELSE [copy[c] EXCEPT !.writers = copy[c].writers \ {d}]
  BY <1>2 DEF Exit
<1>3. CASE c # d
  <2>1. copy'[c] = [copy[c] EXCEPT !.writers = copy[c].writers \ {d}]
    BY <1>2, <1>3 DEF ChildFinishes, ChildFails
  <2> QED
    BY <1>1, <2>1 DEF Copy
<1>4. CASE c = d /\ ChildFails(d)
  <2>1. copy'[c] = [copy[c] EXCEPT !.child = "failed"]
    BY <1>2, <1>4 DEF ChildFails
  <2> QED
    BY <1>1, <2>1 DEF Copy
<1>5. CASE c = d /\ ChildFinishes(d)
  <2> DEFINE output == [copy[c] EXCEPT !.written = copy[c].written + copy[c].piped]
  <2>1. copy'[c] = [output EXCEPT !.child = "exited"] /\ copy[c].child = "reading"
    BY <1>2, <1>5 DEF ChildFinishes
  <2>2. output.dir = copy[c].dir /\ DOMAIN output = DOMAIN copy[c]
    BY <1>1 DEF Copy
  <2>3. {"dir", "child"} \subseteq DOMAIN output
    BY <1>1, <2>2 DEF Copy
  <2> HIDE DEF output
  <2> QED
    BY <2>1, <2>2, <2>3
<1> QED
  BY <1>3, <1>4, <1>5

\* A mail delivered stays delivered: the renames of close_fds are never undone, by a
\* restart, a failed call or another mail.
THEOREM NewIsForGood == Spec => NewIsKept
<1> DEFINE A == \A c \in Copies : copy[c].dir = "new" =>
                  /\ copy'[c].dir = "new"
                  /\ \/ copy'[c].written = copy[c].written
                     \/ copy[c].child = "reading" /\ copy'[c].child = "exited"
<1>1. FilesInv /\ [Next]_vars => [A]_vars
  <2> SUFFICES ASSUME FilesInv, Next, NEW c \in Copies, copy[c].dir = "new"
               PROVE  /\ copy'[c].dir = "new"
                      /\ \/ copy'[c].written = copy[c].written
                         \/ copy[c].child = "reading" /\ copy'[c].child = "exited"
    OBVIOUS
  <2>1. copy[c] \in Copy
    BY DEF FilesInv, TypeOK
  <2>2. CASE Stop
    BY <2>1, <2>2, HaltKeeps DEF Stop
  <2>3. ASSUME NEW on \in BOOLEAN, set_new_status(on) PROVE copy' = copy
    BY <2>3 DEF set_new_status
  <2>4. CASE Restart
    BY <2>4 DEF Restart
  <2> QED
    BY <2>2, <2>3, <2>4, MailKeeps, ChildKeeps DEF Next
<1> QED
  BY <1>1, FilesHold, PTL DEF Spec, NewIsKept
=============================================================================
