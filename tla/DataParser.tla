----------------------------- MODULE DataParser -----------------------------
(***************************************************************************)
(* data.c fed by mail_info_read_process: the bytes of a mail, received in  *)
(* pieces of any size, go through the automaton that looks for the end of  *)
(* the data, into data_buffer, and from there to the file of a recipient.  *)
(*                                                                         *)
(* One action is one step of the handler: the recv that starts it, one     *)
(* turn of the loop of data_consume, and the write that ends it.  Nothing  *)
(* interleaves with a connection's own parser.                             *)
(*                                                                         *)
(* A definition whose comment starts with MUTANT is a faulty variant of    *)
(* the one after it; no specification uses it.                             *)
(***************************************************************************)
EXTENDS Integers, Sequences

CONSTANTS
  CR, LF, Dot,  \* the bytes of the terminator
  Others,       \* some other bytes
  BufferSize,   \* 2048: the size of raw_buff_read, which a recv may fill, and of
                \* raw_data_buffer
  MaxBody       \* bound: bytes received in a behaviour

Bytes == {CR, LF, Dot} \cup Others

ASSUME SizeAssumption ==
  BufferSize \in Nat \ {0} /\ MaxBody \in Nat

VARIABLES
  read_buffer,  \* bytes received and not yet consumed
  state,        \* of the automaton
  data_buffer,  \* bytes of the mail found in what was received last
  file,         \* what write_to_files wrote to each file
  handling,     \* is mail_info_read_process running
  body,         \* not in the code: every byte consumed so far
  excess        \* not in the code: the bytes by which pieces, each with what was held
                \* back before it, were longer than data_buffer

vars == <<read_buffer, state, data_buffer, file, handling, body, excess>>

Terminator == <<CR, LF, Dot, CR, LF>>

\* What each state has seen of the terminator, and not written.
Held == [data_data |-> <<>>, data_cr |-> <<CR>>, data_crlf |-> <<CR, LF>>,
         data_crlfdot |-> <<CR, LF, Dot>>, data_crlfdotcr |-> <<CR, LF, Dot, CR>>,
         data_done |-> Terminator]

\* The byte that goes on with the terminator, and where to.
Awaited == [data_data |-> CR, data_cr |-> LF, data_crlf |-> Dot,
            data_crlfdot |-> CR, data_crlfdotcr |-> LF]
\* MUTANT: a line that starts with ".\r" ends the data.
NextOneEarly == [data_data |-> "data_cr", data_cr |-> "data_crlf",
                 data_crlf |-> "data_crlfdot", data_crlfdot |-> "data_done",
                 data_crlfdotcr |-> "data_done"]

NextState == [data_data |-> "data_cr", data_cr |-> "data_crlf",
              data_crlf |-> "data_crlfdot", data_crlfdot |-> "data_crlfdotcr",
              data_crlfdotcr |-> "data_done"]

\* data_parser_init
Init ==
  /\ read_buffer = <<>>
  /\ state = "data_data" /\ data_buffer = <<>>
  /\ file = <<>> /\ handling = FALSE
  /\ body = <<>> /\ excess = 0

\* MUTANT: written twice, and past the end of the buffer.
WrittenTwice(b, s) == b \o s \o s

\* buffer_write of each byte of s: those without room are dropped.
Written(b, s) ==
  IF Len(b) + Len(s) <= BufferSize THEN b \o s
                                   ELSE b \o SubSeq(s, 1, BufferSize - Len(b))

\* How many of n bytes data_buffer has no room for.
Over(n) == IF n > BufferSize THEN n - BufferSize ELSE 0

\* The end of the data was seen: the handler answers "250 Ok: queued".
data_is_done == state = "data_done"

-----------------------------------------------------------------------------
(***************************************************************************)
(* read_status received s, or found it in read_buffer behind the DATA      *)
(* command; either may be all the room there is.  data_buffer starts       *)
(* empty, whatever is held back.                                           *)
(***************************************************************************)
Receive(s) ==
  /\ ~handling /\ ~data_is_done /\ read_buffer = <<>>
  /\ Len(body) + Len(s) <= MaxBody
  /\ read_buffer' = s
  /\ data_buffer' = <<>>
  /\ handling' = TRUE
  /\ excess' = excess + Over(Len(Held[state]) + Len(s))
  /\ UNCHANGED <<state, file, body>>

\* MUTANT: what was held back is forgotten.
FeedForgets(c) ==
  \/ c = Awaited[state] /\ state' = NextState[state] /\ UNCHANGED data_buffer
  \/ /\ c # Awaited[state] /\ state' = "data_data"
     /\ data_buffer' = Written(data_buffer, <<c>>)

(***************************************************************************)
(* data_parser_feed: a byte goes on with the terminator, or what was held  *)
(* back is written with it and the search starts again behind it.          *)
(***************************************************************************)
data_parser_feed(c) ==
  \/ c = Awaited[state] /\ state' = NextState[state] /\ UNCHANGED data_buffer
  \/ /\ c # Awaited[state] /\ state' = "data_data"
     /\ data_buffer' = Written(data_buffer, Held[state] \o <<c>>)

\* The loop of data_consume.
Consume ==
  /\ handling /\ ~data_is_done /\ read_buffer # <<>>
  /\ data_parser_feed(Head(read_buffer))
  /\ read_buffer' = Tail(read_buffer)
  /\ body' = Append(body, Head(read_buffer))
  /\ UNCHANGED <<file, handling, excess>>

\* write_to_files, and the handler returns.
Flush ==
  /\ handling /\ (data_is_done \/ read_buffer = <<>>)
  /\ file' = file \o data_buffer
  /\ handling' = FALSE
  /\ UNCHANGED <<read_buffer, state, data_buffer, body, excess>>

Next ==
  \/ \E n \in 1..BufferSize : \E s \in [1..n -> Bytes] : Receive(s)
  \/ Consume
  \/ Flush

Spec == Init /\ [][Next]_vars

-----------------------------------------------------------------------------
EndsWith(s, t) == \E n \in 0..Len(s) : SubSeq(s, n + 1, Len(s)) = t

TypeOK ==
  /\ read_buffer \in Seq(Bytes) /\ Len(read_buffer) <= BufferSize
  /\ state \in DOMAIN Held
  /\ data_buffer \in Seq(Bytes) /\ Len(data_buffer) <= BufferSize
  /\ file \in Seq(Bytes) /\ body \in Seq(Bytes)
  /\ handling \in BOOLEAN /\ excess \in Nat

\* The data is never taken to be over anywhere but at the terminator, wherever a recv
\* happened to cut it.
DoneAtTerminator == data_is_done => EndsWith(body, Terminator)

\* What the file and the two buffers hold of the mail.
Found == file \o (IF handling THEN data_buffer ELSE <<>>) \o Held[state]

\* data_buffer is no larger than a piece, and what was held back goes in before it:
\* buffer_write drops the end of a piece that leaves no room for itself (buffer.c:93).
\* Nothing else is lost.  As long as every piece fits behind what was held back, the
\* file has the mail byte by byte; and no more bytes are ever missing than did not fit.
OnlyExcessLost ==
  /\ excess = 0 => Found = body
  /\ Len(body) - Len(Found) \in 0..excess

\* smtpnio.c:479 "354 End data with <CR><LF>.<CR><LF>".
TerminatorEnds == EndsWith(body, Terminator) => data_is_done
=============================================================================
