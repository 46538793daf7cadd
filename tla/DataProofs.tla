----------------------------- MODULE DataProofs -----------------------------
(***************************************************************************)
(* The data parser ends only at the terminator, and loses no byte of the   *)
(* mail but what a piece has too many for data_buffer, for any bytes, any  *)
(* size of the buffers and any way to cut the mail into pieces.            *)
(***************************************************************************)
EXTENDS DataParser, SequenceTheorems, TLAPS

States == {"data_data", "data_cr", "data_crlf", "data_crlfdot", "data_crlfdotcr",
           "data_done"}

LEMMA HeldStates == DOMAIN Held = States
  BY DEF Held, States

\* Short sequences, byte by byte.
LEMMA Tuples ==
  ASSUME NEW S, NEW a \in S, NEW b \in S, NEW c \in S, NEW d \in S, NEW e \in S
  PROVE  /\ <<>> \in Seq(S) /\ <<a>> \in Seq(S) /\ <<a, b>> \in Seq(S)
         /\ <<a, b, c>> \in Seq(S) /\ <<a, b, c, d>> \in Seq(S)
         /\ <<a, b, c, d, e>> \in Seq(S)
         /\ Len(<<>>) = 0 /\ Len(<<a>>) = 1 /\ Len(<<a, b>>) = 2
         /\ Len(<<a, b, c>>) = 3 /\ Len(<<a, b, c, d>>) = 4 /\ Len(<<a, b, c, d, e>>) = 5
  OBVIOUS

LEMMA OneMore ==
  /\ <<CR>> = <<>> \o <<CR>>
  /\ <<CR, LF>> = <<CR>> \o <<LF>>
  /\ <<CR, LF, Dot>> = <<CR, LF>> \o <<Dot>>
  /\ <<CR, LF, Dot, CR>> = <<CR, LF, Dot>> \o <<CR>>
  /\ <<CR, LF, Dot, CR, LF>> = <<CR, LF, Dot, CR>> \o <<LF>>
<1>1. <<CR>> = <<>> \o <<CR>>
  OBVIOUS
<1>2. <<CR, LF>> = <<CR>> \o <<LF>>
  <2>1. <<CR, LF>> = Append(<<CR>>, LF)
    OBVIOUS
  <2>2. <<CR>> \in Seq({CR, LF}) /\ LF \in {CR, LF}
    BY Tuples
  <2> QED
    BY <2>1, <2>2, AppendIsConcat
<1>3. <<CR, LF, Dot>> = <<CR, LF>> \o <<Dot>>
  OBVIOUS
<1>4. <<CR, LF, Dot, CR>> = <<CR, LF, Dot>> \o <<CR>>
  OBVIOUS
<1>5. <<CR, LF, Dot, CR, LF>> = <<CR, LF, Dot, CR>> \o <<LF>>
  OBVIOUS
<1> QED
  BY <1>1, <1>2, <1>3, <1>4, <1>5

LEMMA HeldValues ==
  /\ Held["data_data"] = <<>> /\ Held["data_cr"] = <<CR>>
  /\ Held["data_crlf"] = <<CR, LF>> /\ Held["data_crlfdot"] = <<CR, LF, Dot>>
  /\ Held["data_crlfdotcr"] = <<CR, LF, Dot, CR>>
  /\ Held["data_done"] = <<CR, LF, Dot, CR, LF>>
  BY DEF Held, Terminator

LEMMA HeldType ==
  ASSUME NEW st \in States
  PROVE  /\ Held[st] \in Seq(Bytes)
         /\ Len(Held[st]) \in Nat
         /\ st # "data_done" => Len(Held[st]) <= 4
<1>1. CR \in Bytes /\ LF \in Bytes /\ Dot \in Bytes
  BY DEF Bytes
<1>2. CASE st = "data_data"
  BY <1>1, <1>2, HeldValues, Tuples
<1>3. CASE st = "data_cr"
  BY <1>1, <1>3, HeldValues, Tuples
<1>4. CASE st = "data_crlf"
  BY <1>1, <1>4, HeldValues, Tuples
<1>5. CASE st = "data_crlfdot"
  BY <1>1, <1>5, HeldValues, Tuples
<1>6. CASE st = "data_crlfdotcr"
  BY <1>1, <1>6, HeldValues, Tuples
<1>7. CASE st = "data_done"
  BY <1>1, <1>7, HeldValues, Tuples
<1> QED
  BY <1>2, <1>3, <1>4, <1>5, <1>6, <1>7 DEF States

\* Going on with the terminator, a state holds back one byte more.
LEMMA HeldGrows ==
  ASSUME NEW st \in States \ {"data_done"}
  PROVE  /\ NextState[st] \in States
         /\ Held[NextState[st]] = Held[st] \o <<Awaited[st]>>
<1>1. CR \in Bytes /\ LF \in Bytes /\ Dot \in Bytes
  BY DEF Bytes
<1>2. CASE st = "data_data"
  <2>1. NextState[st] = "data_cr" /\ Awaited[st] = CR
    BY <1>2 DEF NextState, Awaited
  <2> QED
    BY <1>1, <1>2, <2>1, HeldValues, OneMore DEF States
<1>3. CASE st = "data_cr"
  <2>1. NextState[st] = "data_crlf" /\ Awaited[st] = LF
    BY <1>3 DEF NextState, Awaited
  <2> QED
    BY <1>1, <1>3, <2>1, HeldValues, OneMore DEF States
<1>4. CASE st = "data_crlf"
  <2>1. NextState[st] = "data_crlfdot" /\ Awaited[st] = Dot
    BY <1>4 DEF NextState, Awaited
  <2> QED
    BY <1>1, <1>4, <2>1, HeldValues, OneMore DEF States
<1>5. CASE st = "data_crlfdot"
  <2>1. NextState[st] = "data_crlfdotcr" /\ Awaited[st] = CR
    BY <1>5 DEF NextState, Awaited
  <2> QED
    BY <1>1, <1>5, <2>1, HeldValues, OneMore DEF States
<1>6. CASE st = "data_crlfdotcr"
  <2>1. NextState[st] = "data_done" /\ Awaited[st] = LF
    BY <1>6 DEF NextState, Awaited
  <2> QED
    BY <1>1, <1>6, <2>1, HeldValues, OneMore DEF States
<1> QED
  BY <1>2, <1>3, <1>4, <1>5, <1>6 DEF States

\* What buffer_write keeps of s fits, is all of s when there is room, and fills the
\* buffer when there is not.
LEMMA WrittenFits ==
  ASSUME NEW b \in Seq(Bytes), Len(b) <= BufferSize, NEW s \in Seq(Bytes)
  PROVE  /\ Written(b, s) \in Seq(Bytes) /\ Len(Written(b, s)) <= BufferSize
         /\ Len(b) + Len(s) <= BufferSize => Written(b, s) = b \o s
         /\ Len(b) + Len(s) > BufferSize => Len(Written(b, s)) = BufferSize
<1>1. Len(b) \in Nat /\ Len(s) \in Nat /\ BufferSize \in Nat
      /\ \A i \in 1..Len(s) : s[i] \in Bytes
  BY SizeAssumption, LenProperties, ElementOfSeq
<1>2. CASE Len(b) + Len(s) <= BufferSize
  <2>1. Written(b, s) = b \o s
    BY <1>2 DEF Written
  <2>2. b \o s \in Seq(Bytes) /\ Len(b \o s) = Len(b) + Len(s)
    BY ConcatProperties
  <2> QED
    BY <1>1, <1>2, <2>1, <2>2
<1>3. CASE ~(Len(b) + Len(s) <= BufferSize)
  <2> DEFINE n == BufferSize - Len(b)
             t == SubSeq(s, 1, n)
  <2>1. n \in Nat /\ n <= Len(s) /\ Len(b) + n = BufferSize
    BY <1>1, <1>3
  <2>2. Written(b, s) = b \o t
    BY <1>3 DEF Written
  <2> HIDE DEF n
  <2>3. \A i \in 1..n : s[i] \in Bytes
    BY <1>1, <2>1
  <2>4. t \in Seq(Bytes) /\ Len(t) = n
    <3>1. 1 \in Int /\ n \in Int
      BY <2>1
    <3>2. t \in Seq(Bytes) /\ Len(t) = IF 1 <= n THEN n - 1 + 1 ELSE 0
      BY <2>3, <3>1, SubSeqProperties
    <3> QED
      BY <2>1, <3>2
  <2> HIDE DEF t
  <2>5. b \o t \in Seq(Bytes) /\ Len(b \o t) = Len(b) + Len(t)
    BY <2>4, ConcatProperties
  <2>6. Len(Written(b, s)) = BufferSize
    BY <2>1, <2>2, <2>4, <2>5
  <2> QED
    BY <1>1, <1>3, <2>2, <2>5, <2>6
<1> QED
  BY <1>2, <1>3

LEMMA OverType == \A n \in Nat : Over(n) \in Nat /\ (Over(n) = 0 => n <= BufferSize)
  BY SizeAssumption DEF Over

\* One byte taken from read_buffer.
LEMMA HeadByte ==
  ASSUME TypeOK, Consume
  PROVE  /\ state \in States \ {"data_done"}
         /\ Head(read_buffer) \in Bytes /\ Tail(read_buffer) \in Seq(Bytes)
         /\ Len(read_buffer) \in Nat /\ Len(Tail(read_buffer)) = Len(read_buffer) - 1
         /\ <<Head(read_buffer)>> \in Seq(Bytes) /\ Len(<<Head(read_buffer)>>) = 1
         /\ body' = body \o <<Head(read_buffer)>> /\ read_buffer' = Tail(read_buffer)
         /\ file' = file /\ handling' = handling /\ handling
<1>1. read_buffer \in Seq(Bytes) /\ read_buffer # <<>> /\ body \in Seq(Bytes)
  BY DEF TypeOK, Consume
<1>2. /\ Head(read_buffer) \in Bytes /\ Tail(read_buffer) \in Seq(Bytes)
      /\ Len(read_buffer) \in Nat /\ Len(Tail(read_buffer)) = Len(read_buffer) - 1
  BY <1>1, HeadTailProperties, LenProperties
<1>3. body' = body \o <<Head(read_buffer)>>
  BY <1>1, <1>2, AppendIsConcat DEF Consume
<1>4. state \in States \ {"data_done"}
  BY HeldStates DEF TypeOK, Consume, data_is_done
<1>5. <<Head(read_buffer)>> \in Seq(Bytes) /\ Len(<<Head(read_buffer)>>) = 1
  BY <1>2
<1> QED
  BY <1>2, <1>3, <1>4, <1>5 DEF Consume

LEMMA FeedType ==
  ASSUME TypeOK, Consume
  PROVE  /\ state' \in States
         /\ data_buffer' \in Seq(Bytes) /\ Len(data_buffer') <= BufferSize
<1> DEFINE c == Head(read_buffer)
<1>1. state \in States \ {"data_done"} /\ <<c>> \in Seq(Bytes)
  BY HeadByte
<1>2. data_buffer \in Seq(Bytes) /\ Len(data_buffer) <= BufferSize
  BY DEF TypeOK
<1> HIDE DEF c
<1>3. CASE c = Awaited[state] /\ state' = NextState[state] /\ UNCHANGED data_buffer
  BY <1>1, <1>2, <1>3, HeldGrows
<1>4. CASE state' = "data_data" /\ data_buffer' = Written(data_buffer, Held[state] \o <<c>>)
  <2>1. Held[state] \o <<c>> \in Seq(Bytes)
    BY <1>1, HeldType, ConcatProperties
  <2> QED
    BY <1>2, <1>4, <2>1, WrittenFits DEF States
<1> QED
  BY <1>3, <1>4 DEF Consume, data_parser_feed, c

LEMMA Typing == TypeOK /\ [Next]_vars => TypeOK'
<1> SUFFICES ASSUME TypeOK, [Next]_vars PROVE TypeOK'
  OBVIOUS
<1>1. ASSUME NEW n \in 1..BufferSize, NEW s \in [1..n -> Bytes], Receive(s)
      PROVE  TypeOK'
  <2>1. n \in Nat /\ n <= BufferSize /\ BufferSize \in Nat
    BY SizeAssumption
  <2>2. s \in Seq(Bytes)
    BY <2>1, SeqDef
  <2>3. Len(s) = n
    BY <2>1, <2>2, LenProperties
  <2>4. <<>> \in Seq(Bytes) /\ Len(<<>>) <= BufferSize
    BY <2>1
  <2>5. excess' \in Nat
    <3>1. Len(Held[state]) \in Nat
      BY HeldStates, HeldType DEF TypeOK
    <3>2. Len(Held[state]) + Len(s) \in Nat
      BY <2>1, <2>3, <3>1
    <3>3. Over(Len(Held[state]) + Len(s)) \in Nat
      BY <3>2, OverType
    <3> QED
      BY <1>1, <3>3 DEF TypeOK, Receive
  <2> QED
    BY <1>1, <2>1, <2>2, <2>3, <2>4, <2>5 DEF TypeOK, Receive
<1>2. ASSUME Consume PROVE TypeOK'
  <2>1. Tail(read_buffer) \in Seq(Bytes) /\ Len(Tail(read_buffer)) <= BufferSize
    BY <1>2, HeadByte, SizeAssumption DEF TypeOK
  <2>2. body' \in Seq(Bytes)
    <3>1. body \in Seq(Bytes) /\ <<Head(read_buffer)>> \in Seq(Bytes)
          /\ body' = body \o <<Head(read_buffer)>>
      BY <1>2, HeadByte DEF TypeOK
    <3> QED
      BY <3>1, ConcatProperties
  <2>3. excess' = excess
    BY <1>2 DEF Consume
  <2> QED
    BY <1>2, <2>1, <2>2, <2>3, HeadByte, FeedType, HeldStates DEF TypeOK
<1>3. ASSUME Flush PROVE TypeOK'
  <2>1. file \o data_buffer \in Seq(Bytes)
    BY ConcatProperties DEF TypeOK
  <2> QED
    BY <1>3, <2>1 DEF TypeOK, Flush
<1>4. ASSUME UNCHANGED vars PROVE TypeOK'
  BY <1>4 DEF TypeOK, vars
<1> QED
  BY <1>1, <1>2, <1>3, <1>4 DEF Next

LEMMA InitType == Init => TypeOK
<1> SUFFICES ASSUME Init PROVE TypeOK
  OBVIOUS
<1>1. <<>> \in Seq(Bytes) /\ Len(<<>>) = 0 /\ 0 \in Nat /\ 0 <= BufferSize
  BY SizeAssumption
<1>2. "data_data" \in DOMAIN Held
  BY HeldStates DEF States
<1> QED
  BY <1>1, <1>2 DEF Init, TypeOK

\* Neither array is written behind its end: what data_buffer has no room for is dropped.
THEOREM TypeCorrect == Spec => []TypeOK
  BY InitType, Typing, PTL DEF Spec

-----------------------------------------------------------------------------
\* What is held back is the end of what was consumed.
Ends == \E p \in Seq(Bytes) : body = p \o Held[state]

LEMMA EndsStep ==
  ASSUME TypeOK, Ends, Consume
  PROVE  Ends'
<1> DEFINE c == Head(read_buffer)
           h == Held[state]
<1>1. /\ state \in States \ {"data_done"}
      /\ <<c>> \in Seq(Bytes) /\ body \in Seq(Bytes) /\ body' = body \o <<c>>
  BY HeadByte DEF TypeOK
<1>2. h \in Seq(Bytes)
  BY <1>1, HeldType
<1> HIDE DEF c
<1>3. CASE c = Awaited[state] /\ state' = NextState[state]
  <2>1. PICK p \in Seq(Bytes) : body = p \o h
    BY DEF Ends
  <2>2. Held[state'] = h \o <<c>>
    BY <1>1, <1>3, HeldGrows
  <2> HIDE DEF h
  <2>3. (p \o h) \o <<c>> = p \o (h \o <<c>>)
    BY <1>1, <1>2, ConcatAssociative
  <2>4. body' = p \o Held[state']
    BY <1>1, <2>1, <2>2, <2>3
  <2> QED
    BY <2>4 DEF Ends
<1>4. CASE state' = "data_data"
  <2>1. Held[state'] = <<>>
    BY <1>4, HeldValues
  <2>2. body' \in Seq(Bytes)
    BY <1>1, ConcatProperties
  <2>3. body' \o <<>> = body'
    BY <2>2, ConcatEmptySeq
  <2>4. body' = body' \o Held[state']
    BY <2>1, <2>3
  <2> QED
    BY <2>2, <2>4 DEF Ends
<1> QED
  BY <1>3, <1>4 DEF Consume, data_parser_feed, c

LEMMA EndsInductive == TypeOK /\ Ends /\ [Next]_vars => Ends'
<1> SUFFICES ASSUME TypeOK, Ends, [Next]_vars PROVE Ends'
  OBVIOUS
<1>1. ASSUME state' = state, body' = body
      PROVE  Ends'
  BY <1>1 DEF Ends
<1>2. ASSUME NEW n \in 1..BufferSize, NEW s \in [1..n -> Bytes], Receive(s)
      PROVE  Ends'
  BY <1>1, <1>2 DEF Receive
<1>3. ASSUME Flush PROVE Ends'
  BY <1>1, <1>3 DEF Flush
<1>4. ASSUME UNCHANGED vars PROVE Ends'
  BY <1>1, <1>4 DEF vars
<1> QED
  BY <1>2, <1>3, <1>4, EndsStep DEF Next

LEMMA EndsImplies ==
  ASSUME TypeOK, Ends, state = "data_done"
  PROVE  EndsWith(body, Terminator)
<1>1. PICK p \in Seq(Bytes) : body = p \o Held[state]
  BY DEF Ends
<1>2. CR \in Bytes /\ LF \in Bytes /\ Dot \in Bytes
  BY DEF Bytes
<1>3. Held[state] = Terminator
  BY DEF Held
<1>4. Terminator \in Seq(Bytes) /\ Len(Terminator) = 5
  BY <1>2 DEF Terminator
<1>5. Len(p) \in Nat /\ body = p \o Terminator /\ Len(body) = Len(p) + 5
  <2>1. Len(p) \in Nat
    BY LenProperties
  <2>2. Len(p \o Terminator) = Len(p) + Len(Terminator)
    BY <1>4, ConcatProperties
  <2> QED
    BY <1>1, <1>3, <1>4, <2>1, <2>2
<1>6. SubSeq(p \o Terminator, Len(p) + 1, Len(p) + 5) = SubSeq(Terminator, 1, 5)
  <2> DEFINE m == Len(p) + 1
             n == Len(p) + 5
  <2>1. /\ m \in Len(p) + 1 .. Len(p) + Len(Terminator)
        /\ n \in Len(p) + 1 .. Len(p) + Len(Terminator)
        /\ m - Len(p) = 1 /\ n - Len(p) = 5
    BY <1>4, <1>5
  <2> HIDE DEF m, n
  <2>2. SubSeq(p \o Terminator, m, n) = SubSeq(Terminator, m - Len(p), n - Len(p))
    BY <1>4, <2>1, SubSeqOfConcat2
  <2> QED
    BY <2>1, <2>2 DEF m, n
<1>7. SubSeq(Terminator, 1, 5) = Terminator
  BY <1>4, SubSeqFull
<1>8. Len(p) \in 0..Len(body)
  BY <1>5
<1> QED
  BY <1>5, <1>6, <1>7, <1>8 DEF EndsWith

\* The parser answers "250 Ok: queued" at no other bytes than CRLF.CRLF, whatever the
\* pieces the mail came in.
THEOREM EndsOnlyAtTerminator == Spec => []DoneAtTerminator
<1>1. Init => Ends
  <2> SUFFICES ASSUME Init PROVE Ends
    OBVIOUS
  <2>1. <<>> \in Seq(Bytes) /\ <<>> \o <<>> = <<>> /\ Held["data_data"] = <<>>
    BY HeldValues
  <2> QED
    BY <2>1 DEF Init, Ends
<1>2. TypeOK /\ Ends => DoneAtTerminator
  BY EndsImplies DEF DoneAtTerminator, data_is_done
<1> QED
  BY <1>1, <1>2, InitType, Typing, EndsInductive, PTL DEF Spec

-----------------------------------------------------------------------------
\* While the handler runs, what data_buffer has been given or will be, what was dropped
\* left out.
Fill == Len(data_buffer) + Len(Held[state]) + Len(read_buffer)

Missing == Len(body) - Len(Found)

\* Every byte missing was counted in excess, and those this piece can still lose too;
\* they are four at most.
LossInv ==
  /\ excess = 0 => Found = body
  /\ Missing \in Nat /\ Missing <= excess
  /\ handling => Missing + Over(Fill) <= excess
  /\ handling => Fill <= BufferSize + 4

LEMMA FoundWhileHandling ==
  ASSUME TypeOK
  PROVE  /\ handling => Found = (file \o data_buffer) \o Held[state]
         /\ ~handling => Found = file \o Held[state]
<1>1. file \o <<>> = file
  BY ConcatEmptySeq DEF TypeOK
<1> QED
  BY <1>1 DEF Found

LEMMA FoundLength ==
  ASSUME TypeOK
  PROVE  /\ Len(file) \in Nat /\ Len(data_buffer) \in Nat /\ Len(body) \in Nat
         /\ Len(read_buffer) \in Nat /\ Len(Held[state]) \in Nat
         /\ handling => Len(Found) = Len(file) + Len(data_buffer) + Len(Held[state])
         /\ ~handling => Len(Found) = Len(file) + Len(Held[state])
<1>1. /\ file \in Seq(Bytes) /\ data_buffer \in Seq(Bytes) /\ body \in Seq(Bytes)
      /\ read_buffer \in Seq(Bytes) /\ Held[state] \in Seq(Bytes)
  BY HeldStates, HeldType DEF TypeOK
<1>2. /\ Len(file) \in Nat /\ Len(data_buffer) \in Nat /\ Len(body) \in Nat
      /\ Len(read_buffer) \in Nat /\ Len(Held[state]) \in Nat
  BY <1>1, LenProperties
<1>3. file \o data_buffer \in Seq(Bytes) /\ Len(file \o data_buffer) = Len(file) + Len(data_buffer)
  BY <1>1, ConcatProperties
<1>4. Len((file \o data_buffer) \o Held[state]) = Len(file \o data_buffer) + Len(Held[state])
  BY <1>1, <1>3, ConcatProperties
<1>5. Len(file \o Held[state]) = Len(file) + Len(Held[state])
  BY <1>1, ConcatProperties
<1> QED
  BY <1>2, <1>3, <1>4, <1>5, FoundWhileHandling

LEMMA ThreeLengths ==
  ASSUME NEW f \in Seq(Bytes), NEW d \in Seq(Bytes), NEW h \in Seq(Bytes)
  PROVE  Len((f \o d) \o h) = Len(f) + Len(d) + Len(h)
<1>1. f \o d \in Seq(Bytes) /\ Len(f \o d) = Len(f) + Len(d)
  BY ConcatProperties
<1>2. Len((f \o d) \o h) = Len(f \o d) + Len(h)
  BY <1>1, ConcatProperties
<1> QED
  BY <1>1, <1>2, LenProperties

\* A byte consumed is one more found, unless data_buffer is full: then as many are
\* missing more as Over(Fill) goes down.
LEMMA LossStep ==
  ASSUME TypeOK, TypeOK', LossInv, Consume
  PROVE  LossInv'
<1> DEFINE c == Head(read_buffer)
           h == Held[state]
           w == file \o data_buffer
<1>1. /\ state \in States \ {"data_done"}
      /\ <<c>> \in Seq(Bytes) /\ Len(<<c>>) = 1 /\ body' = body \o <<c>>
      /\ Len(read_buffer) \in Nat /\ Len(read_buffer') = Len(read_buffer) - 1
      /\ file' = file /\ handling' = handling /\ handling
  BY HeadByte
<1>3. h \in Seq(Bytes) /\ Len(h) \in Nat
  BY <1>1, HeldType
<1>4. /\ file \in Seq(Bytes) /\ data_buffer \in Seq(Bytes) /\ body \in Seq(Bytes)
      /\ Len(data_buffer) <= BufferSize /\ w \in Seq(Bytes) /\ BufferSize \in Nat
      /\ excess \in Nat /\ excess' = excess
  BY ConcatProperties, SizeAssumption DEF TypeOK, Consume
<1>5. h \o <<c>> \in Seq(Bytes) /\ Len(h \o <<c>>) = Len(h) + 1
  <2> HIDE DEF c, h
  <2>1. h \o <<c>> \in Seq(Bytes) /\ Len(h \o <<c>>) = Len(h) + Len(<<c>>)
    BY <1>1, <1>3, ConcatProperties
  <2> QED
    BY <1>1, <2>1
<1>6. Len(body') = Len(body) + 1
  <2> HIDE DEF c
  <2> QED
    BY <1>1, <1>4, ConcatProperties
<1>7. /\ Len(file) \in Nat /\ Len(data_buffer) \in Nat /\ Len(body) \in Nat
      /\ Found = w \o h /\ Len(Found) = Len(file) + Len(data_buffer) + Len(h)
  BY <1>1, FoundLength, FoundWhileHandling
<1>8. Fill = Len(data_buffer) + Len(h) + Len(read_buffer) /\ Fill \in Nat
  BY <1>1, <1>3, <1>7 DEF Fill
<1>9. /\ excess = 0 => Found = body
      /\ Missing \in Nat /\ Missing + Over(Fill) <= excess /\ Fill <= BufferSize + 4
  BY <1>1 DEF LossInv
<1>10. Len(read_buffer) >= 1
  <2>1. Len(read_buffer) # 0
    BY EmptySeq DEF TypeOK, Consume
  <2> QED
    BY <1>1, <2>1
<1>11. Found' = (file \o data_buffer') \o Held[state']
  <2>1. file' \o <<>> = file'
    BY <1>1, <1>4, ConcatEmptySeq
  <2> QED
    BY <1>1, <2>1 DEF Found
<1>12. state' \in States /\ data_buffer' \in Seq(Bytes)
  BY FeedType
<1>13. Held[state'] \in Seq(Bytes) /\ Len(Held[state']) \in Nat /\ Len(data_buffer') \in Nat
  BY <1>12, HeldType, LenProperties
<1>14. Len(Found') = Len(file) + Len(data_buffer') + Len(Held[state'])
  BY <1>4, <1>11, <1>12, <1>13, ThreeLengths
<1>15. /\ Fill' = Len(data_buffer') + Len(Held[state']) + Len(read_buffer')
       /\ Missing' = Len(body') - Len(Found')
       /\ Missing = Len(body) - Len(Found)
  BY DEF Fill, Missing
<1> HIDE DEF c, h, w
<1>16. ASSUME Fill' = Fill, Missing' = Missing, excess = 0 => Found' = body'
       PROVE  LossInv'
  <2>1. Over(Fill) \in Nat
    BY <1>8, OverType
  <2> QED
    BY <1>1, <1>4, <1>9, <1>16, <2>1 DEF LossInv
<1>17. ASSUME Found = body PROVE body' = w \o (h \o <<c>>)
  <2>1. body = w \o h
    BY <1>7, <1>17
  <2>2. w \in Seq(Bytes) /\ h \in Seq(Bytes) /\ <<c>> \in Seq(Bytes)
    BY <1>1, <1>3, <1>4
  <2>3. (w \o h) \o <<c>> = w \o (h \o <<c>>)
    BY <2>2, ConcatAssociative
  <2> QED
    BY <1>1, <2>1, <2>3
<1>18. CASE c = Awaited[state] /\ state' = NextState[state] /\ UNCHANGED data_buffer
  <2>1. Held[state'] = h \o <<c>> /\ Len(Held[state']) = Len(h) + 1 /\ data_buffer' = data_buffer
    BY <1>1, <1>5, <1>18, HeldGrows DEF h
  <2>2. Fill' = Fill
    BY <1>1, <1>3, <1>7, <1>8, <1>15, <2>1
  <2>3. Missing' = Missing
    BY <1>3, <1>6, <1>7, <1>14, <1>15, <2>1
  <2>4. ASSUME Found = body PROVE Found' = body'
    <3>1. body' = w \o (h \o <<c>>)
      BY <1>17, <2>4
    <3> QED
      BY <1>11, <2>1, <3>1 DEF w
  <2> QED
    BY <1>9, <1>16, <2>2, <2>3, <2>4
<1>19. CASE state' = "data_data" /\ data_buffer' = Written(data_buffer, h \o <<c>>)
  <2>1. Held[state'] = <<>> /\ Len(Held[state']) = 0
    BY <1>19, HeldValues
  <2>2. CASE Len(data_buffer) + Len(h) + 1 <= BufferSize
    <3> DEFINE t == h \o <<c>>
    <3>1. t \in Seq(Bytes) /\ Len(t) = Len(h) + 1
      BY <1>5
    <3>2. data_buffer' = Written(data_buffer, t)
      BY <1>19
    <3> HIDE DEF t
    <3>3. Len(data_buffer) + Len(t) <= BufferSize
      BY <1>3, <1>7, <2>2, <3>1
    <3>4. data_buffer' = data_buffer \o t
      BY <1>4, <3>1, <3>2, <3>3, WrittenFits
    <3>5. Len(data_buffer') = Len(data_buffer) + Len(h) + 1
      <4>1. Len(data_buffer \o t) = Len(data_buffer) + Len(t)
        BY <1>4, <3>1, ConcatProperties
      <4> QED
        BY <1>3, <1>7, <3>1, <3>4, <4>1
    <3>6. Fill' = Fill
      BY <1>1, <1>3, <1>7, <1>8, <1>15, <2>1, <3>5
    <3>7. Missing' = Missing
      BY <1>3, <1>6, <1>7, <1>14, <1>15, <2>1, <3>5
    <3>8. ASSUME Found = body PROVE Found' = body'
      <4>1. body' = w \o t
        BY <1>17, <3>8 DEF t
      <4>2. (file \o data_buffer) \o t = file \o (data_buffer \o t)
        <5>1. file \in Seq(Bytes) /\ data_buffer \in Seq(Bytes) /\ t \in Seq(Bytes)
          BY <1>4, <3>1
        <5> QED
          BY <5>1, ConcatAssociative
      <4>3. file \o data_buffer' \in Seq(Bytes)
        BY <1>4, <1>12, ConcatProperties
      <4>4. (file \o data_buffer') \o <<>> = file \o data_buffer'
        BY <4>3, ConcatEmptySeq
      <4> QED
        BY <1>11, <2>1, <3>4, <4>1, <4>2, <4>4 DEF w
    <3> QED
      BY <1>9, <1>16, <3>6, <3>7, <3>8
  <2>3. CASE Len(data_buffer) + Len(h) + 1 > BufferSize
    <3>1. Len(data_buffer') = BufferSize
      <4> DEFINE t == h \o <<c>>
      <4>1. t \in Seq(Bytes) /\ Len(t) = Len(h) + 1
        BY <1>5
      <4>2. data_buffer' = Written(data_buffer, t)
        BY <1>19
      <4> HIDE DEF t
      <4>3. Len(data_buffer) + Len(t) > BufferSize
        BY <1>3, <1>7, <2>3, <4>1
      <4> QED
        BY <1>4, <4>1, <4>2, <4>3, WrittenFits
    <3>2. Fill' = BufferSize + Len(read_buffer')
      BY <1>1, <1>4, <1>10, <1>15, <2>1, <3>1
    <3>3. Over(Fill') = Len(read_buffer')
      BY <1>1, <1>4, <1>10, <3>2 DEF Over
    <3>4. Over(Fill) = Fill - BufferSize
      BY <1>1, <1>3, <1>4, <1>7, <1>8, <1>10, <2>3 DEF Over
    <3>5. Missing' + Over(Fill') = Missing + Over(Fill)
      BY <1>1, <1>3, <1>4, <1>6, <1>7, <1>8, <1>14, <1>15, <2>1, <3>1, <3>3, <3>4
    <3>6. Missing' \in Nat
      BY <1>3, <1>4, <1>6, <1>7, <1>9, <1>14, <1>15, <2>1, <2>3, <3>1
    <3>7. excess # 0
      BY <1>1, <1>3, <1>4, <1>7, <1>8, <1>9, <1>10, <2>3, <3>4
    <3>8. Fill' <= BufferSize + 4
      BY <1>1, <1>3, <1>4, <1>7, <1>8, <1>9, <1>10, <2>3, <3>2
    <3>9. Missing' <= excess
      BY <1>1, <1>4, <1>9, <1>10, <3>3, <3>5, <3>6
    <3> QED
      BY <1>4, <1>9, <3>5, <3>6, <3>7, <3>8, <3>9 DEF LossInv
  <2> QED
    BY <1>3, <1>4, <1>7, <2>2, <2>3
<1> QED
  BY <1>18, <1>19 DEF Consume, data_parser_feed, c, h

LEMMA LossReceive ==
  ASSUME TypeOK, LossInv, NEW n \in 1..BufferSize, NEW s \in [1..n -> Bytes], Receive(s)
  PROVE  LossInv'
<1>1. n \in Nat /\ n <= BufferSize /\ BufferSize \in Nat /\ excess \in Nat
  BY SizeAssumption DEF TypeOK
<1>2. Len(s) = n
  <2>1. s \in Seq(Bytes)
    BY <1>1, SeqDef
  <2> QED
    BY <1>1, <2>1, LenProperties
<1>3. /\ read_buffer' = s /\ data_buffer' = <<>> /\ state' = state /\ file' = file
      /\ body' = body /\ handling' /\ ~handling /\ state # "data_done"
      /\ excess' = excess + Over(Len(Held[state]) + Len(s))
  BY DEF Receive, data_is_done
<1>4. Len(Held[state]) \in Nat /\ Len(Held[state]) <= 4
  BY <1>3, HeldStates, HeldType DEF TypeOK
<1>5. Fill' = Len(Held[state]) + n /\ Fill' <= BufferSize + 4
  <2>1. Len(data_buffer') = 0
    BY <1>3
  <2> QED
    BY <1>1, <1>2, <1>3, <1>4, <2>1 DEF Fill
<1>6. Found' = Found /\ Missing' = Missing
  <2>1. Found = file \o Held[state]
    BY <1>3, FoundWhileHandling
  <2>2. file \o <<>> = file
    BY ConcatEmptySeq DEF TypeOK
  <2>3. Found' = Found
    BY <1>3, <2>1, <2>2 DEF Found
  <2> QED
    BY <1>3, <2>3 DEF Missing
<1>7. Over(Fill') \in Nat /\ excess' = excess + Over(Fill')
  <2>1. Len(Held[state]) + n \in Nat
    BY <1>1, <1>4
  <2> QED
    BY <1>2, <1>3, <1>5, <2>1, OverType
<1> QED
  BY <1>1, <1>3, <1>5, <1>6, <1>7 DEF LossInv

LEMMA LossFlush ==
  ASSUME TypeOK, LossInv, Flush
  PROVE  LossInv'
<1>1. /\ file' = file \o data_buffer /\ ~handling' /\ handling
      /\ state' = state /\ body' = body /\ excess' = excess
  BY DEF Flush
<1>2. Found = (file \o data_buffer) \o Held[state]
  BY <1>1, FoundWhileHandling
<1>3. file \o data_buffer \in Seq(Bytes)
  BY ConcatProperties DEF TypeOK
<1>4. (file \o data_buffer) \o <<>> = file \o data_buffer
  BY <1>3, ConcatEmptySeq
<1>5. Found' = Found
  BY <1>1, <1>2, <1>4 DEF Found
<1> QED
  BY <1>1, <1>5 DEF LossInv, Missing

LEMMA LossInductive == Spec => []LossInv
<1>1. Init => LossInv
  <2> SUFFICES ASSUME Init PROVE LossInv
    OBVIOUS
  <2>1. (<<>> \o <<>>) \o <<>> = <<>> /\ Held["data_data"] = <<>> /\ Len(<<>>) = 0
    BY HeldValues
  <2> QED
    BY <2>1 DEF Init, LossInv, Found, Missing
<1>2. TypeOK /\ TypeOK' /\ LossInv /\ [Next]_vars => LossInv'
  <2> SUFFICES ASSUME TypeOK, TypeOK', LossInv, [Next]_vars PROVE LossInv'
    OBVIOUS
  <2>1. CASE UNCHANGED vars
    BY <2>1 DEF vars, LossInv, Found, Missing, Fill
  <2> QED
    BY <2>1, LossStep, LossReceive, LossFlush DEF Next
<1> QED
  BY <1>1, <1>2, InitType, Typing, PTL DEF Spec

\* With buffers of any size: the file has the mail byte by byte as long as every piece fits
\* behind what was held back, and afterwards lacks no more than what did not fit.
THEOREM OnlyTheExcessIsLost == Spec => []OnlyExcessLost
<1>1. TypeOK /\ LossInv => OnlyExcessLost
  BY DEF TypeOK, LossInv, Missing, OnlyExcessLost
<1> QED
  BY <1>1, InitType, Typing, LossInductive, PTL DEF Spec

\* What one piece gives data_buffer is four bytes more than its size at most, which bounds
\* the loss of a piece.
THEOREM FourBytesOver == Spec => [](handling => Fill <= BufferSize + 4)
<1>1. LossInv => (handling => Fill <= BufferSize + 4)
  BY DEF LossInv
<1> QED
  BY <1>1, LossInductive, PTL

=============================================================================
