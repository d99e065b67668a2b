------------------------ MODULE HttpTransactionProofs ------------------------
(***************************************************************************)
(* Proofs about HttpTransaction.tla, for every set of streams, every chunk *)
(* size and whether or not reads may fail: its types, and that reading     *)
(* loses, repeats and moves no byte of the stream.                         *)
(***************************************************************************)
EXTENDS HttpTransaction, HttpBytesProofs

-----------------------------------------------------------------------------
(* Types.                                                                  *)

(* Every step preserves the types.                                         *)
LEMMA StepType ==
  ASSUME TypeOK, [Next]_vars
  PROVE  TypeOK'
<1> USE DEF TypeOK, Step
<1>1. CASE Begin
  BY <1>1 DEF Begin, resultVars
<1>2. CASE FindTerminator
  BY <1>2, CutAtTerminator DEF FindTerminator, resultVars
<1>3. CASE ReadHeader
  <2>1. PICK n \in 1 .. Smaller(ChunkSize, Len(wire)) :
          /\ buffered' = buffered \o SubSeq(wire, 1, n)
          /\ wire' = SubSeq(wire, n + 1, Len(wire))
    BY <1>3 DEF ReadHeader
  <2>2. n \in 0 .. Smaller(ChunkSize, Len(wire)) /\ ChunkSize \in Nat
    BY ChunkAssumption DEF Smaller
  <2>3. SubSeq(wire, 1, n) \in Seq(Unit) /\ wire' \in Seq(Unit)
    BY <2>1, <2>2, Chunk
  <2>4. buffered' \in Seq(Unit)
    BY <2>1, <2>3, ConcatProperties
  <2>5. QED
    BY <1>3, <2>3, <2>4 DEF ReadHeader, resultVars
<1>4. CASE ParseHeaders
  <2>1. PICK l \in ContentLengths(headers) :
          LET fromBuffer == Smaller(Len(buffered), BodyLength(l))
          IN /\ contentLength' = l
             /\ body' = SubSeq(buffered, 1, fromBuffer)
             /\ buffered' = SubSeq(buffered, fromBuffer + 1, Len(buffered))
    BY <1>4 DEF ParseHeaders
  <2>2. l \in Int /\ BodyLength(l) \in Nat /\ Len(buffered) \in Nat
    BY ContentLengthsType, BodyLengthType, LenProperties
  <2>3. Smaller(Len(buffered), BodyLength(l)) \in 0 .. Smaller(BodyLength(l), Len(buffered))
    BY <2>2 DEF Smaller
  <2>4. body' \in Seq(Unit) /\ buffered' \in Seq(Unit)
    BY <2>1, <2>2, <2>3, Chunk
  <2>5. QED
    BY <1>4, <2>1, <2>2, <2>4 DEF ParseHeaders, resultVars
<1>5. CASE ReadBody
  <2>1. PICK n \in 1 .. Smaller(Smaller(ChunkSize, Remaining), Len(wire)) :
          /\ body' = body \o SubSeq(wire, 1, n)
          /\ wire' = SubSeq(wire, n + 1, Len(wire))
    BY <1>5 DEF ReadBody
  <2>2. /\ Smaller(ChunkSize, Remaining) \in Nat
        /\ n \in 0 .. Smaller(Smaller(ChunkSize, Remaining), Len(wire))
    <3>1. BodyLength(contentLength) \in Nat /\ Len(body) \in Nat /\ Len(wire) \in Nat
      BY BodyLengthType, LenProperties
    <3>2. Remaining \in Int /\ Remaining > 0
      BY <1>5, <3>1 DEF ReadBody, Remaining
    <3>3. QED
      BY <3>1, <3>2, ChunkAssumption DEF Smaller
  <2>3. SubSeq(wire, 1, n) \in Seq(Unit) /\ wire' \in Seq(Unit)
    BY <2>1, <2>2, Chunk
  <2>4. body' \in Seq(Unit)
    BY <2>1, <2>3, ConcatProperties
  <2>5. QED
    BY <1>5, <2>3, <2>4 DEF ReadBody, resultVars
<1>6. CASE ReadFails
  BY <1>6 DEF ReadFails, parseVars, resultVars
<1>7. CASE Finish
  <2>1. consumed' \in Seq(Unit)
    BY <1>7, TerminatorType, ConcatProperties DEF Finish
  <2>2. [headers |-> headers, body |-> body] \in Message
    BY DEF Message
  <2> DEFINE message == [headers |-> headers, body |-> body]
  <2>3. Append(delivered, message) \in Seq(Message)
    BY <2>2, AppendProperties
  <2> HIDE DEF message
  <2>4. /\ delivered' = Append(delivered, message) \/ delivered' = delivered
        /\ pc' = "served" \/ pc' = "rejected"
    BY <1>7 DEF Finish, message
  <2>5. delivered' \in Seq(Message) /\ pc' \in Step
    BY <2>3, <2>4
  <2>6. <<>> \in Seq(Unit) /\ -1 \in Int /\ FALSE \in BOOLEAN
    BY EmptySeq
  <2>7. QED
    BY <1>7, <2>1, <2>5, <2>6 DEF Finish
<1>8. CASE KeepAlive \/ CloseConnection
  BY <1>8 DEF KeepAlive, CloseConnection, parseVars, resultVars
<1>9. CASE UNCHANGED vars
  BY <1>9 DEF vars, parseVars, resultVars
<1>10. QED
  BY <1>1, <1>2, <1>3, <1>4, <1>5, <1>6, <1>7, <1>8, <1>9 DEF Next, Read

LEMMA InitType == Init => TypeOK
<1>1. <<>> \in Seq(Unit) /\ <<>> \in Seq(Message)
  BY EmptySeq
<1>2. Init => stream \in Seq(Unit) /\ wire \in Seq(Unit)
  BY StreamsAssumption DEF Init
<1>3. Init => contentLength \in Int /\ foundHeaderEnd \in BOOLEAN /\ pc \in Step
  <2>1. Init => contentLength = -1 /\ foundHeaderEnd = FALSE /\ pc = "ready"
    BY DEF Init
  <2>2. -1 \in Int
    OBVIOUS
  <2>3. QED
    BY <2>1, <2>2 DEF Step
<1>4. Init => /\ unconsumed = <<>> /\ buffered = <<>> /\ headers = <<>>
              /\ body = <<>> /\ consumed = <<>> /\ delivered = <<>>
  BY DEF Init
<1>5. QED
  BY <1>1, <1>2, <1>3, <1>4 DEF TypeOK

(* The types hold in every behaviour.                                      *)
THEOREM TypeCorrect == Spec => []TypeOK
<1>1. TypeOK /\ [Next]_vars => TypeOK'
  BY StepType
<1>2. QED
  BY <1>1, InitType, PTL DEF Spec

-----------------------------------------------------------------------------
(* Conservation of the bytes.                                              *)

(* Which of the buffers are in use where streamFromConnection stands.      *)
ControlInv ==
  /\ pc \in {"parse", "body"} => foundHeaderEnd
  /\ pc \in {"ready", "header", "served", "closed", "rejected"} => ~foundHeaderEnd
  /\ pc \in {"header", "parse", "body"} => unconsumed = <<>>
  /\ pc \in {"ready", "served", "closed", "rejected"} => buffered = <<>>
  /\ pc \in {"ready", "header", "parse", "served", "closed", "rejected"} => body = <<>>

(* The body never grows past its length, and the connection is asked for   *)
(* more of it only when the buffer is used up.                             *)
BodyInv ==
  pc = "body" =>
    /\ contentLength \in ContentLengths(headers)
    /\ Len(body) <= BodyLength(contentLength)
    /\ buffered = <<>> \/ Len(body) = BodyLength(contentLength)

LEMMA ControlStep ==
  ASSUME TypeOK, ControlInv, [Next]_vars
  PROVE  ControlInv'
<1> USE DEF ControlInv, parseVars, resultVars
<1>1. CASE Begin
  BY <1>1 DEF Begin
<1>2. CASE FindTerminator
  BY <1>2 DEF FindTerminator
<1>3. CASE ReadHeader
  BY <1>3 DEF ReadHeader
<1>4. CASE ParseHeaders
  BY <1>4 DEF ParseHeaders
<1>5. CASE ReadBody
  BY <1>5 DEF ReadBody
<1>6. CASE ReadFails
  BY <1>6 DEF ReadFails
<1>7. CASE Finish
  BY <1>7 DEF Finish
<1>8. CASE KeepAlive \/ CloseConnection
  BY <1>8 DEF KeepAlive, CloseConnection
<1>9. CASE UNCHANGED vars
  BY <1>9 DEF vars
<1>10. QED
  BY <1>1, <1>2, <1>3, <1>4, <1>5, <1>6, <1>7, <1>8, <1>9 DEF Next, Read

(* What ParseHeaders and ReadBody move where.                              *)
LEMMA ParseHeadersMoves ==
  ASSUME TypeOK, ParseHeaders
  PROVE  /\ body' \in Seq(Unit) /\ buffered' \in Seq(Unit)
         /\ buffered = body' \o buffered'
         /\ contentLength' \in ContentLengths(headers)
         /\ Len(body') <= BodyLength(contentLength')
         /\ buffered' = <<>> \/ Len(body') = BodyLength(contentLength')
<1>1. PICK l \in ContentLengths(headers) :
        LET fromBuffer == Smaller(Len(buffered), BodyLength(l))
        IN /\ contentLength' = l
           /\ body' = SubSeq(buffered, 1, fromBuffer)
           /\ buffered' = SubSeq(buffered, fromBuffer + 1, Len(buffered))
  BY DEF ParseHeaders
<1>2. buffered \in Seq(Unit) /\ BodyLength(l) \in Nat
  BY ContentLengthsType, BodyLengthType DEF TypeOK
<1>3. QED
  BY <1>1, <1>2, Take

LEMMA ReadBodyMoves ==
  ASSUME TypeOK, BodyInv, ReadBody
  PROVE  \E chunk \in Seq(Unit) :
           /\ body' = body \o chunk /\ wire = chunk \o wire'
           /\ buffered = <<>>
           /\ Len(body \o chunk) <= BodyLength(contentLength)
<1>1. PICK n \in 1 .. Smaller(Smaller(ChunkSize, Remaining), Len(wire)) :
        /\ body' = body \o SubSeq(wire, 1, n)
        /\ wire' = SubSeq(wire, n + 1, Len(wire))
  BY DEF ReadBody
<1>2. /\ wire \in Seq(Unit) /\ Len(wire) \in Nat
      /\ body \in Seq(Unit) /\ Len(body) \in Nat
      /\ contentLength \in Int /\ BodyLength(contentLength) \in Nat
  BY BodyLengthType, LenProperties DEF TypeOK
<1>3. Remaining \in Nat /\ Remaining > 0
  BY <1>2 DEF ReadBody, Remaining
<1>4. /\ Smaller(ChunkSize, Remaining) \in Nat
      /\ n \in 0 .. Smaller(Smaller(ChunkSize, Remaining), Len(wire))
      /\ n <= Remaining
  BY <1>2, <1>3, ChunkAssumption DEF Smaller
<1>5. /\ SubSeq(wire, 1, n) \in Seq(Unit) /\ Len(SubSeq(wire, 1, n)) = n
      /\ SubSeq(wire, 1, n) \o wire' = wire
  BY <1>1, <1>2, <1>4, Chunk
<1>6. Len(body \o SubSeq(wire, 1, n)) = Len(body) + n
  BY <1>2, <1>5, ConcatProperties
<1>7. Len(body) + n <= BodyLength(contentLength)
  BY <1>2, <1>4 DEF Remaining
<1>8. buffered = <<>>
  BY <1>2, <1>3 DEF BodyInv, ReadBody, Remaining
<1>9. QED
  BY <1>1, <1>5, <1>6, <1>7, <1>8

LEMMA BodyStep ==
  ASSUME TypeOK, BodyInv, [Next]_vars
  PROVE  BodyInv'
<1>1. CASE ParseHeaders
  <2>1. headers' = headers
    BY <1>1 DEF ParseHeaders
  <2>2. QED
    BY <1>1, <2>1, ParseHeadersMoves DEF BodyInv
<1>2. CASE ReadBody
  <2>1. /\ pc = "body" /\ headers' = headers /\ contentLength' = contentLength
        /\ buffered' = buffered
    BY <1>2 DEF ReadBody
  <2>2. QED
    BY <1>2, <2>1, ReadBodyMoves DEF BodyInv
<1>3. CASE ~ParseHeaders /\ ~ReadBody
  <2>1. \/ pc' # "body"
        \/ UNCHANGED <<pc, parseVars>>
    BY <1>3 DEF Next, Read, Begin, FindTerminator, ReadHeader, ReadFails, Finish, KeepAlive,
                CloseConnection, vars
  <2>2. QED
    BY <2>1 DEF BodyInv, parseVars
<1>4. QED
  BY <1>1, <1>2, <1>3

(* Rest with the empty buffers left out.                                   *)
LEMMA RestForms ==
  ASSUME NEW h \in Seq(Unit), NEW b \in Seq(Unit), NEW u \in Seq(Unit),
         NEW v \in Seq(Unit), NEW w \in Seq(Unit)
  PROVE  /\ (h \o HEADER_TERMINATOR \o b) \o u \o <<>> \o w
               = (h \o HEADER_TERMINATOR \o b) \o u \o w
         /\ <<>> \o u \o v \o w = u \o v \o w
         /\ h \o HEADER_TERMINATOR \o b \in Seq(Unit)
         /\ h \o HEADER_TERMINATOR \in Seq(Unit)
<1>1. h \o HEADER_TERMINATOR \in Seq(Unit)
  BY TerminatorType, ConcatProperties
<1>2. h \o HEADER_TERMINATOR \o b \in Seq(Unit)
  BY <1>1, ConcatProperties
<1>3. (h \o HEADER_TERMINATOR \o b) \o u \in Seq(Unit)
  BY <1>2, ConcatProperties
<1>4. QED
  BY <1>1, <1>2, <1>3, ConcatEmptySeq

(* A step leaves what is to come as it is, except for Finish, which takes  *)
(* one request off its front.                                              *)
LEMMA RestStep ==
  ASSUME TypeOK, TypeOK', ControlInv, ControlInv', BodyInv, [Next]_vars
  PROVE  IF Finish
         THEN /\ Rest = (headers \o HEADER_TERMINATOR \o body) \o Rest'
              /\ Rest' = buffered \o wire
         ELSE Rest' = Rest
<1> DEFINE T == HEADER_TERMINATOR
<1>1. /\ unconsumed \in Seq(Unit) /\ buffered \in Seq(Unit) /\ wire \in Seq(Unit)
      /\ headers \in Seq(Unit) /\ body \in Seq(Unit) /\ T \in Seq(Unit)
  BY TerminatorType DEF TypeOK
<1>2. /\ unconsumed' \in Seq(Unit) /\ buffered' \in Seq(Unit) /\ wire' \in Seq(Unit)
      /\ headers' \in Seq(Unit) /\ body' \in Seq(Unit)
  BY DEF TypeOK
<1>3. \A s \in Seq(Unit) : s \o <<>> = s /\ <<>> \o s = s
  BY ConcatEmptySeq
<1>4. foundHeaderEnd /\ unconsumed = <<>> => Rest = (headers \o T \o body) \o buffered \o wire
  BY <1>1, RestForms DEF Rest, InProgress
<1>5. foundHeaderEnd' /\ unconsumed' = <<>>
        => Rest' = (headers' \o T \o body') \o buffered' \o wire'
  BY <1>2, RestForms DEF Rest, InProgress
<1>6. ~foundHeaderEnd => Rest = buffered \o unconsumed \o wire
  BY <1>1, RestForms DEF Rest, InProgress
<1>7. ~foundHeaderEnd' => Rest' = buffered' \o unconsumed' \o wire'
  BY <1>2, RestForms DEF Rest, InProgress
<1> HIDE DEF T
<1>8. CASE Begin
  <2>1. Rest = <<>> \o unconsumed \o wire
    BY <1>6, <1>8 DEF Begin, ControlInv
  <2>2. Rest' = unconsumed \o <<>> \o wire
    BY <1>7, <1>8 DEF Begin, ControlInv
  <2>3. ~Finish
    BY <1>8 DEF Begin, Finish
  <2>4. QED
    BY <1>1, <1>3, <2>1, <2>2, <2>3
<1>9. CASE FindTerminator
  <2>1. Rest = buffered \o wire
    BY <1>1, <1>3, <1>6, <1>9 DEF FindTerminator, ControlInv
  <2>2. buffered = headers' \o T \o buffered'
    BY <1>1, <1>9, CutAtTerminator DEF FindTerminator, T
  <2>3. Rest' = (headers' \o T \o <<>>) \o buffered' \o wire
    BY <1>5, <1>9 DEF FindTerminator, ControlInv
  <2>4. headers' \o T \o <<>> = headers' \o T
    BY <1>2, <1>3, RestForms DEF T
  <2>5. ~Finish
    BY <1>9 DEF FindTerminator, Finish
  <2>6. QED
    BY <2>1, <2>2, <2>3, <2>4, <2>5
<1>10. CASE ReadHeader
  <2>1. PICK n \in 1 .. Smaller(ChunkSize, Len(wire)) :
          /\ buffered' = buffered \o SubSeq(wire, 1, n)
          /\ wire' = SubSeq(wire, n + 1, Len(wire))
    BY <1>10 DEF ReadHeader
  <2>2. n \in 0 .. Smaller(ChunkSize, Len(wire)) /\ ChunkSize \in Nat
    BY <1>1, LenProperties, ChunkAssumption DEF Smaller
  <2>3. SubSeq(wire, 1, n) \in Seq(Unit) /\ SubSeq(wire, 1, n) \o wire' = wire
    BY <1>1, <2>1, <2>2, Chunk
  <2>4. Rest = buffered \o wire
    BY <1>1, <1>3, <1>6, <1>10 DEF ReadHeader, ControlInv
  <2>5. Rest' = buffered' \o wire'
    BY <1>2, <1>3, <1>7, <1>10 DEF ReadHeader, ControlInv
  <2>6. (buffered \o SubSeq(wire, 1, n)) \o wire' = buffered \o (SubSeq(wire, 1, n) \o wire')
    <3>1. buffered \in Seq(Unit) /\ SubSeq(wire, 1, n) \in Seq(Unit) /\ wire' \in Seq(Unit)
      BY <1>1, <1>2, <2>3
    <3>2. QED
      BY <3>1, Regroup, Zenon
  <2>7. ~Finish
    BY <1>10 DEF ReadHeader, Finish
  <2>8. QED
    BY <2>1, <2>3, <2>4, <2>5, <2>6, <2>7
<1>11. CASE ParseHeaders
  <2>1. /\ pc = "parse" /\ ~Finish /\ headers' = headers /\ wire' = wire
        /\ unconsumed' = unconsumed /\ foundHeaderEnd' = foundHeaderEnd
    BY <1>11 DEF ParseHeaders, Finish
  <2>2. Rest = (headers \o T \o <<>>) \o buffered \o wire
    BY <1>4, <2>1 DEF ControlInv
  <2>3. Rest' = (headers \o T \o body') \o buffered' \o wire
    BY <1>5, <2>1 DEF ControlInv
  <2>4. headers \o T \in Seq(Unit)
    BY <1>1, RestForms DEF T
  <2>5. (headers \o T) \o <<>> = headers \o T
    BY <1>3, <2>4
  <2>6. (headers \o T \o body') \o buffered' = (headers \o T) \o (body' \o buffered')
    BY <1>2, <2>4, Regroup
  <2>7. QED
    BY <1>11, <2>1, <2>2, <2>3, <2>5, <2>6, ParseHeadersMoves
<1>12. CASE ReadBody
  <2>1. /\ pc = "body" /\ ~Finish /\ headers' = headers /\ buffered' = buffered
        /\ unconsumed' = unconsumed /\ foundHeaderEnd' = foundHeaderEnd
    BY <1>12, BodyLengthType, LenProperties DEF ReadBody, Finish, Remaining, TypeOK
  <2>2. PICK chunk \in Seq(Unit) :
          body' = body \o chunk /\ wire = chunk \o wire' /\ buffered = <<>>
    BY <1>12, ReadBodyMoves
  <2>3. /\ headers \o T \in Seq(Unit) /\ headers \o T \o body \in Seq(Unit)
        /\ headers \o T \o body' \in Seq(Unit)
    BY <1>1, <1>2, RestForms DEF T
  <2>4. Rest = (headers \o T \o body) \o wire
    BY <1>3, <1>4, <2>1, <2>2, <2>3 DEF ControlInv
  <2>5. Rest' = (headers \o T \o body') \o wire'
    BY <1>3, <1>5, <2>1, <2>2, <2>3 DEF ControlInv
  <2>6. (headers \o T) \o (body \o chunk) = (headers \o T \o body) \o chunk
    <3>1. headers \o T \in Seq(Unit) /\ body \in Seq(Unit) /\ chunk \in Seq(Unit)
      BY <1>1, <2>2, <2>3
    <3>2. (headers \o T \o body) \o chunk = (headers \o T) \o (body \o chunk)
      BY <3>1, Regroup, Zenon
    <3>3. QED
      BY <3>2
  <2>7. ((headers \o T \o body) \o chunk) \o wire' = (headers \o T \o body) \o (chunk \o wire')
    <3>1. headers \o T \o body \in Seq(Unit) /\ chunk \in Seq(Unit) /\ wire' \in Seq(Unit)
      BY <1>2, <2>2, <2>3
    <3>2. QED
      BY <3>1, Regroup, Zenon
  <2>8. QED
    BY <2>1, <2>2, <2>4, <2>5, <2>6, <2>7
<1>13. CASE Finish
  <2>1. pc = "body" /\ ~foundHeaderEnd' /\ buffered' = <<>> /\ unconsumed' = buffered
        /\ wire' = wire
    BY <1>13 DEF Finish
  <2>2. Rest = (headers \o T \o body) \o buffered \o wire
    BY <1>4, <2>1 DEF ControlInv
  <2>3. Rest' = buffered \o wire
    BY <1>1, <1>3, <1>7, <2>1
  <2>4. headers \o T \o body \in Seq(Unit)
    BY <1>1, RestForms DEF T
  <2>5. ((headers \o T \o body) \o buffered) \o wire = (headers \o T \o body) \o (buffered \o wire)
    BY <1>1, <2>4, Regroup
  <2>6. QED
    BY <1>13, <2>2, <2>3, <2>5 DEF T
<1>14. CASE ReadFails \/ KeepAlive \/ CloseConnection \/ UNCHANGED vars
  <2>1. UNCHANGED <<wire, unconsumed, buffered, foundHeaderEnd, headers, body>>
    BY <1>14 DEF ReadFails, KeepAlive, CloseConnection, vars, parseVars
  <2>2. Rest' = Rest
    BY <2>1 DEF Rest, InProgress
  <2>3. ~Finish
    <3>1. delivered' = delivered /\ consumed' = consumed
      BY <1>14 DEF ReadFails, KeepAlive, CloseConnection, vars, resultVars
    <3>2. pc' \notin {"served", "rejected"} \/ pc' = pc
      BY <1>14 DEF ReadFails, KeepAlive, CloseConnection, vars
    <3>3. QED
      BY <3>2 DEF Finish
  <2>4. QED
    BY <2>2, <2>3
<1>15. QED
  BY <1>8, <1>9, <1>10, <1>11, <1>12, <1>13, <1>14 DEF Next, Read

(* No byte of the stream is lost, repeated or moved: in every behaviour    *)
(* the finished requests, what is buffered and what is unread are the      *)
(* stream.                                                                 *)
THEOREM EveryByteAccountedFor == Spec => []BytesConserved
<1> DEFINE Inv == TypeOK /\ ControlInv /\ BodyInv /\ BytesConserved
<1>1. Init => Inv
  <2>1. SUFFICES ASSUME Init PROVE Inv
    OBVIOUS
  <2>2. TypeOK
    BY <2>1, InitType
  <2>3. ControlInv /\ BodyInv
    BY <2>1 DEF Init, ControlInv, BodyInv
  <2>4. Rest = stream /\ consumed = <<>> /\ stream \in Seq(Unit)
    <3>1. Rest = <<>> \o <<>> \o <<>> \o stream /\ stream \in Seq(Unit)
      BY <2>1, <2>2 DEF Init, Rest, InProgress, TypeOK
    <3>2. QED
      BY <2>1, <3>1, EmptySeq, ConcatEmptySeq DEF Init
  <2>5. BytesConserved
    BY <2>4, ConcatEmptySeq DEF BytesConserved
  <2>6. QED
    BY <2>2, <2>3, <2>5
<1>2. Inv /\ [Next]_vars => Inv'
  <2>1. SUFFICES ASSUME Inv, [Next]_vars PROVE Inv'
    OBVIOUS
  <2>2. TypeOK' /\ ControlInv' /\ BodyInv'
    BY <2>1, StepType, ControlStep, BodyStep
  <2>3. BytesConserved'
    <3>1. CASE Finish
      <4>1. /\ stream' = stream /\ stream = consumed \o Rest
            /\ consumed' = consumed \o headers \o HEADER_TERMINATOR \o body
        BY <2>1, <3>1 DEF Finish, BytesConserved
      <4>2. Rest = (headers \o HEADER_TERMINATOR \o body) \o Rest'
        BY <2>1, <2>2, <3>1, RestStep
      <4>3. /\ consumed \in Seq(Unit) /\ headers \in Seq(Unit) /\ body \in Seq(Unit)
            /\ headers \o HEADER_TERMINATOR \o body \in Seq(Unit)
            /\ Rest' \in Seq(Unit)
        <5>1. Rest' = buffered \o wire
          BY <2>1, <2>2, <3>1, RestStep
        <5>2. QED
          BY <2>1, <5>1, RestForms, ConcatProperties DEF TypeOK
      <4>4. consumed \o headers \o HEADER_TERMINATOR \o body
              = consumed \o (headers \o HEADER_TERMINATOR \o body)
        <5>1. /\ consumed \in Seq(Unit) /\ headers \in Seq(Unit)
              /\ body \in Seq(Unit) /\ HEADER_TERMINATOR \in Seq(Unit)
              /\ headers \o HEADER_TERMINATOR \in Seq(Unit)
          BY <4>3, TerminatorType, ConcatType
        <5>2. (consumed \o headers) \o HEADER_TERMINATOR = consumed \o (headers \o HEADER_TERMINATOR)
          BY <5>1, Regroup, Zenon
        <5>3. (consumed \o (headers \o HEADER_TERMINATOR)) \o body
                = consumed \o ((headers \o HEADER_TERMINATOR) \o body)
          BY <5>1, Regroup, Zenon
        <5>4. QED
          BY <5>2, <5>3
      <4>5. consumed \o ((headers \o HEADER_TERMINATOR \o body) \o Rest')
              = (consumed \o (headers \o HEADER_TERMINATOR \o body)) \o Rest'
        BY <4>3, Regroup
      <4>6. QED
        BY <4>1, <4>2, <4>4, <4>5 DEF BytesConserved
    <3>2. CASE ~Finish
      <4>1. Rest' = Rest
        BY <2>1, <2>2, <3>2, RestStep
      <4>2. stream' = stream /\ consumed' = consumed
        BY <2>1, <3>2 DEF Next, Read, Begin, FindTerminator, ReadHeader, ParseHeaders,
                  ReadBody, ReadFails, KeepAlive, CloseConnection, vars, resultVars
      <4>3. QED
        BY <2>1, <4>1, <4>2 DEF BytesConserved
    <3>3. QED
      BY <3>1, <3>2
  <2>4. QED
    BY <2>2, <2>3
<1>3. QED
  BY <1>1, <1>2, PTL DEF Spec

-----------------------------------------------------------------------------
(* Refinement: the requests delivered are those one gets by cutting the    *)
(* stream from its start.                                                  *)

(* The headers of the request being read contain no terminator.            *)
HeadersInv == pc \in {"parse", "body"} => NoTerminator(headers)

LEMMA HeadersStep ==
  ASSUME TypeOK, HeadersInv, [Next]_vars
  PROVE  HeadersInv'
<1>1. CASE FindTerminator
  <2>1. /\ buffered \in Seq(Unit) /\ HasTerminator(buffered)
        /\ headers' = SubSeq(buffered, 1, PosTerminator(buffered) - 1)
    BY <1>1 DEF FindTerminator, TypeOK
  <2>2. NoTerminator(headers')
    BY <2>1, CutHeaders
  <2>3. QED
    BY <2>2 DEF HeadersInv
<1>2. CASE ~FindTerminator
  <2>1. \/ pc' \notin {"parse", "body"}
        \/ headers' = headers /\ (pc \in {"parse", "body"} \/ pc' = pc)
    BY <1>2 DEF Next, Read, Begin, ReadHeader, ParseHeaders, ReadBody, ReadFails, Finish,
                KeepAlive, CloseConnection, vars, parseVars
  <2>2. QED
    BY <2>1 DEF HeadersInv
<1>3. QED
  BY <1>1, <1>2

RefinementInv == TypeOK /\ ControlInv /\ BodyInv /\ HeadersInv

LEMMA RefinementInvInit == Init => RefinementInv
BY InitType DEF Init, RefinementInv, ControlInv, BodyInv, HeadersInv

LEMMA RefinementInvStep ==
  ASSUME RefinementInv, [Next]_vars
  PROVE  RefinementInv'
BY StepType, ControlStep, BodyStep, HeadersStep DEF RefinementInv

(* The abstract module reads the bytes the same way.                       *)
LEMMA SameBytes ==
  /\ \A b : Framing!HasTerminator(b) = HasTerminator(b)
  /\ \A b : Framing!PosTerminator(b) = PosTerminator(b)
  /\ \A h : Framing!ContentLengths(h) = ContentLengths(h)
  /\ \A h : Framing!WellFormed(h) = WellFormed(h)
  /\ \A l : Framing!BodyLength(l) = BodyLength(l)
BY DEF Framing!HasTerminator, Framing!PosTerminator, Framing!ContentLengths,
       Framing!WellFormed, Framing!BodyLength, Framing!TerminatorAt, Framing!EOL,
       HasTerminator, PosTerminator, ContentLengths, WellFormed, BodyLength,
       TerminatorAt, EOL

(* The request that Finish ends is the one at the front of the stream.     *)
LEMMA FinishTakesFront ==
  ASSUME RefinementInv, RefinementInv', Finish
  PROVE  LET p == Len(headers) + 1
             n == Len(body)
         IN /\ p \in 1 .. Len(Rest) /\ n \in 0 .. Len(Rest)
            /\ Framing!FrontMessage(p, n)
            /\ Framing!Consume(p, n)
            /\ SubSeq(Rest, 1, p - 1) = headers
            /\ SubSeq(Rest, p + 2, p + 1 + n) = body
<1> DEFINE T == HEADER_TERMINATOR
           p == Len(headers) + 1
           n == Len(body)
           next == buffered \o wire
<1>1. /\ headers \in Seq(Unit) /\ body \in Seq(Unit) /\ T \in Seq(Unit)
      /\ buffered \in Seq(Unit) /\ wire \in Seq(Unit)
      /\ Len(headers) \in Nat /\ n \in Nat /\ Len(T) = 2
  BY TerminatorType, LenProperties DEF RefinementInv, TypeOK
<1>2. next \in Seq(Unit) /\ Len(next) \in Nat
  BY <1>1, ConcatProperties, LenProperties
<1>3. Rest = (headers \o T \o body) \o next /\ Rest' = next
  BY RestStep DEF RefinementInv, Next, Read
<1> HIDE DEF next
<1>4. /\ headers \o T \in Seq(Unit) /\ Len(headers \o T) = Len(headers) + 2
      /\ headers \o T \o body \in Seq(Unit)
      /\ Len(headers \o T \o body) = Len(headers) + 2 + n
      /\ body \o next \in Seq(Unit)
  <2>1. headers \o T \in Seq(Unit) /\ body \o next \in Seq(Unit)
    BY <1>1, <1>2, ConcatType
  <2>2. headers \o T \o body \in Seq(Unit)
    BY <1>1, <2>1, ConcatType
  <2>3. Len(headers \o T) = Len(headers) + Len(T)
    BY <1>1, ConcatLen
  <2>4. Len((headers \o T) \o body) = Len(headers \o T) + Len(body)
    BY <1>1, <2>1, ConcatLen
  <2>5. QED
    BY <1>1, <2>1, <2>2, <2>3, <2>4
<1>5. Rest = (headers \o T) \o (body \o next)
  <2>1. headers \o T \in Seq(Unit) /\ body \in Seq(Unit) /\ next \in Seq(Unit)
    BY <1>1, <1>2, <1>4
  <2>2. ((headers \o T) \o body) \o next = (headers \o T) \o (body \o next)
    BY <2>1, Regroup, Zenon
  <2>3. QED
    BY <1>3, <2>2
<1>6. Len(Rest) = Len(headers) + 2 + n + Len(next) /\ Rest \in Seq(Unit)
  <2>1. headers \o T \o body \in Seq(Unit) /\ next \in Seq(Unit)
    BY <1>2, <1>4
  <2>2. /\ (headers \o T \o body) \o next \in Seq(Unit)
        /\ Len((headers \o T \o body) \o next) = Len(headers \o T \o body) + Len(next)
    BY <2>1, ConcatType, ConcatLen, Zenon
  <2>3. QED
    BY <1>3, <1>4, <2>2
<1>7. pc = "body" /\ n = BodyLength(contentLength)
  <2>1. BodyLength(contentLength) \in Nat
    BY BodyLengthType DEF RefinementInv, TypeOK
  <2>2. pc = "body" /\ ~(BodyLength(contentLength) - n > 0)
    BY DEF Finish, Remaining
  <2>3. n <= BodyLength(contentLength)
    BY <2>2 DEF RefinementInv, BodyInv
  <2>4. QED
    BY <1>1, <2>1, <2>2, <2>3
<1>8. HasTerminator(Rest) /\ PosTerminator(Rest) = p
  <2>1. NoTerminator(headers)
    BY <1>7 DEF RefinementInv, HeadersInv
  <2>2. QED
    BY <1>1, <1>4, <1>5, <2>1, FrontOfStream
<1>9. SubSeq(Rest, 1, p - 1) = headers
  <2>1. T \o (body \o next) \in Seq(Unit) /\ <<>> \in Seq(Unit)
    BY <1>1, <1>4, ConcatType, EmptySeq
  <2>2. Rest = headers \o (T \o (body \o next))
    <3>1. headers \in Seq(Unit) /\ T \in Seq(Unit) /\ body \o next \in Seq(Unit)
      BY <1>1, <1>4
    <3>2. (headers \o T) \o (body \o next) = headers \o (T \o (body \o next))
      BY <3>1, Regroup, Zenon
    <3>3. QED
      BY <1>5, <3>2
  <2>3. <<>> \o headers = headers
    BY <1>1, ConcatEmptySeq
  <2>4. SubSeq(<<>> \o headers \o (T \o (body \o next)), Len(<<>>) + 1, Len(<<>>) + Len(headers))
          = headers
    BY <1>1, <2>1, Piece
  <2>5. Len(<<>>) + 1 = 1 /\ Len(<<>>) + Len(headers) = p - 1
    BY <1>1
  <2>6. QED
    BY <2>2, <2>3, <2>4, <2>5
<1>10. SubSeq(Rest, p + 2, p + 1 + n) = body
  <2>1. SubSeq((headers \o T) \o body \o next, Len(headers \o T) + 1, Len(headers \o T) + Len(body))
          = body
    BY <1>1, <1>2, <1>4, Piece
  <2>2. Len(headers \o T) + 1 = p + 2 /\ Len(headers \o T) + Len(body) = p + 1 + n
    BY <1>1, <1>4
  <2>3. QED
    BY <1>3, <2>1, <2>2
<1>11. SubSeq(Rest, p + 2 + n, Len(Rest)) = next
  <2> DEFINE front == headers \o T \o body
  <2>1. front \in Seq(Unit) /\ Len(front) = Len(headers) + 2 + n /\ Rest = front \o next
    BY <1>3, <1>4
  <2> HIDE DEF front
  <2>2. SubSeq(front \o next \o <<>>, Len(front) + 1, Len(front) + Len(next)) = next
    BY <1>2, <2>1, EmptySeq, Piece
  <2>3. front \o next \o <<>> = Rest
    BY <1>6, <2>1, ConcatEmptySeq
  <2>4. Len(front) + 1 = p + 2 + n /\ Len(front) + Len(next) = Len(Rest)
    BY <1>1, <1>2, <1>6, <2>1
  <2>5. QED
    BY <2>2, <2>3, <2>4
<1>12. contentLength \in ContentLengths(headers)
  BY <1>7 DEF RefinementInv, BodyInv
<1>13. p \in 1 .. Len(Rest) /\ n \in 0 .. Len(Rest) /\ Len(Rest) >= p + 1 + n
  BY <1>1, <1>2, <1>6
<1>14. Framing!FrontMessage(p, n)
  <2>1. \E l \in ContentLengths(SubSeq(Rest, 1, p - 1)) : n = BodyLength(l)
    BY <1>7, <1>9, <1>12
  <2> HIDE DEF p, n
  <2>2. QED
    BY <1>8, <1>13, <2>1, SameBytes DEF Framing!FrontMessage
<1>15. Framing!Consume(p, n)
  BY <1>3, <1>11 DEF Framing!Consume
<1>16. QED
  BY <1>9, <1>10, <1>13, <1>14, <1>15

LEMMA FramingInit == Init => Framing!Init
<1>1. SUFFICES ASSUME Init PROVE Framing!Init
  OBVIOUS
<1>2. TypeOK
  BY <1>1, InitType
<1>3. Rest = stream
  <2>1. Rest = <<>> \o <<>> \o <<>> \o stream /\ stream \in Seq(Unit)
    BY <1>1, <1>2 DEF Init, Rest, InProgress, TypeOK
  <2>2. QED
    BY <2>1, EmptySeq, ConcatEmptySeq
<1>4. QED
  BY <1>1, <1>3 DEF Init, Framing!Init

LEMMA FramingStep ==
  ASSUME RefinementInv, RefinementInv', [Next]_vars
  PROVE  [Framing!Next]_(Framing!vars)
<1>1. CASE Finish
  <2> DEFINE p == Len(headers) + 1
             n == Len(body)
  <2>1. /\ p \in 1 .. Len(Rest) /\ n \in 0 .. Len(Rest)
        /\ Framing!FrontMessage(p, n)
        /\ Framing!Consume(p, n)
        /\ SubSeq(Rest, 1, p - 1) = headers
        /\ SubSeq(Rest, p + 2, p + 1 + n) = body
    BY <1>1, FinishTakesFront
  <2>2. pc = "body"
    BY <1>1 DEF Finish
  <2> HIDE DEF p, n
  <2>3. CASE WellFormed(headers)
    <3>1. /\ delivered' = Append(delivered, [headers |-> headers, body |-> body])
          /\ pc' = "served"
      BY <1>1, <2>3 DEF Finish
    <3>2. Framing!Deliver
      <4>1. delivered' = Append(delivered, [headers |-> SubSeq(Rest, 1, p - 1),
                                            body |-> SubSeq(Rest, p + 2, p + 1 + n)])
        BY <2>1, <3>1
      <4>2. Framing!WellFormed(SubSeq(Rest, 1, p - 1))
        BY <2>1, <2>3, SameBytes
      <4>3. /\ pc \notin {"failed", "broken", "rejected", "closed"}
            /\ pc' \notin {"failed", "broken", "rejected", "closed"}
        BY <2>2, <3>1
      <4>4. \E i \in 1 .. Len(Rest), k \in 0 .. Len(Rest) :
              /\ Framing!FrontMessage(i, k)
              /\ Framing!WellFormed(SubSeq(Rest, 1, i - 1))
              /\ delivered' = Append(delivered, [headers |-> SubSeq(Rest, 1, i - 1),
                                                 body |-> SubSeq(Rest, i + 2, i + 1 + k)])
              /\ Framing!Consume(i, k)
        <5>1. /\ p \in 1 .. Len(Rest) /\ n \in 0 .. Len(Rest)
              /\ Framing!FrontMessage(p, n) /\ Framing!Consume(p, n)
          BY <2>1
        <5>2. QED
          BY <4>1, <4>2, <5>1, Zenon
      <4>5. /\ ~(pc \in {"failed", "broken", "rejected", "closed"})
            /\ UNCHANGED (pc \in {"failed", "broken", "rejected", "closed"})
        BY <4>3
      <4>6. QED
        BY <4>4, <4>5, Zenon DEF Framing!Deliver
    <3>3. QED
      BY <3>2 DEF Framing!Next
  <2>4. CASE ~WellFormed(headers)
    <3>1. delivered' = delivered /\ pc' = "rejected"
      BY <1>1, <2>4 DEF Finish
    <3>2. Framing!Reject
      BY <2>1, <2>2, <2>4, <3>1, SameBytes DEF Framing!Reject
    <3>3. QED
      BY <3>2 DEF Framing!Next
  <2>5. QED
    BY <2>3, <2>4
<1>2. CASE ~Finish
  <2>1. Rest' = Rest
    BY <1>2, RestStep DEF RefinementInv
  <2>2. delivered' = delivered
    BY <1>2 DEF Next, Read, Begin, FindTerminator, ReadHeader, ParseHeaders, ReadBody,
                ReadFails, KeepAlive, CloseConnection, vars, resultVars
  <2>3. \/ /\ pc \notin {"failed", "broken", "rejected", "closed"}
           /\ pc' \notin {"failed", "broken", "rejected", "closed"}
        \/ pc' = pc
        \/ /\ pc \notin {"failed", "broken", "rejected", "closed"}
           /\ pc' \in {"failed", "broken", "closed"}
    BY <1>2 DEF Next, Read, Begin, FindTerminator, ReadHeader, ParseHeaders, ReadBody,
                ReadFails, KeepAlive, CloseConnection, vars
  <2>4. QED
    BY <2>1, <2>2, <2>3 DEF Framing!Next, Framing!Stop, Framing!vars
<1>3. QED
  BY <1>1, <1>2

(* Whatever sizes the reads have and wherever they fail, the requests      *)
(* handed to the handlers are those one gets by cutting the stream into    *)
(* requests from its start.                                                *)
THEOREM FramingRefinement == Spec => ImplementsFraming
<1>1. RefinementInv /\ [Next]_vars => RefinementInv'
  BY RefinementInvStep
<1>2. RefinementInv /\ RefinementInv' /\ [Next]_vars => [Framing!Next]_(Framing!vars)
  BY FramingStep
<1>3. QED
  BY <1>1, <1>2, RefinementInvInit, FramingInit, PTL DEF Spec, ImplementsFraming, Framing!Spec

-----------------------------------------------------------------------------
(* Giving up.                                                              *)

(* Where a read of the exhausted stream leaves the transaction: before a   *)
(* terminator, or before the end of the body, with nothing left in a       *)
(* buffer.                                                                 *)
FailedInv ==
  pc = "failed" =>
    /\ wire = <<>> /\ unconsumed = <<>>
    /\ foundHeaderEnd => /\ NoTerminator(headers)
                         /\ contentLength \in ContentLengths(headers)
                         /\ Len(body) < BodyLength(contentLength)
                         /\ buffered = <<>>
    /\ ~foundHeaderEnd => ~HasTerminator(buffered)

LEMMA FailedStep ==
  ASSUME RefinementInv, FailedInv, [Next]_vars
  PROVE  FailedInv'
<1>1. CASE ReadFails
  <2>1. SUFFICES ASSUME pc' = "failed" PROVE FailedInv'
    BY DEF FailedInv
  <2>2. /\ wire = <<>>
        /\ UNCHANGED wire /\ UNCHANGED unconsumed /\ UNCHANGED buffered /\ UNCHANGED headers
        /\ UNCHANGED foundHeaderEnd /\ UNCHANGED contentLength /\ UNCHANGED body
    BY <1>1, <2>1 DEF ReadFails, parseVars
  <2>3. CASE pc = "header" /\ ~HasTerminator(buffered)
    BY <2>2, <2>3 DEF RefinementInv, ControlInv, FailedInv
  <2>4. CASE pc = "body" /\ Remaining > 0
    <3>1. Len(body) \in Nat /\ BodyLength(contentLength) \in Nat
      BY BodyLengthType, LenProperties DEF RefinementInv, TypeOK
    <3>2. Len(body) < BodyLength(contentLength)
      BY <2>4, <3>1 DEF Remaining
    <3>3. buffered = <<>> /\ contentLength \in ContentLengths(headers)
      BY <2>4, <3>1, <3>2 DEF RefinementInv, BodyInv
    <3>4. NoTerminator(headers) /\ foundHeaderEnd /\ unconsumed = <<>>
      BY <2>4 DEF RefinementInv, ControlInv, HeadersInv
    <3>. QED BY <2>2, <3>2, <3>3, <3>4 DEF FailedInv
  <2>. QED BY <1>1, <2>3, <2>4 DEF ReadFails
<1>2. CASE UNCHANGED vars
  BY <1>2 DEF vars, parseVars, FailedInv
<1>3. CASE ~ReadFails /\ ~UNCHANGED vars
  <2>1. pc' # "failed"
    BY <1>3 DEF RefinementInv, Next, Read, Begin, FindTerminator, ReadHeader, ParseHeaders,
                ReadBody, Finish, KeepAlive, CloseConnection
  <2>. QED BY <2>1 DEF FailedInv
<1>. QED BY <1>1, <1>2, <1>3

(* What is ahead of the finished requests is Rest.                         *)
LEMMA Ahead ==
  ASSUME TypeOK, BytesConserved, Rest \in Seq(Unit)
  PROVE  SubSeq(stream, Len(consumed) + 1, Len(stream)) = Rest
<1>. HIDE DEF Rest
<1>1. /\ consumed \in Seq(Unit) /\ <<>> \in Seq(Unit) /\ stream = consumed \o Rest
      /\ Len(consumed) \in Nat /\ Len(Rest) \in Nat
  BY EmptySeq, LenProperties DEF TypeOK, BytesConserved
<1>2. consumed \o Rest \in Seq(Unit) /\ Len(consumed \o Rest) = Len(consumed) + Len(Rest)
  BY <1>1, ConcatType, ConcatLen
<1>3. (consumed \o Rest) \o <<>> = consumed \o Rest
  BY <1>2, ConcatEmptySeq
<1>4. SubSeq(consumed \o Rest \o <<>>, Len(consumed) + 1, Len(consumed) + Len(Rest)) = Rest
  BY <1>1, Piece
<1>. QED BY <1>1, <1>2, <1>3, <1>4

LEMMA NoWholeRequest ==
  ASSUME RefinementInv, FailedInv, BytesConserved, pc = "failed"
  PROVE  ~WholeRequestInFront
<1>1. /\ wire = <<>> /\ unconsumed = <<>>
      /\ headers \in Seq(Unit) /\ body \in Seq(Unit) /\ buffered \in Seq(Unit)
      /\ <<>> \in Seq(Unit)
  BY EmptySeq DEF FailedInv, RefinementInv, TypeOK
<1>2. CASE ~foundHeaderEnd
  <2>1. Rest = <<>> \o buffered \o <<>> \o <<>>
    BY <1>1, <1>2 DEF Rest, InProgress
  <2>2. Rest = buffered
    BY <1>1, <2>1, ConcatEmptySeq
  <2>3. ~HasTerminator(Rest)
    BY <1>2, <2>2 DEF FailedInv
  <2>4. SubSeq(stream, Len(consumed) + 1, Len(stream)) = Rest
    BY <1>1, <2>2, Ahead DEF RefinementInv
  <2>. QED BY <2>3, <2>4 DEF WholeRequestInFront
<1>3. CASE foundHeaderEnd
  <2>. DEFINE T == HEADER_TERMINATOR
  <2>1. /\ NoTerminator(headers) /\ contentLength \in ContentLengths(headers)
        /\ Len(body) < BodyLength(contentLength) /\ buffered = <<>>
    BY <1>3 DEF FailedInv
  <2>2. /\ T \in Seq(Unit) /\ Len(T) = 2 /\ Len(headers) \in Nat /\ Len(body) \in Nat
        /\ BodyLength(contentLength) \in Nat
    BY <1>1, TerminatorType, LenProperties, BodyLengthType DEF RefinementInv, TypeOK
  <2>3. /\ headers \o T \in Seq(Unit) /\ headers \o T \o body \in Seq(Unit)
        /\ Len(headers \o T \o body) = Len(headers) + 2 + Len(body)
    <3>1. headers \o T \in Seq(Unit) /\ Len(headers \o T) = Len(headers) + 2
      BY <1>1, <2>2, ConcatType, ConcatLen
    <3>2. Len((headers \o T) \o body) = Len(headers \o T) + Len(body)
      BY <1>1, <3>1, ConcatLen
    <3>. QED BY <1>1, <3>1, <3>2, ConcatType
  <2>4. Rest = headers \o T \o body
    <3>1. Rest = (headers \o T \o body) \o <<>> \o <<>> \o <<>>
      BY <1>1, <1>3, <2>1 DEF Rest, InProgress
    <3>. QED BY <2>3, <3>1, ConcatEmptySeq
  <2>5. SubSeq(stream, Len(consumed) + 1, Len(stream)) = Rest
    BY <2>3, <2>4, Ahead DEF RefinementInv
  <2>6. PosTerminator(Rest) = Len(headers) + 1
    BY <1>1, <2>1, <2>4, FrontOfStream
  <2>7. SubSeq(Rest, 1, PosTerminator(Rest) - 1) = headers
    BY <1>1, <2>4, <2>6, HeadersAreCut
  <2>8. Len(Rest) = Len(headers) + 2 + Len(body)
    BY <2>3, <2>4
  <2>9. ~(Len(Rest) >= Len(headers) + 2 + BodyLength(contentLength))
    BY <2>1, <2>2, <2>8
  <2>. QED BY <2>1, <2>5, <2>7, <2>9 DEF WholeRequestInFront
<1>. QED BY <1>2, <1>3 DEF RefinementInv, TypeOK

(* Whatever the peer sends and whatever sizes the reads have, a connection *)
(* that is given up for want of bytes had no whole request ahead.          *)
THEOREM GivesUpForWantOfBytes == Spec => []GivesUpOnlyOnPartOfARequest
<1>1. Init => FailedInv
  BY DEF Init, FailedInv
<1>2. RefinementInv /\ FailedInv /\ [Next]_vars => FailedInv'
  BY FailedStep
<1>3. RefinementInv /\ [Next]_vars => RefinementInv'
  BY RefinementInvStep
<1>4. RefinementInv /\ FailedInv /\ BytesConserved => GivesUpOnlyOnPartOfARequest
  BY NoWholeRequest DEF GivesUpOnlyOnPartOfARequest
<1>. QED BY <1>1, <1>2, <1>3, <1>4, RefinementInvInit, EveryByteAccountedFor, PTL DEF Spec

-----------------------------------------------------------------------------
(* The reading of a stream comes to an end. What is left to do: the bytes  *)
(* not yet read, the steps to the end of the request under way, and those  *)
(* of the requests that may follow, each of which has at least the two     *)
(* units of a terminator.                                                  *)
StepsLeft == [s \in Step |->
  CASE s = "served" -> 5 [] s = "ready" -> 4 [] s = "header" -> 3 [] s = "parse" -> 2
    [] s = "body" -> 1 [] OTHER -> 0]

LeftToDo == 5 * (Len(stream) - Len(consumed)) + Len(wire) + StepsLeft[pc]

(* Every step does some of it: no read loop turns round without having     *)
(* taken bytes off the wire, and no request is finished without having     *)
(* taken its bytes out of the stream.                                      *)
AdvanceStep == LeftToDo \in Nat /\ LeftToDo' \in Nat /\ LeftToDo' < LeftToDo
ReadingAdvances == [][AdvanceStep]_vars

LEMMA StepsLeftType == \A s \in Step : StepsLeft[s] \in 0 .. 5
BY DEF StepsLeft, Step

LEMMA LeftToDoType ==
  ASSUME TypeOK, BytesConserved, Rest \in Seq(Unit)
  PROVE  LeftToDo \in Nat
<1> HIDE DEF Rest
<1>1. PICK s \in Nat, d \in Nat, r \in Nat, w \in Nat, k \in Nat :
        /\ s = Len(stream) /\ d = Len(consumed) /\ r = Len(Rest)
        /\ w = Len(wire) /\ k = StepsLeft[pc]
  <2>1. StepsLeft[pc] \in Nat
    BY StepsLeftType DEF TypeOK
  <2>2. /\ Len(stream) \in Nat /\ Len(consumed) \in Nat
        /\ Len(Rest) \in Nat /\ Len(wire) \in Nat
    BY LenProperties DEF TypeOK
  <2>3. QED
    BY <2>1, <2>2
<1>2. s = d + r
  BY <1>1, ConcatLen DEF TypeOK, BytesConserved
<1>3. LeftToDo = 5 * (s - d) + w + k
  BY <1>1 DEF LeftToDo
<1>4. QED
  BY <1>1, <1>2, <1>3

LEMMA RestType ==
  ASSUME TypeOK
  PROVE  Rest \in Seq(Unit)
<1>1. headers \o HEADER_TERMINATOR \in Seq(Unit)
  BY TerminatorType, ConcatType DEF TypeOK
<1>2. headers \o HEADER_TERMINATOR \o body \in Seq(Unit) /\ <<>> \in Seq(Unit)
  BY <1>1, ConcatType, EmptySeq DEF TypeOK
<1>3. PICK f \in Seq(Unit) :
        f = IF foundHeaderEnd THEN headers \o HEADER_TERMINATOR \o body ELSE <<>>
  BY <1>2
<1>4. f \o buffered \in Seq(Unit)
  BY <1>3, ConcatType DEF TypeOK
<1>5. f \o buffered \o unconsumed \in Seq(Unit)
  BY <1>4, ConcatType DEF TypeOK
<1>6. f \o buffered \o unconsumed \o wire \in Seq(Unit)
  BY <1>5, ConcatType DEF TypeOK
<1>7. QED
  BY <1>3, <1>6 DEF Rest, InProgress

(* A read takes at least one unit off the wire.                            *)
LEMMA ReadTakes ==
  ASSUME TypeOK, NEW m \in Nat, NEW n \in 1 .. Smaller(m, Len(wire)),
         wire' = SubSeq(wire, n + 1, Len(wire))
  PROVE  Len(wire') < Len(wire)
<1>1. PICK w \in Nat : w = Len(wire)
  BY LenProperties DEF TypeOK
<1>2. n \in 1 .. w /\ n \in Nat
  BY <1>1 DEF Smaller
<1>3. Len(wire') = w - n
  <2>1. n + 1 \in Int /\ w \in Int /\ \A i \in n + 1 .. w : wire[i] \in Unit
    BY <1>1, <1>2, ElementOfSeq DEF TypeOK
  <2>2. Len(SubSeq(wire, n + 1, w)) = IF n + 1 <= w THEN w - (n + 1) + 1 ELSE 0
    BY <2>1, SubSeqProperties
  <2>3. QED
    BY <1>1, <1>2, <2>2
<1>4. QED
  BY <1>1, <1>2, <1>3

(* Fewer units or fewer steps, and not more of the other, is less to do.    *)
LEMMA LessOfOne ==
  ASSUME NEW e \in Int, NEW v \in Nat, NEW w \in Nat, NEW j \in Nat, NEW k \in Nat,
         v <= w, j <= k, v < w \/ j < k
  PROVE  5 * e + v + j < 5 * e + w + k
<1>1. CASE v < w
  BY <1>1
<1>2. CASE j < k
  BY <1>2
<1>3. QED
  BY <1>1, <1>2

(* The steps that stay in a request or leave the loop.                     *)
LEMMA StepsWithinRequest ==
  ASSUME TypeOK, TypeOK', Len(wire') <= Len(wire), Len(wire') < Len(wire) \/
           StepsLeft[pc'] < StepsLeft[pc], StepsLeft[pc'] <= StepsLeft[pc],
         UNCHANGED stream, UNCHANGED consumed
  PROVE  LeftToDo' < LeftToDo
<1>1. PICK s \in Nat, d \in Nat, v \in Nat, w \in Nat, j \in Nat, k \in Nat :
        /\ s = Len(stream) /\ d = Len(consumed)
        /\ v = Len(wire') /\ w = Len(wire) /\ j = StepsLeft[pc'] /\ k = StepsLeft[pc]
  <2>1. StepsLeft[pc] \in Nat /\ StepsLeft[pc'] \in Nat
    <3>1. pc \in Step /\ pc' \in Step
      BY DEF TypeOK
    <3>2. QED
      BY <3>1, StepsLeftType
  <2>2. /\ Len(stream) \in Nat /\ Len(consumed) \in Nat
        /\ Len(wire) \in Nat /\ Len(wire') \in Nat
    BY LenProperties DEF TypeOK
  <2>3. QED
    BY <2>1, <2>2
<1>2. LeftToDo = 5 * (s - d) + w + k /\ LeftToDo' = 5 * (s - d) + v + j
  BY <1>1 DEF LeftToDo
<1>3. v <= w /\ j <= k /\ (v < w \/ j < k)
  BY <1>1
<1>4. PICK e \in Int : e = s - d
  OBVIOUS
<1>5. 5 * e + v + j < 5 * e + w + k
  BY <1>3, LessOfOne
<1>6. QED
  BY <1>2, <1>4, <1>5

LEMMA FinishAdvances ==
  ASSUME TypeOK, TypeOK', Finish
  PROVE  LeftToDo' < LeftToDo
<1>1. PICK s \in Nat, d \in Nat, w \in Nat, h \in Nat, b \in Nat :
        /\ s = Len(stream) /\ d = Len(consumed) /\ w = Len(wire)
        /\ h = Len(headers) /\ b = Len(body)
  BY LenProperties DEF TypeOK
<1>2. Len(consumed') = ((d + h) + 2) + b
  <2>1. consumed \o headers \in Seq(Unit) /\ Len(consumed \o headers) = d + h
    BY <1>1, ConcatType, ConcatLen DEF TypeOK
  <2>2. /\ (consumed \o headers) \o HEADER_TERMINATOR \in Seq(Unit)
        /\ Len((consumed \o headers) \o HEADER_TERMINATOR) = (d + h) + 2
    BY <2>1, TerminatorType, ConcatType, ConcatLen
  <2>3. Len(((consumed \o headers) \o HEADER_TERMINATOR) \o body) = ((d + h) + 2) + b
    BY <1>1, <2>2, ConcatLen DEF TypeOK
  <2>4. QED
    BY <2>3 DEF Finish
<1>3. StepsLeft[pc] = 1 /\ StepsLeft[pc'] \in 0 .. 5
  BY StepsLeftType DEF Finish, StepsLeft, Step, TypeOK
<1>4. UNCHANGED stream /\ UNCHANGED wire
  BY DEF Finish
<1>5. PICK j \in 0 .. 5 : j = StepsLeft[pc']
  BY <1>3
<1>6. LeftToDo = 5 * (s - d) + w + 1 /\ LeftToDo' = 5 * (s - (((d + h) + 2) + b)) + w + j
  BY <1>1, <1>2, <1>3, <1>4, <1>5 DEF LeftToDo
<1>7. 5 * (s - (((d + h) + 2) + b)) + w + j < 5 * (s - d) + w + 1
  OBVIOUS
<1>8. QED
  BY <1>6, <1>7

LEMMA AdvancesOrStutters ==
  ASSUME TypeOK, TypeOK', Next
  PROVE  LeftToDo' < LeftToDo
<1>1. Len(wire) \in Nat
  BY LenProperties DEF TypeOK
<1>2. CASE Begin \/ FindTerminator \/ ParseHeaders \/ ReadFails \/ KeepAlive
           \/ CloseConnection
  <2>1. UNCHANGED wire /\ UNCHANGED stream /\ UNCHANGED consumed
    BY <1>2 DEF Begin, FindTerminator, ParseHeaders, ReadFails, KeepAlive,
                CloseConnection, resultVars, parseVars
  <2>2. StepsLeft[pc'] < StepsLeft[pc] /\ StepsLeft[pc'] <= StepsLeft[pc]
    BY <1>2 DEF Begin, FindTerminator, ParseHeaders, ReadFails, KeepAlive,
                CloseConnection, StepsLeft, Step
  <2>3. QED
    BY <1>1, <2>1, <2>2, StepsWithinRequest
<1>3. CASE ReadHeader \/ ReadBody
  <2>1. PICK m \in Nat : \E n \in 1 .. Smaller(m, Len(wire)) :
          wire' = SubSeq(wire, n + 1, Len(wire))
    <3>1. CASE ReadHeader
      BY <3>1, ChunkAssumption DEF ReadHeader
    <3>2. CASE ReadBody
      <4>1. Len(body) \in Nat /\ BodyLength(contentLength) \in Nat
        BY LenProperties, BodyLengthType DEF TypeOK
      <4>2. Remaining \in Int /\ Remaining > 0
        BY <3>2, <4>1 DEF ReadBody, Remaining
      <4>3. Smaller(ChunkSize, Remaining) \in Nat
        BY <4>2, ChunkAssumption DEF Smaller
      <4>4. QED
        BY <3>2, <4>3 DEF ReadBody
    <3>3. QED
      BY <1>3, <3>1, <3>2
  <2>2. Len(wire') < Len(wire)
    BY <2>1, ReadTakes
  <2>3. UNCHANGED pc /\ UNCHANGED stream /\ UNCHANGED consumed
    BY <1>3 DEF ReadHeader, ReadBody, resultVars
  <2>4. Len(wire') \in Nat /\ StepsLeft[pc] \in 0 .. 5
    BY LenProperties, StepsLeftType DEF TypeOK
  <2>5. QED
    BY <1>1, <2>2, <2>3, <2>4, StepsWithinRequest
<1>4. CASE Finish
  BY <1>4, FinishAdvances
<1>5. QED
  BY <1>2, <1>3, <1>4 DEF Next, Read

(* On a stream of any length, however it is cut into reads, the connection *)
(* is done with after a bounded number of steps: there is no input on      *)
(* which the loops of streamFromConnection, or the keep-alive loop around  *)
(* them, turn for ever.                                                    *)
THEOREM ReadingTerminates == Spec => ReadingAdvances
<1> DEFINE Counts == LeftToDo \in Nat
<1>1. TypeOK /\ BytesConserved => Counts
  BY LeftToDoType, RestType
<1>2. TypeOK /\ TypeOK' /\ Counts /\ Counts' /\ [Next]_vars => [AdvanceStep]_vars
  BY AdvancesOrStutters DEF AdvanceStep
<1> HIDE DEF Counts
<1>3. QED
  BY <1>1, <1>2, TypeCorrect, EveryByteAccountedFor, PTL DEF Spec, ReadingAdvances

=============================================================================
