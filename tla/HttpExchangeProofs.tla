------------------------- MODULE HttpExchangeProofs -------------------------
(***************************************************************************)
(* Proofs about HttpExchange.tla, for every set of answers and bodies, any *)
(* number of calls, every chunk size and any number of server threads: its *)
(* types, that a call gives what the server answered, that it fails only   *)
(* when there is no whole answer, who owns the connection, and that client *)
(* and server do not wait for each other.                                  *)
(***************************************************************************)
EXTENDS HttpExchange, HttpBytesProofs

-----------------------------------------------------------------------------
(* What is written.                                                        *)

(* The head up to the blank line.                                          *)
Front(n) == IF n >= 0 THEN <<RequestLine, EOL, LengthLine(n)>> ELSE <<RequestLine>>

LEMMA FrontType ==
  ASSUME NEW n \in Int
  PROVE  /\ Front(n) \in Seq(Unit)
         /\ NoTerminator(Front(n))
         /\ ContentLengths(Front(n)) = {IF n >= 0 THEN n ELSE -1}
<1>1. RequestLine \in Unit /\ EOL \in Unit /\ LengthLine(n) \in Unit
  BY DEF RequestLine, EOL, LengthLine, Unit
<1>2. /\ RequestLine.kind = "line" /\ EOL.kind = "eol" /\ LengthLine(n).kind = "length"
      /\ LengthLine(n).val = n
  BY DEF RequestLine, EOL, LengthLine
<1>3. RequestLine # EOL /\ LengthLine(n) # EOL
  BY <1>2
<1>4. EOL = HEADER_TERMINATOR[1] /\ EOL = HEADER_TERMINATOR[2]
  BY DEF HEADER_TERMINATOR
<1>5. CASE n >= 0
  <2> DEFINE f == <<RequestLine, EOL, LengthLine(n)>>
  <2>1. /\ f \in Seq(Unit) /\ Len(f) = 3 /\ 1 .. 3 = {1, 2, 3}
        /\ f[1] = RequestLine /\ f[2] = EOL /\ f[3] = LengthLine(n)
    BY <1>1
  <2> HIDE DEF f
  <2>2. \A i \in 1 .. 3 : f[i].kind = "length" <=> i = 3
    BY <1>2, <2>1
  <2>3. ContentLengths(f) = {n}
    BY <1>2, <2>1, <2>2 DEF ContentLengths
  <2> DEFINE g == f \o HEADER_TERMINATOR
  <2>4. g[1] = f[1] /\ g[3] = f[3]
    <3>1. \A j \in 1 .. Len(f) + 2 : g[j] = IF j <= Len(f) THEN f[j] ELSE HEADER_TERMINATOR[j - Len(f)]
      BY <2>1, TerminatorType, ConcatElements
    <3> HIDE DEF g
    <3>2. 1 \in 1 .. Len(f) + 2 /\ 3 \in 1 .. Len(f) + 2 /\ 1 <= Len(f) /\ 3 <= Len(f)
      BY <2>1
    <3>3. QED
      BY <3>1, <3>2
  <2> HIDE DEF g
  <2>5. NoTerminator(f)
    <3>1. \A i \in {1, 2, 3} : ~(g[i] = EOL /\ g[i + 1] = EOL)
      BY <1>3, <2>1, <2>4
    <3>2. QED
      BY <2>1, <3>1 DEF NoTerminator, TerminatorAt, g
  <2>6. QED
    BY <1>5, <2>1, <2>3, <2>5 DEF Front, f
<1>6. CASE ~(n >= 0)
  <2> DEFINE f == <<RequestLine>>
  <2>1. f \in Seq(Unit) /\ Len(f) = 1 /\ 1 .. 1 = {1} /\ f[1] = RequestLine
    BY <1>1
  <2> HIDE DEF f
  <2>2. ContentLengths(f) = {-1}
    BY <1>2, <2>1 DEF ContentLengths
  <2>3. \A j \in 1 .. 3 : (f \o HEADER_TERMINATOR)[j]
          = IF j <= 1 THEN f[j] ELSE HEADER_TERMINATOR[j - 1]
    BY <2>1, TerminatorType, ConcatElements
  <2>4. NoTerminator(f)
    BY <1>3, <2>1, <2>3 DEF NoTerminator, TerminatorAt
  <2>5. QED
    BY <1>6, <2>1, <2>2, <2>4 DEF Front, f
<1>7. QED
  BY <1>5, <1>6

LEMMA HeadForm ==
  ASSUME NEW n \in Int
  PROVE  /\ RequestHead(n) = Front(n) \o HEADER_TERMINATOR
         /\ RequestHead(n) \in Seq(Unit)
<1>1. RequestLine \in Unit /\ EOL \in Unit /\ LengthLine(n) \in Unit
  BY DEF RequestLine, EOL, LengthLine, Unit
<1>2. RequestHead(n) = Front(n) \o HEADER_TERMINATOR
  <2>1. CASE n >= 0
    BY <2>1 DEF RequestHead, Front, HEADER_TERMINATOR
  <2>2. CASE ~(n >= 0)
    BY <2>2 DEF RequestHead, Front, HEADER_TERMINATOR
  <2>3. QED
    BY <2>1, <2>2
<1>3. QED
  BY <1>2, FrontType, TerminatorType, ConcatType

LEMMA PostType ==
  ASSUME NEW d \in Seq(Unit)
  PROVE  PostPayload(d) \in Seq(Unit)
<1>1. (IF d = <<>> THEN -1 ELSE Len(d)) \in Int
  BY LenProperties
<1>2. QED
  BY <1>1, HeadForm, ConcatType DEF PostPayload

(* A head with at least as many units behind it as it says is a whole      *)
(* request.                                                                *)
LEMMA HeadIsWhole ==
  ASSUME NEW n \in Int, NEW tail \in Seq(Unit), Len(tail) >= n
  PROVE  Whole(RequestHead(n) \o tail)
<1> DEFINE b == RequestHead(n) \o tail
           f == Front(n)
           l == IF n >= 0 THEN n ELSE -1
           p == Len(f) + 1
<1>1. /\ f \in Seq(Unit) /\ NoTerminator(f) /\ ContentLengths(f) = {l}
      /\ b = f \o HEADER_TERMINATOR \o tail
  BY FrontType, HeadForm
<1>2. Len(f) \in Nat /\ Len(tail) \in Nat /\ BodyLength(l) \in Nat
  BY <1>1, LenProperties DEF BodyLength
<1>3. BodyLength(l) <= Len(tail)
  BY <1>2 DEF BodyLength
<1> HIDE DEF f, l
<1>4. /\ HasTerminator(b) /\ PosTerminator(b) = p
  BY <1>1, FrontOfStream
<1>5. /\ f \o HEADER_TERMINATOR \in Seq(Unit) /\ b \in Seq(Unit)
      /\ Len(b) = Len(f) + 2 + Len(tail)
  <2>1. f \o HEADER_TERMINATOR \in Seq(Unit) /\ Len(f \o HEADER_TERMINATOR) = Len(f) + 2
    BY <1>1, TerminatorType, ConcatType, ConcatLen
  <2>2. b \in Seq(Unit) /\ Len(b) = Len(f \o HEADER_TERMINATOR) + Len(tail)
    BY <1>1, <2>1, ConcatType, ConcatLen
  <2>3. QED
    BY <2>1, <2>2
<1>6. SubSeq(b, 1, p - 1) = f
  <2>1. SubSeq(f \o HEADER_TERMINATOR \o tail, 1, Len(f) + 1 - 1) = f
    BY <1>1, HeadersAreCut
  <2> HIDE DEF b
  <2>2. QED
    BY <1>1, <2>1
<1> HIDE DEF b
<1>7. Framed(b, p, BodyLength(l))
  <2>1. l \in ContentLengths(SubSeq(b, 1, p - 1))
    BY <1>1, <1>6
  <2>2. Len(b) >= p + 1 + BodyLength(l)
    BY <1>2, <1>3, <1>5
  <2> HIDE DEF p
  <2>3. QED
    BY <1>4, <2>1, <2>2 DEF Framed
<1>8. p \in 1 .. Len(b) /\ BodyLength(l) \in 0 .. Len(b)
  BY <1>2, <1>3, <1>5
<1>9. QED
  BY <1>7, <1>8 DEF Whole, b

-----------------------------------------------------------------------------
(* Types.                                                                  *)

LEMMA ExchangeTypeInit == ExchangeInit => ExchangeTypeOK
<1>1. <<>> \in Seq(Unit)
  BY EmptySeq
<1>2. NoResult \in Results
  BY <1>1 DEF NoResult, Results
<1>3. -1 \in Int /\ 0 \in 0 .. MaxCalls /\ 0 \in Nat
  BY ExchangeAssumption
<1>4. QED
  BY <1>1, <1>2, <1>3, Zenon DEF ExchangeInit, ExchangeTypeOK, Methods

(* What the end of a call leaves has its type.                             *)
LEMMA LeaveType ==
  ASSUME Leave
  PROVE  /\ buffered' \in Seq(Unit) /\ foundHeaderEnd' \in BOOLEAN /\ headers' \in Seq(Unit)
         /\ contentLength' \in Nat /\ body' \in Seq(Unit) /\ pc' = "done"
BY EmptySeq DEF Leave

LEMMA RaiseType ==
  ASSUME NEW kind \in {"failed", "broken", "http"}, NEW status \in Int, Raise(kind, status)
  PROVE  Leave /\ result' \in Results /\ socket' = "none"
BY EmptySeq DEF Raise, Results

(* The status of the headers read, or any, is a number.                    *)
LEMMA StatusType ==
  ASSUME ExchangeTypeOK, NEW status \in Statuses
  PROVE  status \in Int
<1>1. CASE HasStatus
  <2>1. headers \in Seq(Unit) /\ headers # <<>> /\ status = headers[1].val
    BY <1>1 DEF HasStatus, Statuses, ExchangeTypeOK
  <2>2. headers[1] \in Unit
    BY <2>1, ElementOfSeq, LenProperties, EmptySeq
  <2>3. QED
    BY <2>1, <2>2 DEF Unit
<1>2. CASE ~HasStatus
  BY <1>2, ExchangeAssumption DEF Statuses
<1>3. QED
  BY <1>1, <1>2

(* What the two reading actions that take bytes off the wire do.           *)
LEMMA ReadHeaderMoves ==
  ASSUME ExchangeTypeOK, ReadHeader
  PROVE  /\ buffered' \in Seq(Unit) /\ wire' \in Seq(Unit)
         /\ buffered' \o wire' = buffered \o wire
<1>1. PICK n \in 1 .. Smaller(ChunkSize, Len(wire)) :
        /\ buffered' = buffered \o SubSeq(wire, 1, n)
        /\ wire' = SubSeq(wire, n + 1, Len(wire))
  BY DEF ReadHeader
<1>2. /\ wire \in Seq(Unit) /\ buffered \in Seq(Unit) /\ ChunkSize \in Nat
      /\ n \in 0 .. Smaller(ChunkSize, Len(wire))
  BY ExchangeAssumption, LenProperties DEF ExchangeTypeOK, Smaller
<1>3. SubSeq(wire, 1, n) \in Seq(Unit) /\ wire' \in Seq(Unit) /\ SubSeq(wire, 1, n) \o wire' = wire
  BY <1>1, <1>2, Chunk
<1>4. buffered' \in Seq(Unit)
  BY <1>1, <1>2, <1>3, ConcatType
<1>5. (buffered \o SubSeq(wire, 1, n)) \o wire' = buffered \o (SubSeq(wire, 1, n) \o wire')
  BY <1>2, <1>3, Regroup
<1>6. QED
  BY <1>1, <1>3, <1>4, <1>5

LEMMA ReadBodyMoves ==
  ASSUME ExchangeTypeOK, ReadBody
  PROVE  /\ body' \in Seq(Unit) /\ wire' \in Seq(Unit)
         /\ body' \o wire' = body \o wire
         /\ Len(body) < contentLength /\ Len(body') <= contentLength
<1>1. PICK n \in 1 .. Smaller(Smaller(ChunkSize, Remaining), Len(wire)) :
        /\ body' = body \o SubSeq(wire, 1, n)
        /\ wire' = SubSeq(wire, n + 1, Len(wire))
  BY DEF ReadBody
<1>2. /\ wire \in Seq(Unit) /\ Len(wire) \in Nat
      /\ body \in Seq(Unit) /\ Len(body) \in Nat /\ contentLength \in Nat
  BY LenProperties DEF ExchangeTypeOK
<1>3. Remaining \in Nat /\ Len(body) < contentLength
  BY <1>2 DEF ReadBody, Remaining
<1>4. /\ Smaller(ChunkSize, Remaining) \in Nat
      /\ n \in 0 .. Smaller(Smaller(ChunkSize, Remaining), Len(wire))
      /\ n <= Remaining
  BY <1>2, <1>3, ExchangeAssumption DEF Smaller
<1>5. /\ SubSeq(wire, 1, n) \in Seq(Unit) /\ Len(SubSeq(wire, 1, n)) = n
      /\ wire' \in Seq(Unit) /\ SubSeq(wire, 1, n) \o wire' = wire
  BY <1>1, <1>2, <1>4, Chunk
<1>6. body' \in Seq(Unit) /\ Len(body') = Len(body) + n
  BY <1>1, <1>2, <1>5, ConcatType, ConcatLen
<1>7. (body \o SubSeq(wire, 1, n)) \o wire' = body \o (SubSeq(wire, 1, n) \o wire')
  BY <1>2, <1>5, Regroup
<1>8. Len(body) + n <= contentLength
  BY <1>2, <1>4 DEF Remaining
<1>9. QED
  BY <1>1, <1>3, <1>5, <1>6, <1>7, <1>8

(* What ParseHeaders takes out of the buffer.                              *)
LEMMA ParseHeadersMoves ==
  ASSUME ExchangeTypeOK, ParseHeaders
  PROVE  /\ body' \in Seq(Unit) /\ buffered' \in Seq(Unit) /\ body' \o buffered' = buffered
         /\ contentLength' \in Nat
         /\ \E l \in ContentLengths(headers) : contentLength' = BodyLength(l)
         /\ Len(body') <= contentLength'
         /\ buffered' = <<>> \/ Len(body') = contentLength'
<1>1. PICK l \in ContentLengths(headers) :
        LET fromBuffer == Smaller(Len(buffered), BodyLength(l))
        IN /\ contentLength' = BodyLength(l)
           /\ body' = SubSeq(buffered, 1, fromBuffer)
           /\ buffered' = SubSeq(buffered, fromBuffer + 1, Len(buffered))
  BY DEF ParseHeaders
<1>2. buffered \in Seq(Unit) /\ BodyLength(l) \in Nat
  BY ContentLengthsType, BodyLengthType DEF ExchangeTypeOK
<1>3. QED
  BY <1>1, <1>2, Take

(* Every step preserves the types.                                         *)
LEMMA ExchangeStepType ==
  ASSUME ExchangeTypeOK, [ExchangeNext]_vars
  PROVE  ExchangeTypeOK'
<1> DEFINE CallTyped == /\ hasRequest \in BOOLEAN /\ argumentLength \in Int
                        /\ calls \in 0 .. MaxCalls
                        /\ method \in Methods /\ data \in Seq(Unit)
           SocketTyped == socket \in {"none", "open", "failed"} /\ written \in Seq(Unit)
           PeerTyped == /\ peer \in {"queued", "reading", "answered", "closed"}
                        /\ answer \in Seq(Unit) /\ wire \in Seq(Unit)
           ReadTyped == /\ buffered \in Seq(Unit) /\ foundHeaderEnd \in BOOLEAN
                        /\ headers \in Seq(Unit) /\ contentLength \in Nat /\ body \in Seq(Unit)
           Steps == {"idle", "write", "eol", "data", "header", "parse", "fill", "done"}
           ResultTyped == result \in Results /\ pc \in Steps
<1>0. /\ CallTyped /\ SocketTyped /\ PeerTyped /\ ReadTyped /\ ResultTyped
      /\ (CallTyped' /\ SocketTyped' /\ PeerTyped' /\ ReadTyped' /\ ResultTyped')
           => ExchangeTypeOK'
  BY DEF ExchangeTypeOK
<1>u. /\ UNCHANGED callVars => CallTyped'
      /\ UNCHANGED socket /\ UNCHANGED written => SocketTyped'
      /\ UNCHANGED peerVars /\ UNCHANGED wire => PeerTyped'
      /\ UNCHANGED readVars => ReadTyped'
      /\ UNCHANGED result /\ UNCHANGED pc => ResultTyped'
  BY <1>0 DEF callVars, peerVars, readVars
<1>e. <<>> \in Seq(Unit)
  BY EmptySeq
<1>1. CASE CreateRequest \/ DeleteRequest
  <2>1. -1 \in Int
    OBVIOUS
  <2>2. CallTyped'
    BY <1>0, <1>1, <2>1, Zenon DEF CreateRequest, DeleteRequest
  <2>3. QED
    BY <1>0, <1>u, <1>1, <2>2, Zenon DEF CreateRequest, DeleteRequest
<1>2. CASE \E m \in Methods, d \in Data \cup {<<>>} : BeginCall(m, d)
  <2>1. PICK m \in Methods, d \in Data \cup {<<>>} : BeginCall(m, d)
    BY <1>2
  <2>2. d \in Seq(Unit)
    BY <1>e, ExchangeAssumption
  <2>3. calls' \in 0 .. MaxCalls
    BY <1>0, <2>1, ExchangeAssumption DEF BeginCall
  <2>4. CallTyped'
    BY <1>0, <2>1, <2>2, <2>3, Zenon DEF BeginCall
  <2>5. SocketTyped' /\ PeerTyped'
    BY <1>e, <2>1, Zenon DEF BeginCall
  <2>6. ResultTyped'
    <3>1. NoResult \in Results /\ [kind |-> "broken", status |-> 0, body |-> <<>>] \in Results
      BY <1>e DEF NoResult, Results
    <3>2. \/ result' = NoResult /\ pc' = "write"
          \/ result' = [kind |-> "broken", status |-> 0, body |-> <<>>] /\ pc' = "done"
      BY <2>1, Zenon DEF BeginCall
    <3>3. QED
      BY <3>1, <3>2, Zenon
  <2>7. QED
    BY <1>0, <1>u, <2>1, <2>4, <2>5, <2>6, Zenon DEF BeginCall
<1>3. CASE WriteHead
  <2>1. HeadLength \in Int /\ HeadLength \in Int
    BY <1>0, LenProperties DEF HeadLength
  <2>2. RequestHead(HeadLength) \in Seq(Unit) /\ PostPayload(data) \in Seq(Unit)
    BY <1>0, <2>1, HeadForm, PostType
  <2>3. CallTyped' /\ SocketTyped'
    BY <1>0, <1>3, <2>1, <2>2, Zenon DEF WriteHead
  <2>4. ResultTyped'
    BY <1>0, <1>3, Zenon DEF WriteHead
  <2>5. QED
    BY <1>0, <1>u, <1>3, <2>3, <2>4, Zenon DEF WriteHead
<1>4. CASE WriteEol \/ WriteData
  <2>1. <<EOL>> \in Seq(Unit)
    BY DEF EOL, Unit
  <2>2. SocketTyped'
    BY <1>0, <1>4, <2>1, ConcatType, Zenon DEF WriteEol, WriteData
  <2>3. ResultTyped'
    BY <1>0, <1>4, Zenon DEF WriteEol, WriteData
  <2>4. QED
    BY <1>0, <1>u, <1>4, <2>2, <2>3, Zenon DEF WriteEol, WriteData
<1>5. CASE WriteFails
  <2>1. argumentLength' \in Int
    BY <1>0, <1>5, LenProperties DEF WriteFails
  <2>2. /\ UNCHANGED hasRequest /\ UNCHANGED calls /\ UNCHANGED method /\ UNCHANGED data
        /\ UNCHANGED written
        /\ socket' \in {"none", "failed", socket}
    BY <1>5 DEF WriteFails
  <2>3. CallTyped' /\ SocketTyped'
    BY <1>0, <2>1, <2>2
  <2>4. ResultTyped'
    <3>1. [kind |-> "null", status |-> 0, body |-> <<>>] \in Results
      BY <1>e DEF Results
    <3>2. /\ pc' = "done" \/ pc' = "header"
          /\ result' = [kind |-> "null", status |-> 0, body |-> <<>>] \/ result' = result
      BY <1>5, Zenon DEF WriteFails
    <3>3. QED
      BY <1>0, <3>1, <3>2, Zenon
  <2>5. QED
    BY <1>0, <1>u, <1>5, <2>3, <2>4, Zenon DEF WriteFails
<1>6. CASE ReadHeader
  <2>1. PeerTyped' /\ ReadTyped'
    BY <1>0, <1>6, ReadHeaderMoves DEF ReadHeader, peerVars
  <2>2. QED
    BY <1>0, <1>u, <1>6, <2>1, Zenon DEF ReadHeader
<1>7. CASE FindTerminator
  <2>1. headers' \in Seq(Unit) /\ buffered' \in Seq(Unit)
    BY <1>0, <1>7, CutAtTerminator DEF FindTerminator
  <2>2. ReadTyped' /\ ResultTyped'
    BY <1>0, <1>7, <2>1, Zenon DEF FindTerminator
  <2>3. QED
    BY <1>0, <1>u, <1>7, <2>2, Zenon DEF FindTerminator
<1>8. CASE ParseHeaders
  <2>1. ReadTyped' /\ ResultTyped'
    BY <1>0, <1>8, ParseHeadersMoves DEF ParseHeaders
  <2>2. QED
    BY <1>0, <1>u, <1>8, <2>1, Zenon DEF ParseHeaders
<1>9. CASE ReadBody
  <2>1. PeerTyped' /\ ReadTyped'
    BY <1>0, <1>9, ReadBodyMoves DEF ReadBody, peerVars
  <2>2. QED
    BY <1>0, <1>u, <1>9, <2>1, Zenon DEF ReadBody
<1>10. CASE ReadEnds \/ Breaks
  <2>1. \E kind \in {"failed", "broken", "http"}, status \in Int : Raise(kind, status)
    <3>1. 0 \in Int
      OBVIOUS
    <3>2. QED
      BY <1>10, <3>1, Zenon DEF ReadEnds, Breaks
  <2>2. Leave /\ result' \in Results /\ socket' = "none"
    BY <2>1, RaiseType, Zenon
  <2>3. ReadTyped' /\ ResultTyped'
    BY <2>2, LeaveType, Zenon
  <2>4. QED
    BY <1>0, <1>u, <1>10, <2>2, <2>3, Zenon DEF ReadEnds, Breaks
<1>11. CASE ReturnResponse
  <2>1. PICK status \in Statuses :
          \/ Raise("http", status) \/ Raise("failed", 0)
          \/ /\ result' = [kind |-> "response", status |-> status, body |-> body]
             /\ Leave
             /\ UNCHANGED socket
    BY <1>11, Zenon DEF ReturnResponse
  <2>2. status \in Int /\ 0 \in Int
    BY StatusType
  <2>3. /\ Leave /\ result' \in Results
        /\ socket' = "none" \/ socket' = socket
    <3>1. CASE Raise("http", status) \/ Raise("failed", 0)
      BY <2>2, <3>1, RaiseType, Zenon
    <3>2. CASE /\ result' = [kind |-> "response", status |-> status, body |-> body]
               /\ Leave
               /\ UNCHANGED socket
      BY <1>0, <2>2, <3>2 DEF Results
    <3>3. QED
      BY <2>1, <3>1, <3>2
  <2>4. ReadTyped' /\ ResultTyped'
    BY <2>3, LeaveType, Zenon
  <2>5. SocketTyped'
    BY <1>0, <1>11, <2>3, Zenon DEF ReturnResponse
  <2>6. QED
    BY <1>0, <1>u, <1>11, <2>4, <2>5, Zenon DEF ReturnResponse
<1>12. CASE EndCall
  <2>1. SocketTyped' /\ ResultTyped'
    BY <1>0, <1>12, Zenon DEF EndCall
  <2>2. QED
    BY <1>0, <1>u, <1>12, <2>1, Zenon DEF EndCall
<1>13. CASE TakeUp \/ Answer \/ PeerCloses
  <2>1. PeerTyped'
    BY <1>0, <1>13, ExchangeAssumption DEF TakeUp, Answer, PeerCloses
  <2>2. QED
    BY <1>0, <1>u, <1>13, <2>1, Zenon DEF TakeUp, Answer, PeerCloses
<1>14. CASE UNCHANGED vars
  BY <1>0, <1>u, <1>14, Zenon DEF vars
<1>15. QED
  BY <1>1, <1>2, <1>3, <1>4, <1>5, <1>6, <1>7, <1>8, <1>9, <1>10, <1>11, <1>12, <1>13, <1>14
     DEF ExchangeNext, CallStep, WriteStep, ReadStep

(* The types hold in every behaviour.                                      *)
THEOREM ExchangeTypeCorrect == ExchangeSpec => []ExchangeTypeOK
<1>1. ExchangeTypeOK /\ [ExchangeNext]_vars => ExchangeTypeOK'
  BY ExchangeStepType
<1>2. QED
  BY <1>1, ExchangeTypeInit, PTL DEF ExchangeSpec

-----------------------------------------------------------------------------
(* Who owns the connection.                                                *)

(* Only a connection that is there is written to after the head and read;  *)
(* a call under way has no result yet.                                     *)
OwnerInv ==
  /\ pc = "idle" => socket = "none"
  /\ pc = "header" => socket \in {"open", "failed"}
  /\ pc \in {"write", "eol", "data", "parse", "fill"} => socket = "open"
  /\ pc = "done" => socket = IF result.kind = "response" THEN "open" ELSE "none"
  /\ pc \notin {"idle", "done"} => result.kind = "none"
  /\ socket = "failed" => buffered = <<>>
  /\ pc \notin {"header", "parse", "fill"} => buffered = <<>>

LEMMA OwnerStep ==
  ASSUME ExchangeTypeOK, OwnerInv, [ExchangeNext]_vars
  PROVE  OwnerInv'
<1> USE DEF OwnerInv
<1>1. CASE CreateRequest \/ DeleteRequest \/ TakeUp \/ Answer \/ PeerCloses \/ UNCHANGED vars
  <2>1. UNCHANGED <<socket, buffered, result, pc>>
    BY <1>1 DEF CreateRequest, DeleteRequest, TakeUp, Answer, PeerCloses, vars, readVars
  <2>2. QED
    BY <2>1
<1>2. CASE \E m \in Methods, d \in Data \cup {<<>>} : BeginCall(m, d)
  BY <1>2 DEF BeginCall, NoResult, readVars
<1>3. CASE WriteHead \/ WriteEol \/ WriteData
  BY <1>3 DEF WriteHead, WriteEol, WriteData, readVars
<1>4. CASE WriteFails
  BY <1>4 DEF WriteFails, readVars
<1>5. CASE ReadHeader \/ FindTerminator \/ ParseHeaders \/ ReadBody
  BY <1>5 DEF ReadHeader, FindTerminator, ParseHeaders, ReadBody, HasTerminator
<1>6. CASE ReadEnds \/ Breaks
  BY <1>6 DEF ReadEnds, Breaks, Raise, Leave
<1>7. CASE ReturnResponse
  <2>1. PICK status \in Statuses :
          \/ Raise("http", status) \/ Raise("failed", 0)
          \/ /\ result' = [kind |-> "response", status |-> status, body |-> body]
             /\ Leave
             /\ UNCHANGED socket
    BY <1>7, Zenon DEF ReturnResponse
  <2>2. pc = "fill"
    BY <1>7 DEF ReturnResponse
  <2>3. QED
    BY <2>1, <2>2 DEF Raise, Leave
<1>8. CASE EndCall
  BY <1>8 DEF EndCall, readVars
<1>9. QED
  BY <1>1, <1>2, <1>3, <1>4, <1>5, <1>6, <1>7, <1>8
     DEF ExchangeNext, CallStep, WriteStep, ReadStep

LEMMA OwnerInit == ExchangeInit => OwnerInv
BY DEF ExchangeInit, OwnerInv

(* Every way out of a call that gives no response deletes the connection.  *)
THEOREM ConnectionIsOwned == ExchangeSpec => []ConnectionOwned
<1> DEFINE Inv == ExchangeTypeOK /\ OwnerInv
<1>1. ExchangeInit => Inv
  BY ExchangeTypeInit, OwnerInit
<1>2. Inv /\ [ExchangeNext]_vars => Inv'
  BY ExchangeStepType, OwnerStep
<1>3. Inv => ConnectionOwned
  BY DEF OwnerInv, ConnectionOwned
<1>4. QED
  BY <1>1, <1>2, <1>3, PTL DEF ExchangeSpec

-----------------------------------------------------------------------------
(* Client and server.                                                      *)

(* What has been written, as far as the writing has come.                  *)
WrittenInv ==
  /\ argumentLength >= -1
  /\ pc = "eol" => written = RequestHead(Len(data))
  /\ pc = "data" => written = RequestHead(Len(data)) \o <<EOL>>
  /\ pc = "header" /\ socket = "open" =>
       \E n \in Int, tail \in Seq(Unit) :
         /\ written = RequestHead(n) \o tail
         /\ Len(tail) >= n \/ Stale

LEMMA WrittenStep ==
  ASSUME ExchangeTypeOK, OwnerInv, WrittenInv, [ExchangeNext]_vars
  PROVE  WrittenInv'
<1>t. data \in Seq(Unit) /\ Len(data) \in Nat /\ argumentLength \in Int /\ argumentLength >= -1
  BY LenProperties DEF ExchangeTypeOK, WrittenInv
<1>e. <<>> \in Seq(Unit) /\ Len(<<>>) = 0
  BY EmptySeq
<1>1. CASE WriteHead
  <2>1. CASE method # "post"
    <3>1. /\ pc = "write" /\ argumentLength' = HeadLength /\ written' = RequestHead(HeadLength)
          /\ pc' = IF method = "body" THEN "eol" ELSE "header"
          /\ method' = method /\ data' = data /\ HeadLength \in Int /\ HeadLength >= -1
      BY <1>1, <1>t, <2>1 DEF WriteHead, HeadLength
    <3>2. CASE method = "body"
      BY <3>1, <3>2 DEF WrittenInv, HeadLength
    <3>3. CASE method # "body"
      <4>1. method = "bare"
        BY <2>1, <3>3 DEF ExchangeTypeOK, Methods
      <4>2. written' = RequestHead(HeadLength) \o <<>>
        BY <3>1, HeadForm, ConcatEmptySeq
      <4>3. Len(<<>>) >= HeadLength \/ Stale'
        BY <1>e, <3>1, <4>1 DEF Stale
      <4>4. QED
        BY <1>e, <3>1, <3>3, <4>2, <4>3 DEF WrittenInv
    <3>4. QED
      BY <3>2, <3>3
  <2>2. CASE method = "post"
    <3>1. /\ written' = PostPayload(data) /\ pc' = "header" /\ argumentLength' = argumentLength
      BY <1>1, <2>2 DEF WriteHead
    <3> DEFINE n == IF data = <<>> THEN -1 ELSE Len(data)
    <3>2. n \in Int /\ Len(data) >= n
      BY <1>t
    <3>3. written' = RequestHead(n) \o data
      BY <3>1 DEF PostPayload
    <3> HIDE DEF n
    <3>4. QED
      BY <1>t, <3>1, <3>2, <3>3 DEF WrittenInv
  <2>3. QED
    BY <2>1, <2>2
<1>2. CASE WriteEol
  BY <1>2 DEF WriteEol, WrittenInv, callVars
<1>3. CASE WriteData
  <2>1. written = RequestHead(Len(data)) \o <<EOL>>
    BY <1>3 DEF WriteData, WrittenInv
  <2>2. <<EOL>> \in Seq(Unit) /\ Len(<<EOL>>) = 1
    BY DEF EOL, Unit
  <2>3. /\ <<EOL>> \o data \in Seq(Unit) /\ Len(<<EOL>> \o data) = 1 + Len(data)
        /\ (RequestHead(Len(data)) \o <<EOL>>) \o data = RequestHead(Len(data)) \o (<<EOL>> \o data)
    <3>1. RequestHead(Len(data)) \in Seq(Unit)
      BY <1>t, HeadForm
    <3>2. <<EOL>> \o data \in Seq(Unit) /\ Len(<<EOL>> \o data) = Len(<<EOL>>) + Len(data)
      BY <1>t, <2>2, ConcatType, ConcatLen
    <3>3. (RequestHead(Len(data)) \o <<EOL>>) \o data = RequestHead(Len(data)) \o (<<EOL>> \o data)
      BY <1>t, <2>2, <3>1, Regroup, Zenon
    <3>4. QED
      BY <2>2, <3>2, <3>3
  <2>4. written' = RequestHead(Len(data)) \o (<<EOL>> \o data)
    BY <1>3, <2>1, <2>3 DEF WriteData
  <2>5. Len(data) \in Int /\ Len(<<EOL>> \o data) >= Len(data)
    BY <1>t, <2>3
  <2>6. pc' = "header" /\ UNCHANGED argumentLength
    BY <1>3 DEF WriteData, callVars
  <2> HIDE DEF WrittenInv
  <2>7. QED
    BY <1>t, <2>3, <2>4, <2>5, <2>6 DEF WrittenInv
<1>4. CASE WriteFails
  BY <1>4, <1>t DEF WriteFails, WrittenInv
<1>5. CASE CreateRequest \/ \E m \in Methods, d \in Data \cup {<<>>} : BeginCall(m, d)
  BY <1>5, <1>t DEF CreateRequest, BeginCall, WrittenInv
<1>6. CASE ~WriteHead /\ ~WriteEol /\ ~WriteData /\ ~WriteFails /\ ~CreateRequest
           /\ ~\E m \in Methods, d \in Data \cup {<<>>} : BeginCall(m, d)
  <2>1. /\ UNCHANGED argumentLength /\ UNCHANGED method /\ UNCHANGED data /\ UNCHANGED written
        /\ pc' \in {"parse", "fill", "done", "idle"} \/ (pc' = pc /\ socket' = socket)
    BY <1>6 DEF ExchangeNext, CallStep, WriteStep, ReadStep, DeleteRequest, ReadHeader,
                FindTerminator, ParseHeaders, ReadBody, ReadEnds, Breaks, Raise, Leave,
                ReturnResponse, EndCall, TakeUp, Answer, PeerCloses, vars, callVars
  <2>2. QED
    BY <2>1 DEF WrittenInv, Stale
<1>7. QED
  BY <1>1, <1>2, <1>3, <1>4, <1>5, <1>6

(* A client that waits for an answer has sent a whole request, but for a   *)
(* stale Content-Length.                                                   *)
THEOREM NoMutualWait == ExchangeSpec => []NoStandoff
<1> DEFINE Inv == ExchangeTypeOK /\ OwnerInv /\ WrittenInv
<1>1. ExchangeInit => Inv
  <2>1. ExchangeInit => WrittenInv
    BY DEF ExchangeInit, WrittenInv
  <2>2. QED
    BY <2>1, ExchangeTypeInit, OwnerInit
<1>2. Inv /\ [ExchangeNext]_vars => Inv'
  BY ExchangeStepType, OwnerStep, WrittenStep
<1>3. Inv => NoStandoff
  <2>1. SUFFICES ASSUME Inv, pc = "header", socket = "open", ~Stale PROVE Whole(written)
    BY DEF NoStandoff
  <2>2. PICK n \in Int, tail \in Seq(Unit) :
          written = RequestHead(n) \o tail /\ Len(tail) >= n
    BY <2>1 DEF WrittenInv
  <2>3. QED
    BY <2>2, HeadIsWhole
<1>4. QED
  BY <1>1, <1>2, <1>3, PTL DEF ExchangeSpec

-----------------------------------------------------------------------------
(* What is read.                                                           *)

(* Which of its variables streamFromConnection2 uses where it stands.      *)
PhaseInv ==
  /\ foundHeaderEnd <=> pc \in {"parse", "fill"}
  /\ pc # "fill" => body = <<>>
  /\ foundHeaderEnd => NoTerminator(headers)
  /\ pc = "fill" => /\ \E l \in ContentLengths(headers) : contentLength = BodyLength(l)
                    /\ Len(body) <= contentLength
                    /\ buffered = <<>> \/ Len(body) = contentLength

LEMMA PhaseStep ==
  ASSUME ExchangeTypeOK, PhaseInv, [ExchangeNext]_vars
  PROVE  PhaseInv'
<1>1. CASE FindTerminator
  <2>1. /\ buffered \in Seq(Unit) /\ HasTerminator(buffered)
        /\ headers' = SubSeq(buffered, 1, PosTerminator(buffered) - 1)
    BY <1>1 DEF FindTerminator, ExchangeTypeOK
  <2>2. NoTerminator(headers')
    BY <2>1, CutHeaders
  <2>3. pc = "header" /\ pc' = "parse" /\ foundHeaderEnd' /\ body' = body
    BY <1>1 DEF FindTerminator
  <2>4. QED
    BY <2>2, <2>3 DEF PhaseInv
<1>2. CASE ParseHeaders
  <2>1. pc = "parse" /\ pc' = "fill" /\ foundHeaderEnd' = foundHeaderEnd /\ headers' = headers
    BY <1>2 DEF ParseHeaders
  <2>2. QED
    BY <1>2, <2>1, ParseHeadersMoves DEF PhaseInv
<1>3. CASE ReadBody
  <2>1. /\ pc = "fill" /\ pc' = pc /\ foundHeaderEnd' = foundHeaderEnd /\ headers' = headers
        /\ buffered' = buffered /\ contentLength' = contentLength
    BY <1>3 DEF ReadBody
  <2>2. Len(body) < contentLength /\ Len(body') <= contentLength
    BY <1>3, ReadBodyMoves
  <2>3. buffered = <<>>
    <3>1. Len(body) \in Nat /\ contentLength \in Nat
      BY LenProperties DEF ExchangeTypeOK
    <3>2. QED
      BY <2>1, <2>2, <3>1 DEF PhaseInv
  <2>4. QED
    BY <2>1, <2>2, <2>3 DEF PhaseInv
<1>4. CASE Leave
  BY <1>4 DEF Leave, PhaseInv
<1>5. CASE ~FindTerminator /\ ~ParseHeaders /\ ~ReadBody /\ ~Leave
  <2>1. /\ UNCHANGED foundHeaderEnd /\ UNCHANGED body /\ UNCHANGED headers
        /\ UNCHANGED contentLength
        /\ \/ pc' = pc /\ buffered' = buffered
           \/ pc \notin {"parse", "fill"} /\ pc' \notin {"parse", "fill"}
    BY <1>5 DEF ExchangeNext, CallStep, WriteStep, ReadStep, CreateRequest, DeleteRequest,
                BeginCall, WriteHead, WriteEol, WriteData, WriteFails, ReadHeader,
                ReadEnds, Breaks, Raise, ReturnResponse, EndCall, TakeUp, Answer, PeerCloses,
                vars, readVars
  <2>2. QED
    BY <2>1 DEF PhaseInv
<1>6. QED
  BY <1>1, <1>2, <1>3, <1>4, <1>5

(* All that the call has read, in the order in which the server sent it.   *)
Received ==
  IF foundHeaderEnd THEN headers \o HEADER_TERMINATOR \o body \o buffered ELSE buffered

(* A server that has not answered has sent nothing; what is read and what  *)
(* is still on the wire make up the answer.                                *)
StreamInv ==
  /\ peer \in {"queued", "reading"} => answer = <<>> /\ wire = <<>>
  /\ pc \notin {"idle", "done"} => answer = Received \o wire

LEMMA StreamStep ==
  ASSUME ExchangeTypeOK, ExchangeTypeOK', OwnerInv, PhaseInv, PhaseInv', StreamInv,
         [ExchangeNext]_vars
  PROVE  StreamInv'
<1> DEFINE T == HEADER_TERMINATOR
<1>1. /\ buffered \in Seq(Unit) /\ wire \in Seq(Unit) /\ headers \in Seq(Unit)
      /\ body \in Seq(Unit) /\ T \in Seq(Unit) /\ headers \o T \in Seq(Unit)
      /\ headers \o T \o body \in Seq(Unit)
      /\ headers \o T \o body \o buffered \in Seq(Unit) /\ Received \in Seq(Unit)
  <2>1. /\ buffered \in Seq(Unit) /\ wire \in Seq(Unit) /\ headers \in Seq(Unit)
        /\ body \in Seq(Unit) /\ T \in Seq(Unit)
    BY TerminatorType DEF ExchangeTypeOK
  <2> HIDE DEF T
  <2>2. headers \o T \in Seq(Unit)
    BY <2>1, ConcatType
  <2>3. headers \o T \o body \in Seq(Unit)
    BY <2>1, <2>2, ConcatType
  <2>4. headers \o T \o body \o buffered \in Seq(Unit)
    BY <2>1, <2>3, ConcatType
  <2>5. QED
    BY <2>1, <2>2, <2>3, <2>4 DEF Received, T
<1>2. /\ buffered' \in Seq(Unit) /\ wire' \in Seq(Unit) /\ headers' \in Seq(Unit)
      /\ body' \in Seq(Unit)
  BY DEF ExchangeTypeOK
<1>3. \A s \in Seq(Unit) : s \o <<>> = s /\ <<>> \o s = s
  BY ConcatEmptySeq
<1> HIDE DEF T
<1>4. CASE ReadHeader
  <2>1. /\ pc = "header" /\ pc' = pc /\ answer' = answer /\ peer' = peer
        /\ foundHeaderEnd' = foundHeaderEnd /\ ~foundHeaderEnd /\ wire # <<>>
    <3>1. wire # <<>>
      BY <1>4, ExchangeAssumption, EmptySeq DEF ReadHeader, Smaller
    <3>2. QED
      BY <1>4, <3>1 DEF ReadHeader, peerVars, PhaseInv
  <2>2. buffered' \o wire' = buffered \o wire
    BY <1>4, ReadHeaderMoves
  <2>3. QED
    BY <2>1, <2>2 DEF StreamInv, Received
<1>5. CASE FindTerminator
  <2>1. /\ pc = "header" /\ pc' = "parse" /\ answer' = answer /\ peer' = peer /\ wire' = wire
        /\ ~foundHeaderEnd /\ foundHeaderEnd' /\ body' = <<>>
    BY <1>5 DEF FindTerminator, peerVars, PhaseInv
  <2>2. headers' \o T \o buffered' = buffered
    BY <1>1, <1>5, CutAtTerminator DEF FindTerminator, T
  <2>3. headers' \o T \o body' = headers' \o T
    <3>1. headers' \o T \in Seq(Unit)
      BY <1>1, <1>2, ConcatType
    <3>2. QED
      BY <1>3, <2>1, <3>1
  <2>4. QED
    BY <2>1, <2>2, <2>3 DEF StreamInv, Received, T
<1>6. CASE ParseHeaders
  <2>1. /\ pc = "parse" /\ pc' = "fill" /\ answer' = answer /\ peer' = peer /\ wire' = wire
        /\ foundHeaderEnd /\ foundHeaderEnd' /\ body = <<>> /\ headers' = headers
    BY <1>6 DEF ParseHeaders, peerVars, PhaseInv
  <2>2. body' \o buffered' = buffered
    BY <1>6, ParseHeadersMoves
  <2>3. (headers \o T) \o body' \o buffered' = (headers \o T) \o (body' \o buffered')
    <3>1. headers \o T \in Seq(Unit) /\ body' \in Seq(Unit) /\ buffered' \in Seq(Unit)
      BY <1>1, <1>2
    <3>2. QED
      BY <3>1, Regroup, Zenon
  <2>4. headers \o T \o body = headers \o T
    BY <1>1, <1>3, <2>1
  <2>5. QED
    BY <2>1, <2>2, <2>3, <2>4 DEF StreamInv, Received, T
<1>7. CASE ReadBody
  <2>1. /\ pc = "fill" /\ pc' = pc /\ answer' = answer /\ peer' = peer
        /\ foundHeaderEnd /\ foundHeaderEnd' /\ headers' = headers /\ buffered' = buffered
        /\ body' \o wire' = body \o wire /\ Len(body) < contentLength
    BY <1>7, ReadBodyMoves DEF ReadBody, peerVars, PhaseInv
  <2>2. buffered = <<>>
    <3>1. Len(body) \in Nat /\ contentLength \in Nat
      BY LenProperties DEF ExchangeTypeOK
    <3>2. QED
      BY <2>1, <3>1 DEF PhaseInv
  <2>3. Received = headers \o T \o body /\ Received' = headers \o T \o body'
    <3>1. headers \o T \o body' \in Seq(Unit)
      BY <1>1, <1>2, ConcatType
    <3>2. QED
      BY <1>1, <1>3, <2>1, <2>2, <3>1 DEF Received, T
  <2>4. /\ ((headers \o T) \o body) \o wire = (headers \o T) \o (body \o wire)
        /\ ((headers \o T) \o body') \o wire' = (headers \o T) \o (body' \o wire')
    <3>1. /\ headers \o T \in Seq(Unit) /\ body \in Seq(Unit) /\ wire \in Seq(Unit)
          /\ body' \in Seq(Unit) /\ wire' \in Seq(Unit)
      BY <1>1, <1>2
    <3>2. ((headers \o T) \o body) \o wire = (headers \o T) \o (body \o wire)
      BY <3>1, Regroup, Zenon
    <3>3. ((headers \o T) \o body') \o wire' = (headers \o T) \o (body' \o wire')
      BY <3>1, Regroup, Zenon
    <3>4. QED
      BY <3>2, <3>3
  <2>5. Received' \o wire' = Received \o wire
    BY <2>1, <2>3, <2>4
  <2>6. wire # <<>>
    <3>1. Remaining \in Nat /\ Remaining > 0
      BY <1>7, LenProperties DEF ReadBody, Remaining, ExchangeTypeOK
    <3>2. PICK n \in 1 .. Smaller(Smaller(ChunkSize, Remaining), Len(wire)) : TRUE
      BY <1>7 DEF ReadBody
    <3>3. Len(wire) # 0
      BY <3>1, <3>2, ExchangeAssumption DEF Smaller
    <3>4. QED
      BY <3>3, EmptySeq
  <2> HIDE DEF Received
  <2>7. QED
    BY <2>1, <2>5, <2>6 DEF StreamInv
<1>8. CASE Answer
  <2>1. /\ peer = "reading" /\ peer' = "answered" /\ answer' = wire' /\ pc' = pc
        /\ UNCHANGED Received
    BY <1>8 DEF Answer, readVars, Received
  <2>2. CASE pc \notin {"idle", "done"}
    <3>1. Received \o wire = <<>> /\ wire = <<>>
      BY <2>1, <2>2 DEF StreamInv
    <3>2. Received = <<>>
      BY <1>1, <1>3, <3>1
    <3>3. QED
      BY <1>2, <1>3, <2>1, <3>2 DEF StreamInv
  <2>3. CASE pc \in {"idle", "done"}
    BY <2>1, <2>3 DEF StreamInv
  <2>4. QED
    BY <2>2, <2>3
<1>9. CASE \E m \in Methods, d \in Data \cup {<<>>} : BeginCall(m, d)
  <2>1. /\ pc = "idle" /\ pc' \in {"write", "done"} /\ answer' = <<>> /\ wire' = <<>>
        /\ buffered' = buffered /\ foundHeaderEnd' = foundHeaderEnd
    BY <1>9 DEF BeginCall, readVars
  <2>2. Received' = <<>>
    BY <2>1 DEF Received, OwnerInv, PhaseInv
  <2>3. QED
    BY <1>2, <1>3, <2>1, <2>2 DEF StreamInv
<1>10. CASE pc' \in {"idle", "done"} /\ UNCHANGED wire /\ UNCHANGED peerVars
  BY <1>10 DEF StreamInv, peerVars
<1>11. CASE /\ CreateRequest \/ DeleteRequest \/ WriteStep \/ TakeUp \/ PeerCloses \/ UNCHANGED vars
            /\ pc' \notin {"idle", "done"}
  <2>1. /\ UNCHANGED answer /\ UNCHANGED wire /\ UNCHANGED Received
        /\ pc \notin {"idle", "done"}
        /\ peer' \in {"queued", "reading"} => peer \in {"queued", "reading"}
    BY <1>11 DEF CreateRequest, DeleteRequest, WriteStep, WriteHead, WriteEol, WriteData,
                 WriteFails, TakeUp, PeerCloses, vars, peerVars, readVars, Received
  <2>2. QED
    BY <2>1 DEF StreamInv
<1>12. CASE /\ CreateRequest \/ DeleteRequest \/ TakeUp \/ PeerCloses \/ UNCHANGED vars
            /\ pc' \in {"idle", "done"}
  <2>1. /\ UNCHANGED answer /\ UNCHANGED wire
        /\ peer' \in {"queued", "reading"} => peer \in {"queued", "reading"}
    BY <1>12 DEF CreateRequest, DeleteRequest, TakeUp, PeerCloses, vars, peerVars
  <2>2. QED
    BY <1>12, <2>1 DEF StreamInv
<1>13. CASE (WriteStep /\ pc' \in {"idle", "done"}) \/ ReadEnds \/ Breaks \/ ReturnResponse \/ EndCall
  <2>1. pc' \in {"idle", "done"} /\ UNCHANGED wire /\ UNCHANGED peerVars
    BY <1>13 DEF WriteStep, WriteHead, WriteEol, WriteData, WriteFails, ReadEnds, Breaks, Raise,
                 Leave, ReturnResponse, EndCall
  <2>2. QED
    BY <1>10, <2>1
<1>14. QED
  BY <1>4, <1>5, <1>6, <1>7, <1>8, <1>9, <1>11, <1>12, <1>13
     DEF ExchangeNext, CallStep, ReadStep

-----------------------------------------------------------------------------
(* What a call gives.                                                      *)

(* Once the headers are parsed, the first message of the answer is known.  *)
LEMMA AnswerParts ==
  ASSUME ExchangeTypeOK, PhaseInv, StreamInv, pc = "fill",
         NEW p, p = Len(headers) + 1
  PROVE  /\ HasTerminator(answer) /\ PosTerminator(answer) = p
         /\ SubSeq(answer, 1, p - 1) = headers
         /\ SubSeq(answer, p + 2, p + 1 + Len(body)) = body
         /\ Len(answer) = p + 1 + Len(body) + Len(buffered) + Len(wire)
         /\ headers # <<>> => answer[1] = headers[1]
<1> DEFINE T == HEADER_TERMINATOR
           z == buffered \o wire
<1>1. /\ headers \in Seq(Unit) /\ body \in Seq(Unit) /\ buffered \in Seq(Unit)
      /\ wire \in Seq(Unit) /\ T \in Seq(Unit) /\ Len(T) = 2 /\ NoTerminator(headers)
      /\ answer = (headers \o T \o body \o buffered) \o wire
  BY TerminatorType DEF ExchangeTypeOK, PhaseInv, StreamInv, Received
<1>2. /\ Len(headers) \in Nat /\ Len(body) \in Nat /\ Len(buffered) \in Nat
      /\ Len(wire) \in Nat
  BY <1>1, LenProperties
<1>3. z \in Seq(Unit) /\ Len(z) = Len(buffered) + Len(wire)
  BY <1>1, ConcatType, ConcatLen
<1>4. /\ headers \o T \in Seq(Unit) /\ Len(headers \o T) = Len(headers) + 2
  BY <1>1, ConcatType, ConcatLen
<1>5. /\ headers \o T \o body \in Seq(Unit)
      /\ Len(headers \o T \o body) = Len(headers) + 2 + Len(body)
  <2> HIDE DEF T
  <2>1. headers \o T \o body \in Seq(Unit) /\ Len(headers \o T \o body) = Len(headers \o T) + Len(body)
    BY <1>1, <1>4, ConcatType, ConcatLen
  <2>2. QED
    BY <1>4, <2>1
<1>6. answer = (headers \o T \o body) \o z
  <2> HIDE DEF T
  <2>1. ((headers \o T \o body) \o buffered) \o wire = (headers \o T \o body) \o (buffered \o wire)
    BY <1>1, <1>5, Regroup, Zenon
  <2>2. QED
    BY <1>1, <2>1
<1> HIDE DEF z
<1>7. body \o z \in Seq(Unit) /\ (headers \o T) \o (body \o z) = answer
  <2> HIDE DEF T
  <2>1. body \o z \in Seq(Unit)
    BY <1>1, <1>3, ConcatType
  <2>2. ((headers \o T) \o body) \o z = (headers \o T) \o (body \o z)
    BY <1>1, <1>3, <1>4, Regroup, Zenon
  <2>3. QED
    BY <1>6, <2>1, <2>2
<1>8. HasTerminator(answer) /\ PosTerminator(answer) = p
  BY <1>1, <1>7, FrontOfStream
<1>9. /\ SubSeq(answer, 1, p - 1) = headers
      /\ SubSeq(answer, p + 2, p + 1 + Len(body)) = body
  <2>1. /\ SubSeq(headers \o T \o body \o z, 1, Len(headers) + 1 - 1) = headers
        /\ SubSeq(headers \o T \o body \o z, Len(headers) + 1 + 2, Len(headers) + 1 + 1 + Len(body))
             = body
    BY <1>1, <1>3, BodyIsCut
  <2>2. /\ SubSeq(headers \o T \o body \o z, 1, p - 1) = headers
        /\ SubSeq(headers \o T \o body \o z, p + 2, p + 1 + Len(body)) = body
    <3>1. p - 1 = Len(headers) + 1 - 1 /\ p + 2 = Len(headers) + 1 + 2
          /\ p + 1 + Len(body) = Len(headers) + 1 + 1 + Len(body)
      OBVIOUS
    <3>2. QED
      BY <2>1, <3>1
  <2>3. QED
    BY <1>6, <2>2, Zenon
<1>10. Len(answer) = p + 1 + Len(body) + Len(buffered) + Len(wire)
  <2>1. Len(answer) = Len(headers \o T \o body) + Len(z)
    BY <1>3, <1>5, <1>6, ConcatLen
  <2> HIDE DEF T
  <2>2. QED
    BY <1>2, <1>3, <1>5, <2>1
<1>11. ASSUME headers # <<>> PROVE answer[1] = headers[1]
  <2>1. Len(headers) >= 1
    BY <1>1, <1>2, <1>11, EmptySeq
  <2>2. T \o (body \o z) \in Seq(Unit)
    BY <1>1, <1>7, ConcatType
  <2> DEFINE y == T \o (body \o z)
  <2>3. answer = headers \o y
    <3> HIDE DEF T
    <3>1. (headers \o T) \o (body \o z) = headers \o (T \o (body \o z))
      BY <1>1, <1>7, Regroup, Zenon
    <3>2. QED
      BY <1>7, <3>1
  <2> HIDE DEF y
  <2>4. y \in Seq(Unit) /\ Len(y) \in Nat
    BY <2>2, LenProperties DEF y
  <2>5. 1 \in 1 .. Len(headers) + Len(y) /\ 1 <= Len(headers)
    BY <1>2, <2>1, <2>4
  <2>6. QED
    BY <1>1, <2>3, <2>4, <2>5, ConcatElements
<1>12. QED
  BY <1>8, <1>9, <1>10, <1>11

(* The answer holds a whole message and what is read of it is that message.*)
LEMMA ReturnedAnswer ==
  ASSUME ExchangeTypeOK, PhaseInv, StreamInv, ReturnResponse
  PROVE  ResultIsTheAnswer' /\ FailsOnlyWithoutAnswer'
<1> DEFINE p == Len(headers) + 1
           n == Len(body)
<1>1. pc = "fill" /\ answer' = answer
  BY DEF ReturnResponse, peerVars
<1>2. /\ headers \in Seq(Unit) /\ Len(headers) \in Nat /\ n \in Nat /\ contentLength \in Nat
      /\ Len(buffered) \in Nat /\ Len(wire) \in Nat /\ answer \in Seq(Unit)
      /\ Len(answer) \in Nat
  BY LenProperties DEF ExchangeTypeOK
<1>3. /\ HasTerminator(answer) /\ PosTerminator(answer) = p
      /\ SubSeq(answer, 1, p - 1) = headers
      /\ SubSeq(answer, p + 2, p + 1 + n) = body
      /\ Len(answer) = p + 1 + n + Len(buffered) + Len(wire)
      /\ headers # <<>> => answer[1] = headers[1]
  BY <1>1, AnswerParts
<1>4. n = contentLength
  BY <1>1, <1>2 DEF ReturnResponse, PhaseInv, Remaining
<1>5. PICK l \in ContentLengths(headers) : contentLength = BodyLength(l)
  BY <1>1 DEF PhaseInv
<1>6. p \in 1 .. Len(answer) /\ n \in 0 .. Len(answer) /\ Len(answer) >= p + 1 + n
  BY <1>2, <1>3
<1>7. p > 1 <=> headers # <<>>
  BY <1>2, EmptySeq
<1>8. HasStatus <=> p > 1 /\ answer[1].kind = "status"
  BY <1>3, <1>7 DEF HasStatus
<1> HIDE DEF p, n
<1>9. Framed(answer, p, n)
  BY <1>3, <1>4, <1>5, <1>6 DEF Framed
<1>10. PICK status \in Statuses :
          IF HasStatus /\ status >= 400 THEN Raise("http", status)
          ELSE IF HasStatus /\ status = 0 THEN Raise("failed", 0)
          ELSE /\ result' = [kind |-> "response", status |-> status, body |-> body]
               /\ Leave
               /\ UNCHANGED socket
  BY Zenon DEF ReturnResponse
<1>11. status \in Int
  BY StatusType
<1>12. HasStatus => status = answer[1].val
  BY <1>3, <1>8, <1>10, <1>11 DEF Statuses, HasStatus
<1>13. CASE HasStatus /\ status >= 400
  <2>1. result' = [kind |-> "http", status |-> status, body |-> <<>>]
    BY <1>10, <1>13 DEF Raise
  <2>2. result'.kind = "http" /\ result'.status = status
    BY <2>1
  <2>3. FailsOnlyWithoutAnswer'
    BY <2>2 DEF FailsOnlyWithoutAnswer, Lacks
  <2>4. ResultIsTheAnswer'
    BY <1>1, <1>6, <1>8, <1>9, <1>12, <1>13, <2>2 DEF ResultIsTheAnswer, Says
  <2>5. QED
    BY <2>3, <2>4
<1>14. CASE HasStatus /\ ~(status >= 400) /\ status = 0
  <2>1. result' = [kind |-> "failed", status |-> 0, body |-> <<>>]
    BY <1>10, <1>14 DEF Raise
  <2>2. result'.kind = "failed"
    BY <2>1
  <2>3. answer[1] \in Unit
    BY <1>2, <1>6, ElementOfSeq
  <2>4. answer[1] = [kind |-> "status", val |-> 0]
    BY <1>8, <1>12, <1>14, <2>3 DEF Unit
  <2>5. QED
    BY <1>1, <2>2, <2>4 DEF ResultIsTheAnswer, Says, FailsOnlyWithoutAnswer, Lacks
<1>15. CASE ~(HasStatus /\ status >= 400) /\ ~(HasStatus /\ status = 0)
  <2>1. result' = [kind |-> "response", status |-> status, body |-> body]
    BY <1>10, <1>15
  <2>2. result'.kind = "response" /\ result'.status = status /\ result'.body = body
    BY <2>1
  <2>3. FailsOnlyWithoutAnswer'
    BY <2>2 DEF FailsOnlyWithoutAnswer, Lacks
  <2>4. ResultIsTheAnswer'
    BY <1>1, <1>3, <1>6, <1>8, <1>9, <1>12, <1>15, <2>2 DEF ResultIsTheAnswer, Says
  <2>5. QED
    BY <2>3, <2>4
<1>16. QED
  BY <1>13, <1>14, <1>15

(* Reading fails at the end of the bytes only when a message is not whole. *)
LEMMA ReadEndsUnfinished ==
  ASSUME ExchangeTypeOK, PhaseInv, StreamInv, OwnerInv, ReadEnds
  PROVE  ResultIsTheAnswer' /\ FailsOnlyWithoutAnswer'
<1>1. CASE socket = "failed" /\ Raise("broken", 0)
  BY <1>1 DEF Raise, ResultIsTheAnswer, Says, FailsOnlyWithoutAnswer, Lacks
<1>2. CASE socket = "open" /\ wire = <<>> /\ peer = "closed" /\ Raise("failed", 0)
  <2>1. result'.kind = "failed" /\ answer' = answer /\ AwaitsBytes
    BY <1>2 DEF Raise, ReadEnds, peerVars
  <2>2. CASE pc = "header" /\ ~HasTerminator(buffered)
    <3>1. answer = buffered \o <<>> /\ buffered \in Seq(Unit)
      BY <1>2, <2>2 DEF PhaseInv, StreamInv, Received, ExchangeTypeOK
    <3>2. answer = buffered
      BY <3>1, ConcatEmptySeq
    <3>3. QED
      BY <2>1, <2>2, <3>2 DEF ResultIsTheAnswer, Says, FailsOnlyWithoutAnswer, Lacks
  <2>3. CASE pc = "fill" /\ Remaining > 0
    <3> DEFINE p == Len(headers) + 1
    <3>1. /\ Len(headers) \in Nat /\ Len(body) \in Nat /\ contentLength \in Nat
          /\ Len(body) < contentLength
      BY <2>3, LenProperties DEF ExchangeTypeOK, Remaining
    <3>2. buffered = <<>> /\ Len(buffered) = 0 /\ Len(wire) = 0
      BY <1>2, <2>3, <3>1, EmptySeq DEF PhaseInv
    <3>3. /\ PosTerminator(answer) = p /\ SubSeq(answer, 1, p - 1) = headers
          /\ Len(answer) = p + 1 + Len(body) + Len(buffered) + Len(wire)
      BY <2>3, AnswerParts
    <3>4. PICK l \in ContentLengths(headers) : contentLength = BodyLength(l)
      BY <2>3 DEF PhaseInv
    <3>5. Len(answer) < p + 1 + BodyLength(l)
      BY <3>1, <3>2, <3>3, <3>4
    <3> HIDE DEF p
    <3>6. \E k \in ContentLengths(SubSeq(answer, 1, PosTerminator(answer) - 1)) :
            Len(answer) < PosTerminator(answer) + 1 + BodyLength(k)
      BY <3>3, <3>4, <3>5
    <3>7. QED
      BY <2>1, <3>6 DEF ResultIsTheAnswer, Says, FailsOnlyWithoutAnswer, Lacks
  <2>4. QED
    BY <2>1, <2>2, <2>3 DEF AwaitsBytes
<1>3. QED
  BY <1>1, <1>2 DEF ReadEnds

LEMMA ResultStep ==
  ASSUME ExchangeTypeOK, OwnerInv, PhaseInv, StreamInv,
         ResultIsTheAnswer, FailsOnlyWithoutAnswer, [ExchangeNext]_vars
  PROVE  ResultIsTheAnswer' /\ FailsOnlyWithoutAnswer'
<1>1. CASE result'.kind \notin {"failed", "http", "response"}
  BY <1>1 DEF ResultIsTheAnswer, Says, FailsOnlyWithoutAnswer, Lacks
<1>2. CASE \E m \in Methods, d \in Data \cup {<<>>} : BeginCall(m, d)
  <2>1. result'.kind \in {"none", "broken"}
    BY <1>2 DEF BeginCall, NoResult
  <2>2. QED
    BY <1>1, <2>1
<1>3. CASE WriteFails
  <2>1. result'.kind = "null" \/ (pc \notin {"idle", "done"} /\ result' = result)
    BY <1>3 DEF WriteFails
  <2>2. QED
    BY <1>1, <2>1 DEF OwnerInv
<1>4. CASE Breaks
  <2>1. result'.kind = "broken"
    BY <1>4 DEF Breaks, Raise
  <2>2. QED
    BY <1>1, <2>1
<1>5. CASE ReadEnds
  BY <1>5, ReadEndsUnfinished
<1>6. CASE ReturnResponse
  BY <1>6, ReturnedAnswer
<1>7. CASE Answer
  <2>1. socket = "open" /\ peer = "reading" /\ result' = result
    BY <1>7 DEF Answer
  <2>2. answer = <<>>
    BY <2>1 DEF StreamInv
  <2>3. ~(\E p \in 1 .. Len(answer), n \in 0 .. Len(answer) : Framed(answer, p, n))
    BY <2>2, EmptySeq
  <2>4. result.kind \notin {"http", "response"}
    BY <2>3 DEF ResultIsTheAnswer, Says
  <2>5. result.kind # "failed"
    BY <2>1 DEF OwnerInv, ExchangeTypeOK
  <2>6. QED
    BY <1>1, <2>1, <2>4, <2>5
<1>8. CASE ~WriteFails /\ ~Breaks /\ ~ReadEnds /\ ~ReturnResponse /\ ~Answer
           /\ ~\E m \in Methods, d \in Data \cup {<<>>} : BeginCall(m, d)
  <2>1. result' = result /\ answer' = answer
    BY <1>8 DEF ExchangeNext, CallStep, WriteStep, ReadStep, CreateRequest, DeleteRequest,
                WriteHead, WriteEol, WriteData, ReadHeader, FindTerminator, ParseHeaders,
                ReadBody, EndCall, TakeUp, PeerCloses, vars, peerVars
  <2>2. QED
    BY <2>1 DEF ResultIsTheAnswer, Says, FailsOnlyWithoutAnswer, Lacks
<1>9. QED
  BY <1>2, <1>3, <1>4, <1>5, <1>6, <1>7, <1>8

ExchangeInv ==
  /\ ExchangeTypeOK /\ OwnerInv /\ PhaseInv /\ StreamInv
  /\ ResultIsTheAnswer /\ FailsOnlyWithoutAnswer

LEMMA ExchangeInvInit == ExchangeInit => ExchangeInv
<1>1. SUFFICES ASSUME ExchangeInit PROVE ExchangeInv
  OBVIOUS
<1>2. PhaseInv /\ StreamInv
  BY <1>1, EmptySeq DEF ExchangeInit, PhaseInv, StreamInv
<1>3. ResultIsTheAnswer /\ FailsOnlyWithoutAnswer
  BY <1>1 DEF ExchangeInit, NoResult, ResultIsTheAnswer, Says, FailsOnlyWithoutAnswer, Lacks
<1>4. QED
  BY <1>1, <1>2, <1>3, ExchangeTypeInit, OwnerInit DEF ExchangeInv

LEMMA ExchangeInvStep ==
  ASSUME ExchangeInv, [ExchangeNext]_vars
  PROVE  ExchangeInv'
<1>1. ExchangeTypeOK' /\ OwnerInv' /\ PhaseInv'
  BY ExchangeStepType, OwnerStep, PhaseStep DEF ExchangeInv
<1>2. StreamInv'
  BY <1>1, StreamStep DEF ExchangeInv
<1>3. QED
  BY <1>1, <1>2, ResultStep DEF ExchangeInv

(* Status and body of a result are those of the first message the server   *)
(* sent, whatever it sent and however it arrived.                          *)
THEOREM ResultsAreAnswers == ExchangeSpec => []ResultIsTheAnswer
<1>1. ExchangeInv => ResultIsTheAnswer
  BY DEF ExchangeInv
<1>2. ExchangeInv /\ [ExchangeNext]_vars => ExchangeInv'
  BY ExchangeInvStep
<1>3. QED
  BY <1>1, <1>2, ExchangeInvInit, PTL DEF ExchangeSpec

(* A call whose connection works fails only without a whole answer.        *)
THEOREM FailuresHaveCause == ExchangeSpec => []FailsOnlyWithoutAnswer
<1>1. ExchangeInv => FailsOnlyWithoutAnswer
  BY DEF ExchangeInv
<1>2. ExchangeInv /\ [ExchangeNext]_vars => ExchangeInv'
  BY ExchangeInvStep
<1>3. QED
  BY <1>1, <1>2, ExchangeInvInit, PTL DEF ExchangeSpec

-----------------------------------------------------------------------------
(* The refinement: what a step does to the state of a RemoteCall.          *)

callState == <<Phase, socket, answer, result>>

LEMMA PhaseOf ==
  /\ Phase = IF pc = "idle" THEN "idle" ELSE IF pc = "done" THEN "returned" ELSE "called"
  /\ Phase' = IF pc' = "idle" THEN "idle" ELSE IF pc' = "done" THEN "returned" ELSE "called"
BY DEF Phase

(* A step inside a call that neither ends it nor changes what is seen of   *)
(* it.                                                                     *)
LEMMA InsideCall ==
  ASSUME pc \notin {"idle", "done"}, pc' \notin {"idle", "done"},
         UNCHANGED socket, UNCHANGED answer, UNCHANGED result
  PROVE  UNCHANGED callState
BY PhaseOf DEF callState

LEMMA BreakReturns ==
  ASSUME pc \notin {"idle", "done"}, NEW k \in {"broken", "null"},
         result' = [kind |-> k, status |-> 0, body |-> <<>>],
         socket' = "none", pc' = "done", UNCHANGED answer
  PROVE  Call!Returns
BY PhaseOf DEF Call!Returns

LEMMA BeginRefines ==
  ASSUME OwnerInv, NEW m \in Methods, NEW d \in Data \cup {<<>>}, BeginCall(m, d)
  PROVE  Call!Begins
BY PhaseOf DEF BeginCall, OwnerInv, Call!Begins

LEMMA WriteRefines ==
  ASSUME OwnerInv, WriteStep
  PROVE  Call!CallNext \/ UNCHANGED callState
<1>1. CASE WriteHead \/ WriteEol \/ WriteData
  BY <1>1, InsideCall DEF WriteHead, WriteEol, WriteData, peerVars
<1>2. CASE WriteFails
  <2>1. pc \notin {"idle", "done"} /\ UNCHANGED answer
    BY <1>2 DEF WriteFails, peerVars
  <2>2. CASE /\ socket' = "none" /\ pc' = "done"
             /\ result' = [kind |-> "null", status |-> 0, body |-> <<>>]
    BY <2>1, <2>2, BreakReturns DEF Call!CallNext
  <2>3. CASE socket' = "failed" /\ pc' = "header" /\ UNCHANGED result
    BY <2>1, <2>3, PhaseOf DEF Call!CallNext, Call!LosesConnection
  <2>. QED BY <1>2, <2>2, <2>3 DEF WriteFails
<1>. QED BY <1>1, <1>2 DEF WriteStep

(* The end of a call that was not broken off: its result is what the       *)
(* answer says, as the invariant has it.                                   *)
LEMMA OutcomeReturns ==
  ASSUME ExchangeInv', pc \notin {"idle", "done"}, pc' = "done", socket = "open",
         UNCHANGED answer, result'.kind \in {"response", "http", "failed"},
         socket' = IF result'.kind = "response" THEN socket ELSE "none"
  PROVE  Call!Returns
<1>1. /\ result'.kind \in {"http", "response"} => Says(answer, result')
      /\ result'.kind = "failed" => Lacks(answer)
  BY DEF ExchangeInv, ResultIsTheAnswer, FailsOnlyWithoutAnswer
<1>. QED BY <1>1, PhaseOf DEF Call!Returns

LEMMA ReadRefines ==
  ASSUME ExchangeInv, ExchangeInv', ReadStep \/ Breaks
  PROVE  Call!CallNext \/ UNCHANGED callState
<1>1. CASE ReadHeader \/ FindTerminator \/ ParseHeaders \/ ReadBody
  BY <1>1, InsideCall DEF ReadHeader, FindTerminator, ParseHeaders, ReadBody, peerVars
<1>2. ASSUME Raise("broken", 0), AwaitsBytes, UNCHANGED answer
      PROVE  Call!CallNext
  <2>1. pc \notin {"idle", "done"}
    BY <1>2 DEF AwaitsBytes
  <2>. QED BY <1>2, <2>1, BreakReturns DEF Raise, Leave, Call!CallNext
<1>3. CASE ReadEnds
  <2>1. AwaitsBytes /\ UNCHANGED answer /\ pc \notin {"idle", "done"}
    BY <1>3 DEF ReadEnds, AwaitsBytes, peerVars
  <2>2. CASE socket = "failed" /\ Raise("broken", 0)
    BY <1>2, <2>1, <2>2
  <2>3. CASE socket = "open" /\ Raise("failed", 0)
    <3>1. result'.kind = "failed" /\ socket' = "none" /\ pc' = "done"
      BY <2>3 DEF Raise, Leave
    <3>. QED BY <2>1, <2>3, <3>1, OutcomeReturns DEF Call!CallNext
  <2>. QED BY <1>3, <2>2, <2>3 DEF ReadEnds
<1>4. CASE Breaks
  BY <1>2, <1>4 DEF Breaks, peerVars
<1>5. CASE ReturnResponse
  <2>1. PICK status \in Statuses :
          \/ Raise("http", status) \/ Raise("failed", 0)
          \/ /\ result' = [kind |-> "response", status |-> status, body |-> body]
             /\ Leave
             /\ UNCHANGED socket
    BY <1>5, Zenon DEF ReturnResponse
  <2>2. pc = "fill" /\ UNCHANGED answer
    BY <1>5 DEF ReturnResponse, peerVars
  <2>3. socket = "open"
    BY <2>2 DEF ExchangeInv, OwnerInv
  <2>4. /\ result'.kind \in {"response", "http", "failed"} /\ pc' = "done"
        /\ socket' = IF result'.kind = "response" THEN socket ELSE "none"
    BY <2>1 DEF Raise, Leave
  <2>. QED BY <2>2, <2>3, <2>4, OutcomeReturns DEF Call!CallNext
<1>. QED BY <1>1, <1>3, <1>4, <1>5 DEF ReadStep

LEMMA AnswerRefines ==
  ASSUME ExchangeInv, Answer
  PROVE  Call!ServerAnswers
<1>1. /\ socket = "open" /\ peer = "reading"
      /\ UNCHANGED socket /\ UNCHANGED result /\ UNCHANGED pc
  BY DEF Answer
<1>2. answer = <<>>
  BY <1>1 DEF ExchangeInv, StreamInv
<1>3. ~(result.kind = "response")
  <2>1. ~Says(answer, result)
    BY <1>2, EmptySeq DEF Says
  <2>. QED BY <2>1 DEF ExchangeInv, ResultIsTheAnswer
<1>4. pc \notin {"idle", "done"}
  BY <1>1, <1>3 DEF ExchangeInv, OwnerInv
<1>. QED BY <1>1, <1>2, <1>4, PhaseOf DEF Call!ServerAnswers

LEMMA EndRefines ==
  ASSUME ExchangeInv, EndCall
  PROVE  Call!Ends
<1>1. /\ pc = "done" /\ pc' = "idle" /\ UNCHANGED answer /\ UNCHANGED result
      /\ socket' = IF result.kind = "response" THEN "none" ELSE socket
  BY DEF EndCall, peerVars
<1>2. socket' = "none"
  BY <1>1 DEF ExchangeInv, OwnerInv
<1>. QED BY <1>1, <1>2, PhaseOf DEF Call!Ends

(* HttpClient is a RemoteCall (HttpClient.cpp, HttpResponse.cpp): whatever *)
(* the server sends, in whatever pieces it arrives and wherever a call is  *)
(* left, the caller sees one result, at the end of the call and for good,  *)
(* and it is that of the answer to this call.                              *)
THEOREM RemoteCallRefinement == ExchangeSpec => ImplementsRemoteCall
<1>1. ExchangeInit => Call!CallInit
  BY DEF ExchangeInit, Call!CallInit, Phase
<1>2. ExchangeInv /\ ExchangeInv' /\ [ExchangeNext]_vars => [Call!CallNext]_(Call!callVars)
  <2>1. SUFFICES ASSUME ExchangeInv, ExchangeInv', [ExchangeNext]_vars
                 PROVE  Call!CallNext \/ UNCHANGED callState
    BY DEF Call!callVars, callState
  <2>2. CASE CreateRequest \/ DeleteRequest \/ TakeUp \/ PeerCloses \/ UNCHANGED vars
    <3>1. UNCHANGED pc /\ UNCHANGED socket /\ UNCHANGED answer /\ UNCHANGED result
      BY <2>2 DEF CreateRequest, DeleteRequest, TakeUp, PeerCloses, vars, peerVars
    <3>. QED BY <3>1, PhaseOf DEF callState
  <2>3. CASE \E m \in Methods, d \in Data \cup {<<>>} : BeginCall(m, d)
    BY <2>1, <2>3, BeginRefines DEF ExchangeInv, Call!CallNext
  <2>4. CASE WriteStep
    BY <2>1, <2>4, WriteRefines DEF ExchangeInv
  <2>5. CASE ReadStep \/ Breaks
    BY <2>1, <2>5, ReadRefines
  <2>6. CASE Answer
    BY <2>1, <2>6, AnswerRefines DEF Call!CallNext
  <2>7. CASE EndCall
    BY <2>1, <2>7, EndRefines DEF Call!CallNext
  <2>. QED BY <2>1, <2>2, <2>3, <2>4, <2>5, <2>6, <2>7 DEF ExchangeNext, CallStep
<1>3. ExchangeInv /\ [ExchangeNext]_vars => ExchangeInv'
  BY ExchangeInvStep
<1>. QED BY <1>1, <1>2, <1>3, ExchangeInvInit, PTL
         DEF ExchangeSpec, ImplementsRemoteCall, Call!CallSpec

-----------------------------------------------------------------------------
(* What HttpClient writes, as the framing reads it.                        *)

(* Whoever takes the first message off the stream by its terminator and its*)
(* Content-Length, as HttpTransaction.tla does, finds a request line of    *)
(* three words, gets b as its body and has rest left.                      *)
ReadsAs(stream, b, rest) ==
  /\ \E p \in 1 .. Len(stream), n \in 0 .. Len(stream) : Framed(stream, p, n)
  /\ \A p \in 1 .. Len(stream), n \in 0 .. Len(stream) :
       Framed(stream, p, n) => /\ WellFormed(SubSeq(stream, 1, p - 1))
                               /\ SubSeq(stream, p + 2, p + 1 + n) = b
                               /\ SubSeq(stream, p + 2 + n, Len(stream)) = rest

LEMMA RestIsLeft ==
  ASSUME NEW a \in Seq(Unit), NEW c \in Seq(Unit)
  PROVE  SubSeq(a \o c, Len(a) + 1, Len(a \o c)) = c
<1>1. <<>> \in Seq(Unit) /\ a \o c \in Seq(Unit) /\ Len(a \o c) = Len(a) + Len(c)
  BY ConcatType, ConcatLen
<1>2. SubSeq(a \o c \o <<>>, Len(a) + 1, Len(a) + Len(c)) = c
  BY <1>1, Piece
<1>3. a \o c \o <<>> = a \o c
  BY <1>1, ConcatEmptySeq
<1>. QED BY <1>1, <1>2, <1>3

LEMMA FrontAndRest ==
  ASSUME NEW s \in Seq(Unit), NEW n \in Nat, n <= Len(s)
  PROVE  /\ SubSeq(s, 1, n) \in Seq(Unit) /\ SubSeq(s, n + 1, Len(s)) \in Seq(Unit)
         /\ SubSeq(s, 1, n) \o SubSeq(s, n + 1, Len(s)) = s
         /\ Len(SubSeq(s, 1, n)) = n
<1>1. n \in 0 .. Smaller(n, Len(s))
  BY LenProperties DEF Smaller
<1>. QED BY <1>1, Chunk

LEMMA FrontIsWellFormed == \A n : WellFormed(Front(n))
<1>1. /\ RequestLine.kind = "line" /\ RequestLine.val = 3
      /\ \A n : Front(n)[1] = RequestLine /\ Front(n) # <<>>
  BY DEF RequestLine, Front
<1>. QED BY <1>1 DEF WellFormed

LEMMA HeadAndBody ==
  ASSUME NEW n \in Int, NEW b \in Seq(Unit), NEW z \in Seq(Unit), Len(b) = BodyLength(n)
  PROVE  ReadsAs(RequestHead(n) \o b \o z, b, z)
<1>. DEFINE T == HEADER_TERMINATOR
            f == Front(n)
            s == RequestHead(n) \o b \o z
            q == Len(f) + 1
            l == IF n >= 0 THEN n ELSE -1
<1>1. /\ f \in Seq(Unit) /\ NoTerminator(f) /\ ContentLengths(f) = {l}
      /\ T \in Seq(Unit) /\ Len(T) = 2 /\ RequestHead(n) = f \o T
      /\ Len(f) \in Nat /\ Len(b) \in Nat /\ Len(z) \in Nat
  BY FrontType, HeadForm, TerminatorType, LenProperties
<1>2. BodyLength(l) = Len(b)
  BY DEF BodyLength
<1>. HIDE DEF f, l
<1>3. /\ f \o T \in Seq(Unit) /\ Len(f \o T) = Len(f) + 2
      /\ f \o T \o b \in Seq(Unit) /\ Len(f \o T \o b) = Len(f) + 2 + Len(b)
      /\ s \in Seq(Unit) /\ Len(s) = Len(f) + 2 + Len(b) + Len(z)
      /\ s = f \o T \o b \o z
  <2>. HIDE DEF T
  <2>1. f \o T \in Seq(Unit) /\ Len(f \o T) = Len(f) + 2
    BY <1>1, ConcatType, ConcatLen
  <2>2. f \o T \o b \in Seq(Unit) /\ Len(f \o T \o b) = Len(f) + 2 + Len(b)
    BY <1>1, <2>1, ConcatType, ConcatLen
  <2>3. s = f \o T \o b \o z
    BY <1>1
  <2>4. s \in Seq(Unit) /\ Len(s) = Len(f) + 2 + Len(b) + Len(z)
    BY <1>1, <2>2, <2>3, ConcatType, ConcatLen
  <2>. QED BY <2>1, <2>2, <2>3, <2>4
<1>4. /\ SubSeq(s, 1, q - 1) = f
      /\ SubSeq(s, q + 2, q + 1 + Len(b)) = b
      /\ SubSeq(s, q + 2 + Len(b), Len(s)) = z
  <2>1. /\ SubSeq(s, 1, Len(f) + 1 - 1) = f
        /\ SubSeq(s, Len(f) + 1 + 2, Len(f) + 1 + 1 + Len(b)) = b
    <3>1. s = f \o HEADER_TERMINATOR \o b \o z
      BY <1>3
    <3>2. /\ SubSeq(f \o HEADER_TERMINATOR \o b \o z, 1, Len(f) + 1 - 1) = f
          /\ SubSeq(f \o HEADER_TERMINATOR \o b \o z, Len(f) + 1 + 2, Len(f) + 1 + 1 + Len(b)) = b
      BY <1>1, BodyIsCut
    <3>. HIDE DEF s
    <3>. QED BY <3>1, <3>2, Zenon
  <2>2. SubSeq(s, Len(f) + 2 + Len(b) + 1, Len(s)) = z
    <3>. DEFINE a == f \o T \o b
    <3>1. a \in Seq(Unit) /\ Len(a) = Len(f) + 2 + Len(b) /\ s = a \o z
      BY <1>3
    <3>. HIDE DEF a, s
    <3>2. SubSeq(a \o z, Len(a) + 1, Len(a \o z)) = z
      BY <3>1, RestIsLeft
    <3>. QED BY <3>1, <3>2
  <2>. HIDE DEF s
  <2>3. q + 2 + Len(b) = Len(f) + 2 + Len(b) + 1 /\ q - 1 = Len(f) + 1 - 1
        /\ q + 2 = Len(f) + 1 + 2 /\ q + 1 + Len(b) = Len(f) + 1 + 1 + Len(b)
    BY <1>1
  <2>. QED BY <2>1, <2>2, <2>3
<1>5. HasTerminator(s) /\ PosTerminator(s) = q
  <2>. HIDE DEF T, s
  <2>1. b \o z \in Seq(Unit) /\ s = (f \o T) \o (b \o z)
    <3>1. b \o z \in Seq(Unit)
      BY ConcatType
    <3>2. ((f \o T) \o b) \o z = (f \o T) \o (b \o z)
      <4>. DEFINE ft == f \o T
      <4>1. ft \in Seq(Unit) /\ b \in Seq(Unit) /\ z \in Seq(Unit)
        BY <1>3
      <4>. HIDE DEF ft
      <4>2. (ft \o b) \o z = ft \o (b \o z)
        BY <4>1, Regroup, Zenon
      <4>. QED BY <4>2 DEF ft
    <3>. QED BY <1>3, <3>1, <3>2
  <2>2. HasTerminator(f \o HEADER_TERMINATOR \o (b \o z))
        /\ PosTerminator(f \o HEADER_TERMINATOR \o (b \o z)) = Len(f) + 1
    BY <1>1, <2>1, FrontOfStream
  <2>. QED BY <2>1, <2>2 DEF T
<1>. HIDE DEF s
<1>6. Framed(s, q, Len(b))
  <2>1. Len(s) >= q + 1 + Len(b)
    BY <1>1, <1>3
  <2>2. l \in ContentLengths(SubSeq(s, 1, q - 1))
    BY <1>1, <1>4
  <2>. HIDE DEF q
  <2>. QED BY <1>2, <1>5, <2>1, <2>2 DEF Framed
<1>7. q \in 1 .. Len(s) /\ Len(b) \in 0 .. Len(s)
  BY <1>1, <1>3
<1>8. ASSUME NEW p \in 1 .. Len(s), NEW k \in 0 .. Len(s), Framed(s, p, k)
      PROVE  p = q /\ k = Len(b)
  <2>1. p = q
    BY <1>5, <1>8 DEF Framed
  <2>2. PICK m \in ContentLengths(SubSeq(s, 1, q - 1)) : k = BodyLength(m)
    BY <1>8, <2>1 DEF Framed
  <2>3. m = l
    BY <1>1, <1>4, <2>2
  <2>. QED BY <1>2, <2>1, <2>2, <2>3
<1>. HIDE DEF q
<1>9. ReadsAs(s, b, z)
  <2>1. WellFormed(SubSeq(s, 1, q - 1))
    BY <1>4, FrontIsWellFormed DEF f
  <2>. QED BY <1>4, <1>6, <1>7, <1>8, <2>1 DEF ReadsAs
<1>. QED BY <1>9 DEF s

(* A request of HttpClient is read back as it was meant, whatever its body *)
(* contains and whatever follows it: one without a body (get, head,        *)
(* do_delete), one with its body behind the head as the framing expects it,*)
(* and the post that builds its own header (HttpClient.cpp:60-92, 191-286).*)
THEOREM RequestsAreReadBack ==
  \A d \in Seq(Unit), z \in Seq(Unit) :
    /\ ReadsAs(SendWithoutBody \o z, <<>>, z)
    /\ ReadsAs(ExpectedWithBody(d) \o z, d, z)
    /\ ReadsAs(PostPayload(d) \o z, d, z)
<1>. SUFFICES ASSUME NEW d \in Seq(Unit), NEW z \in Seq(Unit)
              PROVE  /\ ReadsAs(SendWithoutBody \o z, <<>>, z)
                     /\ ReadsAs(ExpectedWithBody(d) \o z, d, z)
                     /\ ReadsAs(PostPayload(d) \o z, d, z)
  OBVIOUS
<1>1. Len(d) \in Nat /\ Len(d) = BodyLength(Len(d))
  BY LenProperties DEF BodyLength
<1>0. PICK none \in Int, empty \in Seq(Unit) :
        none = -1 /\ empty = <<>> /\ Len(empty) = BodyLength(none)
  <2>1. -1 \in Int /\ <<>> \in Seq(Unit) /\ Len(<<>>) = 0 /\ BodyLength(-1) = 0
    BY EmptySeq DEF BodyLength
  <2>. QED BY <2>1
<1>2. ReadsAs(SendWithoutBody \o z, <<>>, z)
  <2>1. RequestHead(none) \o empty = RequestHead(none)
    BY <1>0, HeadForm, ConcatEmptySeq
  <2>2. ReadsAs(RequestHead(none) \o empty \o z, empty, z)
    BY <1>0, HeadAndBody
  <2>. QED BY <1>0, <2>1, <2>2 DEF SendWithoutBody
<1>3. ReadsAs(ExpectedWithBody(d) \o z, d, z)
  BY <1>1, HeadAndBody DEF ExpectedWithBody
<1>4. ReadsAs(PostPayload(d) \o z, d, z)
  <2>1. CASE d = <<>>
    <3>1. PostPayload(d) = RequestHead(none) \o empty /\ d = empty
      BY <1>0, <2>1 DEF PostPayload
    <3>2. ReadsAs(RequestHead(none) \o empty \o z, empty, z)
      BY <1>0, HeadAndBody
    <3>. QED BY <3>1, <3>2
  <2>2. CASE d # <<>>
    <3>1. PostPayload(d) = RequestHead(Len(d)) \o d
      BY <2>2 DEF PostPayload
    <3>. QED BY <1>1, <3>1, HeadAndBody
  <2>. QED BY <2>1, <2>2
<1>. QED BY <1>2, <1>3, <1>4

(* put and post of an HttpRequest write one line end too many between the  *)
(* head and the body (HttpClient.cpp:102-104, 122-124): for every body,    *)
(* what is read as the body is the line end and all of the body but its    *)
(* end, which is left in front of the next request. The run FramingClient  *)
(* shows it for one body.                                                  *)
THEOREM BodyIsShifted ==
  \A d \in Seq(Unit), z \in Seq(Unit) :
    LET sent == <<EOL>> \o d
    IN ReadsAs(SendWithBody(d) \o z, SubSeq(sent, 1, Len(d)),
               SubSeq(sent, Len(d) + 1, Len(sent)) \o z)
<1>. SUFFICES ASSUME NEW d \in Seq(Unit), NEW z \in Seq(Unit), NEW sent, sent = <<EOL>> \o d
              PROVE  ReadsAs(SendWithBody(d) \o z, SubSeq(sent, 1, Len(d)),
                             SubSeq(sent, Len(d) + 1, Len(sent)) \o z)
  OBVIOUS
<1>. DEFINE n == Len(d)
            h == RequestHead(n)
            b == SubSeq(sent, 1, n)
            r == SubSeq(sent, n + 1, Len(sent))
<1>1. n \in Nat /\ h \in Seq(Unit)
  BY HeadForm, LenProperties
<1>2. <<EOL>> \in Seq(Unit) /\ sent \in Seq(Unit) /\ Len(sent) = n + 1
  <2>1. <<EOL>> \in Seq(Unit) /\ Len(<<EOL>>) = 1
    BY DEF EOL, Unit
  <2>. QED BY <1>1, <2>1, ConcatType, ConcatLen
<1>3. b \in Seq(Unit) /\ r \in Seq(Unit) /\ b \o r = sent /\ Len(b) = n
  <2>. HIDE DEF n
  <2>1. n <= Len(sent)
    BY <1>1, <1>2
  <2>. QED BY <1>1, <1>2, <2>1, FrontAndRest
<1>. HIDE DEF n, h, b, r
<1>4. SendWithBody(d) \o z = h \o b \o (r \o z)
  <2>1. SendWithBody(d) = h \o <<EOL>> \o d
    BY DEF SendWithBody, h, n
  <2>2. h \o <<EOL>> \o d = h \o sent
    <3>1. <<EOL>> \in Seq(Unit)
      BY DEF EOL, Unit
    <3>. QED BY <1>1, <3>1, Regroup, Zenon
  <2>3. h \o sent = h \o b \o r
    <3>1. (h \o b) \o r = h \o (b \o r)
      BY <1>1, <1>3, Regroup, Zenon
    <3>. QED BY <1>3, <3>1
  <2>4. h \o b \in Seq(Unit)
    BY <1>1, <1>3, ConcatType
  <2>5. (h \o b \o r) \o z = (h \o b) \o (r \o z)
    BY <1>3, <2>4, Regroup
  <2>. QED BY <2>1, <2>2, <2>3, <2>5
<1>5. r \o z \in Seq(Unit) /\ n \in Int /\ Len(b) = BodyLength(n)
  BY <1>1, <1>3, ConcatType DEF BodyLength
<1>6. ReadsAs(h \o b \o (r \o z), b, r \o z)
  BY <1>1, <1>3, <1>5, HeadAndBody DEF h
<1>. QED BY <1>4, <1>6 DEF n, b, r

-----------------------------------------------------------------------------
(* The calls come to an end: how many steps they have left.                *)

LEMMA PlaceType == PlaceLeft \in Nat /\ PlaceLeft' \in Nat
BY DEF PlaceLeft

(* A step to a later place that reads nothing, and one that reads.         *)
LEMMA PlaceMoves ==
  ASSUME ExchangeTypeOK, PlaceLeft' < PlaceLeft, UNCHANGED wire
  PROVE  StepsLeft' < StepsLeft
<1>1. Len(wire) \in Nat /\ Len(wire') = Len(wire)
  BY LenProperties DEF ExchangeTypeOK
<1>. QED BY <1>1, PlaceType DEF StepsLeft

LEMMA WireMoves ==
  ASSUME ExchangeTypeOK, UNCHANGED pc, NEW m \in Nat, NEW n \in 1 .. Smaller(m, Len(wire)),
         wire' = SubSeq(wire, n + 1, Len(wire))
  PROVE  StepsLeft' < StepsLeft
<1>1. wire \in Seq(Unit) /\ Len(wire) \in Nat /\ n \in Nat \ {0} /\ n <= Len(wire)
  BY LenProperties DEF ExchangeTypeOK, Smaller
<1>2. Len(wire') = Len(wire) - n
  <2>1. n + 1 \in 1 .. Len(wire) + 1 /\ Len(wire) \in n .. Len(wire)
    BY <1>1
  <2>. QED BY <1>1, <2>1, SubSeqProperties
<1>3. PlaceLeft' = PlaceLeft
  BY DEF PlaceLeft
<1>. QED BY <1>1, <1>2, <1>3, PlaceType DEF StepsLeft

LEMMA CallStepShrinks ==
  ASSUME ExchangeTypeOK, CallStep \/ Breaks
  PROVE  StepsLeft' < StepsLeft
<1>1. CASE WriteStep
  <2>1. UNCHANGED wire
    BY <1>1 DEF WriteStep, WriteHead, WriteEol, WriteData, WriteFails
  <2>2. CASE WriteHead
    <3>1. pc = "write" /\ pc' \in {"eol", "header"}
      BY <2>2 DEF WriteHead
    <3>. QED BY <2>1, <3>1, PlaceMoves DEF PlaceLeft
  <2>3. CASE WriteEol \/ WriteData
    <3>1. (pc = "eol" /\ pc' = "data") \/ (pc = "data" /\ pc' = "header")
      BY <2>3 DEF WriteEol, WriteData
    <3>. QED BY <2>1, <3>1, PlaceMoves DEF PlaceLeft
  <2>4. CASE WriteFails
    <3>1. pc \in {"write", "eol", "data"} /\ pc' \in {"done", "header"}
      BY <2>4 DEF WriteFails
    <3>. QED BY <2>1, <3>1, PlaceMoves DEF PlaceLeft
  <2>. QED BY <1>1, <2>2, <2>3, <2>4 DEF WriteStep
<1>2. CASE ReadHeader
  <2>1. ChunkSize \in Nat
    BY ExchangeAssumption DEF ExchangeAssumption
  <2>2. PICK n \in 1 .. Smaller(ChunkSize, Len(wire)) : wire' = SubSeq(wire, n + 1, Len(wire))
    BY <1>2 DEF ReadHeader
  <2>3. UNCHANGED pc
    BY <1>2 DEF ReadHeader
  <2>. QED BY <2>1, <2>2, <2>3, WireMoves
<1>3. CASE ReadBody
  <2>1. Smaller(ChunkSize, Remaining) \in Nat
    <3>1. ChunkSize \in Nat /\ Remaining \in Int /\ Remaining > 0
      BY <1>3, ExchangeAssumption, LenProperties
         DEF ExchangeAssumption, ReadBody, Remaining, ExchangeTypeOK
    <3>. QED BY <3>1 DEF Smaller
  <2>2. PICK n \in 1 .. Smaller(Smaller(ChunkSize, Remaining), Len(wire)) :
          wire' = SubSeq(wire, n + 1, Len(wire))
    BY <1>3 DEF ReadBody
  <2>3. UNCHANGED pc
    BY <1>3 DEF ReadBody
  <2>. QED BY <2>1, <2>2, <2>3, WireMoves
<1>4. CASE FindTerminator \/ ParseHeaders
  <2>1. /\ UNCHANGED wire
        /\ (pc = "header" /\ pc' = "parse") \/ (pc = "parse" /\ pc' = "fill")
    BY <1>4 DEF FindTerminator, ParseHeaders
  <2>. QED BY <2>1, PlaceMoves DEF PlaceLeft
<1>5. CASE ReadEnds \/ Breaks
  <2>1. UNCHANGED wire /\ pc \in {"header", "fill"} /\ pc' = "done"
    BY <1>5 DEF ReadEnds, Breaks, AwaitsBytes, Raise, Leave
  <2>. QED BY <2>1, PlaceMoves DEF PlaceLeft
<1>6. CASE ReturnResponse
  <2>1. UNCHANGED wire /\ pc = "fill" /\ pc' = "done"
    BY <1>6 DEF ReturnResponse, Raise, Leave
  <2>. QED BY <2>1, PlaceMoves DEF PlaceLeft
<1>. QED BY <1>1, <1>2, <1>3, <1>4, <1>5, <1>6 DEF CallStep, ReadStep

LEMMA ShrinkHolds ==
  ASSUME ExchangeInv, ExchangeInv', [ExchangeNext]_vars
  PROVE  ShrinkStep
<1>0. ExchangeTypeOK /\ Len(wire) \in Nat /\ Len(wire') \in Nat
  BY LenProperties DEF ExchangeInv, ExchangeTypeOK
<1>1. StepsLeft \in Nat /\ StepsLeft' \in Nat
  BY <1>0, PlaceType DEF StepsLeft
<1>2. CallStep \/ Breaks => StepsLeft' < StepsLeft
  BY <1>0, CallStepShrinks
<1>3. ASSUME pc \notin {"idle", "done"}
      PROVE  \/ StepsLeft' <= StepsLeft
             \/ answer = <<>> /\ answer' # <<>> /\ StepsLeft' = StepsLeft + Len(answer')
  <2>1. CASE CallStep \/ Breaks
    BY <1>1, <1>2, <2>1
  <2>2. CASE Answer
    <3>1. peer = "reading" /\ wire' = answer' /\ UNCHANGED pc
      BY <2>2 DEF Answer
    <3>2. answer = <<>> /\ wire = <<>>
      BY <3>1 DEF ExchangeInv, StreamInv
    <3>3. PlaceLeft' = PlaceLeft /\ Len(wire) = 0
      BY <3>1, <3>2, EmptySeq DEF PlaceLeft
    <3>4. StepsLeft' = StepsLeft + Len(answer')
      BY <1>0, <3>1, <3>3, PlaceType DEF StepsLeft
    <3>5. CASE answer' = <<>>
      <4>1. Len(answer') = 0
        BY <3>5, EmptySeq
      <4>. QED BY <1>1, <3>4, <4>1
    <3>. QED BY <3>2, <3>4, <3>5
  <2>3. CASE UNCHANGED pc /\ UNCHANGED wire
    <3>1. StepsLeft' = StepsLeft
      BY <2>3 DEF StepsLeft, PlaceLeft
    <3>. QED BY <1>1, <3>1
  <2>4. \/ CallStep \/ Breaks \/ Answer
        \/ UNCHANGED pc /\ UNCHANGED wire
    BY <1>3 DEF ExchangeNext, CreateRequest, DeleteRequest, BeginCall, EndCall, TakeUp,
                PeerCloses, vars
  <2>. QED BY <2>1, <2>2, <2>3, <2>4
<1>. QED BY <1>1, <1>2, <1>3 DEF ShrinkStep

(* Writing a request and reading its answer take finitely many steps,      *)
(* whatever the server sends and in whatever pieces (HttpClient.cpp,       *)
(* HttpResponse.cpp): each takes one from a natural number, which only the *)
(* answer raises, once, by its length. With the fairness of                *)
(* FairExchangeSpec, a call that does not end is one that waits.           *)
THEOREM CallsAreFinite == ExchangeSpec => CallsShrink
<1>1. ExchangeInv /\ [ExchangeNext]_vars => ExchangeInv'
  BY ExchangeInvStep
<1>2. ExchangeInv /\ ExchangeInv' /\ [ExchangeNext]_vars => [ShrinkStep]_vars
  BY ShrinkHolds
<1>. QED BY <1>1, <1>2, ExchangeInvInit, PTL DEF ExchangeSpec, CallsShrink

-----------------------------------------------------------------------------
(* From the writes of a call to what the server takes for its request.     *)

(* What is on the wire at every place of a call, for every way to write.   *)
RequestInv ==
  /\ argumentLength >= -1
  /\ method = "bare" => data = <<>>
  /\ pc \in {"eol", "data"} => method = "body"
  /\ pc = "eol" => written = RequestHead(Len(data))
  /\ pc = "data" => written = RequestHead(Len(data)) \o <<EOL>>
  /\ pc = "header" /\ socket = "open" =>
       /\ method = "bare" => written = RequestHead(argumentLength)
       /\ method = "body" => written = SendWithBody(data)
       /\ method = "post" => written = PostPayload(data)

LEMMA RequestStep ==
  ASSUME ExchangeTypeOK, OwnerInv, RequestInv, [ExchangeNext]_vars
  PROVE  RequestInv'
<1>t. Len(data) \in Nat /\ argumentLength \in Int /\ argumentLength >= -1
  BY LenProperties DEF ExchangeTypeOK, RequestInv
<1>1. CASE WriteHead
  <2>1. /\ pc = "write" /\ UNCHANGED method /\ UNCHANGED data
        /\ argumentLength' \in {argumentLength, Len(data)}
        /\ \/ method = "bare" /\ pc' = "header" /\ written' = RequestHead(argumentLength')
           \/ method = "body" /\ pc' = "eol" /\ written' = RequestHead(Len(data))
           \/ method = "post" /\ pc' = "header" /\ written' = PostPayload(data)
    BY <1>1 DEF WriteHead, HeadLength, ExchangeTypeOK, Methods
  <2>. QED BY <1>t, <2>1 DEF RequestInv
<1>2. CASE WriteEol
  BY <1>2 DEF WriteEol, RequestInv, callVars
<1>3. CASE WriteData
  <2>1. /\ pc = "data" /\ pc' = "header" /\ written' = written \o data
        /\ UNCHANGED method /\ UNCHANGED data /\ UNCHANGED argumentLength
    BY <1>3 DEF WriteData, callVars
  <2>2. method = "body" /\ written' = SendWithBody(data)
    BY <2>1 DEF RequestInv, SendWithBody
  <2>. QED BY <1>t, <2>1, <2>2 DEF RequestInv
<1>4. CASE WriteFails
  BY <1>4, <1>t DEF WriteFails, RequestInv
<1>5. CASE CreateRequest \/ \E m \in Methods, d \in Data \cup {<<>>} : BeginCall(m, d)
  BY <1>5, <1>t DEF CreateRequest, BeginCall, RequestInv, OwnerInv
<1>6. CASE ~WriteHead /\ ~WriteEol /\ ~WriteData /\ ~WriteFails /\ ~CreateRequest
           /\ ~\E m \in Methods, d \in Data \cup {<<>>} : BeginCall(m, d)
  <2>1. /\ UNCHANGED argumentLength /\ UNCHANGED method /\ UNCHANGED data /\ UNCHANGED written
        /\ pc' \in {"parse", "fill", "done", "idle"} \/ (pc' = pc /\ socket' = socket)
    BY <1>6 DEF ExchangeNext, CallStep, WriteStep, ReadStep, DeleteRequest, ReadHeader,
                FindTerminator, ParseHeaders, ReadBody, ReadEnds, Breaks, Raise, Leave,
                ReturnResponse, EndCall, TakeUp, Answer, PeerCloses, vars, callVars
  <2>. QED BY <2>1 DEF RequestInv
<1>. QED BY <1>1, <1>2, <1>3, <1>4, <1>5, <1>6

(* A client that waits for its answer has put one request on the wire, and *)
(* whoever reads it by its terminator and its Content-Length takes exactly *)
(* what the caller gave, and leaves what follows alone; except for put and *)
(* post of an HttpRequest, whose body is taken from one line end too early.*)
RequestsArrive ==
  pc = "header" /\ socket = "open" /\ ~Stale =>
    \A z \in Seq(Unit) :
      /\ method # "body" => ReadsAs(written \o z, data, z)
      /\ method = "body" =>
           LET sent == <<EOL>> \o data
           IN ReadsAs(written \o z, SubSeq(sent, 1, Len(data)),
                      SubSeq(sent, Len(data) + 1, Len(sent)) \o z)

LEMMA RequestsAreTaken ==
  ASSUME ExchangeTypeOK, RequestInv
  PROVE  RequestsArrive
<1>. SUFFICES ASSUME pc = "header", socket = "open", ~Stale, NEW z \in Seq(Unit)
              PROVE  /\ method # "body" => ReadsAs(written \o z, data, z)
                     /\ method = "body" =>
                          LET sent == <<EOL>> \o data
                          IN ReadsAs(written \o z, SubSeq(sent, 1, Len(data)),
                                     SubSeq(sent, Len(data) + 1, Len(sent)) \o z)
  BY DEF RequestsArrive
<1>1. data \in Seq(Unit) /\ method \in Methods
  BY DEF ExchangeTypeOK
<1>2. CASE method = "body"
  <2>1. written = SendWithBody(data)
    BY <1>2 DEF RequestInv
  <2>. QED BY <1>1, <1>2, <2>1, BodyIsShifted
<1>3. CASE method = "post"
  <2>1. written = PostPayload(data)
    BY <1>3 DEF RequestInv
  <2>. QED BY <1>1, <1>3, <2>1, RequestsAreReadBack
<1>4. CASE method = "bare"
  <2>1. PICK n \in Int : n = argumentLength /\ BodyLength(n) = 0
    BY <1>4 DEF RequestInv, Stale, ExchangeTypeOK, BodyLength
  <2>2. written = RequestHead(n) /\ data = <<>> /\ Len(data) = BodyLength(n)
    BY <1>4, <2>1, EmptySeq DEF RequestInv
  <2>3. RequestHead(n) \in Seq(Unit) /\ RequestHead(n) \o data = RequestHead(n)
    BY <2>1, <2>2, HeadForm, ConcatEmptySeq
  <2>4. ReadsAs(RequestHead(n) \o data \o z, data, z)
    BY <1>1, <2>2, HeadAndBody
  <2>. QED BY <1>4, <2>2, <2>3, <2>4
<1>. QED BY <1>1, <1>2, <1>3, <1>4 DEF Methods

(* For every method, every body and whatever a caller sent before with the *)
(* same HttpRequest, as long as its Content-Length is not a stale one.     *)
THEOREM RequestsReachTheServer == ExchangeSpec => []RequestsArrive
<1>. DEFINE Inv == ExchangeTypeOK /\ OwnerInv /\ RequestInv
<1>1. ExchangeInit => Inv
  <2>1. ExchangeInit => RequestInv
    BY DEF ExchangeInit, RequestInv
  <2>. QED BY <2>1, ExchangeTypeInit, OwnerInit
<1>2. Inv /\ [ExchangeNext]_vars => Inv'
  BY ExchangeStepType, OwnerStep, RequestStep
<1>3. Inv => RequestsArrive
  BY RequestsAreTaken
<1>. QED BY <1>1, <1>2, <1>3, PTL DEF ExchangeSpec

=============================================================================
