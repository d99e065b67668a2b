--------------------------- MODULE HttpTransaction ---------------------------
(***************************************************************************)
(* HttpTransaction::streamFromConnection (src/HttpTransaction.cpp) as the  *)
(* HttpRequest constructor and the keep-alive loop of HttpRequestHandler   *)
(* use it: requests are read one after the other off one connection, in    *)
(* chunks that do not respect their boundaries, and bytes read too far are *)
(* carried over to the next request.                                       *)
(*                                                                         *)
(* stream is everything the peer will ever send. A read on the exhausted  *)
(* stream returns <= 0 (the peer has closed); so may any other (a time-out *)
(* or a network error). The code does not tell the two apart, the model    *)
(* does, for its properties: pc is failed after the one, broken after the  *)
(* other.                                                                  *)
(***************************************************************************)
EXTENDS HttpBytes

CONSTANTS
  Streams,       \* the byte streams a peer may send
  ChunkSize      \* bound for the 8192 bytes a read asks for

ASSUME StreamsAssumption == Streams \subseteq Seq(Unit)
ASSUME ChunkAssumption == ChunkSize \in Nat \ {0}

VARIABLES
  stream,           \* Seq(Unit), never changes
  wire,             \* Seq(Unit) not yet read
  unconsumed,       \* Seq(Unit) m_unconsumedBytes, carried between requests
  buffered,         \* Seq(Unit) the local of streamFromConnection
  foundHeaderEnd,   \* BOOLEAN
  headers,          \* Seq(Unit)
  contentLength,    \* Int
  body,             \* Seq(Unit) what of the body has been filled in
  consumed,         \* Seq(Unit) history: the bytes of the finished requests
  delivered,        \* Seq([headers, body]) the requests handed to the handler
  pc                \* where the thread stands

parseVars == <<buffered, foundHeaderEnd, headers, contentLength, body>>
resultVars == <<consumed, delivered>>
vars == <<stream, wire, unconsumed, parseVars, resultVars, pc>>

Step == {"ready", "header", "parse", "body", "served",
         "closed", "failed", "broken", "rejected"}

Init ==
  /\ stream \in Streams
  /\ wire = stream
  /\ unconsumed = <<>> /\ buffered = <<>>
  /\ foundHeaderEnd = FALSE /\ headers = <<>>
  /\ contentLength = -1 /\ body = <<>>
  /\ consumed = <<>> /\ delivered = <<>>
  /\ pc = "ready"

-----------------------------------------------------------------------------
(* A new HttpRequest: takeUnconsumedBytes seeds the buffer.                *)
Begin ==
  /\ pc = "ready"
  /\ buffered' = unconsumed
  /\ unconsumed' = <<>>
  /\ pc' = "header"
  /\ UNCHANGED <<stream, wire, foundHeaderEnd, headers, contentLength, body, resultVars>>

(* The terminator is searched in all that has been buffered, not only in   *)
(* the last chunk.                                                         *)
FaultyFindTerminator ==
  /\ pc = "header" /\ HasTerminator(buffered)
  /\ LET p == PosTerminator(buffered)
     IN /\ headers' = SubSeq(buffered, 1, p - 1)
        /\ buffered' = SubSeq(buffered, p + 1, Len(buffered))
  /\ foundHeaderEnd' = TRUE
  /\ pc' = "parse"
  /\ UNCHANGED <<stream, wire, unconsumed, contentLength, body, resultVars>>

FindTerminator ==
  /\ pc = "header" /\ HasTerminator(buffered)
  /\ LET p == PosTerminator(buffered)
     IN /\ headers' = SubSeq(buffered, 1, p - 1)
        /\ buffered' = SubSeq(buffered, p + 2, Len(buffered))
  /\ foundHeaderEnd' = TRUE
  /\ pc' = "parse"
  /\ UNCHANGED <<stream, wire, unconsumed, contentLength, body, resultVars>>

(* A read returns between one unit and the number asked for.               *)
ReadHeader ==
  /\ pc = "header" /\ ~HasTerminator(buffered)
  /\ \E n \in 1 .. Smaller(ChunkSize, Len(wire)) :
       /\ buffered' = buffered \o SubSeq(wire, 1, n)
       /\ wire' = SubSeq(wire, n + 1, Len(wire))
  /\ UNCHANGED <<stream, unconsumed, foundHeaderEnd, headers, contentLength, body, resultVars, pc>>

(* The header lines are stored, getContentLength, and the start of the     *)
(* body is served from the buffer.                                         *)
FaultyParseHeaders ==
  /\ pc = "parse"
  /\ \E l \in ContentLengths(headers) :
       LET fromBuffer == Smaller(Len(buffered), BodyLength(l))
       IN /\ contentLength' = l
          /\ body' = SubSeq(buffered, 1, fromBuffer)
  /\ pc' = "body"
  /\ UNCHANGED <<stream, wire, unconsumed, buffered, foundHeaderEnd, headers, resultVars>>

ParseHeaders ==
  /\ pc = "parse"
  /\ \E l \in ContentLengths(headers) :
       LET fromBuffer == Smaller(Len(buffered), BodyLength(l))
       IN /\ contentLength' = l
          /\ body' = SubSeq(buffered, 1, fromBuffer)
          /\ buffered' = SubSeq(buffered, fromBuffer + 1, Len(buffered))
  /\ pc' = "body"
  /\ UNCHANGED <<stream, wire, unconsumed, foundHeaderEnd, headers, resultVars>>

Remaining == BodyLength(contentLength) - Len(body)

(* The body loop asks for no more than what remains of the body.           *)
ReadBody ==
  /\ pc = "body" /\ Remaining > 0
  /\ \E n \in 1 .. Smaller(Smaller(ChunkSize, Remaining), Len(wire)) :
       /\ body' = body \o SubSeq(wire, 1, n)
       /\ wire' = SubSeq(wire, n + 1, Len(wire))
  /\ UNCHANGED <<stream, unconsumed, buffered, foundHeaderEnd, headers, contentLength, resultVars, pc>>

(* bytes_read <= 0 in either loop: streamFromConnection returns false, the *)
(* HttpRequest constructor throws, the handler returns.                    *)
FaultyReadFails ==
  /\ \/ pc = "header"
     \/ pc = "body" /\ Remaining > 0
  /\ \/ wire = <<>> /\ pc' = "failed"
     \/ pc' = "broken"
  /\ UNCHANGED <<stream, wire, unconsumed, parseVars, resultVars>>

ReadFails ==
  /\ \/ pc = "header" /\ ~HasTerminator(buffered)
     \/ pc = "body" /\ Remaining > 0
  /\ \/ wire = <<>> /\ pc' = "failed"
     \/ pc' = "broken"
  /\ UNCHANGED <<stream, wire, unconsumed, parseVars, resultVars>>

(* setBody, setUnconsumedBytes, and the return to HttpRequest, which looks *)
(* at the first line: three words, and the handler gets the request, or    *)
(* the handler ends the connection. The locals are gone.                   *)
FaultyFinishWithoutBody ==
  /\ pc = "body" /\ ~(Remaining > 0)
  /\ unconsumed' = buffered
  /\ consumed' = consumed \o headers \o HEADER_TERMINATOR \o body
  /\ buffered' = <<>> /\ foundHeaderEnd' = FALSE /\ headers' = <<>>
  /\ contentLength' = -1 /\ body' = <<>>
  /\ IF WellFormed(headers)
     THEN /\ delivered' = Append(delivered, [headers |-> headers])
          /\ pc' = "served"
     ELSE /\ pc' = "rejected"
          /\ UNCHANGED delivered
  /\ UNCHANGED <<stream, wire>>

FaultyFinish ==
  /\ pc = "body" /\ ~(Remaining > 0)
  /\ unconsumed' = <<>>
  /\ consumed' = consumed \o headers \o HEADER_TERMINATOR \o body
  /\ buffered' = <<>> /\ foundHeaderEnd' = FALSE /\ headers' = <<>>
  /\ contentLength' = -1 /\ body' = <<>>
  /\ IF WellFormed(headers)
     THEN /\ delivered' = Append(delivered, [headers |-> headers, body |-> body])
          /\ pc' = "served"
     ELSE /\ pc' = "rejected"
          /\ UNCHANGED delivered
  /\ UNCHANGED <<stream, wire>>

Finish ==
  /\ pc = "body" /\ ~(Remaining > 0)
  /\ unconsumed' = buffered
  /\ consumed' = consumed \o headers \o HEADER_TERMINATOR \o body
  /\ buffered' = <<>> /\ foundHeaderEnd' = FALSE /\ headers' = <<>>
  /\ contentLength' = -1 /\ body' = <<>>
  /\ IF WellFormed(headers)
     THEN /\ delivered' = Append(delivered, [headers |-> headers, body |-> body])
          /\ pc' = "served"
     ELSE /\ pc' = "rejected"
          /\ UNCHANGED delivered
  /\ UNCHANGED <<stream, wire>>

(* The handler answers, and goes on (keep-alive) or leaves its loop.       *)
KeepAlive ==
  /\ pc = "served"
  /\ pc' = "ready"
  /\ UNCHANGED <<stream, wire, unconsumed, parseVars, resultVars>>

CloseConnection ==
  /\ pc = "served"
  /\ pc' = "closed"
  /\ UNCHANGED <<stream, wire, unconsumed, parseVars, resultVars>>

Read == Begin \/ FindTerminator \/ ReadHeader \/ ParseHeaders \/ ReadBody \/ ReadFails \/ Finish

Next == Read \/ KeepAlive \/ CloseConnection

Spec == Init /\ [][Next]_vars

(* The thread is scheduled; the peer sends its stream and closes, or the   *)
(* network fails, so that every read returns.                              *)
FairSpec == Spec /\ WF_vars(Read) /\ WF_vars(KeepAlive \/ CloseConnection)

-----------------------------------------------------------------------------
(* Properties.                                                             *)

Message == [headers : Seq(Unit), body : Seq(Unit)]

(* Every variable has its type.                                            *)
TypeOK ==
  /\ stream \in Seq(Unit) /\ wire \in Seq(Unit)
  /\ unconsumed \in Seq(Unit) /\ buffered \in Seq(Unit)
  /\ foundHeaderEnd \in BOOLEAN /\ headers \in Seq(Unit)
  /\ contentLength \in Int /\ body \in Seq(Unit)
  /\ consumed \in Seq(Unit) /\ delivered \in Seq(Message)
  /\ pc \in Step

(* What has been read and does not belong to a finished request.           *)
InProgress ==
  (IF foundHeaderEnd THEN headers \o HEADER_TERMINATOR \o body ELSE <<>>)
    \o buffered \o unconsumed

(* The stream from the end of the last finished request on.                *)
Rest == InProgress \o wire

(* No byte of the stream is lost, repeated or moved by the hand-over       *)
(* between requests, whatever the sizes of the reads: the finished         *)
(* requests, what is in progress and what is unread are the stream.        *)
BytesConserved == stream = consumed \o Rest

(* What the peer sends after the last finished request starts with a whole *)
(* request, whichever of its lengths counts.                               *)
WholeRequestInFront ==
  LET ahead == SubSeq(stream, Len(consumed) + 1, Len(stream))
      front == SubSeq(ahead, 1, PosTerminator(ahead) - 1)
  IN /\ HasTerminator(ahead)
     /\ WellFormed(front)
     /\ \A l \in ContentLengths(front) :
          Len(ahead) >= Len(front) + 2 + BodyLength(l)

(* A connection is given up for want of bytes only if the rest of the      *)
(* stream is not a whole request: bytes the server has already read are    *)
(* never forgotten in a buffer while it waits for more.                    *)
GivesUpOnlyOnPartOfARequest ==
  pc = "failed" => ~WholeRequestInFront

(* A whole request the peer has sent is delivered, unless the handler ends *)
(* the connection or the network fails.                                    *)
WholeRequestDelivered ==
  \A n \in 0 .. 3 :
    (Len(delivered) = n /\ WholeRequestInFront /\ pc # "rejected")
      ~> (Len(delivered) > n \/ pc \in {"closed", "broken"})

(* The framing of the stream, free of reads and buffers: RequestStream.tla.*)
Framing == INSTANCE RequestStream WITH
  rest <- Rest,
  over <- pc \in {"failed", "broken", "rejected", "closed"}

(* Whatever the reads return, the requests delivered are those one gets by *)
(* cutting the stream into requests from its start.                        *)
ImplementsFraming == Framing!Spec

=============================================================================
