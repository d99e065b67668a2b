---------------------------- MODULE HttpExchange ----------------------------
(***************************************************************************)
(* One thread that makes calls with HttpClient (src/HttpClient.cpp), one   *)
(* after the other, and HttpResponse::streamFromConnection                 *)
(* (src/HttpResponse.cpp), which reads the answers.                        *)
(*                                                                         *)
(* The server at the other end is external. Like misere it has a number of *)
(* worker threads, one of which must be free for a connection, waits for a *)
(* whole request, answers at most once, and may close or fail at any time. *)
(* It has no time-out for a first request.                                 *)
(*                                                                         *)
(* An HttpRequest of a Url opens a connection of its own, which get and    *)
(* its like do not use: they open another one.                             *)
(***************************************************************************)
EXTENDS HttpClient

CONSTANTS
  Answers,          \* the byte streams a server may answer with
  Data,             \* the bodies a caller may send
  MaxCalls,         \* bound on the calls of the caller
  ChunkSize,        \* bound for the 8192 bytes a read asks for
  ServerThreads,    \* worker threads of the server
  Uninitialized     \* what m_statusCodeAsInteger may hold before it is set

ASSUME ExchangeAssumption ==
  /\ Answers \subseteq Seq(Unit)
  /\ \A a \in Answers : a # <<>> => ~(a[1].kind = "line" /\ a[1].val >= 3) \* that is a status
  /\ Data \subseteq Seq(Unit)
  /\ MaxCalls \in Nat /\ ChunkSize \in Nat \ {0} /\ ServerThreads \in Nat \ {0}
  /\ Uninitialized \subseteq Int /\ Uninitialized # {}

(* bare: get, head, do_delete. body: put and post of an HttpRequest. post: *)
(* the post that builds its own header.                                    *)
Methods == {"bare", "body", "post"}

NoResult == [kind |-> "none", status |-> 0, body |-> <<>>]

VARIABLES
  hasRequest,       \* the caller has an HttpRequest, and it its connection
  argumentLength,   \* the Content-Length among its m_arguments, or -1
  calls,            \* how many calls have begun
  method, data,     \* of the call under way, or the last one
  socket,           \* its connection: "none", "open", or "failed" in a write
  written,          \* Seq(Unit) written to it
  peer,             \* "queued", "reading", "answered" or "closed"
  answer,           \* Seq(Unit) history: all the server sends
  wire,             \* Seq(Unit) not yet read
  buffered, foundHeaderEnd, headers, contentLength, body,
  result,           \* what the caller gets
  pc                \* where the call stands

callVars == <<hasRequest, argumentLength, calls, method, data>>
peerVars == <<peer, answer>>
readVars == <<buffered, foundHeaderEnd, headers, contentLength, body>>
vars == <<callVars, socket, written, peerVars, wire, readVars, result, pc>>

ExchangeInit ==
  /\ hasRequest = FALSE /\ argumentLength = -1
  /\ calls = 0 /\ method = "bare" /\ data = <<>>
  /\ socket = "none" /\ written = <<>>
  /\ peer = "closed" /\ answer = <<>> /\ wire = <<>>
  /\ buffered = <<>> /\ foundHeaderEnd = FALSE /\ headers = <<>>
  /\ contentLength = 0 /\ body = <<>>
  /\ result = NoResult /\ pc = "idle"

-----------------------------------------------------------------------------
(* The caller.                                                             *)

(* HttpRequest(url); when its connection cannot be opened it throws, and   *)
(* there is no request.                                                    *)
CreateRequest ==
  /\ pc = "idle" /\ ~hasRequest
  /\ hasRequest' = TRUE /\ argumentLength' = -1
  /\ UNCHANGED <<calls, method, data, socket, written, peerVars, wire, readVars, result, pc>>

DeleteRequest ==
  /\ pc = "idle" /\ hasRequest
  /\ hasRequest' = FALSE
  /\ UNCHANGED <<argumentLength, calls, method, data, socket, written, peerVars, wire,
                 readVars, result, pc>>

(* socketForRequest and the SocketConnection. The Socket that cannot       *)
(* connect throws (external), and so does the call.                        *)
BeginCall(m, d) ==
  /\ pc = "idle" /\ calls < MaxCalls
  /\ m # "post" => hasRequest
  /\ m = "bare" => d = <<>>
  /\ calls' = calls + 1 /\ method' = m /\ data' = d
  /\ \/ /\ socket' = "open" /\ peer' = "queued"
        /\ result' = NoResult
        /\ pc' = "write"
     \/ /\ socket' = "none" /\ peer' = "closed"
        /\ result' = [kind |-> "broken", status |-> 0, body |-> <<>>]
        /\ pc' = "done"
  /\ written' = <<>> /\ answer' = <<>> /\ wire' = <<>>
  /\ UNCHANGED <<hasRequest, argumentLength, readVars>>

(* The Content-Length that goes with the head: HttpRequest::write sets it  *)
(* for a body, and it stays among the arguments.                           *)
HeadLength == IF method = "body" THEN Len(data) ELSE argumentLength

WriteHead ==
  /\ pc = "write"
  /\ \/ /\ method # "post"
        /\ argumentLength' = HeadLength
        /\ written' = RequestHead(HeadLength)
        /\ pc' = IF method = "body" THEN "eol" ELSE "header"
     \/ /\ method = "post"
        /\ written' = PostPayload(data)
        /\ pc' = "header"
        /\ UNCHANGED argumentLength
  /\ UNCHANGED <<hasRequest, calls, method, data, socket, peerVars, wire, readVars, result>>

WriteEol ==
  /\ pc = "eol"
  /\ written' = written \o <<EOL>>
  /\ pc' = "data"
  /\ UNCHANGED <<callVars, socket, peerVars, wire, readVars, result>>

WriteData ==
  /\ pc = "data"
  /\ written' = written \o data
  /\ pc' = "header"
  /\ UNCHANGED <<callVars, socket, peerVars, wire, readVars, result>>

(* A write returns false: the connection is deleted and the caller gets no *)
(* response. sendReceive does not look, and goes on to read.               *)
FaultyWriteFails ==
  /\ pc \in {"write", "eol", "data"}
  /\ argumentLength' = IF pc = "write" /\ method = "body" THEN Len(data) ELSE argumentLength
  /\ \/ /\ method # "post"
        /\ result' = [kind |-> "null", status |-> 0, body |-> <<>>]
        /\ pc' = "done"
        /\ UNCHANGED socket
     \/ /\ method = "post"
        /\ socket' = "failed"
        /\ pc' = "header"
        /\ UNCHANGED result
  /\ UNCHANGED <<hasRequest, calls, method, data, written, peerVars, wire, readVars>>

WriteFails ==
  /\ pc \in {"write", "eol", "data"}
  /\ argumentLength' = IF pc = "write" /\ method = "body" THEN Len(data) ELSE argumentLength
  /\ \/ /\ method # "post"
        /\ socket' = "none"
        /\ result' = [kind |-> "null", status |-> 0, body |-> <<>>]
        /\ pc' = "done"
     \/ /\ method = "post"
        /\ socket' = "failed"
        /\ pc' = "header"
        /\ UNCHANGED result
  /\ UNCHANGED <<hasRequest, calls, method, data, written, peerVars, wire, readVars>>

-----------------------------------------------------------------------------
(* HttpResponse::streamFromConnection2: its own copy of the loops of       *)
(* HttpTransaction::streamFromConnection.                                  *)

ReadHeader ==
  /\ pc = "header" /\ ~HasTerminator(buffered)
  /\ socket = "open"
  /\ \E n \in 1 .. Smaller(ChunkSize, Len(wire)) :
       /\ buffered' = buffered \o SubSeq(wire, 1, n)
       /\ wire' = SubSeq(wire, n + 1, Len(wire))
  /\ UNCHANGED <<callVars, socket, written, peerVars, foundHeaderEnd, headers, contentLength,
                 body, result, pc>>

FindTerminator ==
  /\ pc = "header" /\ HasTerminator(buffered)
  /\ LET p == PosTerminator(buffered)
     IN /\ headers' = SubSeq(buffered, 1, p - 1)
        /\ buffered' = SubSeq(buffered, p + 2, Len(buffered))
  /\ foundHeaderEnd' = TRUE
  /\ pc' = "parse"
  /\ UNCHANGED <<callVars, socket, written, peerVars, wire, contentLength, body, result>>

(* Without a Content-Length HttpResponse takes 0, so that there is no body.*)
FaultyParseHeaders ==
  /\ pc = "parse"
  /\ \E l \in ContentLengths(headers) :
       LET fromBuffer == Smaller(Len(buffered), BodyLength(l))
       IN /\ contentLength' = l
          /\ body' = SubSeq(buffered, 1, fromBuffer)
          /\ buffered' = SubSeq(buffered, fromBuffer + 1, Len(buffered))
  /\ pc' = "fill"
  /\ UNCHANGED <<callVars, socket, written, peerVars, wire, foundHeaderEnd, headers, result>>

ParseHeaders ==
  /\ pc = "parse"
  /\ \E l \in ContentLengths(headers) :
       LET fromBuffer == Smaller(Len(buffered), BodyLength(l))
       IN /\ contentLength' = BodyLength(l)
          /\ body' = SubSeq(buffered, 1, fromBuffer)
          /\ buffered' = SubSeq(buffered, fromBuffer + 1, Len(buffered))
  /\ pc' = "fill"
  /\ UNCHANGED <<callVars, socket, written, peerVars, wire, foundHeaderEnd, headers, result>>

Remaining == contentLength - Len(body)

FaultyReadBody ==
  /\ pc = "fill" /\ Remaining > 0
  /\ socket = "open"
  /\ \E n \in 1 .. Smaller(ChunkSize, Len(wire)) :
       /\ body' = body \o SubSeq(wire, 1, n)
       /\ wire' = SubSeq(wire, n + 1, Len(wire))
  /\ UNCHANGED <<callVars, socket, written, peerVars, buffered, foundHeaderEnd, headers,
                 contentLength, result, pc>>

ReadBody ==
  /\ pc = "fill" /\ Remaining > 0
  /\ socket = "open"
  /\ \E n \in 1 .. Smaller(Smaller(ChunkSize, Remaining), Len(wire)) :
       /\ body' = body \o SubSeq(wire, 1, n)
       /\ wire' = SubSeq(wire, n + 1, Len(wire))
  /\ UNCHANGED <<callVars, socket, written, peerVars, buffered, foundHeaderEnd, headers,
                 contentLength, result, pc>>

(* The end of streamFromConnection2 and of its local variables; the caller *)
(* has its result.                                                         *)
Leave ==
  /\ pc' = "done"
  /\ buffered' = <<>> /\ foundHeaderEnd' = FALSE /\ headers' = <<>>
  /\ contentLength' = 0 /\ body' = <<>>

(* The HttpResponse under construction is gone, with the connection it     *)
(* owns and all that was read.                                             *)
Raise(kind, status) ==
  /\ result' = [kind |-> kind, status |-> status, body |-> <<>>]
  /\ socket' = "none"
  /\ Leave

FaultyAwaitsBytes ==
  \/ pc = "header" /\ ~HasTerminator(buffered)
  \/ pc = "fill" /\ Remaining >= 0

AwaitsBytes ==
  \/ pc = "header" /\ ~HasTerminator(buffered)
  \/ pc = "fill" /\ Remaining > 0

(* A read returns <= 0, because the server has closed, or a write had      *)
(* failed; or because the network fails, at any time. The code does not    *)
(* tell one from the other.                                                *)
FaultyReadEnds ==
  /\ AwaitsBytes
  /\ socket = "failed" /\ Raise("broken", 0)
  /\ UNCHANGED <<callVars, written, peerVars, wire>>

ReadEnds ==
  /\ AwaitsBytes
  /\ \/ socket = "failed" /\ Raise("broken", 0)
     \/ socket = "open" /\ wire = <<>> /\ peer = "closed" /\ Raise("failed", 0)
  /\ UNCHANGED <<callVars, written, peerVars, wire>>

Breaks ==
  /\ AwaitsBytes
  /\ Raise("broken", 0)
  /\ UNCHANGED <<callVars, written, peerVars, wire>>

(* The status line has three words or more.                                *)
HasStatus == headers # <<>> /\ headers[1].kind = "status"

(* m_statusCodeAsInteger is set by such a line only.                       *)
Statuses == IF HasStatus THEN {headers[1].val} ELSE Uninitialized

(* HttpResponse::streamFromConnection: a status from 400 on is thrown, as  *)
(* is one that is not a number; else the caller gets the response, which   *)
(* keeps the connection.                                                   *)
ReturnResponse ==
  /\ pc = "fill" /\ ~(Remaining > 0)
  /\ \E status \in Statuses :
       IF HasStatus /\ status >= 400 THEN Raise("http", status)
       ELSE IF HasStatus /\ status = 0 THEN Raise("failed", 0)
       ELSE /\ result' = [kind |-> "response", status |-> status, body |-> body]
            /\ Leave
            /\ UNCHANGED socket
  /\ UNCHANGED <<callVars, written, peerVars, wire>>

(* The caller has looked at the result and deletes a response it got, with *)
(* the connection.                                                         *)
EndCall ==
  /\ pc = "done"
  /\ pc' = "idle"
  /\ socket' = IF result.kind = "response" THEN "none" ELSE socket
  /\ UNCHANGED <<callVars, written, peerVars, wire, readVars, result>>

-----------------------------------------------------------------------------
(* The server.                                                             *)

(* Where the headers of a message at the front of b end, and how long its  *)
(* body is.                                                                *)
Framed(b, p, n) ==
  /\ HasTerminator(b) /\ p = PosTerminator(b)
  /\ \E l \in ContentLengths(SubSeq(b, 1, p - 1)) : n = BodyLength(l)
  /\ Len(b) >= p + 1 + n

Whole(b) == \E p \in 1 .. Len(b), n \in 0 .. Len(b) : Framed(b, p, n)

(* A thread takes up the connection. The one of the HttpRequest came first *)
(* and has a thread already.                                               *)
TakeUp ==
  /\ socket = "open" /\ peer = "queued"
  /\ (IF hasRequest THEN 1 ELSE 0) < ServerThreads
  /\ peer' = "reading"
  /\ UNCHANGED <<callVars, socket, written, answer, wire, readVars, result, pc>>

Answer ==
  /\ socket = "open" /\ peer = "reading" /\ Whole(written)
  /\ peer' = "answered"
  /\ \E a \in Answers : answer' = a /\ wire' = a
  /\ UNCHANGED <<callVars, socket, written, readVars, result, pc>>

PeerCloses ==
  /\ peer \in {"queued", "reading", "answered"}
  /\ peer' = "closed"
  /\ UNCHANGED <<callVars, socket, written, answer, wire, readVars, result, pc>>

-----------------------------------------------------------------------------

ReadStep ==
  ReadHeader \/ FindTerminator \/ ParseHeaders \/ ReadBody \/ ReadEnds \/ ReturnResponse

WriteStep == WriteHead \/ WriteEol \/ WriteData \/ WriteFails

CallStep == WriteStep \/ ReadStep

ExchangeNext ==
  \/ CreateRequest \/ DeleteRequest
  \/ \E m \in Methods, d \in Data \cup {<<>>} : BeginCall(m, d)
  \/ CallStep \/ Breaks \/ EndCall
  \/ TakeUp \/ Answer \/ PeerCloses

ExchangeSpec == ExchangeInit /\ [][ExchangeNext]_vars

(* The caller's thread runs while it is not waiting; the server answers a  *)
(* whole request when it has a thread for it, and closes after that: at    *)
(* once without keep-alive, else when its time-out expires.                *)
FairExchangeSpec ==
  /\ ExchangeSpec
  /\ WF_vars(CallStep) /\ WF_vars(TakeUp) /\ WF_vars(Answer)
  /\ WF_vars(peer = "answered" /\ PeerCloses)

-----------------------------------------------------------------------------
(* Properties.                                                             *)

Results == [kind : {"none", "null", "failed", "broken", "http", "response"},
            status : Int, body : Seq(Unit)]

(* Every variable has its type.                                            *)
ExchangeTypeOK ==
  /\ hasRequest \in BOOLEAN /\ argumentLength \in Int /\ calls \in 0 .. MaxCalls
  /\ method \in Methods /\ data \in Seq(Unit)
  /\ socket \in {"none", "open", "failed"} /\ written \in Seq(Unit)
  /\ peer \in {"queued", "reading", "answered", "closed"}
  /\ answer \in Seq(Unit) /\ wire \in Seq(Unit)
  /\ buffered \in Seq(Unit) /\ foundHeaderEnd \in BOOLEAN /\ headers \in Seq(Unit)
  /\ contentLength \in Nat /\ body \in Seq(Unit)
  /\ result \in Results
  /\ pc \in {"idle", "write", "eol", "data", "header", "parse", "fill", "done"}

(* What the first message in the bytes of an answer gives the caller: its  *)
(* status and its body, a status from 400 on as an HttpException, another  *)
(* one as a response. A status line with fewer than three words leaves the *)
(* status of a response open.                                              *)
Says(stream, r) ==
  \E p \in 1 .. Len(stream), n \in 0 .. Len(stream) :
    /\ Framed(stream, p, n)
    /\ r.kind = "response" => r.body = SubSeq(stream, p + 2, p + 1 + n)
    /\ r.kind = "http" => p > 1 /\ stream[1].kind = "status"
    /\ p > 1 /\ stream[1].kind = "status" =>
         /\ r.status = stream[1].val
         /\ r.kind = "http" <=> r.status >= 400

(* The bytes are no whole message, or one whose status is not a number.    *)
Lacks(stream) ==
  \/ ~HasTerminator(stream)
  \/ \E l \in ContentLengths(SubSeq(stream, 1, PosTerminator(stream) - 1)) :
       Len(stream) < PosTerminator(stream) + 1 + BodyLength(l)
  \/ stream[1] = [kind |-> "status", val |-> 0]

(* What a call gives is what the server answered, never a part of it.      *)
ResultIsTheAnswer == result.kind \in {"http", "response"} => Says(answer, result)

(* A call fails for want of bytes only if the server did not send a whole  *)
(* message, or sent one whose status is not a number.                      *)
FailsOnlyWithoutAnswer == result.kind = "failed" => Lacks(answer)

(* A call's connection is open only while the call or its response is      *)
(* there: every way out of a call that gives no response has deleted it.   *)
ConnectionOwned ==
  /\ pc = "idle" => socket = "none"
  /\ pc = "done" => (socket = "open" <=> result.kind = "response")

(* A request without a body goes out with a Content-Length: the HttpRequest*)
(* was used for one with a body before.                                    *)
Stale == method = "bare" /\ argumentLength > 0

(* How far the place of a call is from its end, and how many steps it may  *)
(* still take: there is one for every unit not read yet, and one for every *)
(* place.                                                                  *)
PlaceLeft ==
  CASE pc = "write" -> 6 [] pc = "eol" -> 5 [] pc = "data" -> 4
    [] pc = "header" -> 3 [] pc = "parse" -> 2 [] pc = "fill" -> 1 [] OTHER -> 0

StepsLeft == PlaceLeft + Len(wire)

(* Every step of a call brings its end nearer, and nothing else takes it   *)
(* further away but the answer, of which there is one: no loop of writing  *)
(* or reading goes around for ever.                                        *)
ShrinkStep ==
  /\ StepsLeft' \in Nat
  /\ CallStep \/ Breaks => StepsLeft' < StepsLeft
  /\ pc \notin {"idle", "done"} =>
       \/ StepsLeft' <= StepsLeft
       \/ answer = <<>> /\ answer' # <<>> /\ StepsLeft' = StepsLeft + Len(answer')

CallsShrink == [][ShrinkStep]_vars

(* Where the caller stands: before, in or after a call.                    *)
Phase == CASE pc = "idle" -> "idle" [] pc = "done" -> "returned" [] OTHER -> "called"

Call == INSTANCE RemoteCall WITH phase <- Phase, connection <- socket, Silence <- <<>>

(* HttpClient is a RemoteCall: writing, the loops of the reading and the   *)
(* ways out of them do not show, a result comes once and does not change.  *)
ImplementsRemoteCall == Call!CallSpec

(* Client and server do not wait for each other: a client that waits for   *)
(* an answer has sent a whole request, but for a stale Content-Length, with*)
(* which they do.                                                          *)
NoStandoff ==
  pc = "header" /\ socket = "open" /\ ~Stale => Whole(written)

(* Every call returns or throws, but for a stale Content-Length.           *)
EveryCallEnds == (pc # "idle" /\ ~Stale) ~> (pc = "done")

=============================================================================
