------------------------- MODULE HttpRequestHandler -------------------------
(***************************************************************************)
(* HttpRequestHandler::run (src/HttpRequestHandler.cpp): what a server     *)
(* thread does with one accepted connection, from the optional TLS         *)
(* handshake over the keep-alive loop to the close of the socket, for a    *)
(* set of connections that do not know of each other.                      *)
(*                                                                         *)
(* A request enters inbox[c] when its last byte arrives. Of one that has   *)
(* arrived in part the model keeps whether some of its bytes still wait for*)
(* a recv (arriving), because the time-out of the socket runs anew for     *)
(* every recv; HttpTransaction.tla has the bytes themselves.               *)
(*                                                                         *)
(* The handler here is the one made from a Socket, which it owns;          *)
(* HttpEventServer.tla has the one made from a SocketRequest.              *)
(*                                                                         *)
(* Not modelled: the response headers that only inform (Server, Date),     *)
(* socket buffer sizes, and the null socket of lines 107-110 (the accept   *)
(* loop and the kernel-event server never hand one over).                  *)
(*                                                                         *)
(* An operator named Faulty... is what a plausible mistake would make of   *)
(* the definition that follows it; no specification uses it.               *)
(***************************************************************************)
EXTENDS Integers, Sequences

CONSTANTS
  Conns,                 \* connections (accepted sockets)
  Requests,              \* the requests a client may send, a subset of Request
  Paths,                 \* request paths, query string already stripped
  Registered,            \* the paths HttpServer has a handler for
  TlsEnabled,            \* HttpServer::tlsEnabled()
  KeepAliveEnabled,      \* [keep_alive] enabled
  KeepAliveMaxRequests,  \* [keep_alive] max requests per connection
  MaxPipelined           \* bound: requests a client has in flight at once

(* A request as the handler looks at it: does its first line have exactly  *)
(* three words, which protocol does it name, what does its Connection      *)
(* header say, which path does it ask for.                                 *)
Request == [words3 : BOOLEAN,
            protocol : {"1.0", "1.1", "other"},
            connection : {"absent", "close", "keep-alive"},
            path : Paths]

ASSUME RequestsAssumption == Requests \subseteq Request /\ Requests # {}
ASSUME RegisteredAssumption == Registered \subseteq Paths
ASSUME TlsAssumption == TlsEnabled \in BOOLEAN
ASSUME KeepAliveAssumption == /\ KeepAliveEnabled \in BOOLEAN
                              /\ KeepAliveMaxRequests \in Nat \ {0}
ASSUME MaxPipelinedAssumption == MaxPipelined \in Nat \ {0}

VARIABLES
  inbox,           \* [Conns -> Seq(Requests)] sent and not yet parsed
  arriving,        \* [Conns -> BOOLEAN] part of a request waits for a recv
  peerClosed,      \* [Conns -> BOOLEAN] the client has closed its end
  tls,             \* [Conns -> TlsState]
  phase,           \* [Conns -> Phase] where run() stands
  requestCount,    \* [Conns -> Nat]
  connectionOpen,  \* [Conns -> BOOLEAN]
  receiveTimeout,  \* [Conns -> BOOLEAN] SO_RCVTIMEO has been set
  request,         \* [Conns -> Request] the request being answered
  reply,           \* [Conns -> Reply] the response being put together
  written,         \* [Conns -> Seq(Write)] the writes made to the connection
  closeNotifies,   \* [Conns -> Nat] TLS close_notify alerts sent
  logged           \* [Conns -> BOOLEAN] LOG_ERROR was called

clientVars == <<inbox, arriving, peerClosed>>
loopVars   == <<requestCount, connectionOpen, receiveTimeout>>
answerVars == <<request, reply, written>>
vars == <<clientVars, tls, phase, loopVars, answerVars, closeNotifies, logged>>

TlsState == {"none", "hello", "established"}
Phase == {"idle", "start", "handshake", "read", "route", "service",
          "head", "body", "exit", "return", "closed"}
Status == {"505", "404", "503", "500", "handler"}

(* to is the ordinal, on its connection, of the request answered.          *)
Reply == [to : Nat, status : Status, persist : BOOLEAN, hasBody : BOOLEAN]
Write == [part : {"head", "body"}, reply : Reply]

NoRequest == CHOOSE r \in Requests : TRUE
NoReply   == [to |-> 0, status |-> "500", persist |-> FALSE, hasBody |-> FALSE]

Init ==
  /\ inbox = [c \in Conns |-> <<>>]
  /\ arriving = [c \in Conns |-> FALSE]
  /\ peerClosed = [c \in Conns |-> FALSE]
  /\ tls = [c \in Conns |-> "none"]
  /\ phase = [c \in Conns |-> "idle"]
  /\ requestCount = [c \in Conns |-> 0]
  /\ connectionOpen = [c \in Conns |-> TRUE]
  /\ receiveTimeout = [c \in Conns |-> FALSE]
  /\ request = [c \in Conns |-> NoRequest]
  /\ reply = [c \in Conns |-> NoReply]
  /\ written = [c \in Conns |-> <<>>]
  /\ closeNotifies = [c \in Conns |-> 0]
  /\ logged = [c \in Conns |-> FALSE]

Goto(c, p) == phase' = [phase EXCEPT ![c] = p]

-----------------------------------------------------------------------------
(* The client: external, any HTTP client, well behaved or not.             *)

(* It may send before the server has accepted, several requests at once,   *)
(* a request in pieces, and plain HTTP to a TLS port; it cannot send HTTP  *)
(* while its own handshake is under way.                                   *)
SendRequest(c, r) ==
  /\ phase[c] # "closed"
  /\ ~peerClosed[c]
  /\ tls[c] # "hello"
  /\ Len(inbox[c]) < MaxPipelined
  /\ inbox' = [inbox EXCEPT ![c] = Append(@, r)]
  /\ arriving' = [arriving EXCEPT ![c] = FALSE]
  /\ UNCHANGED <<peerClosed, tls, phase, loopVars, answerVars, closeNotifies, logged>>

(* Some bytes of the next request, not its last.                           *)
Trickle(c) ==
  /\ phase[c] # "closed"
  /\ ~peerClosed[c]
  /\ tls[c] # "hello"
  /\ ~arriving[c]
  /\ arriving' = [arriving EXCEPT ![c] = TRUE]
  /\ UNCHANGED <<inbox, peerClosed, tls, phase, loopVars, answerVars, closeNotifies, logged>>

SendHello(c) ==
  /\ TlsEnabled
  /\ phase[c] # "closed"
  /\ tls[c] = "none" /\ inbox[c] = <<>> /\ ~arriving[c] /\ ~peerClosed[c]
  /\ tls' = [tls EXCEPT ![c] = "hello"]
  /\ UNCHANGED <<clientVars, phase, loopVars, answerVars, closeNotifies, logged>>

CloseClient(c) ==
  /\ phase[c] # "closed"
  /\ ~peerClosed[c]
  /\ peerClosed' = [peerClosed EXCEPT ![c] = TRUE]
  /\ UNCHANGED <<inbox, arriving, tls, phase, loopVars, answerVars, closeNotifies, logged>>

(* Steps that take the client further: it shakes hands, completes a        *)
(* request or hangs up.                                                    *)
Advance(c) == SendHello(c) \/ CloseClient(c) \/ \E r \in Requests : SendRequest(c, r)

Client(c) == Advance(c) \/ Trickle(c)

-----------------------------------------------------------------------------
(* run(), up to the loop.                                                  *)

(* A thread enters run() with the connection's socket.                     *)
Start(c) ==
  /\ phase[c] = "idle"
  /\ Goto(c, "start")
  /\ UNCHANGED <<clientVars, tls, loopVars, answerVars, closeNotifies, logged>>

(* The head of the loop: connectionOpen = false, ++requestCount, and from  *)
(* the second request on the idle time-out.                                *)
FaultyEnterIterationArmsLate(c) ==
  /\ requestCount' = [requestCount EXCEPT ![c] = @ + 1]
  /\ connectionOpen' = [connectionOpen EXCEPT ![c] = FALSE]
  /\ receiveTimeout' = [receiveTimeout EXCEPT
       ![c] = @ \/ (KeepAliveEnabled /\ requestCount[c] > 1)]
  /\ Goto(c, "read")

FaultyEnterIterationStaysOpen(c) ==
  /\ requestCount' = [requestCount EXCEPT ![c] = @ + 1]
  /\ UNCHANGED connectionOpen
  /\ receiveTimeout' = [receiveTimeout EXCEPT
       ![c] = @ \/ (KeepAliveEnabled /\ requestCount[c] + 1 > 1)]
  /\ Goto(c, "read")

FaultyEnterIterationCountsDown(c) ==
  /\ requestCount' = [requestCount EXCEPT ![c] = @ - 1]
  /\ connectionOpen' = [connectionOpen EXCEPT ![c] = FALSE]
  /\ receiveTimeout' = [receiveTimeout EXCEPT
       ![c] = @ \/ (KeepAliveEnabled /\ requestCount[c] + 1 > 1)]
  /\ Goto(c, "read")

EnterIteration(c) ==
  /\ requestCount' = [requestCount EXCEPT ![c] = @ + 1]
  /\ connectionOpen' = [connectionOpen EXCEPT ![c] = FALSE]
  /\ receiveTimeout' = [receiveTimeout EXCEPT
       ![c] = @ \/ (KeepAliveEnabled /\ requestCount[c] + 1 > 1)]
  /\ Goto(c, "read")

(* The end of the loop body, with the while condition.                     *)
EndIteration(c) ==
  IF connectionOpen[c]
  THEN EnterIteration(c)
  ELSE Goto(c, "exit") /\ UNCHANGED loopVars

(* Plain, or createConnection returned a connection: the TlsConnection     *)
(* constructor starts the handshake.                                       *)
Open(c) ==
  /\ phase[c] = "start"
  /\ IF TlsEnabled
     THEN Goto(c, "handshake") /\ UNCHANGED loopVars
     ELSE EnterIteration(c)
  /\ UNCHANGED <<clientVars, tls, answerVars, closeNotifies, logged>>

CreateConnectionFails(c) ==
  /\ phase[c] = "start" /\ TlsEnabled
  /\ logged' = [logged EXCEPT ![c] = TRUE]
  /\ Goto(c, "return")
  /\ UNCHANGED <<clientVars, tls, loopVars, answerVars, closeNotifies>>

FaultyHandshakeNotAwaited(c) ==
  /\ phase[c] = "handshake"
  /\ tls[c] \in {"none", "hello"}
  /\ tls' = [tls EXCEPT ![c] = IF @ = "hello" THEN "established" ELSE @]
  /\ EnterIteration(c)
  /\ UNCHANGED <<clientVars, answerVars, closeNotifies, logged>>

Handshake(c) ==
  /\ phase[c] = "handshake"
  /\ tls[c] = "hello"
  /\ tls' = [tls EXCEPT ![c] = "established"]
  /\ EnterIteration(c)
  /\ UNCHANGED <<clientVars, answerVars, closeNotifies, logged>>

(* The constructor throws: the peer is gone, does not speak TLS, or the    *)
(* network failed.                                                         *)
HandshakeFails(c) ==
  /\ phase[c] = "handshake"
  /\ logged' = [logged EXCEPT ![c] = TRUE]
  /\ Goto(c, "return")
  /\ UNCHANGED <<clientVars, tls, loopVars, answerVars, closeNotifies>>

-----------------------------------------------------------------------------
(* The loop: one request.                                                  *)

(* The HttpRequest constructor returns. A first line without three words   *)
(* leaves it uninitialized: the body of the loop is skipped.               *)
ReadRequest(c) ==
  /\ phase[c] = "read"
  /\ inbox[c] # <<>>
  /\ request' = [request EXCEPT ![c] = Head(inbox[c])]
  /\ inbox' = [inbox EXCEPT ![c] = Tail(@)]
  /\ IF Head(inbox[c]).words3
     THEN Goto(c, "route") /\ UNCHANGED loopVars
     ELSE EndIteration(c)
  /\ UNCHANGED <<arriving, peerClosed, tls, reply, written, closeNotifies, logged>>

(* A recv of the reading loops returns part of a request; the next one     *)
(* starts, with its time-out from the beginning.                           *)
Receive(c) ==
  /\ phase[c] = "read"
  /\ inbox[c] = <<>> /\ arriving[c]
  /\ arriving' = [arriving EXCEPT ![c] = FALSE]
  /\ UNCHANGED <<inbox, peerClosed, tls, phase, loopVars, answerVars, closeNotifies, logged>>

(* The HttpRequest constructor throws because a read returned no bytes;    *)
(* the catch blocks log it on the first request only, and return.          *)
ParseThrows(c) ==
  /\ phase[c] = "read"
  /\ logged' = [logged EXCEPT ![c] = @ \/ requestCount[c] = 1]
  /\ Goto(c, "exit")
  /\ UNCHANGED <<clientVars, tls, loopVars, answerVars, closeNotifies>>

(* Nothing is left to receive.                                             *)
Drained(c) == inbox[c] = <<>> /\ ~arriving[c]

FaultyPeerGone(c) == Drained(c) /\ peerClosed[c] /\ UNCHANGED vars

PeerGone(c)    == Drained(c) /\ peerClosed[c] /\ ParseThrows(c)
TimedOut(c)    == Drained(c) /\ receiveTimeout[c] /\ ParseThrows(c)
ReadError(c)   == ParseThrows(c)     \* reset, network failure: at any time

(* Keep-alive negotiation.                                                 *)
FaultyNegotiatedKeepAlive(c, r) ==
  /\ KeepAliveEnabled
  /\ requestCount[c] <= KeepAliveMaxRequests
  /\ r.connection # "close"
  /\ \/ r.protocol = "1.1"
     \/ r.protocol = "1.0" /\ r.connection = "keep-alive"

NegotiatedKeepAlive(c, r) ==
  /\ KeepAliveEnabled
  /\ requestCount[c] < KeepAliveMaxRequests
  /\ r.connection # "close"
  /\ \/ r.protocol = "1.1"
     \/ r.protocol = "1.0" /\ r.connection = "keep-alive"

(* Which response a request gets before any handler runs; "handler" stands *)
(* for the one the registered and available handler chooses.               *)
RoutedStatus(r, available) ==
  CASE r.protocol = "other"     -> "505"
    [] r.protocol # "other" /\ r.path \notin Registered -> "404"
    [] r.protocol # "other" /\ r.path \in Registered /\ ~available -> "503"
    [] OTHER -> "handler"

FaultyRouteIgnoresClose(c) ==
  /\ phase[c] = "route"
  /\ \E available \in BOOLEAN :
       LET r == request[c]
           status == RoutedStatus(r, available)
       IN /\ connectionOpen' = [connectionOpen EXCEPT
                ![c] = KeepAliveEnabled /\ requestCount[c] < KeepAliveMaxRequests]
          /\ reply' = [reply EXCEPT ![c] =
               [to |-> requestCount[c], status |-> status,
                persist |-> NegotiatedKeepAlive(c, r), hasBody |-> FALSE]]
          /\ Goto(c, IF status = "handler" THEN "service" ELSE "head")
  /\ UNCHANGED <<clientVars, tls, requestCount, receiveTimeout, request, written,
                 closeNotifies, logged>>

Route(c) ==
  /\ phase[c] = "route"
  /\ \E available \in BOOLEAN :
       LET r == request[c]
           status == RoutedStatus(r, available)
       IN /\ connectionOpen' = [connectionOpen EXCEPT ![c] = NegotiatedKeepAlive(c, r)]
          /\ reply' = [reply EXCEPT ![c] =
               [to |-> requestCount[c], status |-> status,
                persist |-> NegotiatedKeepAlive(c, r), hasBody |-> FALSE]]
          /\ Goto(c, IF status = "handler" THEN "service" ELSE "head")
  /\ UNCHANGED <<clientVars, tls, requestCount, receiveTimeout, request, written,
                 closeNotifies, logged>>

(* The handler's serviceRequest returns, having set a body or not.         *)
Service(c) ==
  /\ phase[c] = "service"
  /\ \E hasBody \in BOOLEAN : reply' = [reply EXCEPT ![c].hasBody = hasBody]
  /\ Goto(c, "head")
  /\ UNCHANGED <<clientVars, tls, loopVars, request, written, closeNotifies, logged>>

(* It throws: a 500 without a body, whatever body it had set before.       *)
ServiceThrows(c) ==
  /\ phase[c] = "service"
  /\ logged' = [logged EXCEPT ![c] = TRUE]
  /\ reply' = [reply EXCEPT ![c].status = "500"]
  /\ Goto(c, "head")
  /\ UNCHANGED <<clientVars, tls, loopVars, request, written, closeNotifies>>

(* Both writes ignore the result of connection->write.                     *)
FaultyWriteHeadOnly(c) ==
  /\ phase[c] = "head"
  /\ written' = [written EXCEPT ![c] = Append(@, [part |-> "head", reply |-> reply[c]])]
  /\ EndIteration(c)
  /\ UNCHANGED <<clientVars, tls, request, reply, closeNotifies, logged>>

WriteHead(c) ==
  /\ phase[c] = "head"
  /\ written' = [written EXCEPT ![c] = Append(@, [part |-> "head", reply |-> reply[c]])]
  /\ IF reply[c].hasBody
     THEN Goto(c, "body") /\ UNCHANGED loopVars
     ELSE EndIteration(c)
  /\ UNCHANGED <<clientVars, tls, request, reply, closeNotifies, logged>>

WriteBody(c) ==
  /\ phase[c] = "body"
  /\ written' = [written EXCEPT ![c] = Append(@, [part |-> "body", reply |-> reply[c]])]
  /\ EndIteration(c)
  /\ UNCHANGED <<clientVars, tls, request, reply, closeNotifies, logged>>

-----------------------------------------------------------------------------
(* Leaving run().                                                          *)

(* ~TlsCloseGuard: TlsConnection::close sends close_notify, TLS only.      *)
CloseGuard(c) ==
  /\ phase[c] = "exit"
  /\ closeNotifies' = [closeNotifies EXCEPT ![c] = IF TlsEnabled THEN @ + 1 ELSE @]
  /\ Goto(c, "return")
  /\ UNCHANGED <<clientVars, tls, loopVars, answerVars, logged>>

(* The destructor of the RequestHandler base closes the socket the handler *)
(* owns (external: chaudiere).                                             *)
Close(c) ==
  /\ phase[c] = "return"
  /\ Goto(c, "closed")
  /\ UNCHANGED <<clientVars, tls, loopVars, answerVars, closeNotifies, logged>>

-----------------------------------------------------------------------------
(* What the thread does between Start and Close; the failures, which       *)
(* nothing obliges to happen, apart.                                       *)
Proceed(c) ==
  \/ Open(c) \/ Handshake(c)
  \/ ReadRequest(c) \/ Receive(c) \/ PeerGone(c) \/ TimedOut(c)
  \/ Route(c) \/ Service(c) \/ WriteHead(c) \/ WriteBody(c)
  \/ CloseGuard(c)

Fail(c) ==
  \/ CreateConnectionFails(c) \/ HandshakeFails(c)
  \/ ReadError(c) \/ ServiceThrows(c)

Run(c) == Proceed(c) \/ Fail(c)

Next == \E c \in Conns : Client(c) \/ Start(c) \/ Run(c) \/ Close(c)

Spec == Init /\ [][Next]_vars

(* A handshake that a TLS error or a closed peer has decided cannot block. *)
HandshakeDoomed(c) == (inbox[c] # <<>> \/ peerClosed[c]) /\ HandshakeFails(c)

Writing(c) == phase[c] \in {"head", "body"}

(* The thread running a handler is scheduled, handlers return, and a recv  *)
(* that has nothing to return does so once its time-out expires. Nothing   *)
(* is assumed of the client: a write, which has no time-out, need not      *)
(* return.                                                                 *)
ThreadFairness ==
  \A c \in Conns :
    WF_vars(Start(c) \/ (~Writing(c) /\ Proceed(c)) \/ HandshakeDoomed(c) \/ Close(c))

FairSpec == Spec /\ ThreadFairness

(* The client reads what it is sent: the writes to its connection return.  *)
ReadsResponses(c) == WF_vars(Writing(c) /\ Proceed(c))

(* It does not send pieces of requests for ever.                           *)
StopsTrickling(c) == <>[][~Trickle(c)]_vars

(* It reads, and neither stays silent for ever nor keeps the connection    *)
(* open for ever without completing a request.                             *)
ClientFairness == \A c \in Conns : WF_vars(Advance(c)) /\ ReadsResponses(c)

-----------------------------------------------------------------------------
(* Properties.                                                             *)

(* Every variable has its type; the type of tls, phase and reply names     *)
(* every state the code can be in.                                         *)
TypeOK ==
  /\ inbox \in [Conns -> Seq(Requests)]
  /\ arriving \in [Conns -> BOOLEAN]
  /\ peerClosed \in [Conns -> BOOLEAN]
  /\ tls \in [Conns -> TlsState]
  /\ phase \in [Conns -> Phase]
  /\ requestCount \in [Conns -> Nat]
  /\ connectionOpen \in [Conns -> BOOLEAN]
  /\ receiveTimeout \in [Conns -> BOOLEAN]
  /\ request \in [Conns -> Request]
  /\ reply \in [Conns -> Reply]
  /\ written \in [Conns -> Seq(Write)]
  /\ closeNotifies \in [Conns -> Nat]
  /\ logged \in [Conns -> BOOLEAN]

(* b may be written directly after a, and w is a stream of responses.      *)
Follows(a, b) ==
  IF a.part = "head" /\ a.reply.hasBody
  THEN b = [part |-> "body", reply |-> a.reply]
  ELSE /\ b.part = "head"
       /\ a.reply.persist
       /\ b.reply.to = a.reply.to + 1

WellFormedResponses(w) ==
  /\ w # <<>> => w[1].part = "head" /\ w[1].reply.to = 1
  /\ \A i \in 1 .. Len(w) - 1 : Follows(w[i], w[i + 1])

(* What a client can read off a connection is a well-formed sequence of    *)
(* responses: the first answers the first request, each next one answers   *)
(* the next request and follows a response that announced keep-alive, and  *)
(* a body comes exactly after a head that declared one. Nothing the loop   *)
(* does over several requests (a handler that throws, a request without a  *)
(* handler, a failed write) drops, repeats or reorders a response.         *)
ResponseStream == \A c \in Conns : WellFormedResponses(written[c])

Limit == IF KeepAliveEnabled THEN KeepAliveMaxRequests ELSE 1

(* keep_alive_max_requests: no connection is given more responses than the *)
(* configured number (one without keep-alive), and the last one of them    *)
(* tells the client that the connection closes.                            *)
RequestLimit ==
  \A c \in Conns : \A i \in 1 .. Len(written[c]) :
    LET r == written[c][i].reply
    IN r.to <= Limit /\ (r.to = Limit => ~r.persist)

TlsInv(c) ==
  /\ TlsEnabled /\ requestCount[c] > 0 => tls[c] = "established"
  /\ TlsEnabled /\ phase[c] \in {"return", "closed"}
       => closeNotifies[c] = IF requestCount[c] > 0 THEN 1 ELSE 0
  /\ phase[c] \notin {"return", "closed"} \/ ~TlsEnabled => closeNotifies[c] = 0

(* On a TLS port no request is read before the handshake is complete, and  *)
(* every established TLS connection is shut down by one close_notify, sent *)
(* after everything else and before the socket closes; a connection whose  *)
(* handshake failed is closed without one.                                 *)
TlsDiscipline == \A c \in Conns : TlsInv(c)

(* The announcement in the Connection header is what the server then does: *)
(* after a response that said keep-alive it reads again, after one that    *)
(* said close it leaves the loop, and it leaves it in no other way once a  *)
(* request has been accepted.                                              *)
AnnouncedStep ==
  \A c \in Conns :
    phase[c] \in {"route", "service", "head", "body"} =>
      /\ phase'[c] = "read" => reply[c].persist
      /\ phase'[c] = "exit" => /\ ~reply[c].persist
                               /\ written'[c] # <<>>
                               /\ written'[c][Len(written'[c])].reply = reply[c]

AnnouncementKept == [][AnnouncedStep]_vars

(* A follow-up read cannot hold the thread for ever: from the first        *)
(* accepted request on, the connection is closed eventually though its     *)
(* client fall silent for ever, mid-request or between requests. The       *)
(* time-out is one of each recv and there is none for writes: of a client  *)
(* that keeps sending pieces of a request, or does not read, nothing is    *)
(* promised.                                                               *)
EngagedSessionEnds ==
  \A c \in Conns :
    ReadsResponses(c) /\ StopsTrickling(c) =>
      ((phase[c] = "route") ~> (phase[c] = "closed"))

(* Every connection a thread has taken up is closed eventually, if its     *)
(* client reads its responses and neither stays silent for ever nor sends  *)
(* pieces of a request for ever: the first read, which has no time-out,    *)
(* and the handshake wait for nothing else.                                *)
SessionEnds ==
  ClientFairness => \A c \in Conns : (phase[c] = "start") ~> (phase[c] = "closed")

(* The inductive invariant behind the safety properties, per connection:   *)
(* where run() stands determines how many requests were counted, what the  *)
(* last response on the connection was, and whether the reply under way    *)
(* agrees with connectionOpen.                                             *)
CountInv(c) ==
  /\ phase[c] \in {"idle", "start", "handshake"} => requestCount[c] = 0
  /\ phase[c] \in {"read", "route", "service", "head", "body", "exit"}
       => requestCount[c] >= 1
  /\ phase[c] = "read" => ~connectionOpen[c]
  /\ requestCount[c] <= Limit

Whole(write) == write.part = "head" => ~write.reply.hasBody

AnswerInv(c) ==
  LET w == written[c]
      last == w[Len(w)]
  IN /\ requestCount[c] = 0 => w = <<>>
     /\ phase[c] \in {"read", "route", "service", "head"} =>
          IF requestCount[c] = 1 THEN w = <<>>
          ELSE /\ w # <<>> /\ Whole(last)
               /\ last.reply.to = requestCount[c] - 1 /\ last.reply.persist
     /\ phase[c] \in {"service", "head", "body"} =>
          /\ reply[c].to = requestCount[c]
          /\ reply[c].persist = connectionOpen[c]
          /\ reply[c].persist => requestCount[c] < Limit
     /\ phase[c] = "body" =>
          /\ w # <<>> /\ last = [part |-> "head", reply |-> reply[c]]
          /\ reply[c].hasBody
     /\ phase[c] \in {"exit", "return", "closed"} => w = <<>> \/ Whole(last)

SessionInv == \A c \in Conns : CountInv(c) /\ AnswerInv(c)

(* What a thread has left to do with a connection: the steps to the end of *)
(* this iteration and run(), and those of the iterations that may follow.  *)
StepsToEnd == [p \in Phase |->
  CASE p = "idle" -> 10 [] p = "start" -> 9 [] p = "handshake" -> 8 [] p = "read" -> 7
    [] p = "route" -> 6 [] p = "service" -> 5 [] p = "head" -> 4 [] p = "body" -> 3
    [] p = "exit" -> 2 [] p = "return" -> 1 [] p = "closed" -> 0]

Work(c) == StepsToEnd[phase[c]] + 5 * (Limit - requestCount[c])

WorkStep ==
  \A c \in Conns :
    /\ Work(c)' \in Nat /\ Work(c)' <= Work(c)
    /\ Start(c) \/ Run(c) \/ Close(c) => Work(c)' < Work(c) \/ Receive(c)

(* A session is a bounded piece of work: each step of the thread that runs *)
(* it leaves less to do, but for a recv that returns part of a request,    *)
(* whatever the client sends, and nothing anybody else does adds to it.    *)
(* The loop cannot turn round without a request being counted, and the     *)
(* requests counted are limited.                                           *)
WorkShrinks == [][WorkStep]_vars

(* README.md:80-81: "Malformed/truncated requests (...) are caught and     *)
(* logged rather than propagating". A request line that does not have      *)
(* three words is malformed; the code closes the connection silently.      *)
MalformedRequestLogged ==
  \A c \in Conns :
    phase[c] = "closed" /\ requestCount[c] = 1 /\ written[c] = <<>> => logged[c]

(* The promise to a client, HttpSession.tla: what its state is here, and   *)
(* how many complete responses the last write makes.                       *)
SessionStateOf(c) ==
  CASE phase[c] = "idle" -> "new"
    [] phase[c] \in {"start", "handshake", "read"} -> "listening"
    [] phase[c] \in {"route", "service", "head", "body"} -> "owing"
    [] phase[c] \in {"exit", "return"} -> "finishing"
    [] phase[c] = "closed" -> "closed"

AnsweredOn(c) ==
  LET last == written[c][Len(written[c])]
  IN IF written[c] = <<>> THEN 0
     ELSE IF Whole(last) THEN last.reply.to ELSE last.reply.to - 1

Session == INSTANCE HttpSession WITH
  state <- [c \in Conns |-> SessionStateOf(c)],
  answered <- [c \in Conns |-> AnsweredOn(c)]

(* Every request taken off a connection is answered completely, and only   *)
(* then is another one taken or the connection closed.                     *)
ImplementsSession == Session!Spec

=============================================================================
