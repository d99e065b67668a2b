---------------------- MODULE HttpRequestHandlerProofs ----------------------
(***************************************************************************)
(* Theorems about HttpRequestHandler.tla, for every set of connections and *)
(* requests, with and without TLS and keep-alive, and for every limit.     *)
(***************************************************************************)
EXTENDS HttpRequestHandler, SequencesExt, SequenceTheorems, TLAPS

-----------------------------------------------------------------------------
(* Type correctness.                                                       *)

LEMMA InitType == Init => TypeOK
<1> SUFFICES ASSUME Init PROVE TypeOK
  OBVIOUS
<1>1. NoRequest \in Request
  BY RequestsAssumption DEF NoRequest
<1>2. NoReply \in Reply
  BY DEF NoReply, Reply, Status
<1>3. QED
  BY <1>1, <1>2 DEF Init, TypeOK, TlsState, Phase

LEMMA ClientType ==
  ASSUME TypeOK, NEW c \in Conns, Client(c)
  PROVE  TypeOK'
<1> USE DEF TypeOK
<1>1. CASE SendHello(c)
  BY <1>1 DEF SendHello, TlsState, loopVars, answerVars, clientVars
<1>2. CASE CloseClient(c)
  BY <1>2 DEF CloseClient, loopVars, answerVars
<1>3. ASSUME NEW r \in Requests, SendRequest(c, r) PROVE TypeOK'
  BY <1>3 DEF SendRequest, loopVars, answerVars
<1>4. CASE Trickle(c)
  BY <1>4 DEF Trickle, loopVars, answerVars
<1>5. QED
  BY <1>1, <1>2, <1>3, <1>4 DEF Client, Advance

(* The part of the type the head of the loop changes.                      *)
LEMMA EnterIterationType ==
  ASSUME TypeOK, NEW c \in Conns, EnterIteration(c)
  PROVE  /\ requestCount' \in [Conns -> Nat]
         /\ connectionOpen' \in [Conns -> BOOLEAN]
         /\ receiveTimeout' \in [Conns -> BOOLEAN]
         /\ phase' \in [Conns -> Phase]
BY KeepAliveAssumption DEF TypeOK, EnterIteration, Goto, Phase

LEMMA EndIterationType ==
  ASSUME TypeOK, NEW c \in Conns, EndIteration(c)
  PROVE  /\ requestCount' \in [Conns -> Nat]
         /\ connectionOpen' \in [Conns -> BOOLEAN]
         /\ receiveTimeout' \in [Conns -> BOOLEAN]
         /\ phase' \in [Conns -> Phase]
<1>1. CASE connectionOpen[c]
  BY <1>1, EnterIterationType DEF EndIteration
<1>2. CASE ~connectionOpen[c]
  BY <1>2 DEF EndIteration, TypeOK, Goto, Phase, loopVars
<1>3. QED
  BY <1>1, <1>2

LEMMA ProceedType ==
  ASSUME TypeOK, NEW c \in Conns, Proceed(c)
  PROVE  TypeOK'
<1> USE DEF TypeOK
<1>1. CASE Open(c) /\ ~TlsEnabled
  BY <1>1, EnterIterationType DEF Open, clientVars, answerVars
<1>2. CASE Open(c) /\ TlsEnabled
  BY <1>2 DEF Open, Goto, Phase, clientVars, loopVars, answerVars
<1>3. CASE Handshake(c)
  <2>1. tls' \in [Conns -> TlsState]
    BY <1>3 DEF Handshake, TlsState
  <2>2. QED
    BY <1>3, <2>1, EnterIterationType DEF Handshake, clientVars, answerVars
<1>4. CASE ReadRequest(c)
  <2>1. /\ request' \in [Conns -> Request]
        /\ inbox' \in [Conns -> Seq(Requests)]
    BY <1>4, RequestsAssumption DEF ReadRequest
  <2>2. CASE Head(inbox[c]).words3
    <3>1. phase' \in [Conns -> Phase] /\ UNCHANGED loopVars
      BY <1>4, <2>2 DEF ReadRequest, Goto, Phase
    <3>2. QED
      BY <1>4, <2>1, <3>1 DEF ReadRequest, loopVars
  <2>3. CASE ~Head(inbox[c]).words3
    <3>1. EndIteration(c)
      BY <1>4, <2>3 DEF ReadRequest
    <3>2. QED
      BY <1>4, <2>1, <3>1, EndIterationType DEF ReadRequest
  <2>4. QED
    BY <2>2, <2>3
<1>5. CASE ParseThrows(c)
  BY <1>5 DEF ParseThrows, Goto, Phase, clientVars, loopVars, answerVars
<1>6. CASE Route(c)
  <2>1. NegotiatedKeepAlive(c, request[c]) \in BOOLEAN
    BY DEF NegotiatedKeepAlive
  <2>2. PICK available \in BOOLEAN :
          /\ connectionOpen' = [connectionOpen EXCEPT
                                  ![c] = NegotiatedKeepAlive(c, request[c])]
          /\ reply' = [reply EXCEPT ![c] =
                         [to |-> requestCount[c],
                          status |-> RoutedStatus(request[c], available),
                          persist |-> NegotiatedKeepAlive(c, request[c]),
                          hasBody |-> FALSE]]
          /\ Goto(c, IF RoutedStatus(request[c], available) = "handler"
                     THEN "service" ELSE "head")
    BY <1>6, Zenon DEF Route
  <2>3. RoutedStatus(request[c], available) \in Status
    BY DEF RoutedStatus, Status
  <2>4. connectionOpen' \in [Conns -> BOOLEAN]
    BY <2>1, <2>2
  <2>5. reply' \in [Conns -> Reply]
    BY <2>1, <2>2, <2>3 DEF Reply
  <2>6. phase' \in [Conns -> Phase]
    BY <2>2 DEF Goto, Phase
  <2>7. QED
    BY <1>6, <2>4, <2>5, <2>6 DEF Route, clientVars
<1>7. CASE Service(c)
  <2>1. PICK hasBody \in BOOLEAN : reply' = [reply EXCEPT ![c].hasBody = hasBody]
    BY <1>7 DEF Service
  <2>2. [reply[c] EXCEPT !.hasBody = hasBody] \in Reply
    BY DEF Reply
  <2>3. reply' \in [Conns -> Reply]
    BY <2>1, <2>2
  <2>4. QED
    BY <1>7, <2>3 DEF Service, Goto, Phase, clientVars, loopVars
<1>8. CASE WriteHead(c)
  <2>1. written' \in [Conns -> Seq(Write)]
    <3>1. [part |-> "head", reply |-> reply[c]] \in Write
      BY DEF Write
    <3>2. Append(written[c], [part |-> "head", reply |-> reply[c]]) \in Seq(Write)
      BY <3>1
    <3>3. QED
      BY <1>8, <3>2 DEF WriteHead
  <2>2. CASE reply[c].hasBody
    BY <1>8, <2>1, <2>2 DEF WriteHead, Goto, Phase, clientVars, loopVars
  <2>3. CASE ~reply[c].hasBody
    BY <1>8, <2>1, <2>3, EndIterationType DEF WriteHead, clientVars
  <2>4. QED
    BY <2>2, <2>3
<1>9. CASE WriteBody(c)
  <2>1. written' \in [Conns -> Seq(Write)]
    <3>1. [part |-> "body", reply |-> reply[c]] \in Write
      BY DEF Write
    <3>2. Append(written[c], [part |-> "body", reply |-> reply[c]]) \in Seq(Write)
      BY <3>1
    <3>3. QED
      BY <1>9, <3>2 DEF WriteBody
  <2>2. QED
    BY <1>9, <2>1, EndIterationType DEF WriteBody, clientVars
<1>10. CASE CloseGuard(c)
  BY <1>10 DEF CloseGuard, Goto, Phase, clientVars, loopVars, answerVars
<1>11. CASE Receive(c)
  BY <1>11 DEF Receive, loopVars, answerVars
<1>12. QED
  BY <1>1, <1>2, <1>3, <1>4, <1>5, <1>6, <1>7, <1>8, <1>9, <1>10, <1>11
     DEF Proceed, PeerGone, TimedOut

LEMMA FailType ==
  ASSUME TypeOK, NEW c \in Conns, Fail(c)
  PROVE  TypeOK'
<1> USE DEF TypeOK
<1>1. CASE CreateConnectionFails(c)
  BY <1>1 DEF CreateConnectionFails, Goto, Phase, clientVars, loopVars, answerVars
<1>2. CASE HandshakeFails(c)
  BY <1>2 DEF HandshakeFails, Goto, Phase, clientVars, loopVars, answerVars
<1>3. CASE ReadError(c)
  BY <1>3 DEF ReadError, ParseThrows, Goto, Phase, clientVars, loopVars, answerVars
<1>4. CASE ServiceThrows(c)
  <2>1. reply' \in [Conns -> Reply]
    BY <1>4 DEF ServiceThrows, Reply, Status
  <2>2. QED
    BY <1>4, <2>1 DEF ServiceThrows, Goto, Phase, clientVars, loopVars
<1>5. QED
  BY <1>1, <1>2, <1>3, <1>4 DEF Fail

LEMMA NextType == TypeOK /\ [Next]_vars => TypeOK'
<1> SUFFICES ASSUME TypeOK, [Next]_vars PROVE TypeOK'
  OBVIOUS
<1>1. CASE UNCHANGED vars
  BY <1>1 DEF TypeOK, vars, clientVars, loopVars, answerVars
<1>2. ASSUME NEW c \in Conns, Start(c) PROVE TypeOK'
  BY <1>2 DEF TypeOK, Start, Goto, Phase, clientVars, loopVars, answerVars
<1>3. ASSUME NEW c \in Conns, Close(c) PROVE TypeOK'
  BY <1>3 DEF TypeOK, Close, Goto, Phase, clientVars, loopVars, answerVars
<1>4. QED
  BY <1>1, <1>2, <1>3, ClientType, ProceedType, FailType DEF Next, Run

(* Every variable keeps its type.                                          *)
THEOREM TypeCorrect == Spec => []TypeOK
<1>1. QED
  BY InitType, NextType, PTL DEF Spec

-----------------------------------------------------------------------------
(* The inductive invariant. A step of connection c leaves everything about *)
(* the other connections alone, so the invariant is proved connection by   *)
(* connection.                                                             *)

LEMMA LimitType == Limit \in Nat /\ Limit >= 1
BY KeepAliveAssumption DEF Limit

Step(c) == Client(c) \/ Start(c) \/ Run(c) \/ Close(c)

Untouched(d) ==
  /\ tls'[d] = tls[d] /\ phase'[d] = phase[d]
  /\ requestCount'[d] = requestCount[d] /\ connectionOpen'[d] = connectionOpen[d]
  /\ reply'[d] = reply[d] /\ written'[d] = written[d]
  /\ closeNotifies'[d] = closeNotifies[d]

LEMMA OthersUntouched ==
  ASSUME TypeOK, NEW c \in Conns, Step(c), NEW d \in Conns, d # c
  PROVE  Untouched(d)
<1> USE DEF TypeOK, Untouched, Goto, clientVars, loopVars, answerVars
<1>1. CASE Client(c)
  BY <1>1 DEF Client, Advance, SendHello, CloseClient, SendRequest, Trickle
<1>2. CASE Start(c)
  BY <1>2 DEF Start
<1>3. CASE Close(c)
  BY <1>3 DEF Close
<1>4. CASE Fail(c)
  BY <1>4 DEF Fail, CreateConnectionFails, HandshakeFails, ReadError, ParseThrows,
              ServiceThrows
<1>5. CASE Open(c) \/ Handshake(c)
  BY <1>5 DEF Open, Handshake, EnterIteration, loopVars
<1>6. CASE ReadRequest(c) \/ Receive(c) \/ ParseThrows(c)
  BY <1>6 DEF ReadRequest, Receive, ParseThrows, EndIteration, EnterIteration
<1>7. CASE Route(c) \/ Service(c)
  BY <1>7 DEF Route, Service
<1>8. CASE WriteHead(c) \/ WriteBody(c)
  BY <1>8 DEF WriteHead, WriteBody, EndIteration, EnterIteration
<1>9. CASE CloseGuard(c)
  BY <1>9 DEF CloseGuard
<1>10. QED
  BY <1>1, <1>2, <1>3, <1>4, <1>5, <1>6, <1>7, <1>8, <1>9
     DEF Step, Run, Proceed, PeerGone, TimedOut

LEMMA InitInv == Init => SessionInv
<1> SUFFICES ASSUME Init, NEW c \in Conns PROVE CountInv(c) /\ AnswerInv(c)
  BY DEF SessionInv
<1>1. phase[c] = "idle" /\ requestCount[c] = 0 /\ written[c] = <<>>
  BY DEF Init
<1>2. CountInv(c)
  BY <1>1, LimitType DEF CountInv
<1>3. AnswerInv(c)
  BY <1>1 DEF AnswerInv
<1>4. QED
  BY <1>2, <1>3

LEMMA AppendFacts ==
  ASSUME NEW S, NEW w \in Seq(S), NEW x \in S
  PROVE  /\ Append(w, x) \in Seq(S)
         /\ Append(w, x) # <<>>
         /\ Len(Append(w, x)) = Len(w) + 1
         /\ Append(w, x)[Len(Append(w, x))] = x
         /\ \A i \in 1 .. Len(w) : Append(w, x)[i] = w[i]
OBVIOUS

LEMMA WriteType ==
  ASSUME TypeOK, NEW c \in Conns, NEW part \in {"head", "body"}
  PROVE  [part |-> part, reply |-> reply[c]] \in Write
BY DEF TypeOK, Write

(* What a write leaves on the connection.                                  *)
LEMMA LastWritten ==
  ASSUME TypeOK, NEW c \in Conns, NEW part \in {"head", "body"},
         written' = [written EXCEPT ![c] =
                       Append(@, [part |-> part, reply |-> reply[c]])]
  PROVE  /\ written'[c] # <<>>
         /\ Len(written[c]) \in Nat /\ Len(written'[c]) = Len(written[c]) + 1
         /\ written'[c][Len(written'[c])] = [part |-> part, reply |-> reply[c]]
         /\ \A i \in 1 .. Len(written[c]) : written'[c][i] = written[c][i]
<1>1. PICK x \in Write : x = [part |-> part, reply |-> reply[c]]
  BY WriteType
<1>2. written[c] \in Seq(Write) /\ written'[c] = Append(written[c], x)
  BY <1>1 DEF TypeOK
<1>3. QED
  BY <1>1, <1>2, AppendFacts

(* While a request is read connectionOpen is false, so that a malformed    *)
(* request ends the loop.                                                  *)
LEMMA ReadRequestStep ==
  ASSUME TypeOK, NEW c \in Conns, CountInv(c), ReadRequest(c)
  PROVE  /\ UNCHANGED loopVars
         /\ phase[c] = "read" /\ phase'[c] \in {"route", "exit"}
<1>1. phase[c] = "read" /\ ~connectionOpen[c]
  BY DEF ReadRequest, CountInv
<1>2. CASE Head(inbox[c]).words3
  BY <1>1, <1>2 DEF ReadRequest, Goto, TypeOK
<1>3. CASE ~Head(inbox[c]).words3
  BY <1>1, <1>3 DEF ReadRequest, EndIteration, Goto, TypeOK
<1>4. QED
  BY <1>2, <1>3

LEMMA StepInv ==
  ASSUME TypeOK, NEW c \in Conns, CountInv(c), AnswerInv(c), Step(c)
  PROVE  CountInv(c)' /\ AnswerInv(c)'
<1> USE LimitType DEF TypeOK, CountInv, AnswerInv, Whole, Goto,
                      clientVars, loopVars, answerVars
<1>1. CASE Client(c)
  BY <1>1 DEF Client, Advance, SendHello, CloseClient, SendRequest, Trickle
<1>2. CASE Start(c)
  BY <1>2 DEF Start
<1>3. CASE Close(c)
  BY <1>3 DEF Close
<1>4. CASE CreateConnectionFails(c) \/ HandshakeFails(c)
  BY <1>4 DEF CreateConnectionFails, HandshakeFails
<1>5. CASE ParseThrows(c)
  BY <1>5 DEF ParseThrows
<1>6. CASE ServiceThrows(c)
  BY <1>6 DEF ServiceThrows
<1>7. CASE Open(c) \/ Handshake(c)
  <2>1. CASE Open(c) /\ TlsEnabled
    BY <2>1 DEF Open
  <2>2. CASE (Open(c) /\ ~TlsEnabled) \/ Handshake(c)
    BY <2>2 DEF Open, Handshake, EnterIteration
  <2>3. QED
    BY <1>7, <2>1, <2>2
<1>8. CASE ReadRequest(c)
  <2>1. /\ UNCHANGED <<loopVars, reply, written>>
        /\ phase[c] = "read" /\ phase'[c] \in {"route", "exit"}
    BY <1>8, ReadRequestStep DEF ReadRequest
  <2>2. QED
    BY <2>1
<1>9. CASE Route(c)
  <2>1. PICK available \in BOOLEAN :
          /\ connectionOpen' = [connectionOpen EXCEPT
                                  ![c] = NegotiatedKeepAlive(c, request[c])]
          /\ reply' = [reply EXCEPT ![c] =
                         [to |-> requestCount[c],
                          status |-> RoutedStatus(request[c], available),
                          persist |-> NegotiatedKeepAlive(c, request[c]),
                          hasBody |-> FALSE]]
          /\ Goto(c, IF RoutedStatus(request[c], available) = "handler"
                     THEN "service" ELSE "head")
    BY <1>9, Zenon DEF Route
  <2>2. NegotiatedKeepAlive(c, request[c]) => requestCount[c] < Limit
    BY DEF NegotiatedKeepAlive, Limit
  <2>3. /\ phase[c] = "route"
        /\ phase'[c] \in {"service", "head"}
        /\ requestCount' = requestCount /\ written' = written
        /\ reply'[c].to = requestCount[c]
        /\ reply'[c].persist = NegotiatedKeepAlive(c, request[c])
        /\ connectionOpen'[c] = NegotiatedKeepAlive(c, request[c])
    BY <1>9, <2>1 DEF Route
  <2>4. QED
    BY <2>2, <2>3
<1>10. CASE Service(c)
  BY <1>10 DEF Service
<1>11. CASE WriteHead(c)
  <2> DEFINE last == written'[c][Len(written'[c])]
  <2>1. /\ phase[c] = "head"
        /\ requestCount[c] \in Nat /\ requestCount[c] >= 1
        /\ requestCount[c] <= Limit
        /\ reply' = reply
        /\ reply[c].to = requestCount[c]
        /\ reply[c].persist = connectionOpen[c]
        /\ reply[c].persist => requestCount[c] < Limit
    BY <1>11 DEF WriteHead
  <2>2. written'[c] # <<>> /\ last = [part |-> "head", reply |-> reply[c]]
    BY <1>11, LastWritten DEF WriteHead
  <2>3. /\ written'[c] # <<>>
        /\ last.part = "head" /\ last.reply = reply[c]
        /\ last.reply.to = requestCount[c] /\ last.reply.persist = connectionOpen[c]
        /\ last.reply.hasBody = reply[c].hasBody
    BY <2>1, <2>2
  <2> HIDE DEF TypeOK, last
  <2>4. CASE reply[c].hasBody
    <3>1. phase'[c] = "body" /\ UNCHANGED loopVars
      BY <1>11, <2>4 DEF TypeOK, WriteHead
    <3>2. CountInv(c)'
      BY <2>1, <2>4, <3>1
    <3>3. AnswerInv(c)'
      BY <2>1, <2>2, <2>3, <2>4, <3>1 DEF last
    <3>4. QED
      BY <3>2, <3>3
  <2>5. CASE ~reply[c].hasBody /\ connectionOpen[c]
    <3>1. /\ phase'[c] = "read" /\ requestCount'[c] = requestCount[c] + 1
          /\ ~connectionOpen'[c]
      BY <1>11, <2>5 DEF TypeOK, WriteHead, EndIteration, EnterIteration
    <3>2. CountInv(c)'
      BY <2>1, <2>5, <3>1
    <3>3. last.reply.persist /\ Whole(last)
      BY <2>3, <2>5
    <3>4. /\ requestCount'[c] # 0 /\ requestCount'[c] # 1
          /\ last.reply.to = requestCount'[c] - 1
      BY <2>1, <2>3, <3>1
    <3>5. AnswerInv(c)'
      BY <2>3, <3>1, <3>3, <3>4 DEF last
    <3>6. QED
      BY <3>2, <3>5
  <2>6. CASE ~reply[c].hasBody /\ ~connectionOpen[c]
    <3>1. phase'[c] = "exit" /\ UNCHANGED loopVars
      BY <1>11, <2>6 DEF TypeOK, WriteHead, EndIteration
    <3>2. CountInv(c)'
      BY <2>1, <2>6, <3>1
    <3>3. AnswerInv(c)'
      BY <2>1, <2>2, <2>3, <2>6, <3>1 DEF last
    <3>4. QED
      BY <3>2, <3>3
  <2>7. QED
    BY <2>4, <2>5, <2>6
<1>12. CASE WriteBody(c)
  <2> DEFINE last == written'[c][Len(written'[c])]
  <2>1. /\ phase[c] = "body"
        /\ requestCount[c] \in Nat /\ requestCount[c] >= 1
        /\ requestCount[c] <= Limit
        /\ reply' = reply
        /\ reply[c].to = requestCount[c]
        /\ reply[c].persist = connectionOpen[c]
        /\ reply[c].persist => requestCount[c] < Limit
    BY <1>12 DEF WriteBody
  <2>2. written'[c] # <<>> /\ last = [part |-> "body", reply |-> reply[c]]
    BY <1>12, LastWritten DEF WriteBody
  <2>3. /\ written'[c] # <<>>
        /\ last.part = "body" /\ last.reply = reply[c]
        /\ last.reply.to = requestCount[c] /\ last.reply.persist = connectionOpen[c]
        /\ last.reply.hasBody = reply[c].hasBody
    BY <2>1, <2>2
  <2> HIDE DEF TypeOK, last
  <2>4. CASE connectionOpen[c]
    <3>1. /\ phase'[c] = "read" /\ requestCount'[c] = requestCount[c] + 1
          /\ ~connectionOpen'[c]
      BY <1>12, <2>4 DEF TypeOK, WriteBody, EndIteration, EnterIteration
    <3>2. CountInv(c)'
      BY <2>1, <2>4, <3>1
    <3>3. last.reply.persist /\ Whole(last)
      BY <2>3, <2>4
    <3>4. /\ requestCount'[c] # 0 /\ requestCount'[c] # 1
          /\ last.reply.to = requestCount'[c] - 1
      BY <2>1, <2>3, <3>1
    <3>5. AnswerInv(c)'
      BY <2>3, <3>1, <3>3, <3>4 DEF last
    <3>6. QED
      BY <3>2, <3>5
  <2>5. CASE ~connectionOpen[c]
    <3>1. phase'[c] = "exit" /\ UNCHANGED loopVars
      BY <1>12, <2>5 DEF TypeOK, WriteBody, EndIteration
    <3>2. CountInv(c)'
      BY <2>1, <2>5, <3>1
    <3>3. AnswerInv(c)'
      BY <2>1, <2>2, <2>3, <2>5, <3>1 DEF last
    <3>4. QED
      BY <3>2, <3>3
  <2>6. QED
    BY <2>4, <2>5
<1>13. CASE CloseGuard(c) \/ Receive(c)
  BY <1>13 DEF CloseGuard, Receive
<1>14. QED
  BY <1>1, <1>2, <1>3, <1>4, <1>5, <1>6, <1>7, <1>8, <1>9, <1>10, <1>11, <1>12, <1>13
     DEF Step, Run, Proceed, Fail, PeerGone, TimedOut, ReadError

LEMMA NextInv == TypeOK /\ SessionInv /\ [Next]_vars => SessionInv'
<1> SUFFICES ASSUME TypeOK, SessionInv, [Next]_vars, NEW d \in Conns
             PROVE  CountInv(d)' /\ AnswerInv(d)'
  BY DEF SessionInv
<1>1. CountInv(d) /\ AnswerInv(d)
  BY DEF SessionInv
<1>2. CASE UNCHANGED vars
  BY <1>1, <1>2 DEF CountInv, AnswerInv, vars, loopVars, answerVars
<1>3. ASSUME NEW c \in Conns, Step(c) PROVE CountInv(d)' /\ AnswerInv(d)'
  <2>1. CASE c = d
    BY <1>1, <1>3, <2>1, StepInv
  <2>2. CASE c # d
    <3>1. Untouched(d)
      BY <1>3, <2>2, OthersUntouched
    <3>2. QED
      BY <1>1, <3>1 DEF CountInv, AnswerInv, Untouched
  <2>3. QED
    BY <2>1, <2>2
<1>4. QED
  BY <1>2, <1>3 DEF Next, Step

(* The inductive invariant holds: where run() stands, what it counted and  *)
(* what it last wrote agree on every connection.                           *)
THEOREM SessionInvariant == Spec => []SessionInv
<1>1. TypeOK /\ SessionInv /\ [Next]_vars => (TypeOK /\ SessionInv)'
  BY NextType, NextInv
<1>2. QED
  BY <1>1, InitType, InitInv, PTL DEF Spec

-----------------------------------------------------------------------------
(* TLS.                                                                    *)

LEMMA StepTls ==
  ASSUME TypeOK, NEW c \in Conns, CountInv(c), TlsInv(c), Step(c)
  PROVE  TlsInv(c)'
<1> USE DEF TypeOK, TlsInv, Goto, clientVars, loopVars, answerVars
<1>1. CASE Client(c)
  BY <1>1 DEF Client, Advance, SendHello, CloseClient, SendRequest, Trickle
<1>2. CASE Start(c) \/ Close(c)
  BY <1>2 DEF Start, Close
<1>3. CASE CreateConnectionFails(c) \/ HandshakeFails(c)
  BY <1>3 DEF CreateConnectionFails, HandshakeFails, CountInv
<1>4. CASE ParseThrows(c) \/ ServiceThrows(c)
  BY <1>4 DEF ParseThrows, ServiceThrows
<1>5. CASE Open(c) \/ Handshake(c)
  BY <1>5 DEF Open, Handshake, EnterIteration, loopVars
<1>6. CASE ReadRequest(c) \/ Route(c) \/ Service(c)
  BY <1>6, ReadRequestStep DEF ReadRequest, Route, Service
<1>7. CASE WriteHead(c) \/ WriteBody(c)
  BY <1>7 DEF WriteHead, WriteBody, EndIteration, EnterIteration, CountInv
<1>8. CASE CloseGuard(c) \/ Receive(c)
  BY <1>8 DEF CloseGuard, Receive, CountInv
<1>9. QED
  BY <1>1, <1>2, <1>3, <1>4, <1>5, <1>6, <1>7, <1>8
     DEF Step, Run, Proceed, Fail, PeerGone, TimedOut, ReadError

(* No request is read before the handshake, and every established TLS      *)
(* connection is shut down by exactly one close_notify.                    *)
THEOREM TlsDisciplined == Spec => []TlsDiscipline
<1>1. Init => TlsDiscipline
  <2> SUFFICES ASSUME Init, NEW c \in Conns PROVE TlsInv(c)
    BY DEF TlsDiscipline
  <2>1. phase[c] = "idle" /\ requestCount[c] = 0 /\ closeNotifies[c] = 0
    BY DEF Init
  <2>2. QED
    BY <2>1 DEF TlsInv
<1>2. TypeOK /\ SessionInv /\ TlsDiscipline /\ [Next]_vars => TlsDiscipline'
  <2> SUFFICES ASSUME TypeOK, SessionInv, TlsDiscipline, [Next]_vars, NEW d \in Conns
               PROVE  TlsInv(d)'
    BY DEF TlsDiscipline
  <2>1. CountInv(d) /\ TlsInv(d)
    BY DEF SessionInv, TlsDiscipline
  <2>2. CASE UNCHANGED vars
    BY <2>1, <2>2 DEF TlsInv, vars, loopVars
  <2>3. ASSUME NEW c \in Conns, Step(c) PROVE TlsInv(d)'
    <3>1. CASE c = d
      BY <2>1, <2>3, <3>1, StepTls
    <3>2. CASE c # d
      BY <2>1, <2>3, <3>2, OthersUntouched DEF TlsInv, Untouched
    <3>3. QED
      BY <3>1, <3>2
  <2>4. QED
    BY <2>2, <2>3 DEF Next, Step
<1>3. QED
  BY <1>1, <1>2, TypeCorrect, SessionInvariant, PTL DEF Spec

-----------------------------------------------------------------------------
(* The stream of responses.                                                *)

(* A write extends a well-formed stream by what may follow its last write. *)
LEMMA ExtendResponses ==
  ASSUME NEW w \in Seq(Write), NEW x \in Write, WellFormedResponses(w),
         w = <<>> => x.part = "head" /\ x.reply.to = 1,
         w # <<>> => Follows(w[Len(w)], x)
  PROVE  WellFormedResponses(Append(w, x))
<1> DEFINE v == Append(w, x)
<1>1. /\ Len(v) = Len(w) + 1 /\ Len(w) \in Nat
      /\ v[Len(v)] = x
      /\ \A i \in 1 .. Len(w) : v[i] = w[i]
  BY AppendFacts
<1>2. w = <<>> <=> Len(w) = 0
  OBVIOUS
<1> HIDE DEF v
<1>3. v[1].part = "head" /\ v[1].reply.to = 1
  <2>1. CASE w = <<>>
    BY <1>1, <1>2, <2>1
  <2>2. CASE w # <<>>
    BY <1>1, <1>2, <2>2 DEF WellFormedResponses
  <2>3. QED
    BY <2>1, <2>2
<1>4. ASSUME NEW i \in 1 .. Len(v) - 1 PROVE Follows(v[i], v[i + 1])
  <2>1. CASE i = Len(w)
    <3>1. w # <<>> /\ v[i] = w[Len(w)] /\ v[i + 1] = x
      BY <1>1, <1>2, <1>4, <2>1
    <3>2. QED
      BY <3>1
  <2>2. CASE i # Len(w)
    <3>1. i \in 1 .. Len(w) - 1 /\ v[i] = w[i] /\ v[i + 1] = w[i + 1]
      BY <1>1, <1>4, <2>2
    <3>2. QED
      BY <3>1 DEF WellFormedResponses
  <2>3. QED
    BY <1>1, <1>4, <2>1, <2>2
<1>5. WellFormedResponses(v)
  BY <1>3, <1>4 DEF WellFormedResponses
<1>6. QED
  BY <1>5 DEF v

LEMMA StepResponses ==
  ASSUME TypeOK, NEW c \in Conns, CountInv(c), AnswerInv(c),
         WellFormedResponses(written[c]), Step(c)
  PROVE  WellFormedResponses(written[c])'
<1>1. CASE WriteHead(c)
  <2>1. PICK x \in Write : /\ x = [part |-> "head", reply |-> reply[c]]
                           /\ written'[c] = Append(written[c], x)
    BY <1>1, WriteType DEF WriteHead, TypeOK
  <2>2. /\ phase[c] = "head" /\ requestCount[c] \in Nat
        /\ reply[c].to = requestCount[c] /\ written[c] \in Seq(Write)
    BY <1>1 DEF WriteHead, AnswerInv, TypeOK
  <2>3. x.part = "head" /\ x.reply.to = requestCount[c]
    BY <2>1, <2>2
  <2>4. CASE requestCount[c] = 1
    <3>1. written[c] = <<>>
      BY <2>2, <2>4 DEF AnswerInv
    <3>2. QED
      BY <2>1, <2>2, <2>3, <2>4, <3>1, ExtendResponses
  <2>5. CASE requestCount[c] # 1
    <3> DEFINE last == written[c][Len(written[c])]
    <3>1. /\ written[c] # <<>> /\ Whole(last)
          /\ last.reply.to = requestCount[c] - 1 /\ last.reply.persist
      BY <2>2, <2>5 DEF AnswerInv
    <3>2. Follows(last, x)
      BY <2>2, <2>3, <3>1 DEF Follows, Whole
    <3>3. QED
      BY <2>1, <2>2, <3>1, <3>2, ExtendResponses
  <2>6. QED
    BY <2>4, <2>5
<1>2. CASE WriteBody(c)
  <2> DEFINE last == written[c][Len(written[c])]
  <2>1. PICK x \in Write : /\ x = [part |-> "body", reply |-> reply[c]]
                           /\ written'[c] = Append(written[c], x)
    BY <1>2, WriteType DEF WriteBody, TypeOK
  <2>2. /\ written[c] # <<>> /\ last = [part |-> "head", reply |-> reply[c]]
        /\ reply[c].hasBody /\ written[c] \in Seq(Write)
    BY <1>2 DEF WriteBody, AnswerInv, TypeOK
  <2>3. Follows(last, x)
    BY <2>1, <2>2 DEF Follows
  <2>4. QED
    BY <2>1, <2>2, <2>3, ExtendResponses
<1>3. CASE ~WriteHead(c) /\ ~WriteBody(c)
  <2>1. written' = written
    BY <1>3 DEF Step, Client, Advance, SendHello, CloseClient, SendRequest, Trickle, Start, Close, Run,
       Proceed, Fail, PeerGone, TimedOut, Receive, ReadError, ParseThrows,
       CreateConnectionFails, HandshakeFails, ServiceThrows, Open, Handshake, ReadRequest, Route,
       Service, CloseGuard, answerVars
  <2>2. QED
    BY <2>1
<1>4. QED
  BY <1>1, <1>2, <1>3

(* Responses answer the requests of their connection one by one, in order, *)
(* each body with its head, none after one that announced the close.       *)
THEOREM ResponsesInOrder == Spec => []ResponseStream
<1>1. Init => ResponseStream
  <2> SUFFICES ASSUME Init, NEW c \in Conns PROVE WellFormedResponses(written[c])
    BY DEF ResponseStream
  <2>1. written[c] = <<>>
    BY DEF Init
  <2>2. QED
    BY <2>1 DEF WellFormedResponses
<1>2. TypeOK /\ SessionInv /\ ResponseStream /\ [Next]_vars => ResponseStream'
  <2> SUFFICES ASSUME TypeOK, SessionInv, ResponseStream, [Next]_vars, NEW d \in Conns
               PROVE  WellFormedResponses(written[d])'
    BY DEF ResponseStream
  <2>1. CountInv(d) /\ AnswerInv(d) /\ WellFormedResponses(written[d])
    BY DEF SessionInv, ResponseStream
  <2>2. CASE UNCHANGED vars
    BY <2>1, <2>2 DEF vars, answerVars
  <2>3. ASSUME NEW c \in Conns, Step(c) PROVE WellFormedResponses(written[d])'
    <3>1. CASE c = d
      BY <2>1, <2>3, <3>1, StepResponses
    <3>2. CASE c # d
      BY <2>1, <2>3, <3>2, OthersUntouched DEF Untouched
    <3>3. QED
      BY <3>1, <3>2
  <2>4. QED
    BY <2>2, <2>3 DEF Next, Step
<1>3. QED
  BY <1>1, <1>2, TypeCorrect, SessionInvariant, PTL DEF Spec

-----------------------------------------------------------------------------
(* The limit of keep-alive.                                                *)

WithinLimit(w) ==
  \A i \in 1 .. Len(w) : w[i].reply.to <= Limit /\ (w[i].reply.to = Limit => ~w[i].reply.persist)

LEMMA StepLimit ==
  ASSUME TypeOK, NEW c \in Conns, CountInv(c), AnswerInv(c), WithinLimit(written[c]), Step(c)
  PROVE  WithinLimit(written[c])'
<1>1. ASSUME NEW part \in {"head", "body"},
             written' = [written EXCEPT ![c] = Append(@, [part |-> part, reply |-> reply[c]])],
             phase[c] \in {"head", "body"}
      PROVE  WithinLimit(written[c])'
  <2>1. /\ Len(written[c]) \in Nat /\ Len(written'[c]) = Len(written[c]) + 1
        /\ written'[c][Len(written'[c])] = [part |-> part, reply |-> reply[c]]
        /\ \A i \in 1 .. Len(written[c]) : written'[c][i] = written[c][i]
    BY <1>1, LastWritten
  <2>2. reply[c].to <= Limit /\ (reply[c].to = Limit => ~reply[c].persist)
    BY <1>1, LimitType DEF CountInv, AnswerInv, TypeOK
  <2>3. written'[c][Len(written'[c])].reply = reply[c]
    BY <2>1
  <2> DEFINE v == written'[c]
  <2>4. \A i \in 1 .. Len(v) : i = Len(v) \/ (i \in 1 .. Len(written[c]) /\ v[i] = written[c][i])
    BY <2>1
  <2>5. WithinLimit(v)
    BY <2>2, <2>3, <2>4 DEF WithinLimit
  <2>6. QED
    BY <2>5
<1>2. CASE WriteHead(c) \/ WriteBody(c)
  BY <1>1, <1>2 DEF WriteHead, WriteBody
<1>3. CASE ~WriteHead(c) /\ ~WriteBody(c)
  <2>1. written' = written
    BY <1>3 DEF Step, Client, Advance, SendHello, CloseClient, SendRequest, Trickle, Start, Close, Run,
       Proceed, Fail, PeerGone, TimedOut, Receive, ReadError, ParseThrows,
       CreateConnectionFails, HandshakeFails, ServiceThrows, Open, Handshake, ReadRequest, Route,
       Service, CloseGuard, answerVars
  <2>2. QED
    BY <2>1
<1>4. QED
  BY <1>2, <1>3

(* No connection is given more responses than the limit, and the one that  *)
(* reaches it announces the close.                                         *)
THEOREM LimitHonoured == Spec => []RequestLimit
<1>1. Init => RequestLimit
  BY DEF Init, RequestLimit
<1>2. TypeOK /\ SessionInv /\ RequestLimit /\ [Next]_vars => RequestLimit'
  <2> SUFFICES ASSUME TypeOK, SessionInv, RequestLimit, [Next]_vars, NEW d \in Conns
               PROVE  WithinLimit(written[d])'
    BY DEF RequestLimit, WithinLimit
  <2>1. CountInv(d) /\ AnswerInv(d) /\ WithinLimit(written[d])
    BY DEF SessionInv, RequestLimit, WithinLimit
  <2>2. CASE UNCHANGED vars
    BY <2>1, <2>2 DEF vars, answerVars
  <2>3. ASSUME NEW c \in Conns, Step(c) PROVE WithinLimit(written[d])'
    <3>1. CASE c = d
      BY <2>1, <2>3, <3>1, StepLimit
    <3>2. CASE c # d
      BY <2>1, <2>3, <3>2, OthersUntouched DEF Untouched
    <3>3. QED
      BY <3>1, <3>2
  <2>4. QED
    BY <2>2, <2>3 DEF Next, Step
<1>3. QED
  BY <1>1, <1>2, TypeCorrect, SessionInvariant, PTL DEF Spec

-----------------------------------------------------------------------------
(* The announced persistence.                                              *)

(* After an accepted request the loop goes on exactly if the response said *)
(* keep-alive, and ends only after the response that said close.           *)
THEOREM AnnouncementIsKept == Spec => AnnouncementKept
<1>1. TypeOK /\ SessionInv /\ [Next]_vars => [AnnouncedStep]_vars
  <2> SUFFICES ASSUME TypeOK, SessionInv, [Next]_vars PROVE [AnnouncedStep]_vars
    OBVIOUS
  <2>1. SUFFICES ASSUME Next, NEW d \in Conns,
                        phase[d] \in {"route", "service", "head", "body"},
                        phase'[d] \in {"read", "exit"}
                 PROVE  /\ phase'[d] = "read" => reply[d].persist
                        /\ phase'[d] = "exit" =>
                             /\ ~reply[d].persist
                             /\ written'[d] # <<>>
                             /\ written'[d][Len(written'[d])].reply = reply[d]
    BY DEF AnnouncedStep
  <2>2. PICK c \in Conns : Step(c)
    BY <2>1 DEF Next, Step
  <2>3. c = d
    BY <2>1, <2>2, OthersUntouched DEF Untouched
  <2>4. AnswerInv(d)
    BY DEF SessionInv
  <2>5. WriteHead(d) \/ WriteBody(d)
    BY <2>1, <2>2, <2>3 DEF TypeOK, Step, Client, Advance, SendHello, CloseClient, SendRequest, Trickle,
       Start, Close, Run, Proceed, Fail, PeerGone, TimedOut, Receive, ReadError, ParseThrows,
       CreateConnectionFails, HandshakeFails, ServiceThrows, Open, Handshake,
       ReadRequest, Route, Service, CloseGuard, Goto
  <2>6. PICK part \in {"head", "body"} :
          written' = [written EXCEPT ![d] = Append(@, [part |-> part, reply |-> reply[d]])]
    BY <2>5 DEF WriteHead, WriteBody
  <2>7. /\ written'[d] # <<>>
        /\ written'[d][Len(written'[d])] = [part |-> part, reply |-> reply[d]]
    BY <2>6, LastWritten
  <2>8. /\ written'[d] # <<>>
        /\ written'[d][Len(written'[d])].reply = reply[d]
    BY <2>7
  <2>9. phase[d] \in {"head", "body"} /\ reply[d].persist = connectionOpen[d]
    BY <2>4, <2>5 DEF WriteHead, WriteBody, AnswerInv
  <2>10. phase'[d] = IF connectionOpen[d] THEN "read" ELSE "exit"
    BY <2>1, <2>5 DEF WriteHead, WriteBody, EndIteration, EnterIteration, Goto, TypeOK
  <2>11. QED
    BY <2>8, <2>9, <2>10
<1>2. QED
  BY <1>1, TypeCorrect, SessionInvariant, PTL DEF Spec, AnnouncementKept

-----------------------------------------------------------------------------
(* Refinement: every step of a session is a step of HttpSession or leaves  *)
(* it alone.                                                               *)

(* The abstract step of connection c: from, to, and how many more answers. *)
Moves(c, from, to, more) ==
  /\ SessionStateOf(c) = from /\ SessionStateOf(c)' = to
  /\ AnsweredOn(c)' = AnsweredOn(c) + more

SessionStep(c) ==
  \/ \E s \in {"new", "listening", "owing", "finishing", "closed"} : Moves(c, s, s, 0)
  \/ Moves(c, "new", "listening", 0)
  \/ Moves(c, "listening", "owing", 0)
  \/ Moves(c, "listening", "finishing", 0)
  \/ Moves(c, "finishing", "closed", 0)
  \/ AnsweredOn(c) + 1 < Limit /\ Moves(c, "owing", "listening", 1)
  \/ AnsweredOn(c) < Limit /\ Moves(c, "owing", "finishing", 1)

LEMMA AnsweredType ==
  ASSUME TypeOK, NEW c \in Conns
  PROVE  AnsweredOn(c) \in Int
<1>1. CASE written[c] = <<>>
  BY <1>1 DEF AnsweredOn
<1>2. CASE written[c] # <<>>
  <2>1. written[c][Len(written[c])] \in Write
    BY <1>2 DEF TypeOK
  <2>2. QED
    BY <1>2, <2>1 DEF AnsweredOn, Write, Reply
<1>3. QED
  BY <1>1, <1>2

(* Before the response to request n is complete, n - 1 are.                *)
LEMMA AnsweredWhileOwing ==
  ASSUME TypeOK, NEW c \in Conns, CountInv(c), AnswerInv(c),
         phase[c] \in {"route", "service", "head", "body"}
  PROVE  AnsweredOn(c) = requestCount[c] - 1
<1> DEFINE last == written[c][Len(written[c])]
<1>1. requestCount[c] \in Nat /\ requestCount[c] >= 1
  BY DEF TypeOK, CountInv
<1>2. CASE phase[c] = "body"
  <2>1. /\ written[c] # <<>> /\ last = [part |-> "head", reply |-> reply[c]]
        /\ reply[c].hasBody /\ reply[c].to = requestCount[c]
    BY <1>2 DEF AnswerInv
  <2>2. last.part = "head" /\ last.reply = reply[c]
    BY <2>1
  <2>3. QED
    BY <2>1, <2>2 DEF AnsweredOn, Whole
<1>3. CASE phase[c] # "body"
  BY <1>1, <1>3 DEF AnswerInv, AnsweredOn
<1>4. QED
  BY <1>2, <1>3

LEMMA AnsweredAfterWrite ==
  ASSUME TypeOK, NEW c \in Conns, NEW part \in {"head", "body"},
         written' = [written EXCEPT ![c] =
                       Append(@, [part |-> part, reply |-> reply[c]])]
  PROVE  AnsweredOn(c)' = IF part = "head" /\ reply[c].hasBody
                          THEN reply[c].to - 1 ELSE reply[c].to
<1> DEFINE last == written'[c][Len(written'[c])]
<1>1. written'[c] # <<>> /\ last = [part |-> part, reply |-> reply[c]]
  BY LastWritten
<1>2. last.part = part /\ last.reply = reply[c]
  BY <1>1
<1>3. QED
  BY <1>1, <1>2 DEF AnsweredOn, Whole

LEMMA StepSession ==
  ASSUME TypeOK, NEW c \in Conns, CountInv(c), AnswerInv(c), Step(c)
  PROVE  SessionStep(c)
<1>1. CASE WriteHead(c) \/ WriteBody(c)
  <2>1. /\ phase[c] \in {"head", "body"}
        /\ requestCount[c] \in Nat /\ requestCount[c] <= Limit /\ Limit \in Nat
        /\ reply[c].to = requestCount[c]
        /\ reply[c].persist = connectionOpen[c]
        /\ reply[c].persist => requestCount[c] < Limit
    BY <1>1, LimitType DEF WriteHead, WriteBody, TypeOK, CountInv, AnswerInv
  <2>2. SessionStateOf(c) = "owing"
    BY <2>1 DEF SessionStateOf
  <2>3. AnsweredOn(c) = requestCount[c] - 1
    BY <2>1, AnsweredWhileOwing
  <2>4. PICK part \in {"head", "body"} :
          /\ phase[c] = part
          /\ written' = [written EXCEPT ![c] = Append(@, [part |-> part, reply |-> reply[c]])]
    BY <1>1 DEF WriteHead, WriteBody
  <2>5. AnsweredOn(c)' = IF part = "head" /\ reply[c].hasBody
                         THEN requestCount[c] - 1 ELSE requestCount[c]
    BY <2>1, <2>4, AnsweredAfterWrite
  <2>6. CASE part = "head" /\ reply[c].hasBody
    <3>1. phase'[c] = "body"
      BY <1>1, <2>4, <2>6 DEF WriteHead, WriteBody, Goto, TypeOK
    <3>2. Moves(c, "owing", "owing", 0)
      BY <2>1, <2>2, <2>3, <2>5, <2>6, <3>1 DEF Moves, SessionStateOf
    <3>3. QED
      BY <3>2 DEF SessionStep
  <2>7. CASE ~(part = "head" /\ reply[c].hasBody) /\ connectionOpen[c]
    <3>1. phase'[c] = "read"
      BY <1>1, <2>4, <2>7
         DEF WriteHead, WriteBody, EndIteration, EnterIteration, Goto, TypeOK
    <3>2. Moves(c, "owing", "listening", 1) /\ AnsweredOn(c) + 1 < Limit
      BY <2>1, <2>2, <2>3, <2>5, <2>7, <3>1 DEF Moves, SessionStateOf
    <3>3. QED
      BY <3>2 DEF SessionStep
  <2>8. CASE ~(part = "head" /\ reply[c].hasBody) /\ ~connectionOpen[c]
    <3>1. phase'[c] = "exit"
      BY <1>1, <2>4, <2>8 DEF WriteHead, WriteBody, EndIteration, Goto, TypeOK
    <3>2. Moves(c, "owing", "finishing", 1) /\ AnsweredOn(c) < Limit
      BY <2>1, <2>2, <2>3, <2>5, <2>8, <3>1 DEF Moves, SessionStateOf
    <3>3. QED
      BY <3>2 DEF SessionStep
  <2>9. QED
    BY <2>6, <2>7, <2>8
<1>2. CASE ~WriteHead(c) /\ ~WriteBody(c)
  <2>1. /\ written' = written
        /\ \/ phase'[c] = phase[c] /\ phase[c] \in Phase
           \/ phase[c] = "idle" /\ phase'[c] = "start"
           \/ phase[c] = "start" /\ phase'[c] \in {"handshake", "read", "return"}
           \/ phase[c] = "handshake" /\ phase'[c] \in {"read", "return"}
           \/ phase[c] = "read" /\ phase'[c] \in {"route", "exit"}
           \/ phase[c] = "route" /\ phase'[c] \in {"service", "head"}
           \/ phase[c] = "service" /\ phase'[c] = "head"
           \/ phase[c] = "exit" /\ phase'[c] = "return"
           \/ phase[c] = "return" /\ phase'[c] = "closed"
    <3>1. CASE ReadRequest(c)
      BY <3>1, ReadRequestStep DEF ReadRequest
    <3>2. CASE ~ReadRequest(c)
      BY <1>2, <3>2 DEF Step, Client, Advance, SendHello, CloseClient, SendRequest, Trickle, Start, Close,
       Run, Proceed, Fail, PeerGone, TimedOut, Receive, ReadError, ParseThrows,
       CreateConnectionFails, HandshakeFails, ServiceThrows, Open, Handshake,
       Route, Service, CloseGuard, EnterIteration, Goto, TypeOK, answerVars
    <3>3. QED
      BY <3>1, <3>2
  <2>2. AnsweredOn(c)' = AnsweredOn(c) + 0
    BY <2>1, AnsweredType DEF AnsweredOn
  <2>3. QED
    BY <2>1, <2>2 DEF SessionStep, Moves, SessionStateOf, Phase
<1>3. QED
  BY <1>1, <1>2

(* Every request taken off a connection is answered completely before the  *)
(* next one is taken or the connection is closed.                          *)
THEOREM SessionRefinement == Spec => ImplementsSession
<1> DEFINE st == [c \in Conns |-> SessionStateOf(c)]
           an == [c \in Conns |-> AnsweredOn(c)]
<1>1. Init => Session!Init
  <2> SUFFICES ASSUME Init PROVE Session!Init
    OBVIOUS
  <2>1. \A c \in Conns : SessionStateOf(c) = "new" /\ AnsweredOn(c) = 0
    BY DEF Init, SessionStateOf, AnsweredOn
  <2>2. QED
    BY <2>1 DEF Session!Init
<1>2. TypeOK /\ SessionInv /\ [Next]_vars => [Session!Next]_(Session!vars)
  <2> SUFFICES ASSUME TypeOK, SessionInv, [Next]_vars PROVE [Session!Next]_(Session!vars)
    OBVIOUS
  <2>1. CASE UNCHANGED vars
    <3>1. \A c \in Conns : /\ SessionStateOf(c)' = SessionStateOf(c)
                           /\ AnsweredOn(c)' = AnsweredOn(c)
      BY <2>1 DEF vars, answerVars, SessionStateOf, AnsweredOn
    <3>2. st' = st /\ an' = an
      BY <3>1
    <3>3. QED
      BY <3>2 DEF Session!vars
  <2>2. ASSUME NEW c \in Conns, Step(c) PROVE [Session!Next]_(Session!vars)
    <3>1. SessionStep(c)
      BY <2>2, StepSession DEF SessionInv
    <3>2. \A d \in Conns : d # c => /\ SessionStateOf(d)' = SessionStateOf(d)
                                    /\ AnsweredOn(d)' = AnsweredOn(d)
      BY <2>2, OthersUntouched DEF Untouched, SessionStateOf, AnsweredOn
    <3>3. ASSUME NEW from, NEW to, NEW more, Moves(c, from, to, more)
          PROVE  /\ st[c] = from /\ st' = [st EXCEPT ![c] = to]
                 /\ an' = [an EXCEPT ![c] = @ + more]
      BY <3>2, <3>3 DEF Moves
    <3>4. an[c] = AnsweredOn(c) /\ an[c] \in Int
      BY AnsweredType
    <3>5. ASSUME NEW s, Moves(c, s, s, 0) PROVE st' = st /\ an' = an
      BY <3>2, <3>4, <3>5 DEF Moves
    <3>6. ASSUME NEW from, NEW to, Moves(c, from, to, 0)
          PROVE  st[c] = from /\ st' = [st EXCEPT ![c] = to] /\ an' = an
      <4>1. st[c] = from /\ st' = [st EXCEPT ![c] = to]
        BY <3>3, <3>6
      <4>2. \A d \in Conns : AnsweredOn(d)' = AnsweredOn(d)
        BY <3>2, <3>4, <3>6 DEF Moves
      <4>3. QED
        BY <4>1, <4>2
    <3> HIDE DEF st, an
    <3>7. CASE \E s \in {"new", "listening", "owing", "finishing", "closed"} :
                  Moves(c, s, s, 0)
      BY <3>5, <3>7 DEF Session!vars, st, an
    <3>8. CASE Moves(c, "new", "listening", 0)
      BY <3>6, <3>8 DEF Session!Next, Session!Open, Session!Become, st, an
    <3>9. CASE Moves(c, "listening", "owing", 0)
      BY <3>6, <3>9 DEF Session!Next, Session!Receive, Session!Become, st, an
    <3>10. CASE Moves(c, "listening", "finishing", 0)
      BY <3>6, <3>10 DEF Session!Next, Session!GiveUp, Session!Become, st, an
    <3>11. CASE Moves(c, "finishing", "closed", 0)
      BY <3>6, <3>11 DEF Session!Next, Session!Close, Session!Become, st, an
    <3>12. CASE AnsweredOn(c) + 1 < Limit /\ Moves(c, "owing", "listening", 1)
      BY <3>3, <3>4, <3>12 DEF Session!Next, Session!Answer, Session!Become, st, an
    <3>13. CASE AnsweredOn(c) < Limit /\ Moves(c, "owing", "finishing", 1)
      <4>1. /\ an[c] < Limit /\ st[c] = "owing"
            /\ st' = [st EXCEPT ![c] = "finishing"] /\ an' = [an EXCEPT ![c] = @ + 1]
        BY <3>3, <3>4, <3>13
      <4>2. Session!AnswerLast(c)
        BY <4>1 DEF Session!AnswerLast, Session!Become, st, an
      <4>3. QED
        BY <4>2 DEF Session!Next
    <3>14. QED
      BY <3>1, <3>7, <3>8, <3>9, <3>10, <3>11, <3>12, <3>13 DEF SessionStep
  <2>3. QED
    BY <2>1, <2>2 DEF Next, Step
<1>3. QED
  BY <1>1, <1>2, TypeCorrect, SessionInvariant, PTL DEF Spec, ImplementsSession, Session!Spec

-----------------------------------------------------------------------------
(* The thread's steps: run() goes towards its end, or turns round its loop.*)
ThreadStep(c) == Start(c) \/ Run(c) \/ Close(c)

Nearer(c) ==
  /\ phase'[c] \in Phase /\ StepsToEnd[phase'[c]] < StepsToEnd[phase[c]]
  /\ requestCount'[c] = requestCount[c]

TurnsRound(c) ==
  /\ phase[c] \in {"start", "handshake", "head", "body"} /\ phase'[c] = "read"
  /\ requestCount'[c] = requestCount[c] + 1

LEMMA StepsToEndType ==
  \A p \in Phase : StepsToEnd[p] \in 0 .. 10
BY SMTT(20) DEF StepsToEnd, Phase

LEMMA Entering ==
  ASSUME TypeOK, NEW c \in Conns, EnterIteration(c)
  PROVE  phase'[c] = "read" /\ requestCount'[c] = requestCount[c] + 1
BY DEF TypeOK, EnterIteration, Goto

LEMMA EndingIteration ==
  ASSUME TypeOK, NEW c \in Conns, EndIteration(c), phase[c] \in {"head", "body"}
  PROVE  Nearer(c) \/ TurnsRound(c)
<1>1. CASE connectionOpen[c]
  BY <1>1, Entering DEF EndIteration, TurnsRound
<1>2. CASE ~connectionOpen[c]
  BY <1>2 DEF EndIteration, Goto, loopVars, TypeOK, Nearer, StepsToEnd, Phase
<1>3. QED
  BY <1>1, <1>2

LEMMA ThreadAdvances ==
  ASSUME TypeOK, SessionInv, NEW c \in Conns, ThreadStep(c), ~Receive(c)
  PROVE  Nearer(c) \/ TurnsRound(c)
<1>1. CASE Start(c) \/ Close(c) \/ (Open(c) /\ TlsEnabled) \/ CloseGuard(c) \/ ParseThrows(c)
           \/ CreateConnectionFails(c) \/ HandshakeFails(c)
  BY <1>1 DEF Start, Close, Open, CloseGuard, ParseThrows, CreateConnectionFails,
              HandshakeFails, Goto, loopVars, TypeOK, Nearer, StepsToEnd, Phase
<1>2. CASE (Open(c) /\ ~TlsEnabled) \/ Handshake(c)
  BY <1>2, Entering DEF Open, Handshake, TurnsRound
<1>3. CASE ReadRequest(c)
  <2>1. phase[c] = "read" /\ ~connectionOpen[c]
    BY <1>3 DEF ReadRequest, SessionInv, CountInv
  <2>2. Goto(c, "route") \/ Goto(c, "exit")
    BY <1>3, <2>1 DEF ReadRequest, EndIteration
  <2>3. UNCHANGED requestCount
    BY <1>3, <2>1 DEF ReadRequest, EndIteration, loopVars
  <2>4. QED
    BY <2>1, <2>2, <2>3 DEF Goto, TypeOK, Nearer, StepsToEnd, Phase
<1>4. CASE Route(c)
  <2>1. PICK available \in BOOLEAN :
          Goto(c, IF RoutedStatus(request[c], available) = "handler"
                  THEN "service" ELSE "head")
    BY <1>4, Zenon DEF Route
  <2>2. phase[c] = "route" /\ UNCHANGED requestCount
    BY <1>4 DEF Route
  <2>3. QED
    BY <2>1, <2>2 DEF Goto, TypeOK, Nearer, StepsToEnd, Phase
<1>5. CASE Service(c) \/ ServiceThrows(c)
  BY <1>5 DEF Service, ServiceThrows, Goto, loopVars, TypeOK, Nearer, StepsToEnd, Phase
<1>6. CASE WriteHead(c)
  <2>1. CASE reply[c].hasBody
    BY <1>6, <2>1 DEF WriteHead, Goto, loopVars, TypeOK, Nearer, StepsToEnd, Phase
  <2>2. CASE ~reply[c].hasBody
    BY <1>6, <2>2, EndingIteration DEF WriteHead
  <2>3. QED
    BY <2>1, <2>2
<1>7. CASE WriteBody(c)
  BY <1>7, EndingIteration DEF WriteBody
<1>8. QED
  BY <1>1, <1>2, <1>3, <1>4, <1>5, <1>6, <1>7
     DEF ThreadStep, Run, Proceed, Fail, PeerGone, TimedOut, ReadError

(* A turn round the loop costs one of the requests that may follow, which  *)
(* counts for more than the way back.                                      *)
LEMMA AdvancingShrinks ==
  ASSUME TypeOK, TypeOK', SessionInv', NEW c \in Conns, Nearer(c) \/ TurnsRound(c)
  PROVE  Work(c)' < Work(c)
<1>1. PICK n \in Nat, l \in Nat : n = requestCount[c] /\ l = Limit
  BY LimitType DEF TypeOK
<1>2. Work(c) = StepsToEnd[phase[c]] + 5 * (l - n)
  BY <1>1 DEF Work
<1>3. Work(c)' = StepsToEnd[phase'[c]] + 5 * (l - requestCount'[c])
  BY <1>1 DEF Work, Limit
<1>4. StepsToEnd[phase[c]] \in 0 .. 10 /\ StepsToEnd[phase'[c]] \in 0 .. 10
  BY StepsToEndType DEF TypeOK
<1>5. CASE Nearer(c)
  BY <1>1, <1>2, <1>3, <1>4, <1>5 DEF Nearer
<1>6. CASE TurnsRound(c)
  <2>1. StepsToEnd[phase[c]] >= 3 /\ StepsToEnd[phase'[c]] = 7
    BY <1>6 DEF TurnsRound, StepsToEnd, Phase
  <2>2. requestCount'[c] = n + 1
    BY <1>1, <1>6 DEF TurnsRound
  <2>3. QED
    BY <1>1, <1>2, <1>3, <1>4, <2>1, <2>2
<1>7. QED
  BY <1>5, <1>6

LEMMA WorkType ==
  ASSUME TypeOK, SessionInv, NEW c \in Conns
  PROVE  Work(c) \in Nat
<1>1. PICK n \in Nat, l \in Nat, k \in 0 .. 10 :
        n = requestCount[c] /\ l = Limit /\ k = StepsToEnd[phase[c]]
  BY LimitType, StepsToEndType DEF TypeOK
<1>2. n <= l
  BY <1>1 DEF SessionInv, CountInv
<1>3. QED
  BY <1>1, <1>2 DEF Work

(* For any number of connections, of requests and any limit, a thread that *)
(* has taken up a session has a number of steps ahead of it that shrinks   *)
(* with every one it takes, but for the recvs that return part of a        *)
(* request, and that no client can raise: at most 10 + 5 * Limit of them.  *)
THEOREM SessionsAreBoundedWork == Spec => WorkShrinks
<1>1. TypeOK /\ SessionInv /\ TypeOK' /\ SessionInv' /\ [Next]_vars => WorkStep
  <2> SUFFICES ASSUME TypeOK, SessionInv, TypeOK', SessionInv', [Next]_vars,
                      NEW c \in Conns
               PROVE  /\ Work(c)' \in Nat /\ Work(c)' <= Work(c)
                      /\ Start(c) \/ Run(c) \/ Close(c) =>
                           Work(c)' < Work(c) \/ Receive(c)
    BY DEF WorkStep
  <2>1. Work(c) \in Nat
    BY WorkType
  <2>2. Work(c)' \in Nat
    <3>1. PICK n \in Nat, l \in Nat, k \in 0 .. 10 :
            n = requestCount'[c] /\ l = Limit /\ k = StepsToEnd[phase'[c]]
      BY LimitType, StepsToEndType DEF TypeOK
    <3>2. n <= l
      BY <3>1 DEF SessionInv, CountInv, Limit
    <3>3. Work(c)' = k + 5 * (l - n)
      BY <3>1 DEF Work, Limit
    <3>4. QED
      BY <3>1, <3>2, <3>3
  <2>3. ThreadStep(c) => Work(c)' < Work(c) \/ Receive(c)
    BY ThreadAdvances, AdvancingShrinks
  <2>4. CASE UNCHANGED <<phase, requestCount>>
    <3>1. Work(c)' = Work(c)
      BY <2>4 DEF Work, Limit
    <3>2. QED
      BY <2>1, <2>2, <2>3, <3>1 DEF ThreadStep
  <2>5. ASSUME NEW d \in Conns, Step(d), d # c PROVE Work(c)' = Work(c)
    <3>1. phase'[c] = phase[c] /\ requestCount'[c] = requestCount[c]
      BY <2>5, OthersUntouched DEF Untouched
    <3>2. QED
      BY <3>1 DEF Work, Limit
  <2>6. CASE ThreadStep(c)
    <3>1. CASE Receive(c)
      BY <2>4, <3>1 DEF Receive, loopVars
    <3>2. CASE ~Receive(c)
      BY <2>1, <2>2, <2>3, <2>6, <3>2 DEF ThreadStep
    <3>3. QED
      BY <3>1, <3>2
  <2>7. CASE Client(c)
    <3>1. UNCHANGED <<phase, requestCount>>
      BY <2>7 DEF Client, Advance, SendHello, CloseClient, SendRequest, Trickle, loopVars
    <3>2. QED
      BY <2>4, <3>1
  <2>8. CASE UNCHANGED vars
    BY <2>4, <2>8 DEF vars, loopVars
  <2>9. QED
    <3>1. CASE \E d \in Conns : Step(d) /\ d # c
      BY <2>1, <2>2, <2>3, <2>5, <3>1 DEF ThreadStep
    <3>2. CASE Next /\ ~ \E d \in Conns : Step(d) /\ d # c
      BY <2>6, <2>7, <3>2 DEF Next, Step, ThreadStep
    <3>3. QED
      BY <2>8, <3>1, <3>2
<1>2. QED
  BY <1>1, TypeCorrect, SessionInvariant, PTL DEF Spec, WorkShrinks, WorkStep

-----------------------------------------------------------------------------
(* For the servers that run the sessions: what the steps of a session do to*)
(* its phase, and what taking the head and appending do to a line of       *)
(* distinct connections.                                                   *)
Busy(c) == phase[c] \notin {"idle", "closed"}

LEMMA ClientPhase ==
  ASSUME NEW c \in Conns, Client(c)
  PROVE  phase' = phase
BY DEF Client, Advance, SendHello, CloseClient, SendRequest, Trickle

LEMMA RunPhase ==
  ASSUME TypeOK, NEW c \in Conns, Run(c)
  PROVE  /\ Busy(c) /\ Busy(c)'
         /\ \A d \in Conns : d # c => phase'[d] = phase[d]
<1> USE DEF TypeOK, Goto, Busy
<1>1. CASE Fail(c)
  BY <1>1 DEF Fail, CreateConnectionFails, HandshakeFails, ReadError, ParseThrows,
              ServiceThrows
<1>2. CASE Open(c) \/ Handshake(c)
  BY <1>2 DEF Open, Handshake, EnterIteration, loopVars
<1>3. CASE ReadRequest(c) \/ Receive(c) \/ ParseThrows(c)
  BY <1>3 DEF ReadRequest, Receive, ParseThrows, EndIteration, EnterIteration
<1>4. CASE Route(c)
  <2>1. PICK available \in BOOLEAN :
          Goto(c, IF RoutedStatus(request[c], available) = "handler"
                  THEN "service" ELSE "head")
    BY <1>4, Zenon DEF Route
  <2>2. QED
    BY <1>4, <2>1 DEF Route
<1>5. CASE Service(c)
  BY <1>5 DEF Service
<1>6. CASE WriteHead(c) \/ WriteBody(c)
  BY <1>6 DEF WriteHead, WriteBody, EndIteration, EnterIteration
<1>7. CASE CloseGuard(c)
  BY <1>7 DEF CloseGuard
<1>8. QED
  BY <1>1, <1>2, <1>3, <1>4, <1>5, <1>6, <1>7 DEF Run, Proceed, PeerGone, TimedOut

LEMMA StartPhase ==
  ASSUME TypeOK, NEW c \in Conns, Start(c)
  PROVE  phase[c] = "idle" /\ phase' = [phase EXCEPT ![c] = "start"]
BY DEF Start, Goto

LEMMA ClosePhase ==
  ASSUME TypeOK, NEW c \in Conns, Close(c)
  PROVE  phase[c] = "return" /\ phase' = [phase EXCEPT ![c] = "closed"]
BY DEF Close, Goto

LEMMA TailType ==
  ASSUME NEW S, NEW s \in Seq(S), s # <<>>
  PROVE  Head(s) \in S /\ Tail(s) \in Seq(S)
BY HeadTailProperties

LEMMA AppendType ==
  ASSUME NEW S, NEW s \in Seq(S), NEW e \in S
  PROVE  Append(s, e) \in Seq(S)
BY AppendProperties

LEMMA TailOfLine ==
  ASSUME NEW S, NEW s \in Seq(S), s # <<>>, IsInjective(s)
  PROVE  /\ Head(s) \in ToSet(s)
         /\ ToSet(Tail(s)) = ToSet(s) \ {Head(s)}
         /\ IsInjective(Tail(s))
<1>1. /\ Len(s) \in Nat /\ Len(s) > 0 /\ DOMAIN s = 1 .. Len(s) /\ Head(s) = s[1]
      /\ Tail(s) \in Seq(S) /\ Len(Tail(s)) = Len(s) - 1
      /\ \A i \in 1 .. Len(Tail(s)) : Tail(s)[i] = s[i + 1]
  BY HeadTailProperties, LenProperties
<1>2. DOMAIN Tail(s) = 1 .. Len(s) - 1
  BY <1>1, LenProperties
<1>3. \A i, j \in 1 .. Len(s) : s[i] = s[j] => i = j
  BY <1>1 DEF IsInjective
<1>4. Head(s) \in ToSet(s)
  BY <1>1 DEF ToSet
<1>5. ToSet(Tail(s)) \subseteq ToSet(s) \ {Head(s)}
  <2>1. SUFFICES ASSUME NEW i \in 1 .. Len(s) - 1
                 PROVE  Tail(s)[i] \in ToSet(s) /\ Tail(s)[i] # s[1]
    BY <1>1, <1>2 DEF ToSet
  <2>2. Tail(s)[i] = s[i + 1] /\ i + 1 \in 1 .. Len(s) /\ 1 \in 1 .. Len(s) /\ i + 1 # 1
    BY <1>1, <2>1
  <2>3. QED
    BY <1>1, <1>3, <2>2 DEF ToSet
<1>6. ToSet(s) \ {Head(s)} \subseteq ToSet(Tail(s))
  <2>1. SUFFICES ASSUME NEW i \in 1 .. Len(s), s[i] # s[1] PROVE s[i] \in ToSet(Tail(s))
    BY <1>1 DEF ToSet
  <2>2. i - 1 \in 1 .. Len(s) - 1 /\ (i - 1) + 1 = i
    BY <1>1, <2>1
  <2>3. Tail(s)[i - 1] = s[i]
    BY <1>1, <2>2
  <2>4. QED
    BY <1>2, <2>2, <2>3 DEF ToSet
<1>7. IsInjective(Tail(s))
  <2>1. SUFFICES ASSUME NEW i \in 1 .. Len(s) - 1, NEW j \in 1 .. Len(s) - 1,
                        Tail(s)[i] = Tail(s)[j]
                 PROVE  i = j
    BY <1>2 DEF IsInjective
  <2>2. s[i + 1] = s[j + 1] /\ i + 1 \in 1 .. Len(s) /\ j + 1 \in 1 .. Len(s)
    BY <1>1, <2>1
  <2>3. i + 1 = j + 1
    BY <1>3, <2>2
  <2>4. QED
    BY <2>3
<1>8. QED
  BY <1>4, <1>5, <1>6, <1>7

LEMMA AppendToLine ==
  ASSUME NEW S, NEW s \in Seq(S), NEW e \in S
  PROVE  /\ ToSet(Append(s, e)) = ToSet(s) \cup {e}
         /\ IsInjective(s) /\ e \notin ToSet(s) => IsInjective(Append(s, e))
<1>1. /\ Len(s) \in Nat /\ DOMAIN s = 1 .. Len(s)
      /\ DOMAIN Append(s, e) = 1 .. Len(s) + 1
      /\ \A i \in 1 .. Len(s) : Append(s, e)[i] = s[i]
      /\ Append(s, e)[Len(s) + 1] = e
  BY AppendProperties, LenProperties
<1>2. ToSet(Append(s, e)) = ToSet(s) \cup {e}
  <2>1. \A i \in 1 .. Len(s) + 1 : i \in 1 .. Len(s) \/ i = Len(s) + 1
    BY <1>1
  <2>2. ToSet(Append(s, e)) \subseteq ToSet(s) \cup {e}
    BY <1>1, <2>1 DEF ToSet
  <2>3. ToSet(s) \subseteq ToSet(Append(s, e))
    <3>1. 1 .. Len(s) \subseteq 1 .. Len(s) + 1
      BY <1>1
    <3>2. QED
      BY <1>1, <3>1 DEF ToSet
  <2>4. e \in ToSet(Append(s, e))
    <3>1. Len(s) + 1 \in 1 .. Len(s) + 1
      BY <1>1
    <3>2. QED
      BY <1>1, <3>1 DEF ToSet
  <2>5. QED
    BY <2>2, <2>3, <2>4
<1>3. ASSUME IsInjective(s), e \notin ToSet(s) PROVE IsInjective(Append(s, e))
  <2>1. SUFFICES ASSUME NEW i \in 1 .. Len(s) + 1, NEW j \in 1 .. Len(s) + 1,
                        Append(s, e)[i] = Append(s, e)[j]
                 PROVE  i = j
    BY <1>1 DEF IsInjective
  <2>2. \A k \in 1 .. Len(s) : s[k] # e
    BY <1>1, <1>3 DEF ToSet
  <2>3. CASE i \in 1 .. Len(s) /\ j \in 1 .. Len(s)
    BY <1>1, <1>3, <2>1, <2>3 DEF IsInjective
  <2>4. CASE i = Len(s) + 1 \/ j = Len(s) + 1
    BY <1>1, <2>1, <2>2, <2>4
  <2>5. QED
    BY <1>1, <2>3, <2>4
<1>4. QED
  BY <1>2, <1>3

=============================================================================
