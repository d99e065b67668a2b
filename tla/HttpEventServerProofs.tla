------------------------- MODULE HttpEventServerProofs -------------------------
(***************************************************************************)
(* Theorems about HttpEventServer.tla, for any number of sockets and of    *)
(* workers: no socket is lost or left in two hands by the sessions that    *)
(* follow each other on it, and each of these sessions keeps the promises  *)
(* that HttpRequestHandlerProofs.tla proves of a session on its own. That  *)
(* module's invariants are not those of a behaviour of one session here,   *)
(* since Release begins a new one; they are shown to survive it.           *)
(***************************************************************************)
EXTENDS HttpEventServer, HttpRequestHandlerProofs

PlacesTyped ==
  /\ watched \in SUBSET Conns
  /\ queue \in Seq(Conns)
  /\ runs \in [Workers -> Conns \cup {NoConn}]
  /\ refused \in SUBSET Conns

-----------------------------------------------------------------------------
(* Steps: those of a session and the end of one.                           *)

LEMMA QueueInConns == PlacesTyped => ToSet(queue) \subseteq Conns
BY LenProperties, ElementOfSeq DEF PlacesTyped, ToSet

(* Every step but HandBack is one of a session, or changes places only.    *)
LEMMA EventStepIsSessionStep ==
  ASSUME PlacesTyped, [EventNext]_eventVars
  PROVE  \/ [Next]_vars
         \/ \E w \in Workers : HandBack(w)
<1> USE DEF PlacesTyped
<1>1. ASSUME NEW c \in Conns, Connect(c) \/ ClientStep(c) \/ ServiceSocket(c)
      PROVE  [Next]_vars
  BY <1>1 DEF Connect, ClientStep, ServiceSocket, Next
<1>2. ASSUME NEW w \in Workers, Dequeue(w) PROVE [Next]_vars
  <2>1. Head(queue) \in Conns
    BY <1>2, TailType DEF Dequeue
  <2>2. QED
    BY <1>2, <2>1 DEF Dequeue, Next
<1>3. ASSUME NEW w \in Workers, RunHandler(w) \/ RetireTls(w) PROVE [Next]_vars
  <2>1. runs[w] \in Conns
    BY <1>3 DEF RunHandler, RetireTls
  <2>2. QED
    BY <1>3, <2>1 DEF RunHandler, RetireTls, Next
<1>4. CASE UNCHANGED eventVars
  BY <1>4 DEF eventVars
<1>5. QED
  BY <1>1, <1>2, <1>3, <1>4 DEF EventNext

LEMMA LeftUnreadType ==
  ASSUME TypeOK, NEW c \in Conns, NEW unread \in LeftUnread(c)
  PROVE  unread \in Seq(Requests)
<1>1. inbox[c] \in Seq(Requests)
  BY DEF TypeOK
<1>2. PICK k \in 1 .. Len(inbox[c]) + 1 : unread = SubSeq(inbox[c], k, Len(inbox[c]))
  BY DEF LeftUnread
<1>3. Len(inbox[c]) \in Nat /\ Len(inbox[c]) \in k - 1 .. Len(inbox[c])
  BY <1>1, LenProperties
<1>4. QED
  BY <1>1, <1>2, <1>3, SubSeqProperties

(* What Release changes of a connection's session, and of no other.        *)
LEMMA Released ==
  ASSUME TypeOK, NEW c \in Conns, Release(c)
  PROVE  /\ TypeOK'
         /\ phase[c] = "return" /\ phase' = [phase EXCEPT ![c] = "idle"]
         /\ requestCount'[c] = 0 /\ written'[c] = <<>> /\ closeNotifies'[c] = 0
         /\ \A d \in Conns : d # c => Untouched(d)
<1> USE DEF TypeOK
<1>1. PICK unread \in LeftUnread(c) : inbox' = [inbox EXCEPT ![c] = unread]
  BY DEF Release
<1>2. inbox' \in [Conns -> Seq(Requests)]
  BY <1>1, LeftUnreadType
<1>3. arriving' \in [Conns -> BOOLEAN]
  BY DEF Release
<1>4. tls' \in [Conns -> TlsState] /\ \A d \in Conns : d # c => tls'[d] = tls[d]
  BY DEF Release, TlsState
<1>5. phase[c] = "return" /\ phase' = [phase EXCEPT ![c] = "idle"]
      /\ phase' \in [Conns -> Phase]
  BY DEF Release, Goto, Phase
<1>6. NoRequest \in Request /\ NoReply \in Reply
  BY RequestsAssumption DEF NoRequest, NoReply, Reply, Status
<1>7. /\ request' \in [Conns -> Request] /\ reply' \in [Conns -> Reply]
      /\ \A d \in Conns : d # c => reply'[d] = reply[d]
  BY <1>6 DEF Release
<1>8. /\ requestCount' \in [Conns -> Nat] /\ connectionOpen' \in [Conns -> BOOLEAN]
      /\ logged' \in [Conns -> BOOLEAN]
      /\ requestCount'[c] = 0 /\ closeNotifies'[c] = 0
      /\ \A d \in Conns : d # c => /\ requestCount'[d] = requestCount[d]
                                   /\ connectionOpen'[d] = connectionOpen[d]
                                   /\ closeNotifies'[d] = closeNotifies[d]
  BY DEF Release
<1>9. /\ written' \in [Conns -> Seq(Write)] /\ written'[c] = <<>>
      /\ \A d \in Conns : d # c => written'[d] = written[d]
  BY EmptySeq DEF Release
<1>10. UNCHANGED <<peerClosed, receiveTimeout, closeNotifies>>
  BY DEF Release
<1>11. QED
  BY <1>2, <1>3, <1>4, <1>5, <1>7, <1>8, <1>9, <1>10 DEF Untouched

LEMMA HandedBack ==
  ASSUME PlacesTyped, NEW w \in Workers, HandBack(w)
  PROVE  runs[w] \in Conns /\ Release(runs[w])
BY DEF HandBack, PlacesTyped

-----------------------------------------------------------------------------
(* Types.                                                                  *)

LEMMA PlacesStep ==
  ASSUME PlacesTyped, [EventNext]_eventVars
  PROVE  PlacesTyped'
<1> USE DEF PlacesTyped
<1>1. ASSUME NEW c \in Conns, Connect(c) \/ ClientStep(c) PROVE PlacesTyped'
  BY <1>1 DEF Connect, ClientStep, loopStateVars
<1>2. ASSUME NEW c \in Conns, ServiceSocket(c) PROVE PlacesTyped'
  BY <1>2, AppendType DEF ServiceSocket
<1>3. ASSUME NEW w \in Workers, Dequeue(w) PROVE PlacesTyped'
  <2>1. Head(queue) \in Conns /\ queue' \in Seq(Conns)
    BY <1>3, TailType DEF Dequeue
  <2>2. QED
    BY <1>3, <2>1 DEF Dequeue
<1>4. ASSUME NEW w \in Workers, RunHandler(w) PROVE PlacesTyped'
  BY <1>4 DEF RunHandler, loopStateVars
<1>5. ASSUME NEW w \in Workers, HandBack(w) PROVE PlacesTyped'
  BY <1>5 DEF HandBack
<1>6. ASSUME NEW w \in Workers, RetireTls(w) PROVE PlacesTyped'
  BY <1>6 DEF RetireTls
<1>7. CASE UNCHANGED eventVars
  BY <1>7 DEF eventVars, loopStateVars
<1>8. QED
  BY <1>1, <1>2, <1>3, <1>4, <1>5, <1>6, <1>7 DEF EventNext

LEMMA SessionTypeStep ==
  ASSUME TypeOK, PlacesTyped, [EventNext]_eventVars
  PROVE  TypeOK'
<1>1. ASSUME NEW w \in Workers, HandBack(w) PROVE TypeOK'
  BY <1>1, HandedBack, Released
<1>2. QED
  BY <1>1, EventStepIsSessionStep, NextType

LEMMA EventTypeInit == EventInit => TypeOK /\ PlacesTyped
BY InitType, EmptySeq DEF EventInit, PlacesTyped

(* Every variable of the event server has its type.                        *)
THEOREM EventTypeCorrect == EventSpec => []EventTypeOK
<1>1. TypeOK /\ PlacesTyped /\ [EventNext]_eventVars => (TypeOK /\ PlacesTyped)'
  BY SessionTypeStep, PlacesStep
<1>2. TypeOK /\ PlacesTyped <=> EventTypeOK
  BY DEF PlacesTyped, EventTypeOK
<1>3. QED
  BY <1>1, <1>2, EventTypeInit, PTL DEF EventSpec

-----------------------------------------------------------------------------
(* The places of the sockets. EverySocketAccounted is inductive: one proof *)
(* for what a step does to the threads, one for where it puts a socket.    *)

RunsInv ==
  /\ \A c \in Conns : (\E w \in Workers : runs[w] = c) <=> Busy(c)
  /\ \A v, w \in Workers : v # w /\ runs[v] = runs[w] => runs[v] = NoConn

QueueInv ==
  /\ \A c \in Conns : c \in ToSet(queue) => phase[c] = "idle"
  /\ IsInjective(queue)

WatchedInv ==
  \A c \in watched \cup refused :
    /\ phase[c] = "idle" /\ c \notin ToSet(queue)
    /\ c \notin watched \cap refused

LEMMA PlacesInv ==
  ASSUME PlacesTyped
  PROVE  EverySocketAccounted <=> RunsInv /\ QueueInv /\ WatchedInv
<1>1. EverySocketAccounted => RunsInv /\ QueueInv
  BY DEF EverySocketAccounted, RunsInv, QueueInv, Busy
<1>2. EverySocketAccounted => WatchedInv
  <2> SUFFICES ASSUME EverySocketAccounted, NEW c \in watched \cup refused
               PROVE  /\ phase[c] = "idle" /\ c \notin ToSet(queue)
                      /\ c \notin watched \cap refused
    BY DEF WatchedInv
  <2>1. c \in Conns
    BY DEF PlacesTyped
  <2>2. ~Taken(c) /\ c \notin watched \cap refused
    BY <2>1 DEF EverySocketAccounted
  <2>3. phase[c] # "closed"
    BY <2>1 DEF EverySocketAccounted, Connected
  <2>4. QED
    BY <2>1, <2>2, <2>3 DEF EverySocketAccounted, Taken
<1>3. RunsInv /\ QueueInv /\ WatchedInv => EverySocketAccounted
  <2> SUFFICES ASSUME RunsInv, QueueInv, WatchedInv PROVE EverySocketAccounted
    OBVIOUS
  <2>1. ASSUME NEW c \in Conns
        PROVE  /\ (\E w \in Workers : runs[w] = c) <=> phase[c] \notin {"idle", "closed"}
               /\ c \in ToSet(queue) => phase[c] = "idle"
    BY DEF RunsInv, QueueInv, Busy
  <2>2. ASSUME NEW c \in Conns, c \in watched \cup refused PROVE ~Taken(c)
    BY <2>1, <2>2 DEF WatchedInv, Taken
  <2>3. ASSUME NEW c \in Conns, phase[c] = "closed" PROVE ~Connected(c)
    BY <2>1, <2>3 DEF WatchedInv, Connected, Taken
  <2>4. ASSUME NEW c \in watched PROVE c \notin refused
    BY <2>4 DEF WatchedInv
  <2>5. QED
    BY <2>1, <2>2, <2>3, <2>4 DEF EverySocketAccounted, RunsInv, QueueInv
<1>4. QED
  BY <1>1, <1>2, <1>3

SocketsInv == RunsInv /\ QueueInv /\ WatchedInv

LEMMA SocketsInvKept ==
  ASSUME SocketsInv, UNCHANGED <<phase, loopStateVars>>
  PROVE  SocketsInv'
BY DEF SocketsInv, RunsInv, QueueInv, WatchedInv, Busy, loopStateVars

(* A thread takes the head of the queue.                                   *)
LEMMA DequeueKeeps ==
  ASSUME TypeOK, PlacesTyped, SocketsInv, NEW w \in Workers, Dequeue(w)
  PROVE  SocketsInv'
<1> DEFINE c == Head(queue)
<1>1. /\ c \in Conns /\ c \in ToSet(queue)
      /\ ToSet(queue') = ToSet(queue) \ {c} /\ IsInjective(queue')
  BY TailType, TailOfLine DEF Dequeue, PlacesTyped, SocketsInv, QueueInv
<1>2. phase[c] = "idle" /\ phase' = [phase EXCEPT ![c] = "start"]
  BY <1>1, StartPhase DEF Dequeue
<1>3. \A d \in Conns : phase'[d] = IF d = c THEN "start" ELSE phase[d]
  BY <1>2 DEF TypeOK
<1>4. runs[w] = NoConn /\ \A v \in Workers : runs'[v] = IF v = w THEN c ELSE runs[v]
  BY DEF Dequeue, PlacesTyped
<1>5. \A v \in Workers : runs[v] # c
  BY <1>1, <1>2 DEF SocketsInv, RunsInv, Busy
<1>6. RunsInv'
  <2>1. \A u, v \in Workers : u # v /\ runs'[u] = runs'[v] => runs'[u] = NoConn
    BY <1>4, <1>5 DEF SocketsInv, RunsInv
  <2>2. ASSUME NEW d \in Conns PROVE (\E v \in Workers : runs'[v] = d) <=> Busy(d)'
    <3>1. CASE d = c
      BY <1>3, <1>4, <3>1 DEF Busy
    <3>2. CASE d # c
      <4>1. Busy(d)' <=> Busy(d)
        BY <1>3, <3>2 DEF Busy
      <4>2. (\E v \in Workers : runs'[v] = d) <=> (\E v \in Workers : runs[v] = d)
        BY <1>4, <3>2, WorkersAssumption
      <4>3. QED
        BY <4>1, <4>2 DEF SocketsInv, RunsInv
    <3>3. QED
      BY <3>1, <3>2
  <2>3. QED
    BY <2>1, <2>2 DEF RunsInv
<1>7. QueueInv'
  BY <1>1, <1>3 DEF SocketsInv, QueueInv
<1>8. WatchedInv'
  <2>1. UNCHANGED <<watched, refused>>
    BY DEF Dequeue
  <2>2. \A d \in watched \cup refused : d \in Conns /\ d # c
    BY <1>1 DEF PlacesTyped, SocketsInv, WatchedInv
  <2>3. QED
    BY <1>1, <1>3, <2>1, <2>2 DEF SocketsInv, WatchedInv
<1>9. QED
  BY <1>6, <1>7, <1>8 DEF SocketsInv

(* A thread gives up the socket it has, which is then idle or closed.      *)
LEMMA ThreadLeaves ==
  ASSUME TypeOK, PlacesTyped, SocketsInv, NEW w \in Workers, NEW c \in Conns,
         runs[w] = c, NEW p \in {"idle", "closed"},
         phase' = [phase EXCEPT ![c] = p], runs' = [runs EXCEPT ![w] = NoConn]
  PROVE  /\ RunsInv'
         /\ \A d \in Conns : phase'[d] = IF d = c THEN p ELSE phase[d]
<1>1. \A d \in Conns : phase'[d] = IF d = c THEN p ELSE phase[d]
  BY DEF TypeOK
<1>2. \A v \in Workers : runs'[v] = IF v = w THEN NoConn ELSE runs[v]
  BY DEF PlacesTyped
<1>3. \A v \in Workers : v # w => runs[v] # c
  BY WorkersAssumption DEF SocketsInv, RunsInv
<1>4. \A u, v \in Workers : u # v /\ runs'[u] = runs'[v] => runs'[u] = NoConn
  BY <1>2 DEF SocketsInv, RunsInv
<1>5. ASSUME NEW d \in Conns PROVE (\E v \in Workers : runs'[v] = d) <=> Busy(d)'
  <2>1. d # NoConn
    BY WorkersAssumption
  <2>2. CASE d = c
    BY <1>1, <1>2, <1>3, <2>1, <2>2 DEF Busy
  <2>3. CASE d # c
    <3>1. Busy(d)' <=> Busy(d)
      BY <1>1, <2>3 DEF Busy
    <3>2. (\E v \in Workers : runs'[v] = d) <=> (\E v \in Workers : runs[v] = d)
      BY <1>2, <2>1, <2>3
    <3>3. QED
      BY <3>1, <3>2 DEF SocketsInv, RunsInv
  <2>4. QED
    BY <2>2, <2>3
<1>6. QED
  BY <1>1, <1>4, <1>5 DEF RunsInv

LEMMA SocketsStep ==
  ASSUME TypeOK, PlacesTyped, SocketsInv, [EventNext]_eventVars
  PROVE  SocketsInv'
<1>1. ASSUME NEW c \in Conns, Connect(c) PROVE SocketsInv'
  <2>1. phase[c] = "idle" /\ c \notin refused /\ c \notin ToSet(queue)
        /\ watched' = watched \cup {c} /\ UNCHANGED <<phase, queue, runs, refused>>
    BY <1>1 DEF Connect, Connected, Taken, vars
  <2>2. QED
    BY <2>1 DEF SocketsInv, RunsInv, QueueInv, WatchedInv, Busy
<1>2. ASSUME NEW c \in Conns, ClientStep(c) PROVE SocketsInv'
  BY <1>2, ClientPhase, SocketsInvKept DEF ClientStep
<1>3. ASSUME NEW c \in Conns, ServiceSocket(c) PROVE SocketsInv'
  <2>1. c \in watched /\ watched' = watched \ {c} /\ UNCHANGED <<phase, runs>>
    BY <1>3 DEF ServiceSocket, vars
  <2>2. phase[c] = "idle" /\ c \notin ToSet(queue) /\ c \notin refused
    BY <2>1 DEF SocketsInv, WatchedInv
  <2>3. RunsInv'
    BY <2>1 DEF SocketsInv, RunsInv, Busy
  <2>4. CASE queue' = Append(queue, c) /\ UNCHANGED refused
    <3>1. ToSet(queue') = ToSet(queue) \cup {c} /\ IsInjective(queue')
      BY <2>2, <2>4, AppendToLine DEF PlacesTyped, SocketsInv, QueueInv
    <3>2. QED
      BY <2>1, <2>2, <2>3, <2>4, <3>1 DEF SocketsInv, QueueInv, WatchedInv
  <2>5. CASE refused' = refused \cup {c} /\ UNCHANGED queue
    BY <2>1, <2>2, <2>3, <2>5 DEF SocketsInv, QueueInv, WatchedInv
  <2>6. QED
    BY <1>3, <2>4, <2>5 DEF ServiceSocket
<1>4. ASSUME NEW w \in Workers, RunHandler(w) PROVE SocketsInv'
  <2>1. PICK c \in Conns : c = runs[w]
    BY <1>4 DEF RunHandler, PlacesTyped
  <2>2. Run(c) /\ UNCHANGED loopStateVars
    BY <1>4, <2>1 DEF RunHandler
  <2>3. \A d \in Conns : phase'[d] = phase[d] \/ (Busy(d) /\ phase'[d] \notin {"idle", "closed"})
    BY <2>2, RunPhase DEF Busy
  <2>4. \A d \in Conns : /\ Busy(d)' <=> Busy(d)
                         /\ phase[d] = "idle" => phase'[d] = "idle"
    BY <2>3 DEF Busy
  <2>5. UNCHANGED <<watched, queue, runs, refused>>
    BY <2>2 DEF loopStateVars
  <2>6. RunsInv'
    BY <2>4, <2>5 DEF SocketsInv, RunsInv
  <2>7. QueueInv' /\ WatchedInv'
    BY <2>4, <2>5 DEF SocketsInv, QueueInv, WatchedInv, PlacesTyped
  <2>8. QED
    BY <2>6, <2>7 DEF SocketsInv
<1>5. ASSUME NEW w \in Workers, HandBack(w) PROVE SocketsInv'
  <2>1. PICK c \in Conns : c = runs[w]
    BY <1>5, HandedBack
  <2>2. /\ phase[c] = "return" /\ phase' = [phase EXCEPT ![c] = "idle"]
        /\ runs' = [runs EXCEPT ![w] = NoConn]
        /\ watched' = watched \cup {c} /\ UNCHANGED <<queue, refused>>
    BY <1>5, <2>1, Released DEF HandBack
  <2>3. RunsInv' /\ \A d \in Conns : phase'[d] = IF d = c THEN "idle" ELSE phase[d]
    BY <2>1, <2>2, ThreadLeaves
  <2>4. c \notin ToSet(queue) /\ c \notin refused
    BY <2>2 DEF SocketsInv, QueueInv, WatchedInv
  <2>5. QueueInv' /\ WatchedInv'
    BY <2>2, <2>3, <2>4 DEF SocketsInv, QueueInv, WatchedInv, PlacesTyped
  <2>6. QED
    BY <2>3, <2>5 DEF SocketsInv
<1>6. ASSUME NEW w \in Workers, RetireTls(w) PROVE SocketsInv'
  <2>1. PICK c \in Conns : c = runs[w]
    BY <1>6 DEF RetireTls, PlacesTyped
  <2>2. /\ phase[c] = "return" /\ phase' = [phase EXCEPT ![c] = "closed"]
        /\ runs' = [runs EXCEPT ![w] = NoConn] /\ UNCHANGED <<watched, queue, refused>>
    BY <1>6, <2>1, ClosePhase DEF RetireTls
  <2>3. RunsInv' /\ \A d \in Conns : phase'[d] = IF d = c THEN "closed" ELSE phase[d]
    BY <2>1, <2>2, ThreadLeaves
  <2>4. c \notin ToSet(queue) /\ c \notin watched /\ c \notin refused
    BY <2>2 DEF SocketsInv, QueueInv, WatchedInv
  <2>5. QueueInv' /\ WatchedInv'
    BY <2>2, <2>3, <2>4 DEF SocketsInv, QueueInv, WatchedInv, PlacesTyped
  <2>6. QED
    BY <2>3, <2>5 DEF SocketsInv
<1>7. CASE UNCHANGED eventVars
  BY <1>7, SocketsInvKept DEF eventVars, vars
<1>8. QED
  BY <1>1, <1>2, <1>3, <1>4, <1>5, <1>6, <1>7, DequeueKeeps DEF EventNext

LEMMA SocketsInit == EventInit => SocketsInv
<1> SUFFICES ASSUME EventInit PROVE SocketsInv
  OBVIOUS
<1>1. /\ \A c \in Conns : phase[c] = "idle"
      /\ \A w \in Workers : runs[w] = NoConn
      /\ queue = <<>> /\ watched = {} /\ refused = {}
  BY DEF EventInit, Init
<1>2. IsInjective(<<>>) /\ ToSet(<<>>) = {}
  BY DEF IsInjective, ToSet
<1>3. QED
  BY <1>1, <1>2, WorkersAssumption DEF SocketsInv, RunsInv, QueueInv, WatchedInv, Busy

(* For any number of sockets and workers and sessions one after the other, *)
(* a socket is in one place at a time, and none is lost.                   *)
THEOREM SocketsAreAccounted == EventSpec => []EverySocketAccounted
<1>1. SocketsInv /\ TypeOK /\ PlacesTyped /\ [EventNext]_eventVars
        => (SocketsInv /\ TypeOK /\ PlacesTyped)'
  BY SocketsStep, SessionTypeStep, PlacesStep
<1>2. SocketsInv /\ PlacesTyped => EverySocketAccounted
  BY PlacesInv DEF SocketsInv
<1>3. QED
  BY <1>1, <1>2, SocketsInit, EventTypeInit, PTL DEF EventSpec

-----------------------------------------------------------------------------
(* The promises of a session, of every session on a socket.                *)

SessionPromises(c) ==
  /\ CountInv(c) /\ AnswerInv(c)
  /\ TlsInv(c)
  /\ WellFormedResponses(written[c])
  /\ WithinLimit(written[c])

Promises == \A c \in Conns : SessionPromises(c)

(* A session that has not begun has promised nothing yet.                  *)
LEMMA NewSession ==
  ASSUME NEW c \in Conns, phase[c] = "idle", requestCount[c] = 0, written[c] = <<>>,
         closeNotifies[c] = 0
  PROVE  SessionPromises(c)
<1>1. CountInv(c) /\ AnswerInv(c)
  BY LimitType DEF CountInv, AnswerInv
<1>2. TlsInv(c)
  BY DEF TlsInv
<1>3. WellFormedResponses(written[c]) /\ WithinLimit(written[c])
  BY DEF WellFormedResponses, WithinLimit
<1>4. QED
  BY <1>1, <1>2, <1>3 DEF SessionPromises

LEMMA UntouchedKeeps ==
  ASSUME NEW c \in Conns, SessionPromises(c), Untouched(c)
  PROVE  SessionPromises(c)'
BY DEF SessionPromises, Untouched, CountInv, AnswerInv, TlsInv, WellFormedResponses,
       WithinLimit

LEMMA PromisesStep ==
  ASSUME TypeOK, PlacesTyped, Promises, [EventNext]_eventVars
  PROVE  Promises'
<1> SUFFICES ASSUME NEW d \in Conns PROVE SessionPromises(d)'
  BY DEF Promises
<1>1. SessionPromises(d)
  BY DEF Promises
<1>2. CASE UNCHANGED vars
  <2>1. Untouched(d)
    BY <1>2 DEF Untouched, vars, loopVars, answerVars
  <2>2. QED
    BY <1>1, <2>1, UntouchedKeeps
<1>3. ASSUME NEW c \in Conns, Step(c) PROVE SessionPromises(d)'
  <2>1. CASE c = d
    BY <1>1, <1>3, <2>1, StepInv, StepTls, StepResponses, StepLimit DEF SessionPromises
  <2>2. CASE c # d
    BY <1>1, <1>3, <2>2, OthersUntouched, UntouchedKeeps
  <2>3. QED
    BY <2>1, <2>2
<1>4. ASSUME NEW w \in Workers, HandBack(w) PROVE SessionPromises(d)'
  <2>1. PICK c \in Conns : Release(c)
    BY <1>4, HandedBack
  <2>2. CASE c = d
    <3>1. phase'[d] = "idle" /\ requestCount'[d] = 0 /\ written'[d] = <<>>
          /\ closeNotifies'[d] = 0
      BY <2>1, <2>2, Released DEF TypeOK
    <3>2. (CountInv(d) /\ AnswerInv(d))'
      BY <3>1, LimitType DEF CountInv, AnswerInv
    <3>3. TlsInv(d)'
      BY <3>1 DEF TlsInv
    <3>4. (WellFormedResponses(written[d]) /\ WithinLimit(written[d]))'
      BY <3>1 DEF WellFormedResponses, WithinLimit
    <3>5. QED
      BY <3>2, <3>3, <3>4 DEF SessionPromises
  <2>3. CASE c # d
    BY <1>1, <2>1, <2>3, Released, UntouchedKeeps
  <2>4. QED
    BY <2>2, <2>3
<1>5. QED
  BY <1>2, <1>3, <1>4, EventStepIsSessionStep DEF Next, Step

(* Session after session on one socket, whichever way each ends and        *)
(* whatever of the last one's input is gone: responses are complete, start *)
(* from the first and follow the requests, no session gives more of them   *)
(* than the limit, and over TLS none is written before a handshake and one *)
(* close_notify comes last.                                                *)
THEOREM EventSessionsKeepPromises ==
  EventSpec => [](ResponseStream /\ TlsDiscipline /\ RequestLimit)
<1>1. Promises /\ TypeOK /\ PlacesTyped /\ [EventNext]_eventVars
        => (Promises /\ TypeOK /\ PlacesTyped)'
  BY PromisesStep, SessionTypeStep, PlacesStep
<1>2. EventInit => Promises
  <2> SUFFICES ASSUME EventInit, NEW c \in Conns PROVE SessionPromises(c)
    BY DEF Promises
  <2>1. phase[c] = "idle" /\ requestCount[c] = 0 /\ written[c] = <<>> /\ closeNotifies[c] = 0
    BY DEF EventInit, Init
  <2>2. QED
    BY <2>1, NewSession
<1>3. Promises => ResponseStream /\ TlsDiscipline /\ RequestLimit
  BY DEF Promises, SessionPromises, ResponseStream, TlsDiscipline, RequestLimit, WithinLimit
<1>4. QED
  BY <1>1, <1>2, <1>3, EventTypeInit, PTL DEF EventSpec

=============================================================================
