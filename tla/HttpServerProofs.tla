--------------------------- MODULE HttpServerProofs ---------------------------
(***************************************************************************)
(* Proofs about HttpServer.tla, for any set of connections and workers,    *)
(* with and without threading and for every setting: the server runs each  *)
(* connection as a session of HttpRequestHandler.tla, so that what is      *)
(* proved of the sessions on their own holds of them on the server's       *)
(* threads.                                                                *)
(***************************************************************************)
EXTENDS HttpServer, HttpRequestHandlerProofs, SequenceTheorems, FiniteSetTheorems

PoolTypeOK ==
  /\ backlog \in Seq(Conns)
  /\ queue \in Seq(Conns)
  /\ runs \in [Threads -> Conns \cup {NoConn}]
  /\ refused \in SUBSET Conns
  /\ arrivals \in Seq(Conns)
  /\ served \in Seq(Conns)

(* A step of the server is a step of one session, or of none.              *)
LEMMA ServerStepIsSessionStep ==
  ASSUME PoolTypeOK, [ServerNext]_serverVars
  PROVE  [Next]_vars
<1> USE DEF PoolTypeOK
<1>1. ASSUME NEW c \in Conns, Connect(c) \/ ClientStep(c)
      PROVE  [Next]_vars
  BY <1>1 DEF Connect, ClientStep, Next
<1>2. CASE Accept \/ AcceptRefused
  BY <1>2 DEF Accept, AcceptRefused
<1>3. CASE AcceptInline
  <2>1. Head(backlog) \in Conns
    BY <1>3, TailType DEF AcceptInline
  <2>2. QED
    BY <1>3, <2>1 DEF AcceptInline, Next
<1>4. ASSUME NEW t \in Threads, Dequeue(t) PROVE [Next]_vars
  <2>1. Head(queue) \in Conns
    BY <1>4, TailType DEF Dequeue
  <2>2. QED
    BY <1>4, <2>1 DEF Dequeue, Next
<1>5. ASSUME NEW t \in Threads, RunHandler(t) \/ Retire(t) PROVE [Next]_vars
  <2>1. runs[t] \in Conns
    BY <1>5 DEF RunHandler, Retire
  <2>2. QED
    BY <1>5, <2>1 DEF RunHandler, Retire, Next
<1>6. CASE UNCHANGED serverVars
  BY <1>6 DEF serverVars
<1>7. QED
  BY <1>1, <1>2, <1>3, <1>4, <1>5, <1>6 DEF ServerNext

LEMMA PoolTypeStep ==
  ASSUME PoolTypeOK, [ServerNext]_serverVars
  PROVE  PoolTypeOK'
<1> USE DEF PoolTypeOK
<1>1. ASSUME NEW c \in Conns, Connect(c) PROVE PoolTypeOK'
  BY <1>1, AppendType DEF Connect
<1>2. ASSUME NEW c \in Conns, ClientStep(c) PROVE PoolTypeOK'
  BY <1>2 DEF ClientStep, poolVars
<1>3. CASE Accept
  <2>1. Head(backlog) \in Conns /\ backlog' \in Seq(Conns)
    BY <1>3, TailType DEF Accept
  <2>2. queue' \in Seq(Conns)
    BY <1>3, <2>1, AppendType DEF Accept
  <2>3. QED
    BY <1>3, <2>1, <2>2 DEF Accept
<1>4. CASE AcceptRefused
  <2>1. Head(backlog) \in Conns /\ backlog' \in Seq(Conns)
    BY <1>4, TailType DEF AcceptRefused
  <2>2. QED
    BY <1>4, <2>1 DEF AcceptRefused
<1>5. CASE AcceptInline
  <2>1. Head(backlog) \in Conns /\ backlog' \in Seq(Conns)
    BY <1>5, TailType DEF AcceptInline
  <2>2. served' \in Seq(Conns)
    BY <1>5, <2>1, AppendType DEF AcceptInline
  <2>3. QED
    BY <1>5, <2>1, <2>2 DEF AcceptInline
<1>6. ASSUME NEW t \in Threads, Dequeue(t) PROVE PoolTypeOK'
  <2>1. Head(queue) \in Conns /\ queue' \in Seq(Conns)
    BY <1>6, TailType DEF Dequeue
  <2>2. served' \in Seq(Conns)
    BY <1>6, <2>1, AppendType DEF Dequeue
  <2>3. QED
    BY <1>6, <2>1, <2>2 DEF Dequeue
<1>7. ASSUME NEW t \in Threads, RunHandler(t) PROVE PoolTypeOK'
  BY <1>7 DEF RunHandler, poolVars
<1>8. ASSUME NEW t \in Threads, Retire(t) PROVE PoolTypeOK'
  BY <1>8 DEF Retire
<1>9. CASE UNCHANGED serverVars
  BY <1>9 DEF serverVars, poolVars
<1>10. QED
  BY <1>1, <1>2, <1>3, <1>4, <1>5, <1>6, <1>7, <1>8, <1>9 DEF ServerNext

LEMMA PoolTypeInit == ServerInit => Init /\ PoolTypeOK
BY EmptySeq DEF ServerInit, PoolTypeOK

(* However the server dispatches, queues and runs its connections, each of *)
(* them goes through a session of HttpRequestHandler.tla: the theorems of  *)
(* HttpRequestHandlerProofs.tla hold of the server.                        *)
THEOREM ServerRunsSessions == ServerSpec => Spec
<1>1. PoolTypeOK /\ [ServerNext]_serverVars => PoolTypeOK'
  BY PoolTypeStep
<1>2. PoolTypeOK /\ [ServerNext]_serverVars => [Next]_vars
  BY ServerStepIsSessionStep
<1>3. QED
  BY <1>1, <1>2, PoolTypeInit, PTL DEF ServerSpec, Spec

(* The server's variables have their types.                                *)
THEOREM ServerTypeCorrect == ServerSpec => []ServerTypeOK
<1>1. PoolTypeOK /\ [ServerNext]_serverVars => PoolTypeOK'
  BY PoolTypeStep
<1>2. PoolTypeOK /\ TypeOK => ServerTypeOK
  BY DEF PoolTypeOK, ServerTypeOK
<1>3. QED
  BY <1>1, <1>2, PoolTypeInit, ServerRunsSessions, TypeCorrect, PTL DEF ServerSpec

-----------------------------------------------------------------------------
(* One thread per session. The inductive invariant: OneThreadPerSession,   *)
(* and where the connections a line may still take come from. Only a       *)
(* connection that never connected is appended to the backlog, and only one*)
(* whose session has not begun is taken up.                                *)

RunsInv ==
  /\ \A t, u \in Threads : runs[t] = runs[u] /\ t # u => runs[t] = NoConn
  /\ \A c \in Conns : (\E t \in Threads : runs[t] = c) <=> Busy(c)

LinesInv ==
  /\ \A c \in ToSet(backlog) \cup ToSet(queue) \cup refused : phase[c] = "idle"
  /\ ToSet(backlog) \cap ToSet(queue) = {}
  /\ (ToSet(backlog) \cup ToSet(queue)) \cap refused = {}
  /\ IsInjective(backlog) /\ IsInjective(queue) /\ IsInjective(served)

HistoryInv ==
  /\ ToSet(backlog) \subseteq ToSet(arrivals)
  /\ ToSet(queue) \subseteq ToSet(arrivals)
  /\ refused \subseteq ToSet(arrivals)
  /\ \A c \in ToSet(served) : phase[c] # "idle"
  /\ \A c \in Conns : phase[c] # "idle" => c \in ToSet(arrivals)

PoolInv == RunsInv /\ LinesInv /\ HistoryInv

LEMMA LinesInConns ==
  ASSUME PoolTypeOK
  PROVE  ToSet(backlog) \subseteq Conns /\ ToSet(queue) \subseteq Conns
         /\ ToSet(served) \subseteq Conns /\ ToSet(arrivals) \subseteq Conns
<1>1. ASSUME NEW s \in Seq(Conns) PROVE ToSet(s) \subseteq Conns
  BY LenProperties, ElementOfSeq DEF ToSet
<1>2. QED
  BY <1>1 DEF PoolTypeOK

(* Steps that leave the sessions' phases, the threads and what is served.  *)
LEMMA RunsInvKept ==
  ASSUME RunsInv, UNCHANGED <<runs, phase>>
  PROVE  RunsInv'
BY DEF RunsInv, Busy

LEMMA PoolInvKept ==
  ASSUME PoolInv, UNCHANGED <<phase, poolVars>>
  PROVE  PoolInv'
BY DEF PoolInv, RunsInv, LinesInv, HistoryInv, Busy, poolVars

(* A connection at the head of a line is taken up by a thread that runs    *)
(* nothing: line is the backlog or the queue, and rest what remains of it. *)
LEMMA TakenUp ==
  ASSUME TypeOK, PoolTypeOK, PoolInv, NEW c \in Conns, NEW t \in Threads,
         c \in ToSet(backlog) \cup ToSet(queue),
         ToSet(backlog') \cup ToSet(queue')
           \subseteq (ToSet(backlog) \cup ToSet(queue)) \ {c},
         ToSet(backlog') \cap ToSet(queue') = {},
         IsInjective(backlog'), IsInjective(queue'),
         runs[t] = NoConn, runs' = [runs EXCEPT ![t] = c],
         served' = Append(served, c), Start(c), UNCHANGED <<refused, arrivals>>
  PROVE  PoolInv'
<1>1. phase[c] = "idle" /\ phase' = [phase EXCEPT ![c] = "start"]
  BY StartPhase
<1>2. \A d \in Conns : phase'[d] = IF d = c THEN "start" ELSE phase[d]
  BY <1>1 DEF TypeOK
<1>3. \A u \in Threads : runs'[u] = IF u = t THEN c ELSE runs[u]
  BY DEF PoolTypeOK
<1>4. \A u \in Threads : runs[u] # c
  BY <1>1 DEF PoolInv, RunsInv, Busy
<1>5. RunsInv'
  <2>1. \A u, v \in Threads : runs'[u] = runs'[v] /\ u # v => runs'[u] = NoConn
    BY <1>3, <1>4 DEF PoolInv, RunsInv
  <2>2. ASSUME NEW d \in Conns PROVE (\E u \in Threads : runs'[u] = d) <=> Busy(d)'
    <3>1. CASE d = c
      BY <1>2, <1>3, <3>1 DEF Busy
    <3>2. CASE d # c
      <4>1. Busy(d)' <=> Busy(d)
        BY <1>2, <3>2 DEF Busy
      <4>2. d # NoConn
        BY ThreadsAssumption
      <4>3. (\E u \in Threads : runs'[u] = d) <=> (\E u \in Threads : runs[u] = d)
        BY <1>3, <3>2, <4>2
      <4>4. QED
        BY <4>1, <4>3 DEF PoolInv, RunsInv
    <3>3. QED
      BY <3>1, <3>2
  <2>3. QED
    BY <2>1, <2>2 DEF RunsInv
<1>6. /\ ToSet(served') = ToSet(served) \cup {c}
      /\ IsInjective(served')
  <2>1. c \notin ToSet(served) /\ IsInjective(served)
    BY <1>1 DEF PoolInv, HistoryInv, LinesInv
  <2>2. QED
    BY <2>1, AppendToLine DEF PoolTypeOK
<1>7. LinesInv'
  <2>1. ASSUME NEW d \in ToSet(backlog') \cup ToSet(queue') \cup refused
        PROVE  phase'[d] = "idle"
    <3>1. d \in Conns /\ phase[d] = "idle" /\ d # c
      BY LinesInConns DEF PoolInv, LinesInv, PoolTypeOK
    <3>2. QED
      BY <1>2, <3>1
  <2>2. (ToSet(backlog') \cup ToSet(queue')) \cap refused = {}
    BY DEF PoolInv, LinesInv
  <2>3. QED
    BY <1>6, <2>1, <2>2 DEF LinesInv
<1>8. HistoryInv'
  <2>1. c \in ToSet(arrivals)
    BY DEF PoolInv, HistoryInv
  <2>2. /\ ToSet(backlog') \subseteq ToSet(arrivals) /\ ToSet(queue') \subseteq ToSet(arrivals)
        /\ refused \subseteq ToSet(arrivals)
    BY DEF PoolInv, HistoryInv
  <2>3. \A d \in ToSet(served) \cup {c} : phase'[d] # "idle"
    BY <1>2, LinesInConns DEF PoolInv, HistoryInv
  <2>4. \A d \in Conns : phase'[d] # "idle" => d \in ToSet(arrivals)
    BY <1>2, <2>1 DEF PoolInv, HistoryInv
  <2>5. QED
    BY <1>6, <2>2, <2>3, <2>4 DEF HistoryInv
<1>9. QED
  BY <1>5, <1>7, <1>8 DEF PoolInv

(* A connection moves from the backlog to the queue or is refused.         *)
LEMMA Dispatched ==
  ASSUME TypeOK, PoolTypeOK, PoolInv, NEW c \in ToSet(backlog),
         ToSet(backlog') = ToSet(backlog) \ {c}, IsInjective(backlog'),
         \/ queue' = Append(queue, c) /\ UNCHANGED refused
         \/ refused' = refused \cup {c} /\ UNCHANGED queue,
         UNCHANGED <<phase, runs, arrivals, served>>
  PROVE  PoolInv'
<1>1. RunsInv'
  BY RunsInvKept DEF PoolInv
<1>2. c \in Conns /\ c \notin ToSet(queue) /\ phase[c] = "idle" /\ c \in ToSet(arrivals)
  BY LinesInConns DEF PoolInv, LinesInv, HistoryInv
<1>3. CASE queue' = Append(queue, c) /\ UNCHANGED refused
  <2>1. ToSet(queue') = ToSet(queue) \cup {c} /\ IsInjective(queue')
    BY <1>2, <1>3, AppendToLine DEF PoolTypeOK, PoolInv, LinesInv
  <2>2. LinesInv'
    BY <1>2, <1>3, <2>1 DEF PoolInv, LinesInv
  <2>3. HistoryInv'
    BY <1>2, <1>3, <2>1 DEF PoolInv, HistoryInv
  <2>4. QED
    BY <1>1, <2>2, <2>3 DEF PoolInv
<1>4. CASE refused' = refused \cup {c} /\ UNCHANGED queue
  <2>1. LinesInv'
    BY <1>2, <1>4 DEF PoolInv, LinesInv
  <2>2. HistoryInv'
    BY <1>2, <1>4 DEF PoolInv, HistoryInv
  <2>3. QED
    BY <1>1, <2>1, <2>2 DEF PoolInv
<1>5. QED
  BY <1>3, <1>4

LEMMA PoolInvStep ==
  ASSUME TypeOK, PoolTypeOK, PoolInv, [ServerNext]_serverVars
  PROVE  PoolInv'
<1>1. ASSUME NEW c \in Conns, Connect(c) PROVE PoolInv'
  <2>1. c \notin ToSet(arrivals) /\ c \notin ToSet(backlog) /\ c \notin ToSet(queue)
        /\ phase[c] = "idle" /\ c \notin refused
    BY <1>1 DEF Connect, Connected, PoolInv, HistoryInv
  <2>2. ToSet(backlog') = ToSet(backlog) \cup {c} /\ IsInjective(backlog')
    BY <1>1, <2>1, AppendToLine DEF Connect, PoolTypeOK, PoolInv, LinesInv
  <2>3. ToSet(arrivals') = ToSet(arrivals) \cup {c}
    BY <1>1, AppendToLine DEF Connect, PoolTypeOK
  <2>4. UNCHANGED <<phase, queue, runs, refused, served>>
    BY <1>1 DEF Connect, vars
  <2>5. RunsInv'
    BY <2>4, RunsInvKept DEF PoolInv
  <2>6. LinesInv'
    BY <2>1, <2>2, <2>4 DEF PoolInv, LinesInv
  <2>7. HistoryInv'
    BY <2>2, <2>3, <2>4 DEF PoolInv, HistoryInv
  <2>8. QED
    BY <2>5, <2>6, <2>7 DEF PoolInv
<1>2. ASSUME NEW c \in Conns, ClientStep(c) PROVE PoolInv'
  BY <1>2, ClientPhase, PoolInvKept DEF ClientStep
<1>3. CASE Accept \/ AcceptRefused
  <2>1. backlog # <<>> /\ backlog' = Tail(backlog)
    BY <1>3 DEF Accept, AcceptRefused
  <2>2. /\ Head(backlog) \in ToSet(backlog) /\ IsInjective(backlog')
        /\ ToSet(backlog') = ToSet(backlog) \ {Head(backlog)}
    BY <2>1, TailOfLine DEF PoolTypeOK, PoolInv, LinesInv
  <2>3. UNCHANGED <<phase, runs, arrivals, served>>
    BY <1>3 DEF Accept, AcceptRefused, vars
  <2>4. \/ queue' = Append(queue, Head(backlog)) /\ UNCHANGED refused
        \/ refused' = refused \cup {Head(backlog)} /\ UNCHANGED queue
    BY <1>3 DEF Accept, AcceptRefused
  <2>5. QED
    BY <2>2, <2>3, <2>4, Dispatched
<1>4. CASE AcceptInline
  <2>1. backlog # <<>> /\ backlog' = Tail(backlog) /\ UNCHANGED queue
    BY <1>4 DEF AcceptInline
  <2>2. /\ Head(backlog) \in ToSet(backlog) /\ IsInjective(backlog')
        /\ ToSet(backlog') = ToSet(backlog) \ {Head(backlog)}
    BY <2>1, TailOfLine DEF PoolTypeOK, PoolInv, LinesInv
  <2>3. /\ Head(backlog) \in Conns /\ Head(backlog) \notin ToSet(queue)
        /\ IsInjective(queue)
        /\ ToSet(backlog) \cap ToSet(queue) = {}
    BY <2>2, LinesInConns DEF PoolInv, LinesInv
  <2>4. MainThread \in Threads /\ Start(Head(backlog)) /\ runs[MainThread] = NoConn
        /\ runs' = [runs EXCEPT ![MainThread] = Head(backlog)]
        /\ served' = Append(served, Head(backlog)) /\ UNCHANGED <<refused, arrivals>>
    BY <1>4 DEF AcceptInline, Threads
  <2>5. /\ Head(backlog) \in ToSet(backlog) \cup ToSet(queue)
        /\ ToSet(backlog') \cup ToSet(queue')
             \subseteq (ToSet(backlog) \cup ToSet(queue)) \ {Head(backlog)}
        /\ ToSet(backlog') \cap ToSet(queue') = {}
        /\ IsInjective(backlog') /\ IsInjective(queue')
    BY <2>1, <2>2, <2>3
  <2>6. QED
    BY <2>3, <2>4, <2>5, TakenUp
<1>5. ASSUME NEW t \in Threads, Dequeue(t) PROVE PoolInv'
  <2>1. queue # <<>> /\ queue' = Tail(queue) /\ UNCHANGED backlog
    BY <1>5 DEF Dequeue
  <2>2. /\ Head(queue) \in ToSet(queue) /\ IsInjective(queue')
        /\ ToSet(queue') = ToSet(queue) \ {Head(queue)}
    BY <2>1, TailOfLine DEF PoolTypeOK, PoolInv, LinesInv
  <2>3. /\ Head(queue) \in Conns /\ Head(queue) \notin ToSet(backlog)
        /\ IsInjective(backlog)
        /\ ToSet(backlog) \cap ToSet(queue) = {}
    BY <2>2, LinesInConns DEF PoolInv, LinesInv
  <2>4. /\ Start(Head(queue)) /\ runs[t] = NoConn
        /\ runs' = [runs EXCEPT ![t] = Head(queue)]
        /\ served' = Append(served, Head(queue)) /\ UNCHANGED <<refused, arrivals>>
    BY <1>5 DEF Dequeue
  <2>5. /\ Head(queue) \in ToSet(backlog) \cup ToSet(queue)
        /\ ToSet(backlog') \cup ToSet(queue')
             \subseteq (ToSet(backlog) \cup ToSet(queue)) \ {Head(queue)}
        /\ ToSet(backlog') \cap ToSet(queue') = {}
        /\ IsInjective(backlog') /\ IsInjective(queue')
    BY <2>1, <2>2, <2>3
  <2>6. QED
    BY <2>3, <2>4, <2>5, TakenUp
<1>6. ASSUME NEW t \in Threads, RunHandler(t) PROVE PoolInv'
  <2>1. runs[t] \in Conns /\ Run(runs[t]) /\ UNCHANGED poolVars
    BY <1>6 DEF RunHandler, PoolTypeOK
  <2>2. /\ Busy(runs[t]) /\ Busy(runs[t])'
        /\ \A d \in Conns : d # runs[t] => phase'[d] = phase[d]
    <3> DEFINE c == runs[t]
    <3>1. Busy(c) /\ phase'[c] \notin {"idle", "closed"}
          /\ \A d \in Conns : d # c => phase'[d] = phase[d]
      BY <2>1, RunPhase DEF Busy
    <3>2. runs'[t] = runs[t]
      BY <2>1 DEF poolVars
    <3>3. QED
      BY <3>1, <3>2 DEF Busy
  <2>3. \A d \in Conns : phase'[d] = "idle" <=> phase[d] = "idle"
    BY <2>1, <2>2 DEF Busy, poolVars
  <2>4. \A d \in Conns : Busy(d)' <=> Busy(d)
    BY <2>1, <2>2 DEF Busy, poolVars
  <2>5. RunsInv'
    BY <2>1, <2>4 DEF PoolInv, RunsInv, poolVars
  <2>6. LinesInv'
    BY <2>1, <2>3, LinesInConns DEF PoolInv, LinesInv, poolVars, PoolTypeOK
  <2>7. HistoryInv'
    BY <2>1, <2>3, LinesInConns DEF PoolInv, HistoryInv, poolVars, PoolTypeOK
  <2>8. QED
    BY <2>5, <2>6, <2>7 DEF PoolInv
<1>7. ASSUME NEW t \in Threads, Retire(t) PROVE PoolInv'
  <2>1. PICK c \in Conns : c = runs[t]
    BY <1>7 DEF Retire, PoolTypeOK
  <2>2. /\ phase[c] = "return" /\ phase' = [phase EXCEPT ![c] = "closed"]
        /\ runs' = [runs EXCEPT ![t] = NoConn]
        /\ UNCHANGED <<backlog, queue, refused, arrivals, served>>
    BY <1>7, <2>1, ClosePhase DEF Retire
  <2>3. \A d \in Conns : phase'[d] = IF d = c THEN "closed" ELSE phase[d]
    BY <2>2 DEF TypeOK
  <2>4. \A u \in Threads : runs'[u] = IF u = t THEN NoConn ELSE runs[u]
    BY <2>2 DEF PoolTypeOK
  <2>5. \A u \in Threads : u # t => runs[u] # c
    BY <2>1, ThreadsAssumption DEF PoolInv, RunsInv
  <2>6. \A d \in Conns : phase'[d] = "idle" <=> phase[d] = "idle"
    BY <2>2, <2>3
  <2>7. RunsInv'
    <3>1. \A u, v \in Threads : runs'[u] = runs'[v] /\ u # v => runs'[u] = NoConn
      BY <2>4 DEF PoolInv, RunsInv
    <3>2. ASSUME NEW d \in Conns PROVE (\E u \in Threads : runs'[u] = d) <=> Busy(d)'
      <4>1. d # NoConn
        BY ThreadsAssumption
      <4>2. CASE d = c
        BY <2>3, <2>4, <2>5, <4>1, <4>2 DEF Busy
      <4>3. CASE d # c
        <5>1. Busy(d)' <=> Busy(d)
          BY <2>3, <4>3 DEF Busy
        <5>2. (\E u \in Threads : runs'[u] = d) <=> (\E u \in Threads : runs[u] = d)
          BY <2>1, <2>4, <4>1, <4>3
        <5>3. QED
          BY <5>1, <5>2 DEF PoolInv, RunsInv
      <4>4. QED
        BY <4>2, <4>3
    <3>3. QED
      BY <3>1, <3>2 DEF RunsInv
  <2>8. LinesInv'
    BY <2>2, <2>6, LinesInConns DEF PoolInv, LinesInv, PoolTypeOK
  <2>9. HistoryInv'
    BY <2>2, <2>6, LinesInConns DEF PoolInv, HistoryInv, PoolTypeOK
  <2>10. QED
    BY <2>7, <2>8, <2>9 DEF PoolInv
<1>8. CASE UNCHANGED serverVars
  BY <1>8, PoolInvKept DEF serverVars, vars
<1>9. QED
  BY <1>1, <1>2, <1>3, <1>4, <1>5, <1>6, <1>7, <1>8 DEF ServerNext

LEMMA PoolInvInit == ServerInit => PoolInv
<1> SUFFICES ASSUME ServerInit PROVE PoolInv
  OBVIOUS
<1>1. /\ \A c \in Conns : phase[c] = "idle"
      /\ \A t \in Threads : runs[t] = NoConn
      /\ backlog = <<>> /\ queue = <<>> /\ served = <<>> /\ arrivals = <<>> /\ refused = {}
  BY DEF ServerInit, Init
<1>2. IsInjective(<<>>) /\ ToSet(<<>>) = {}
  BY DEF IsInjective, ToSet
<1>3. RunsInv
  BY <1>1, ThreadsAssumption DEF RunsInv, Busy
<1>4. LinesInv /\ HistoryInv
  BY <1>1, <1>2 DEF LinesInv, HistoryInv
<1>5. QED
  BY <1>3, <1>4 DEF PoolInv

(* A connection is waiting, refused, run by exactly one thread or closed;  *)
(* no handler is queued or run twice.                                      *)
THEOREM OneThread == ServerSpec => []OneThreadPerSession
<1>1. TypeOK /\ PoolTypeOK /\ PoolInv /\ [ServerNext]_serverVars => PoolInv'
  BY PoolInvStep
<1>2. PoolTypeOK /\ [ServerNext]_serverVars => PoolTypeOK'
  BY PoolTypeStep
<1>3. PoolInv => OneThreadPerSession
  BY DEF PoolInv, RunsInv, LinesInv, Busy, OneThreadPerSession
<1>4. QED
  BY <1>1, <1>2, <1>3, PoolInvInit, PoolTypeInit, ServerRunsSessions, TypeCorrect, PTL
     DEF ServerSpec

-----------------------------------------------------------------------------
(* Arrival order.                                                          *)

LEMMA SetOfConcat ==
  ASSUME NEW S, NEW s \in Seq(S), NEW t \in Seq(S)
  PROVE  ToSet(s \o t) = ToSet(s) \cup ToSet(t)
<1>1. ASSUME NEW u \in Seq(S) PROVE ToSet(u) = Range(u)
  BY DEF ToSet, Range
<1>2. s \o t \in Seq(S)
  BY ConcatProperties
<1>3. ToSet(s) = Range(s) /\ ToSet(t) = Range(t) /\ ToSet(s \o t) = Range(s \o t)
  BY <1>1, <1>2
<1>4. QED
  BY <1>3, RangeConcatenation

LEMMA AppendToConcat ==
  ASSUME NEW S, NEW s \in Seq(S), NEW t \in Seq(S), NEW e \in S
  PROVE  s \o Append(t, e) = Append(s \o t, e)
<1>1. <<e>> \in Seq(S) /\ s \o t \in Seq(S)
  BY ConcatProperties
<1>2. Append(t, e) = t \o <<e>> /\ Append(s \o t, e) = (s \o t) \o <<e>>
  BY <1>1, AppendIsConcat
<1>3. QED
  BY <1>1, <1>2, ConcatAssociative

(* The head of one line moves to the end of the line before it.            *)
LEMMA HeadMoves ==
  ASSUME NEW S, NEW s \in Seq(S), NEW t \in Seq(S), t # <<>>
  PROVE  Append(s, Head(t)) \o Tail(t) = s \o t
<1>1. Head(t) \in S /\ Tail(t) \in Seq(S) /\ <<Head(t)>> \in Seq(S)
  BY HeadTailProperties
<1>2. Len(t) \in Nat /\ 1 \in 1 .. Len(t) /\ Len(t) \in 1 .. Len(t)
  BY EmptySeq, LenProperties
<1>3. t = <<t[1]>> \o SubSeq(t, 2, Len(t))
  <2>1. SubSeq(t, 1, Len(t)) = <<t[1]>> \o SubSeq(t, 1 + 1, Len(t))
    BY <1>2, SubSeqRecursiveFirst
  <2>2. QED
    BY <2>1, SubSeqFull
<1>4. t = <<Head(t)>> \o Tail(t)
  BY <1>3, TailIsSubSeq
<1>5. Append(s, Head(t)) = s \o <<Head(t)>>
  BY <1>1, AppendIsConcat
<1>6. (s \o <<Head(t)>>) \o Tail(t) = s \o (<<Head(t)>> \o Tail(t))
  BY <1>1, ConcatAssociative
<1>7. QED
  BY <1>4, <1>5, <1>6

LEMMA LineType ==
  ASSUME PoolTypeOK
  PROVE  /\ served \o queue \in Seq(Conns) /\ Line \in Seq(Conns)
         /\ ToSet(served \o queue) = ToSet(served) \cup ToSet(queue)
         /\ ToSet(Line) = ToSet(served) \cup ToSet(queue) \cup ToSet(backlog)
<1>1. served \o queue \in Seq(Conns) /\ Line \in Seq(Conns)
  BY ConcatProperties DEF PoolTypeOK, Line
<1>2. ToSet(served \o queue) = ToSet(served) \cup ToSet(queue)
  BY SetOfConcat DEF PoolTypeOK
<1>3. ToSet(Line) = ToSet(served \o queue) \cup ToSet(backlog)
  <2>1. backlog \in Seq(Conns)
    BY DEF PoolTypeOK
  <2>2. ToSet((served \o queue) \o backlog) = ToSet(served \o queue) \cup ToSet(backlog)
    BY <1>1, <2>1, SetOfConcat
  <2>3. QED
    BY <2>2 DEF Line
<1>4. QED
  BY <1>1, <1>2, <1>3

(* The pool's queue is used only when there is a pool.                     *)
QueueInv == Threaded \/ queue = <<>>

LEMMA QueueInvStep ==
  ASSUME QueueInv, [ServerNext]_serverVars
  PROVE  QueueInv'
<1> USE DEF QueueInv, Threaded
<1>1. ASSUME NEW c \in Conns, Connect(c) \/ ClientStep(c) PROVE QueueInv'
  BY <1>1 DEF Connect, ClientStep, poolVars
<1>2. CASE Accept \/ AcceptRefused \/ AcceptInline
  BY <1>2 DEF Accept, AcceptRefused, AcceptInline
<1>3. ASSUME NEW t \in Threads, Dequeue(t) \/ RunHandler(t) \/ Retire(t) PROVE QueueInv'
  BY <1>3 DEF Dequeue, RunHandler, Retire, poolVars
<1>4. CASE UNCHANGED serverVars
  BY <1>4 DEF serverVars, poolVars
<1>5. QED
  BY <1>1, <1>2, <1>3, <1>4 DEF ServerNext

LEMMA OrderKept ==
  ASSUME ArrivalOrder, Line' = Line, UNCHANGED arrivals, UNCHANGED refused
  PROVE  ArrivalOrder'
<1>1. ASSUME NEW c, NEW d, Before(c, d) PROVE Before(c, d)'
  BY <1>1 DEF Before
<1>2. QED
  BY <1>1 DEF ArrivalOrder

(* A connection that arrives is the last of the line.                      *)
LEMMA OrderOnConnect ==
  ASSUME PoolTypeOK, ArrivalOrder, NEW c \in Conns,
         refused \subseteq ToSet(arrivals), c \notin ToSet(arrivals),
         arrivals' = Append(arrivals, c), backlog' = Append(backlog, c),
         UNCHANGED served, UNCHANGED queue, UNCHANGED refused
  PROVE  ArrivalOrder'
<1>1. Line' = Append(Line, c)
  BY LineType, AppendToConcat DEF Line, PoolTypeOK
<1>2. Line \in Seq(Conns) /\ arrivals \in Seq(Conns)
  BY LineType DEF PoolTypeOK
<1>3. /\ ToSet(Append(Line, c)) = ToSet(Line) \cup {c}
      /\ ToSet(arrivals') = ToSet(arrivals) \cup {c}
  BY <1>2, AppendToLine
<1>4. ToSet(Line') = ToSet(arrivals') \ refused'
  BY <1>1, <1>3 DEF ArrivalOrder
<1>5. PICK n \in Nat, m \in Nat : n = Len(Line) /\ m = Len(arrivals)
  BY <1>2, LenProperties
<1>6. /\ Len(Append(Line, c)) = n + 1 /\ Append(Line, c)[n + 1] = c
      /\ \A i \in 1 .. n : Append(Line, c)[i] = Line[i]
      /\ Len(arrivals') = m + 1 /\ arrivals'[m + 1] = c
      /\ \A i \in 1 .. m : arrivals'[i] = arrivals[i]
  BY <1>2, <1>5, AppendProperties
<1>7. ASSUME NEW i \in 1 .. n + 1, NEW j \in 1 .. n + 1, i < j
      PROVE  Before(Line[i], Line[j])'
  <2>1. i \in 1 .. n /\ Line'[i] = Line[i]
    BY <1>1, <1>6, <1>7
  <2>2. CASE j \in 1 .. n
    <3>1. Line'[j] = Line[j] /\ Before(Line[i], Line[j])
      BY <1>1, <1>5, <1>6, <1>7, <2>1, <2>2 DEF ArrivalOrder
    <3>2. PICK k \in 1 .. m, l \in 1 .. m :
            k < l /\ arrivals[k] = Line[i] /\ arrivals[l] = Line[j]
      BY <1>5, <3>1 DEF Before
    <3>3. k \in 1 .. m + 1 /\ l \in 1 .. m + 1 /\ arrivals'[k] = Line[i] /\ arrivals'[l] = Line[j]
      BY <1>6, <3>2
    <3>4. QED
      BY <1>6, <2>1, <3>1, <3>2, <3>3 DEF Before
  <2>3. CASE j = n + 1
    <3>1. Line[i] \in ToSet(arrivals)
      <4>1. DOMAIN Line = 1 .. n
        BY <1>2, <1>5, LenProperties
      <4>2. Line[i] \in ToSet(Line)
        BY <2>1, <4>1 DEF ToSet
      <4>3. QED
        BY <4>2 DEF ArrivalOrder
    <3>2. PICK k \in 1 .. m : arrivals[k] = Line[i]
      BY <1>2, <1>5, <3>1, LenProperties DEF ToSet
    <3>3. k \in 1 .. m + 1 /\ m + 1 \in 1 .. m + 1 /\ k < m + 1
          /\ arrivals'[k] = Line[i] /\ arrivals'[m + 1] = Line'[j]
      BY <1>1, <1>6, <2>3, <3>2
    <3>4. QED
      BY <1>6, <2>1, <3>3 DEF Before
  <2>4. QED
    BY <1>7, <2>2, <2>3
<1>8. Len(Line') = n + 1
  BY <1>1, <1>6
<1>9. QED
  BY <1>4, <1>7, <1>8 DEF ArrivalOrder

(* A connection that is refused leaves the line, the others keep their     *)
(* places in it.                                                           *)
LEMMA OrderOnRefusal ==
  ASSUME PoolTypeOK, PoolInv, ArrivalOrder, backlog # <<>>,
         backlog' = Tail(backlog), refused' = refused \cup {Head(backlog)},
         UNCHANGED served, UNCHANGED queue, UNCHANGED arrivals
  PROVE  ArrivalOrder'
<1> DEFINE p == served \o queue
           b == backlog
<1>1. /\ p \in Seq(Conns) /\ b \in Seq(Conns) /\ Tail(b) \in Seq(Conns)
      /\ Line = p \o b /\ Line' = p \o Tail(b)
  BY LineType, TailType DEF Line, PoolTypeOK
<1>2. /\ Head(b) \in ToSet(b) /\ ToSet(Tail(b)) = ToSet(b) \ {Head(b)}
      /\ ToSet(Line) = ToSet(p) \cup ToSet(b) /\ ToSet(Line') = ToSet(p) \cup ToSet(Tail(b))
  <2>1. Head(b) \in ToSet(b) /\ ToSet(Tail(b)) = ToSet(b) \ {Head(b)}
    BY <1>1, TailOfLine DEF PoolInv, LinesInv
  <2> HIDE DEF p, b
  <2>2. ToSet(p \o b) = ToSet(p) \cup ToSet(b) /\ ToSet(p \o Tail(b)) = ToSet(p) \cup ToSet(Tail(b))
    BY <1>1, SetOfConcat
  <2>3. QED
    BY <1>1, <2>1, <2>2
<1>3. Head(b) \notin ToSet(p)
  <2>1. phase[Head(b)] = "idle" /\ Head(b) \notin ToSet(queue)
    BY <1>2 DEF PoolInv, LinesInv
  <2>2. QED
    BY <2>1, LineType DEF PoolInv, HistoryInv
<1>4. ToSet(Line') = ToSet(arrivals') \ refused'
  BY <1>2, <1>3 DEF ArrivalOrder
<1>5. PICK n \in Nat, k \in Nat : n = Len(p) /\ k + 1 = Len(b)
  <2>1. Len(p) \in Nat /\ Len(b) \in Nat \ {0}
    BY <1>1, LenProperties, EmptySeq
  <2>2. PICK l \in Nat : l = Len(b) /\ l # 0
    BY <2>1
  <2>3. l - 1 \in Nat /\ (l - 1) + 1 = l
    BY <2>2
  <2>4. PICK k \in Nat : k + 1 = Len(b)
    BY <2>2, <2>3
  <2>5. QED
    BY <2>1, <2>4
<1>6. /\ Len(Tail(b)) = k
      /\ \A i \in 1 .. k : Tail(b)[i] = b[i + 1]
  <2>1. Len(Tail(b)) = Len(b) - 1 /\ \A i \in 1 .. Len(Tail(b)) : Tail(b)[i] = b[i + 1]
    BY <1>1, HeadTailProperties
  <2>2. Len(b) - 1 = k
    BY <1>5
  <2>3. QED
    BY <2>1, <2>2
<1>7. /\ Len(Line) = n + (k + 1)
      /\ \A i \in 1 .. n + (k + 1) : Line[i] = IF i <= n THEN p[i] ELSE b[i - n]
      /\ Len(Line') = n + k
      /\ \A i \in 1 .. n + k : Line'[i] = IF i <= n THEN p[i] ELSE Tail(b)[i - n]
  <2>1. /\ Len(p \o b) = n + (k + 1)
        /\ \A i \in 1 .. n + (k + 1) : (p \o b)[i] = IF i <= n THEN p[i] ELSE b[i - n]
    <3> HIDE DEF p, b
    <3>1. /\ Len(p \o b) = Len(p) + Len(b)
          /\ \A i \in 1 .. Len(p) + Len(b) :
               (p \o b)[i] = IF i <= Len(p) THEN p[i] ELSE b[i - Len(p)]
      BY <1>1, ConcatProperties
    <3>2. QED
      BY <1>5, <3>1
  <2>2. /\ Len(p \o Tail(b)) = n + k
        /\ \A i \in 1 .. n + k : (p \o Tail(b))[i] = IF i <= n THEN p[i] ELSE Tail(b)[i - n]
    BY <1>1, <1>5, <1>6, ConcatProperties
  <2>3. QED
    BY <1>1, <2>1, <2>2
<1> HIDE DEF p, b
<1> DEFINE from(i) == IF i <= n THEN i ELSE i + 1
<1>8. ASSUME NEW i \in 1 .. n + k
      PROVE  from(i) \in 1 .. n + (k + 1) /\ Line'[i] = Line[from(i)]
  <2>1. CASE i <= n
    BY <1>7, <2>1
  <2>2. CASE ~(i <= n)
    <3>1. i - n \in 1 .. k /\ i + 1 \in 1 .. n + (k + 1) /\ ~(i + 1 <= n)
          /\ (i - n) + 1 = (i + 1) - n
      BY <2>2
    <3>2. QED
      BY <1>6, <1>7, <2>2, <3>1
  <2>3. QED
    BY <2>1, <2>2
<1>9. ASSUME NEW i \in 1 .. n + k, NEW j \in 1 .. n + k, i < j PROVE from(i) < from(j)
  BY <1>9
<1> HIDE DEF from
<1>10. ASSUME NEW i \in 1 .. n + k, NEW j \in 1 .. n + k, i < j
       PROVE  Before(Line[i], Line[j])'
  <2>1. Before(Line[from(i)], Line[from(j)])
    BY <1>7, <1>8, <1>9, <1>10 DEF ArrivalOrder
  <2>2. Before(Line'[i], Line'[j])
    BY <1>8, <2>1
  <2>3. QED
    BY <2>2 DEF Before
<1>11. QED
  BY <1>4, <1>7, <1>10 DEF ArrivalOrder

LEMMA OrderStep ==
  ASSUME PoolTypeOK, PoolInv, QueueInv, ArrivalOrder, [ServerNext]_serverVars
  PROVE  ArrivalOrder'
<1>1. ASSUME NEW c \in Conns, Connect(c) PROVE ArrivalOrder'
  BY <1>1, OrderOnConnect DEF Connect, Connected, PoolInv, HistoryInv
<1>2. ASSUME NEW c \in Conns, ClientStep(c) PROVE ArrivalOrder'
  BY <1>2, OrderKept DEF ClientStep, poolVars, Line
<1>3. CASE Accept
  <2>1. /\ backlog # <<>> /\ Head(backlog) \in Conns /\ Tail(backlog) \in Seq(Conns)
        /\ served \in Seq(Conns) /\ queue \in Seq(Conns) /\ backlog \in Seq(Conns)
    BY <1>3, TailType DEF Accept, PoolTypeOK
  <2>2. served \o Append(queue, Head(backlog)) = Append(served \o queue, Head(backlog))
    BY <2>1, AppendToConcat
  <2>3. Append(served \o queue, Head(backlog)) \o Tail(backlog) = served \o queue \o backlog
    BY <2>1, LineType, HeadMoves
  <2>4. QED
    BY <1>3, <2>2, <2>3, OrderKept DEF Accept, Line
<1>4. CASE AcceptRefused
  BY <1>4, OrderOnRefusal DEF AcceptRefused
<1>5. CASE AcceptInline
  <2>1. /\ backlog # <<>> /\ queue = <<>> /\ Head(backlog) \in Conns
        /\ served \in Seq(Conns) /\ backlog \in Seq(Conns)
    BY <1>5, TailType DEF AcceptInline, PoolTypeOK, QueueInv
  <2>2. served \o <<>> = served
    BY <2>1, ConcatEmptySeq
  <2>3. Append(served, Head(backlog)) \o <<>> = Append(served, Head(backlog))
    BY <2>1, AppendType, ConcatEmptySeq
  <2>4. Append(served, Head(backlog)) \o Tail(backlog) = served \o backlog
    BY <2>1, HeadMoves
  <2>5. QED
    BY <1>5, <2>1, <2>2, <2>3, <2>4, OrderKept DEF AcceptInline, Line
<1>6. ASSUME NEW t \in Threads, Dequeue(t) PROVE ArrivalOrder'
  <2>1. Append(served, Head(queue)) \o Tail(queue) = served \o queue
    BY <1>6, HeadMoves DEF Dequeue, PoolTypeOK
  <2>2. QED
    BY <1>6, <2>1, OrderKept DEF Dequeue, Line
<1>7. ASSUME NEW t \in Threads, RunHandler(t) \/ Retire(t) PROVE ArrivalOrder'
  BY <1>7, OrderKept DEF RunHandler, Retire, poolVars, Line
<1>8. CASE UNCHANGED serverVars
  BY <1>8, OrderKept DEF serverVars, poolVars, Line
<1>9. QED
  BY <1>1, <1>2, <1>3, <1>4, <1>5, <1>6, <1>7, <1>8 DEF ServerNext

LEMMA OrderInit == ServerInit => QueueInv /\ ArrivalOrder
<1> SUFFICES ASSUME ServerInit PROVE QueueInv /\ ArrivalOrder
  OBVIOUS
<1>1. served = <<>> /\ queue = <<>> /\ backlog = <<>> /\ arrivals = <<>>
  BY DEF ServerInit
<1>2. <<>> \o <<>> = <<>> /\ Len(<<>>) = 0
  BY ConcatEmptySeq, EmptySeq
<1>3. Line = <<>>
  BY <1>1, <1>2 DEF Line
<1>4. ToSet(<<>>) = {}
  BY DEF ToSet
<1>5. ArrivalOrder
  BY <1>1, <1>2, <1>3, <1>4 DEF ArrivalOrder
<1>6. QED
  BY <1>1, <1>5 DEF QueueInv

(* No connection overtakes another between its arrival and the thread that *)
(* takes it up, for any number of connections and threads, and whatever    *)
(* the pool refuses.                                                       *)
THEOREM ServedInOrder == ServerSpec => []ArrivalOrder
<1>1. TypeOK /\ PoolTypeOK /\ PoolInv /\ [ServerNext]_serverVars => PoolInv'
  BY PoolInvStep
<1>2. PoolTypeOK /\ [ServerNext]_serverVars => PoolTypeOK'
  BY PoolTypeStep
<1>3. QueueInv /\ [ServerNext]_serverVars => QueueInv'
  BY QueueInvStep
<1>4. PoolTypeOK /\ PoolInv /\ QueueInv /\ ArrivalOrder /\ [ServerNext]_serverVars
        => ArrivalOrder'
  BY OrderStep
<1>5. QED
  BY <1>1, <1>2, <1>3, <1>4, OrderInit, PoolInvInit, PoolTypeInit, ServerRunsSessions,
     TypeCorrect, PTL DEF ServerSpec

-----------------------------------------------------------------------------
(* The server as a pool of workers: who waits, who is served, who is done. *)
Waiting == queue \o backlog
Active == {c \in Conns : phase[c] \notin {"idle", "closed"}}
Done == {c \in Conns : phase[c] = "closed"} \cup refused

LEMMA WaitingType ==
  ASSUME PoolTypeOK
  PROVE  /\ Waiting \in Seq(Conns)
         /\ ToSet(Waiting) = ToSet(queue) \cup ToSet(backlog)
         /\ Pool!InLine = ToSet(Waiting)
<1>1. Waiting \in Seq(Conns)
  BY ConcatProperties DEF PoolTypeOK, Waiting
<1>2. ToSet(Waiting) = ToSet(queue) \cup ToSet(backlog)
  BY SetOfConcat DEF PoolTypeOK, Waiting
<1>3. DOMAIN Waiting = 1 .. Len(Waiting)
  BY <1>1, LenProperties
<1>4. Pool!InLine = ToSet(Waiting)
  BY <1>3 DEF Pool!InLine, ToSet, Waiting
<1>5. QED
  BY <1>1, <1>2, <1>4

(* The cardinality the pool counts with is that of FiniteSets.            *)
LEMMA PoolCardinality == \A S : Pool!Cardinality(S) = Cardinality(S)
BY Zenon DEF Pool!Cardinality, Cardinality

LEMMA ThreadsCounted ==
  /\ IsFiniteSet(Threads)
  /\ Cardinality(Threads) = (IF Threaded THEN Cardinality(Workers) ELSE 1)
<1>1. IsFiniteSet({MainThread}) /\ Cardinality({MainThread}) = 1
  BY FS_Singleton
<1>2. QED
  BY <1>1, ThreadsAssumption DEF Threads

(* Each connection served occupies a thread of its own, so that while one  *)
(* thread runs nothing, fewer connections are served than there are threads.*)
LEMMA RoomForOne ==
  ASSUME PoolInv, PoolTypeOK, NEW t \in Threads, runs[t] = NoConn
  PROVE  Cardinality(Active) < (IF Threaded THEN Cardinality(Workers) ELSE 1)
<1> DEFINE size == IF Threaded THEN Cardinality(Workers) ELSE 1
           others == Threads \ {t}
           threadOf(c) == CHOOSE u \in Threads : runs[u] = c
           f == [c \in Active |-> threadOf(c)]
<1>1. IsFiniteSet(Threads) /\ Cardinality(Threads) = size
  BY ThreadsCounted
<1>2. /\ IsFiniteSet(others) /\ Cardinality(others) = size - 1
      /\ size \in Nat /\ Cardinality(others) \in Nat
  BY <1>1, FS_RemoveElement, FS_CardinalityType
<1>3. ASSUME NEW c \in Active PROVE threadOf(c) \in others /\ runs[threadOf(c)] = c
  <2>1. c \in Conns /\ Busy(c)
    BY <1>3 DEF Active, Busy
  <2>2. \E u \in Threads : runs[u] = c
    BY <2>1 DEF PoolInv, RunsInv
  <2>3. threadOf(c) \in Threads /\ runs[threadOf(c)] = c
    BY <2>2
  <2>4. c # NoConn
    BY <2>1, ThreadsAssumption
  <2>5. QED
    BY <2>3, <2>4
<1>4. f \in Injection(Active, others)
  BY <1>3 DEF Injection, IsInjective
<1>5. IsFiniteSet(Active) /\ Cardinality(Active) <= Cardinality(others)
  BY <1>2, <1>4, FS_Injection
<1>6. Cardinality(Active) \in Nat
  BY <1>5, FS_CardinalityType
<1> HIDE DEF size, others
<1>7. Cardinality(Active) < size
  BY <1>2, <1>5, <1>6
<1>8. QED
  BY <1>7 DEF size

LEMMA HeadOfConcat ==
  ASSUME NEW S, NEW s \in Seq(S), NEW t \in Seq(S), s # <<>>
  PROVE  s \o t # <<>> /\ Head(s \o t) = Head(s) /\ Tail(s \o t) = Tail(s) \o t
<1> DEFINE w == s \o t
<1>1. PICK n \in Nat, m \in Nat : n + 1 = Len(s) /\ m = Len(t)
  <2>1. PICK l \in Nat, m \in Nat : l = Len(s) /\ l # 0 /\ m = Len(t)
    BY EmptySeq, LenProperties
  <2>2. l - 1 \in Nat /\ (l - 1) + 1 = l
    BY <2>1
  <2>3. QED
    BY <2>1, <2>2
<1>2. /\ w \in Seq(S) /\ Len(w) = (n + 1) + m
      /\ \A i \in 1 .. (n + 1) + m : w[i] = IF i <= n + 1 THEN s[i] ELSE t[i - (n + 1)]
  <2>1. /\ w \in Seq(S) /\ Len(w) = Len(s) + Len(t)
        /\ \A i \in 1 .. Len(s) + Len(t) : w[i] = IF i <= Len(s) THEN s[i] ELSE t[i - Len(s)]
    BY ConcatProperties
  <2>2. QED
    BY <1>1, <2>1
<1> HIDE DEF w
<1>3. w # <<>>
  BY <1>2, EmptySeq
<1>4. Head(w) = Head(s)
  <2>1. w[1] = s[1]
    BY <1>2
  <2>2. QED
    BY <1>2, <1>3, <2>1
<1>5. /\ Tail(s) \in Seq(S) /\ Len(Tail(s)) = n
      /\ \A i \in 1 .. n : Tail(s)[i] = s[i + 1]
  <2>1. /\ Tail(s) \in Seq(S) /\ Len(Tail(s)) = Len(s) - 1
        /\ \A i \in 1 .. Len(Tail(s)) : Tail(s)[i] = s[i + 1]
    BY HeadTailProperties
  <2>2. Len(s) - 1 = n
    BY <1>1
  <2>3. QED
    BY <2>1, <2>2
<1>6. /\ Tail(w) \in Seq(S) /\ Len(Tail(w)) = n + m
      /\ \A i \in 1 .. n + m : Tail(w)[i] = w[i + 1]
  <2>1. /\ Tail(w) \in Seq(S) /\ Len(Tail(w)) = Len(w) - 1
        /\ \A i \in 1 .. Len(Tail(w)) : Tail(w)[i] = w[i + 1]
    BY <1>2, <1>3, HeadTailProperties
  <2>2. Len(w) - 1 = n + m
    BY <1>2
  <2>3. QED
    BY <2>1, <2>2
<1>7. /\ Tail(s) \o t \in Seq(S) /\ Len(Tail(s) \o t) = n + m
      /\ \A i \in 1 .. n + m : (Tail(s) \o t)[i] = IF i <= n THEN Tail(s)[i] ELSE t[i - n]
  <2>1. /\ Tail(s) \o t \in Seq(S) /\ Len(Tail(s) \o t) = Len(Tail(s)) + Len(t)
        /\ \A i \in 1 .. Len(Tail(s)) + Len(t) :
             (Tail(s) \o t)[i] = IF i <= Len(Tail(s)) THEN Tail(s)[i] ELSE t[i - Len(Tail(s))]
    BY <1>5, ConcatProperties
  <2>2. QED
    BY <1>1, <1>5, <2>1
<1>8. ASSUME NEW i \in 1 .. n + m PROVE Tail(w)[i] = (Tail(s) \o t)[i]
  <2>1. i + 1 \in 1 .. (n + 1) + m /\ Tail(w)[i] = w[i + 1]
    BY <1>6
  <2>2. CASE i <= n
    <3>1. i + 1 <= n + 1 /\ i \in 1 .. n
      BY <2>2
    <3>2. QED
      BY <1>2, <1>5, <1>7, <2>1, <2>2, <3>1
  <2>3. CASE ~(i <= n)
    <3>1. ~(i + 1 <= n + 1) /\ (i + 1) - (n + 1) = i - n
      BY <2>3
    <3>2. QED
      BY <1>2, <1>7, <2>1, <2>3, <3>1
  <2>4. QED
    BY <2>2, <2>3
<1>9. Tail(w) = Tail(s) \o t
  BY <1>6, <1>7, <1>8, SeqEqual
<1>10. QED
  BY <1>3, <1>4, <1>9 DEF w

(* Taking the head of the second line out of the first and the second.     *)
LEMMA DropHeadOfSecond ==
  ASSUME NEW S, NEW s \in Seq(S), NEW t \in Seq(S), t # <<>>
  PROVE  \E k \in 1 .. Len(s \o t) :
           /\ (s \o t)[k] = Head(t)
           /\ SubSeq(s \o t, 1, k - 1) \o SubSeq(s \o t, k + 1, Len(s \o t)) = s \o Tail(t)
<1> DEFINE w == s \o t
<1>1. PICK n \in Nat, m \in Nat : n = Len(s) /\ m + 1 = Len(t)
  <2>1. PICK l \in Nat, n \in Nat : l = Len(t) /\ l # 0 /\ n = Len(s)
    BY EmptySeq, LenProperties
  <2>2. l - 1 \in Nat /\ (l - 1) + 1 = l
    BY <2>1
  <2>3. QED
    BY <2>1, <2>2
<1>2. /\ w \in Seq(S) /\ Len(w) = n + (m + 1)
      /\ \A i \in 1 .. n + (m + 1) : w[i] = IF i <= n THEN s[i] ELSE t[i - n]
  <2>1. /\ w \in Seq(S) /\ Len(w) = Len(s) + Len(t)
        /\ \A i \in 1 .. Len(s) + Len(t) : w[i] = IF i <= Len(s) THEN s[i] ELSE t[i - Len(s)]
    BY ConcatProperties
  <2>2. QED
    BY <1>1, <2>1
<1> HIDE DEF w
<1>3. /\ Tail(t) \in Seq(S) /\ Len(Tail(t)) = m
      /\ \A i \in 1 .. m : Tail(t)[i] = t[i + 1]
  <2>1. /\ Tail(t) \in Seq(S) /\ Len(Tail(t)) = Len(t) - 1
        /\ \A i \in 1 .. Len(Tail(t)) : Tail(t)[i] = t[i + 1]
    BY HeadTailProperties
  <2>2. Len(t) - 1 = m
    BY <1>1
  <2>3. QED
    BY <2>1, <2>2
<1>4. n + 1 \in 1 .. n + (m + 1) /\ w[n + 1] = Head(t)
  <2>1. n + 1 \in 1 .. n + (m + 1) /\ ~(n + 1 <= n) /\ (n + 1) - n = 1
    OBVIOUS
  <2>2. QED
    BY <1>2, <2>1
<1>5. \A i \in 1 .. n + (m + 1) : w[i] \in S
  BY <1>2, ElementOfSeq
<1>6. SubSeq(w, 1, n) = s
  <2>1. /\ SubSeq(w, 1, n) \in Seq(S)
        /\ Len(SubSeq(w, 1, n)) = IF 1 <= n THEN n - 1 + 1 ELSE 0
        /\ \A i \in 1 .. n - 1 + 1 : SubSeq(w, 1, n)[i] = w[1 + i - 1]
    <3>1. 1 \in Int /\ n \in Int /\ \A i \in 1 .. n : w[i] \in S
      BY <1>5
    <3>2. QED
      BY <3>1, SubSeqProperties
  <2>2. Len(SubSeq(w, 1, n)) = Len(s)
    BY <1>1, <2>1
  <2>3. ASSUME NEW i \in 1 .. n PROVE SubSeq(w, 1, n)[i] = s[i]
    <3>1. i \in 1 .. n - 1 + 1 /\ 1 + i - 1 = i /\ i \in 1 .. n + (m + 1) /\ i <= n
      OBVIOUS
    <3>2. QED
      BY <1>2, <2>1, <3>1
  <2>4. QED
    BY <1>1, <2>1, <2>2, <2>3, SeqEqual
<1>7. SubSeq(w, n + 2, n + (m + 1)) = Tail(t)
  <2> DEFINE r == SubSeq(w, n + 2, n + (m + 1))
  <2>1. /\ r \in Seq(S)
        /\ Len(r) = IF n + 2 <= n + (m + 1) THEN (n + (m + 1)) - (n + 2) + 1 ELSE 0
        /\ \A i \in 1 .. (n + (m + 1)) - (n + 2) + 1 : r[i] = w[(n + 2) + i - 1]
    <3>1. n + 2 \in Int /\ n + (m + 1) \in Int /\ \A i \in n + 2 .. n + (m + 1) : w[i] \in S
      BY <1>5
    <3>2. QED
      BY <3>1, SubSeqProperties
  <2> HIDE DEF r
  <2>2. (n + (m + 1)) - (n + 2) + 1 = m /\ (n + 2 <= n + (m + 1) <=> 1 <= m)
    OBVIOUS
  <2>3. Len(r) = m
    BY <2>1, <2>2
  <2>4. ASSUME NEW i \in 1 .. m PROVE r[i] = Tail(t)[i]
    <3>1. /\ (n + 2) + i - 1 \in 1 .. n + (m + 1) /\ ~((n + 2) + i - 1 <= n)
          /\ ((n + 2) + i - 1) - n = i + 1
      OBVIOUS
    <3>2. r[i] = w[(n + 2) + i - 1]
      BY <2>1, <2>2
    <3>3. w[(n + 2) + i - 1] = t[i + 1]
      BY <1>2, <3>1
    <3>4. QED
      BY <1>3, <3>2, <3>3
  <2>5. r = Tail(t)
    BY <1>3, <2>1, <2>3, <2>4, SeqEqual
  <2>6. QED
    BY <2>5 DEF r
<1>8. PICK k \in 1 .. Len(w) : k = n + 1
  BY <1>2, <1>4
<1>9. k - 1 = n /\ k + 1 = n + 2
  BY <1>8
<1>10. w[k] = Head(t) /\ SubSeq(w, 1, k - 1) \o SubSeq(w, k + 1, Len(w)) = s \o Tail(t)
  BY <1>2, <1>4, <1>6, <1>7, <1>8, <1>9
<1>11. QED
  BY <1>10 DEF w

-----------------------------------------------------------------------------
(* Each step of the server is a step of the pool, or none of its concern.  *)

LEMMA PoolUntouched ==
  ASSUME Waiting' = Waiting, Active' = Active, Done' = Done
  PROVE  UNCHANGED Pool!vars
BY DEF Pool!vars, Waiting, Active, Done

(* A connection leaves the line for a thread that ran nothing.             *)
LEMMA PoolBegins ==
  ASSUME TypeOK, PoolTypeOK, PoolInv, NEW t \in Threads, runs[t] = NoConn,
         Waiting # <<>>, Waiting' = Tail(Waiting), Start(Head(Waiting)), UNCHANGED refused
  PROVE  Pool!Begin
<1> DEFINE c == Head(Waiting)
<1>1. c \in Conns
  BY WaitingType, HeadTailProperties
<1>2. phase[c] = "idle" /\ phase' = [phase EXCEPT ![c] = "start"]
  BY <1>1, StartPhase
<1>3. \A d \in Conns : phase'[d] = IF d = c THEN "start" ELSE phase[d]
  BY <1>2 DEF TypeOK
<1> HIDE DEF c
<1>4. Active' = Active \cup {c}
  BY <1>1, <1>3 DEF Active
<1>5. Done' = Done
  BY <1>2, <1>3 DEF Done
<1>6. Cardinality(Active) < (IF Threaded THEN Cardinality(Workers) ELSE 1)
  BY RoomForOne
<1>7. QED
  <2>1. Waiting # <<>> /\ Waiting' = Tail(Waiting) /\ Active' = Active \cup {Head(Waiting)}
    BY <1>4 DEF c
  <2>2. QED
    <3>1. queue \o backlog # <<>> /\ (queue \o backlog)' = Tail(queue \o backlog)
      BY <2>1 DEF Waiting
    <3>2. Active' = Active \cup {Head(queue \o backlog)}
      BY <2>1 DEF Waiting
    <3>3. (queue' \o backlog') = Tail(queue \o backlog)
      BY <3>1
    <3> USE DEF Active, Done
    <3>4. QED
      BY <1>5, <1>6, <3>1, <3>2, <3>3, PoolCardinality DEF Pool!Begin

LEMMA ConnectRefines ==
  ASSUME PoolTypeOK, PoolInv, NEW c \in Conns, Connect(c)
  PROVE  Pool!Arrive(c)
<1>1. Waiting' = Append(Waiting, c)
  BY AppendToConcat DEF Connect, Waiting, PoolTypeOK
<1>2. c \notin ToSet(arrivals) /\ UNCHANGED phase /\ UNCHANGED refused
  BY DEF Connect, Connected, vars
<1>3. phase[c] = "idle" /\ c \notin refused /\ c \notin ToSet(queue) \cup ToSet(backlog)
  BY <1>2 DEF PoolInv, HistoryInv
<1>4. c \notin Pool!InLine
  BY <1>3, WaitingType
<1>5. c \notin Active /\ c \notin Done /\ Active' = Active /\ Done' = Done
  BY <1>2, <1>3 DEF Active, Done
<1>6. QED
  BY <1>1, <1>4, <1>5 DEF Pool!Arrive, Waiting, Active, Done

LEMMA RefusalRefines ==
  ASSUME PoolTypeOK, AcceptRefused
  PROVE  \E k \in 1 .. Len(Waiting) : Pool!Drop(k)
<1>1. /\ backlog # <<>> /\ backlog' = Tail(backlog) /\ refused' = refused \cup {Head(backlog)}
      /\ UNCHANGED queue /\ UNCHANGED phase
  BY DEF AcceptRefused, vars
<1>2. PICK k \in 1 .. Len(queue \o backlog) :
        /\ (queue \o backlog)[k] = Head(backlog)
        /\ SubSeq(queue \o backlog, 1, k - 1)
             \o SubSeq(queue \o backlog, k + 1, Len(queue \o backlog)) = queue \o Tail(backlog)
  BY <1>1, DropHeadOfSecond DEF PoolTypeOK
<1>3. /\ Waiting' = SubSeq(Waiting, 1, k - 1) \o SubSeq(Waiting, k + 1, Len(Waiting))
      /\ Waiting[k] = Head(backlog) /\ k \in 1 .. Len(Waiting)
  BY <1>1, <1>2 DEF Waiting
<1>4. Done' = Done \cup {Waiting[k]} /\ Active' = Active
  BY <1>1, <1>3 DEF Done, Active
<1>5. Pool!Drop(k)
  BY <1>3, <1>4 DEF Pool!Drop, Waiting, Done, Active
<1>6. QED
  BY <1>3, <1>5

LEMMA RunRefines ==
  ASSUME TypeOK, PoolTypeOK, NEW t \in Threads, RunHandler(t)
  PROVE  UNCHANGED Pool!vars
<1>1. PICK c \in Conns : c = runs[t]
  BY DEF RunHandler, PoolTypeOK
<1>2. Run(c) /\ UNCHANGED queue /\ UNCHANGED backlog /\ UNCHANGED refused
  BY <1>1 DEF RunHandler, poolVars
<1>3. /\ phase[c] \notin {"idle", "closed"} /\ phase'[c] \notin {"idle", "closed"}
      /\ \A d \in Conns : d # c => phase'[d] = phase[d]
  BY <1>2, RunPhase DEF Busy
<1>4. Active' = Active /\ Done' = Done
  BY <1>2, <1>3 DEF Active, Done
<1>5. Waiting' = Waiting
  BY <1>2 DEF Waiting
<1>6. QED
  BY <1>4, <1>5, PoolUntouched

LEMMA RetireRefines ==
  ASSUME TypeOK, PoolTypeOK, NEW t \in Threads, Retire(t)
  PROVE  \E c \in Conns : Pool!End(c)
<1>1. PICK c \in Conns : c = runs[t]
  BY DEF Retire, PoolTypeOK
<1>2. Close(c) /\ UNCHANGED queue /\ UNCHANGED backlog /\ UNCHANGED refused
  BY <1>1 DEF Retire
<1>3. phase[c] = "return" /\ phase' = [phase EXCEPT ![c] = "closed"]
  BY <1>2, ClosePhase
<1>4. \A d \in Conns : phase'[d] = IF d = c THEN "closed" ELSE phase[d]
  BY <1>3 DEF TypeOK
<1>5. c \in Active /\ Active' = Active \ {c}
  BY <1>3, <1>4 DEF Active
<1>6. Done' = Done \cup {c}
  BY <1>2, <1>4 DEF Done
<1>7. Waiting' = Waiting
  BY <1>2 DEF Waiting
<1>8. Pool!End(c)
  BY <1>5, <1>6, <1>7 DEF Pool!End, Active, Done, Waiting
<1>9. QED
  BY <1>8

LEMMA PoolStepRefines ==
  ASSUME TypeOK, PoolTypeOK, PoolInv, QueueInv, [ServerNext]_serverVars
  PROVE  [Pool!Next]_(Pool!vars)
<1>1. ASSUME NEW c \in Conns, Connect(c) PROVE Pool!Next
  BY <1>1, ConnectRefines DEF Pool!Next
<1>2. ASSUME NEW c \in Conns, ClientStep(c) PROVE UNCHANGED Pool!vars
  <2>1. UNCHANGED phase /\ UNCHANGED queue /\ UNCHANGED backlog /\ UNCHANGED refused
    BY <1>2, ClientPhase DEF ClientStep, poolVars
  <2>2. QED
    BY <2>1, PoolUntouched DEF Waiting, Active, Done
<1>3. CASE Accept
  <2>1. backlog # <<>> /\ UNCHANGED phase /\ UNCHANGED refused
        /\ queue' = Append(queue, Head(backlog)) /\ backlog' = Tail(backlog)
    BY <1>3 DEF Accept, vars
  <2>2. Append(queue, Head(backlog)) \o Tail(backlog) = queue \o backlog
    BY <2>1, HeadMoves DEF PoolTypeOK
  <2>3. QED
    BY <2>1, <2>2, PoolUntouched DEF Waiting, Active, Done
<1>4. CASE AcceptRefused
  BY <1>4, RefusalRefines DEF Pool!Next, Waiting
<1>5. CASE AcceptInline
  <2>1. queue = <<>> /\ UNCHANGED queue /\ backlog # <<>> /\ backlog' = Tail(backlog)
        /\ runs[MainThread] = NoConn /\ MainThread \in Threads
        /\ Start(Head(backlog)) /\ UNCHANGED refused
    BY <1>5 DEF AcceptInline, QueueInv, Threads
  <2>2. <<>> \o backlog = backlog /\ <<>> \o Tail(backlog) = Tail(backlog)
    BY <2>1, ConcatEmptySeq, TailType DEF PoolTypeOK
  <2>3. Waiting = backlog /\ Waiting' = Tail(Waiting)
    BY <2>1, <2>2 DEF Waiting
  <2>4. Pool!Begin
    BY <2>1, <2>3, PoolBegins
  <2>5. QED
    BY <2>4 DEF Pool!Next
<1>6. ASSUME NEW t \in Threads, Dequeue(t) PROVE Pool!Next
  <2>1. queue # <<>> /\ queue' = Tail(queue) /\ UNCHANGED backlog
        /\ runs[t] = NoConn /\ Start(Head(queue)) /\ UNCHANGED refused
    BY <1>6 DEF Dequeue
  <2>2. /\ queue \o backlog # <<>> /\ Head(queue \o backlog) = Head(queue)
        /\ Tail(queue \o backlog) = Tail(queue) \o backlog
    BY <2>1, HeadOfConcat DEF PoolTypeOK
  <2>3. Waiting # <<>> /\ Head(Waiting) = Head(queue) /\ Waiting' = Tail(Waiting)
    BY <2>1, <2>2 DEF Waiting
  <2>4. Pool!Begin
    BY <2>1, <2>3, PoolBegins
  <2>5. QED
    BY <2>4 DEF Pool!Next
<1>7. ASSUME NEW t \in Threads, RunHandler(t) PROVE UNCHANGED Pool!vars
  BY <1>7, RunRefines
<1>8. ASSUME NEW t \in Threads, Retire(t) PROVE Pool!Next
  BY <1>8, RetireRefines DEF Pool!Next
<1>9. CASE UNCHANGED serverVars
  BY <1>9, PoolUntouched DEF serverVars, poolVars, vars, Waiting, Active, Done
<1>10. QED
  BY <1>1, <1>2, <1>3, <1>4, <1>5, <1>6, <1>7, <1>8, <1>9 DEF ServerNext

(* The socket server, threaded or serial, is a pool that serves at most as *)
(* many connections at once as it has threads, in the order of the line,   *)
(* each once: for any number of connections and threads.                   *)
THEOREM ServerIsAPool == ServerSpec => ImplementsWorkerPool
<1>1. ServerInit => Pool!Init
  <2> SUFFICES ASSUME ServerInit PROVE Pool!Init
    OBVIOUS
  <2>1. queue = <<>> /\ backlog = <<>> /\ refused = {} /\ \A c \in Conns : phase[c] = "idle"
    BY DEF ServerInit, Init
  <2>2. <<>> \o <<>> = <<>>
    BY ConcatEmptySeq, EmptySeq
  <2>3. QED
    BY <2>1, <2>2 DEF Pool!Init
<1>2. TypeOK /\ PoolTypeOK /\ PoolInv /\ QueueInv /\ [ServerNext]_serverVars
        => [Pool!Next]_(Pool!vars)
  BY PoolStepRefines
<1>3. TypeOK /\ PoolTypeOK /\ PoolInv /\ [ServerNext]_serverVars => PoolInv'
  BY PoolInvStep
<1>4. PoolTypeOK /\ [ServerNext]_serverVars => PoolTypeOK'
  BY PoolTypeStep
<1>5. QueueInv /\ [ServerNext]_serverVars => QueueInv'
  BY QueueInvStep
<1>6. QED
  BY <1>1, <1>2, <1>3, <1>4, <1>5, OrderInit, PoolInvInit, PoolTypeInit, ServerRunsSessions,
     TypeCorrect, PTL DEF ServerSpec, ImplementsWorkerPool, Pool!Spec

-----------------------------------------------------------------------------
(* However many clients connect, a server has never more sessions than     *)
(* threads: one without threading, thread_pool_size otherwise.             *)
SessionsBounded ==
  /\ IsFiniteSet(Active)
  /\ Cardinality(Active) <= (IF Threaded THEN Cardinality(Workers) ELSE 1)

(* A session is run by a thread, and a thread runs one.                    *)
LEMMA OneSessionPerThread ==
  ASSUME PoolTypeOK, PoolInv
  PROVE  SessionsBounded
<1> DEFINE threadOf(c) == CHOOSE u \in Threads : runs[u] = c
           f == [c \in Active |-> threadOf(c)]
<1>1. ASSUME NEW c \in Active PROVE threadOf(c) \in Threads /\ runs[threadOf(c)] = c
  <2>1. \E u \in Threads : runs[u] = c
    BY DEF PoolInv, RunsInv, Active, Busy
  <2>2. QED
    BY <2>1
<1>2. f \in Injection(Active, Threads)
  BY <1>1 DEF Injection, IsInjective
<1>3. IsFiniteSet(Active) /\ Cardinality(Active) <= Cardinality(Threads)
  BY <1>2, ThreadsCounted, FS_Injection
<1>4. QED
  BY <1>3, ThreadsCounted DEF SessionsBounded

(* For any number of connections and every setting the sessions under way  *)
(* are at most as many as the threads: the thread pool bounds what the     *)
(* server does at once, a keep-alive session included.                     *)
THEOREM SessionsAreBounded == ServerSpec => []SessionsBounded
<1>1. TypeOK /\ PoolTypeOK /\ PoolInv /\ [ServerNext]_serverVars => PoolInv'
  BY PoolInvStep
<1>2. PoolTypeOK /\ [ServerNext]_serverVars => PoolTypeOK'
  BY PoolTypeStep
<1>3. PoolTypeOK /\ PoolInv => SessionsBounded
  BY OneSessionPerThread
<1>4. QED
  BY <1>1, <1>2, <1>3, PoolInvInit, PoolTypeInit, ServerRunsSessions, TypeCorrect,
     PTL DEF ServerSpec

-----------------------------------------------------------------------------
(* The sessions as the server runs them keep every promise of a session on *)
(* its own: for every connection of every server, responses are complete   *)
(* and in the order of the requests, TLS is set up before and shut down    *)
(* after them, no connection is answered more often than the limit allows, *)
(* and what an answer announces about the connection is what happens to it.*)
THEOREM ServedSessionsKeepPromises ==
  ServerSpec => /\ [](ResponseStream /\ TlsDiscipline /\ RequestLimit)
                /\ AnnouncementKept
                /\ ImplementsSession
BY ServerRunsSessions, ResponsesInOrder, TlsDisciplined, LimitHonoured,
   AnnouncementIsKept, SessionRefinement, PTL

-----------------------------------------------------------------------------
(* No connection is lost between accept() and the thread that serves it.   *)

Held == ToSet(backlog) \cup ToSet(queue) \cup refused

(* In every state, a connection that came is in one place: a line, the     *)
(* hands of one thread, refused, or closed.                                *)
EveryConnectionAccounted ==
  /\ \A c \in ToSet(arrivals) :
       c \in Held \/ (\E t \in Threads : runs[t] = c) \/ phase[c] = "closed"
  /\ \A c \in Held :
       /\ c \in ToSet(arrivals)
       /\ phase[c] # "closed" /\ \A t \in Threads : runs[t] # c
  /\ ToSet(backlog) \cap ToSet(queue) = {}
  /\ (ToSet(backlog) \cup ToSet(queue)) \cap refused = {}
  /\ \A t \in Threads : runs[t] # NoConn =>
       /\ runs[t] \in ToSet(arrivals) /\ phase[runs[t]] # "closed"
       /\ \A u \in Threads : u # t => runs[u] # runs[t]

HeldInv == \A c \in ToSet(arrivals) : c \in Held \/ phase[c] # "idle"

LEMMA HeldTaken ==
  ASSUME TypeOK, HeldInv, NEW c \in Conns, Start(c), UNCHANGED arrivals,
         Held \ {c} \subseteq Held', ToSet(arrivals) \subseteq Conns
  PROVE  HeldInv'
<1>1. phase' = [phase EXCEPT ![c] = "start"] /\ phase \in [Conns -> Phase]
  BY StartPhase DEF TypeOK
<1>. QED BY <1>1 DEF HeldInv

LEMMA HeldMoved ==
  ASSUME HeldInv, UNCHANGED phase, UNCHANGED arrivals, Held \subseteq Held'
  PROVE  HeldInv'
BY DEF HeldInv

LEMMA HeldStep ==
  ASSUME TypeOK, PoolTypeOK, PoolInv, HeldInv, [ServerNext]_serverVars
  PROVE  HeldInv'
<1>0. ToSet(arrivals) \subseteq Conns
  BY LinesInConns
<1>1. ASSUME NEW c \in Conns, Connect(c) PROVE HeldInv'
  <2>1. /\ ToSet(backlog') = ToSet(backlog) \cup {c}
        /\ ToSet(arrivals') = ToSet(arrivals) \cup {c}
    BY <1>1, AppendToLine DEF Connect, PoolTypeOK
  <2>2. UNCHANGED phase /\ UNCHANGED queue /\ UNCHANGED refused
    BY <1>1 DEF Connect, vars
  <2>. QED BY <2>1, <2>2 DEF HeldInv, Held
<1>2. ASSUME NEW c \in Conns, ClientStep(c) PROVE HeldInv'
  <2>1. UNCHANGED phase /\ UNCHANGED arrivals /\ Held' = Held
    BY <1>2, ClientPhase DEF ClientStep, poolVars, Held
  <2>. QED BY <2>1, HeldMoved
<1>3. CASE Accept \/ AcceptRefused
  <2>1. backlog # <<>> /\ backlog' = Tail(backlog)
    BY <1>3 DEF Accept, AcceptRefused
  <2>2. Head(backlog) \in Conns /\ ToSet(backlog') = ToSet(backlog) \ {Head(backlog)}
    BY <2>1, TailOfLine, TailType DEF PoolTypeOK, PoolInv, LinesInv
  <2>3. UNCHANGED phase /\ UNCHANGED arrivals
    BY <1>3 DEF Accept, AcceptRefused, vars
  <2>4. \/ ToSet(queue') = ToSet(queue) \cup {Head(backlog)} /\ UNCHANGED refused
        \/ refused' = refused \cup {Head(backlog)} /\ UNCHANGED queue
    <3>1. queue \in Seq(Conns)
      BY DEF PoolTypeOK
    <3>2. ToSet(Append(queue, Head(backlog))) = ToSet(queue) \cup {Head(backlog)}
      BY <2>2, <3>1, AppendToLine
    <3>3. \/ queue' = Append(queue, Head(backlog)) /\ UNCHANGED refused
          \/ refused' = refused \cup {Head(backlog)} /\ UNCHANGED queue
      BY <1>3 DEF Accept, AcceptRefused
    <3>. QED BY <3>2, <3>3
  <2>5. Held \subseteq Held'
    BY <2>2, <2>4 DEF Held
  <2>. QED BY <2>3, <2>5, HeldMoved
<1>4. CASE AcceptInline
  <2>1. backlog # <<>> /\ backlog' = Tail(backlog) /\ Start(Head(backlog))
        /\ UNCHANGED queue /\ UNCHANGED refused /\ UNCHANGED arrivals
    BY <1>4 DEF AcceptInline
  <2>2. Head(backlog) \in Conns /\ ToSet(backlog') = ToSet(backlog) \ {Head(backlog)}
    BY <2>1, TailOfLine, TailType DEF PoolTypeOK, PoolInv, LinesInv
  <2>3. Held \ {Head(backlog)} \subseteq Held'
    BY <2>1, <2>2 DEF Held
  <2>. QED BY <1>0, <2>1, <2>2, <2>3, HeldTaken
<1>5. ASSUME NEW t \in Threads, Dequeue(t) PROVE HeldInv'
  <2>1. queue # <<>> /\ queue' = Tail(queue) /\ Start(Head(queue))
        /\ UNCHANGED backlog /\ UNCHANGED refused /\ UNCHANGED arrivals
    BY <1>5 DEF Dequeue
  <2>2. Head(queue) \in Conns /\ ToSet(queue') = ToSet(queue) \ {Head(queue)}
    BY <2>1, TailOfLine, TailType DEF PoolTypeOK, PoolInv, LinesInv
  <2>3. Held \ {Head(queue)} \subseteq Held'
    BY <2>1, <2>2 DEF Held
  <2>. QED BY <1>0, <2>1, <2>2, <2>3, HeldTaken
<1>6. ASSUME NEW t \in Threads, RunHandler(t) PROVE HeldInv'
  <2>1. runs[t] \in Conns /\ Run(runs[t]) /\ Held' = Held /\ UNCHANGED arrivals
    BY <1>6 DEF RunHandler, PoolTypeOK, poolVars, Held
  <2>2. /\ Busy(runs[t])' /\ \A d \in Conns : d # runs[t] => phase'[d] = phase[d]
        /\ UNCHANGED runs
    BY <1>6, <2>1, RunPhase DEF RunHandler, poolVars
  <2>. QED BY <1>0, <2>1, <2>2 DEF HeldInv, Busy
<1>7. ASSUME NEW t \in Threads, Retire(t) PROVE HeldInv'
  <2>1. runs[t] \in Conns /\ Close(runs[t]) /\ Held' = Held /\ UNCHANGED arrivals
    BY <1>7 DEF Retire, PoolTypeOK, Held
  <2>2. phase' = [phase EXCEPT ![runs[t]] = "closed"] /\ phase \in [Conns -> Phase]
    BY <2>1, ClosePhase DEF TypeOK
  <2>. QED BY <1>0, <2>1, <2>2 DEF HeldInv
<1>8. CASE UNCHANGED serverVars
  <2>1. UNCHANGED phase /\ UNCHANGED arrivals /\ Held' = Held
    BY <1>8 DEF serverVars, vars, poolVars, Held
  <2>. QED BY <2>1, HeldMoved
<1>. QED
  BY <1>1, <1>2, <1>3, <1>4, <1>5, <1>6, <1>7, <1>8 DEF ServerNext

LEMMA AllAccounted ==
  ASSUME TypeOK, PoolTypeOK, PoolInv, HeldInv
  PROVE  EveryConnectionAccounted
<1>1. ToSet(arrivals) \subseteq Conns /\ Held \subseteq Conns
  BY LinesInConns DEF Held, PoolTypeOK
<1>2. \A c \in Held : c \in ToSet(arrivals) /\ phase[c] = "idle"
  BY DEF PoolInv, LinesInv, HistoryInv, Held
<1>3. \A c \in Conns : (\E t \in Threads : runs[t] = c) <=> Busy(c)
  BY DEF PoolInv, RunsInv
<1>4. ASSUME NEW t \in Threads, runs[t] # NoConn
      PROVE  /\ runs[t] \in ToSet(arrivals) /\ phase[runs[t]] # "closed"
             /\ \A u \in Threads : u # t => runs[u] # runs[t]
  <2>1. runs[t] \in Conns
    BY <1>4 DEF PoolTypeOK
  <2>2. Busy(runs[t])
    BY <1>3, <2>1
  <2>3. \A u \in Threads : u # t => runs[u] # runs[t]
    BY <1>4 DEF PoolInv, RunsInv
  <2>. QED BY <2>1, <2>2, <2>3 DEF Busy, PoolInv, HistoryInv
<1>5. \A c \in ToSet(arrivals) :
        c \in Held \/ (\E t \in Threads : runs[t] = c) \/ phase[c] = "closed"
  BY <1>1, <1>3 DEF HeldInv, Busy
<1>6. \A c \in Held : phase[c] # "closed" /\ \A t \in Threads : runs[t] # c
  BY <1>1, <1>2, <1>3 DEF Busy
<1>. QED
  BY <1>2, <1>4, <1>5, <1>6 DEF EveryConnectionAccounted, PoolInv, LinesInv

(* For any number of connections and threads no connection is dropped on   *)
(* its way from accept() through the queue to a thread, but by a pool that *)
(* refuses it (HttpServer.cpp:597-648).                                    *)
THEOREM NoConnectionIsLost == ServerSpec => []EveryConnectionAccounted
<1>1. TypeOK /\ PoolTypeOK /\ PoolInv /\ [ServerNext]_serverVars => PoolInv'
  BY PoolInvStep
<1>2. PoolTypeOK /\ [ServerNext]_serverVars => PoolTypeOK'
  BY PoolTypeStep
<1>3. TypeOK /\ PoolTypeOK /\ PoolInv /\ HeldInv /\ [ServerNext]_serverVars => HeldInv'
  BY HeldStep
<1>4. TypeOK /\ PoolTypeOK /\ PoolInv /\ HeldInv => EveryConnectionAccounted
  BY AllAccounted
<1>5. ServerInit => HeldInv
  BY DEF ServerInit, HeldInv, ToSet
<1>. QED BY <1>1, <1>2, <1>3, <1>4, <1>5, PoolInvInit, PoolTypeInit, ServerRunsSessions,
             TypeCorrect, PTL DEF ServerSpec

=============================================================================
