----------------------------- MODULE HttpServer -----------------------------
(***************************************************************************)
(* The HttpServer running with sockets = socket_server (src/HttpServer.cpp):*)
(* the accept loop of runSocketServer, the thread pool, and the            *)
(* HttpRequestHandler each connection is given. The sessions are those of  *)
(* HttpRequestHandler.tla, whose variables and actions this module extends;*)
(* it adds who runs them, and when. HttpEventServer.tla has the server with*)
(* sockets = kernel_events.                                                *)
(*                                                                         *)
(* External: the listen queue of the kernel and the chaudiere thread pool  *)
(* (a first-in-first-out queue of handlers and threads that take the head).*)
(* The accept loop never ends: nothing sets m_isDone. A null accept()      *)
(* changes nothing and is left out.                                        *)
(***************************************************************************)
EXTENDS HttpRequestHandler, SequencesExt, FiniteSets

CONSTANTS
  Workers,        \* threads of the pool; {} when threading = none
  MainThread,     \* the thread of run()
  NoConn,         \* a thread that runs no handler
  PoolMayRefuse   \* can addRequest answer false?

Threaded == Workers # {}     \* m_isThreaded && m_threadPool != nullptr
Threads  == IF Threaded THEN Workers ELSE {MainThread}

ASSUME ThreadsAssumption ==
  IsFiniteSet(Workers) /\ MainThread \notin Workers /\ NoConn \notin Conns
ASSUME RefusalAssumption == PoolMayRefuse \in BOOLEAN

VARIABLES
  backlog,    \* Seq(Conns) connected, not yet taken by the server
  queue,      \* Seq(Conns) handlers waiting in the pool
  runs,       \* [Threads -> Conns \cup {NoConn}] the handler a thread runs
  refused,    \* SUBSET Conns whose handler addRequest did not take
  arrivals,   \* Seq(Conns) history: in the order of connecting
  served      \* Seq(Conns) history: in the order threads took them up

poolVars == <<backlog, queue, runs, refused, arrivals, served>>
serverVars == <<vars, poolVars>>

ServerInit ==
  /\ Init
  /\ backlog = <<>>
  /\ queue = <<>>
  /\ runs = [t \in Threads |-> NoConn]
  /\ refused = {}
  /\ arrivals = <<>>
  /\ served = <<>>

Connected(c) == c \in ToSet(arrivals)

-----------------------------------------------------------------------------
(* Clients: external.                                                      *)

Connect(c) ==
  /\ ~Connected(c)
  /\ backlog' = Append(backlog, c)
  /\ arrivals' = Append(arrivals, c)
  /\ UNCHANGED <<vars, queue, runs, refused, served>>

ClientStep(c) ==
  /\ Connected(c)
  /\ Client(c)
  /\ UNCHANGED poolVars

-----------------------------------------------------------------------------
(* The dispatching thread.                                                 *)

(* runSocketServer, threaded: accept, new HttpRequestHandler, addRequest.  *)
FaultyAcceptJumpsQueue ==
  /\ Threaded /\ backlog # <<>>
  /\ backlog' = Tail(backlog)
  /\ queue' = <<Head(backlog)>> \o queue
  /\ UNCHANGED <<vars, runs, refused, arrivals, served>>

Accept ==
  /\ Threaded /\ backlog # <<>>
  /\ backlog' = Tail(backlog)
  /\ queue' = Append(queue, Head(backlog))
  /\ UNCHANGED <<vars, runs, refused, arrivals, served>>

(* addRequest answers false: a message is printed, the handler and its     *)
(* socket are never looked at again.                                       *)
AcceptRefused ==
  /\ PoolMayRefuse
  /\ Threaded /\ backlog # <<>>
  /\ backlog' = Tail(backlog)
  /\ refused' = refused \cup {Head(backlog)}
  /\ UNCHANGED <<vars, queue, runs, arrivals, served>>

(* runSocketServer, serial: the handler runs on the accepting thread, which*)
(* accepts again only when it has returned.                                *)
FaultyAcceptInlineForgets ==
  /\ ~Threaded /\ backlog # <<>>
  /\ backlog' = Tail(backlog)
  /\ runs' = [runs EXCEPT ![MainThread] = Head(backlog)]
  /\ served' = Append(served, Head(backlog))
  /\ Start(Head(backlog))
  /\ UNCHANGED <<queue, refused, arrivals>>

AcceptInline ==
  /\ ~Threaded /\ runs[MainThread] = NoConn /\ backlog # <<>>
  /\ backlog' = Tail(backlog)
  /\ runs' = [runs EXCEPT ![MainThread] = Head(backlog)]
  /\ served' = Append(served, Head(backlog))
  /\ Start(Head(backlog))
  /\ UNCHANGED <<queue, refused, arrivals>>

-----------------------------------------------------------------------------
(* The threads.                                                            *)

(* A worker takes the handler at the head of the pool's queue and runs it. *)
FaultyDequeueKeepsHead(w) ==
  /\ Threaded /\ runs[w] = NoConn /\ queue # <<>>
  /\ runs' = [runs EXCEPT ![w] = Head(queue)]
  /\ UNCHANGED queue
  /\ served' = Append(served, Head(queue))
  /\ Goto(Head(queue), "start")
  /\ UNCHANGED <<clientVars, tls, loopVars, answerVars, closeNotifies, logged>>
  /\ UNCHANGED <<backlog, refused, arrivals>>

Dequeue(w) ==
  /\ Threaded /\ runs[w] = NoConn /\ queue # <<>>
  /\ runs' = [runs EXCEPT ![w] = Head(queue)]
  /\ queue' = Tail(queue)
  /\ served' = Append(served, Head(queue))
  /\ Start(Head(queue))
  /\ UNCHANGED <<backlog, refused, arrivals>>

RunHandler(t) ==
  /\ runs[t] # NoConn
  /\ Run(runs[t])
  /\ UNCHANGED poolVars

(* run() has returned: the pool deletes the handler (setAutoDelete), or the*)
(* stack-allocated one goes out of scope; either closes the socket.        *)
FaultyRetireKeepsThread(t) ==
  /\ runs[t] # NoConn
  /\ Close(runs[t])
  /\ UNCHANGED poolVars

Retire(t) ==
  /\ runs[t] # NoConn
  /\ Close(runs[t])
  /\ runs' = [runs EXCEPT ![t] = NoConn]
  /\ UNCHANGED <<backlog, queue, refused, arrivals, served>>

ServerNext ==
  \/ \E c \in Conns : Connect(c) \/ ClientStep(c)
  \/ Accept \/ AcceptRefused \/ AcceptInline
  \/ \E t \in Threads : Dequeue(t) \/ RunHandler(t) \/ Retire(t)

ServerSpec == ServerInit /\ [][ServerNext]_serverVars

(* The accept loop and the threads are scheduled, and handlers return.     *)
ThreadProceeds(t) ==
  \/ Dequeue(t) \/ Retire(t)
  \/ /\ runs[t] # NoConn
     /\ \/ ~Writing(runs[t]) /\ Proceed(runs[t])
        \/ HandshakeDoomed(runs[t])
     /\ UNCHANGED poolVars

(* Clients read their responses: a write returns.                          *)
WriteReturns(t) ==
  /\ runs[t] # NoConn
  /\ Writing(runs[t]) /\ Proceed(runs[t])
  /\ UNCHANGED poolVars

ServerFairness ==
  /\ WF_serverVars(Accept \/ AcceptInline)
  /\ \A t \in Threads : WF_serverVars(ThreadProceeds(t)) /\ WF_serverVars(WriteReturns(t))

FairServerSpec == ServerSpec /\ ServerFairness

(* Every connected client eventually completes a request or hangs up.      *)
AdvanceStep(c) == Connected(c) /\ Advance(c) /\ UNCHANGED poolVars

LiveServerSpec ==
  FairServerSpec /\ \A c \in Conns : WF_serverVars(AdvanceStep(c))

-----------------------------------------------------------------------------
(* Properties.                                                             *)

(* Every variable of the server has its type.                              *)
ServerTypeOK ==
  /\ TypeOK
  /\ backlog \in Seq(Conns)
  /\ queue \in Seq(Conns)
  /\ runs \in [Threads -> Conns \cup {NoConn}]
  /\ refused \in SUBSET Conns
  /\ arrivals \in Seq(Conns)
  /\ served \in Seq(Conns)

(* A handler is run by one thread at a time and run only once: a connection*)
(* is waiting, refused, run by exactly one thread or closed, and its       *)
(* session has begun and not ended exactly while a thread runs it.         *)
OneThreadPerSession ==
  /\ \A t, u \in Threads : runs[t] = runs[u] /\ t # u => runs[t] = NoConn
  /\ \A c \in Conns :
       (\E t \in Threads : runs[t] = c) <=> phase[c] \notin {"idle", "closed"}
  /\ \A c \in ToSet(backlog) \cup ToSet(queue) \cup refused : phase[c] = "idle"
  /\ ToSet(backlog) \cap ToSet(queue) = {}
  /\ IsInjective(backlog) /\ IsInjective(queue) /\ IsInjective(served)

(* Connections are taken up in the order in which they arrived: one that   *)
(* occupies a thread delays the others but none of them overtakes, and     *)
(* none but the refused is lost.                                           *)
Line == served \o queue \o backlog

Before(c, d) ==
  \E i, j \in 1 .. Len(arrivals) : i < j /\ arrivals[i] = c /\ arrivals[j] = d

ArrivalOrder ==
  /\ ToSet(Line) = ToSet(arrivals) \ refused
  /\ \A i, j \in 1 .. Len(Line) : i < j => Before(Line[i], Line[j])

(* Every connection the pool does not refuse is taken up and closed        *)
(* eventually, for clients that read and do not stay silent for ever.      *)
EveryConnectionServed ==
  \A c \in Conns : Connected(c) ~> (phase[c] = "closed" \/ c \in refused)

(* README.md:232-234: "Without keep-alive, a worker thread is freed back   *)
(* to the pool almost immediately after each request, so thread_pool_size  *)
(* mostly just bounds *request* concurrency". A client that has sent its   *)
(* request and waits is then served whatever connections without a request *)
(* the server has: but the first read of a connection has no time-out, and *)
(* a worker that waits for it is not freed.                                *)
RequestsNotBlockedByIdleConnections ==
  (\A c \in Conns : StopsTrickling(c)) =>
    \A c \in Conns : (inbox[c] # <<>>) ~> (phase[c] = "closed")

(* The promise of the pool: WorkerPool.tla.                                *)
Pool == INSTANCE WorkerPool WITH
  Items <- Conns,
  Size <- IF Threaded THEN Cardinality(Workers) ELSE 1,
  waiting <- queue \o backlog,
  active <- {c \in Conns : phase[c] \notin {"idle", "closed"}},
  done <- {c \in Conns : phase[c] = "closed"} \cup refused

(* At most thread_pool_size connections (one without threading) are being  *)
(* served at any moment, each from its arrival order and only once.        *)
ImplementsWorkerPool == Pool!Spec

=============================================================================
