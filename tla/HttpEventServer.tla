--------------------------- MODULE HttpEventServer ---------------------------
(***************************************************************************)
(* The HttpServer running with sockets = kernel_events (src/HttpServer.cpp,*)
(* serviceSocket): an event loop hands a readable socket to the thread     *)
(* pool, whose handler runs a session of HttpRequestHandler.tla on it. The *)
(* handler is made from a SocketRequest and does not own the socket: when  *)
(* its session ends the socket goes back to the event loop, and a later    *)
(* event starts another session on it.                                     *)
(*                                                                         *)
(* External: the chaudiere event loop, of which is assumed that it does not*)
(* report a socket that a handler has ("busy-fd tracking", README.md:      *)
(* 214-222), and the first-in-first-out thread pool. What the loop does on *)
(* its own when a peer hangs up, and a null pool, which run() excludes     *)
(* (serviceSocket would then run the handler on the event loop's thread),  *)
(* are left out.                                                           *)
(***************************************************************************)
EXTENDS HttpRequestHandler, SequencesExt, FiniteSets

CONSTANTS
  Workers,        \* threads of the pool
  NoConn,         \* a thread that runs no handler
  PoolMayRefuse   \* can addRequest answer false?

ASSUME WorkersAssumption == Workers # {} /\ NoConn \notin Conns
ASSUME RefusalAssumption == PoolMayRefuse \in BOOLEAN

VARIABLES
  watched,    \* SUBSET Conns the event loop waits on
  queue,      \* Seq(Conns) handlers waiting in the pool
  runs,       \* [Workers -> Conns \cup {NoConn}] the handler a thread runs
  refused     \* SUBSET Conns whose handler addRequest did not take

loopStateVars == <<watched, queue, runs, refused>>
eventVars == <<vars, loopStateVars>>

EventInit ==
  /\ Init
  /\ watched = {}
  /\ queue = <<>>
  /\ runs = [t \in Workers |-> NoConn]
  /\ refused = {}

Taken(c) == c \in ToSet(queue) \/ \E t \in Workers : runs[t] = c

Connected(c) == c \in watched \cup refused \/ Taken(c)

-----------------------------------------------------------------------------
(* External: clients, and the event loop's accept.                         *)

Connect(c) ==
  /\ phase[c] = "idle" /\ ~Connected(c)
  /\ watched' = watched \cup {c}
  /\ UNCHANGED <<vars, queue, runs, refused>>

ClientStep(c) ==
  /\ Connected(c)
  /\ Client(c)
  /\ UNCHANGED loopStateVars

-----------------------------------------------------------------------------
(* The event loop's thread.                                                *)

(* Bytes to read, be they a request or not, or an end of file.             *)
Readable(c) == ~Drained(c) \/ peerClosed[c] \/ tls[c] = "hello"

(* serviceSocket: a new handler for the socket is given to the pool. The   *)
(* result of addRequest is not looked at: a handler that is refused is     *)
(* never run, and its socket never handed back.                            *)
ServiceSocket(c) ==
  /\ c \in watched /\ Readable(c)
  /\ watched' = watched \ {c}
  /\ \/ queue' = Append(queue, c) /\ UNCHANGED refused
     \/ PoolMayRefuse /\ refused' = refused \cup {c} /\ UNCHANGED queue
  /\ UNCHANGED <<vars, runs>>

-----------------------------------------------------------------------------
(* The threads.                                                            *)

FaultyDequeueKeepsHead(w) ==
  /\ runs[w] = NoConn /\ queue # <<>>
  /\ runs' = [runs EXCEPT ![w] = Head(queue)]
  /\ UNCHANGED queue
  /\ Goto(Head(queue), "start")
  /\ UNCHANGED <<clientVars, tls, loopVars, answerVars, closeNotifies, logged>>
  /\ UNCHANGED <<watched, refused>>

Dequeue(w) ==
  /\ runs[w] = NoConn /\ queue # <<>>
  /\ runs' = [runs EXCEPT ![w] = Head(queue)]
  /\ queue' = Tail(queue)
  /\ Start(Head(queue))
  /\ UNCHANGED <<watched, refused>>

RunHandler(w) ==
  /\ runs[w] # NoConn
  /\ Run(runs[w])
  /\ UNCHANGED loopStateVars

(* What the handler read behind the last request it took goes with it      *)
(* (unconsumedBytes is a local of run()): none, some or all of what has    *)
(* arrived.                                                                *)
LeftUnread(c) == {SubSeq(inbox[c], k, Len(inbox[c])) : k \in 1 .. Len(inbox[c]) + 1}


Release(c) ==
  /\ phase[c] = "return" /\ closeNotifies[c] = 0
  /\ Goto(c, "idle")
  /\ requestCount' = [requestCount EXCEPT ![c] = 0]
  /\ connectionOpen' = [connectionOpen EXCEPT ![c] = TRUE]
  /\ request' = [request EXCEPT ![c] = NoRequest]
  /\ reply' = [reply EXCEPT ![c] = NoReply]
  /\ written' = [written EXCEPT ![c] = <<>>]
  /\ logged' = [logged EXCEPT ![c] = FALSE]
  /\ \E unread \in LeftUnread(c) : inbox' = [inbox EXCEPT ![c] = unread]
  /\ \E part \in {FALSE, arriving[c]} : arriving' = [arriving EXCEPT ![c] = part]
  /\ \E seen \in {"none", tls[c]} : tls' = [tls EXCEPT ![c] = seen]
  /\ UNCHANGED <<peerClosed, receiveTimeout, closeNotifies>>

FaultyHandBackKeepsThread(w) ==
  /\ runs[w] # NoConn
  /\ Release(runs[w])
  /\ watched' = watched \cup {runs[w]}
  /\ UNCHANGED <<queue, runs, refused>>

HandBack(w) ==
  /\ runs[w] # NoConn
  /\ Release(runs[w])
  /\ watched' = watched \cup {runs[w]}
  /\ runs' = [runs EXCEPT ![w] = NoConn]
  /\ UNCHANGED <<queue, refused>>

(* TlsConnection::close, after the close_notify, has closed the socket.    *)
RetireTls(w) ==
  /\ runs[w] # NoConn
  /\ closeNotifies[runs[w]] > 0
  /\ Close(runs[w])
  /\ runs' = [runs EXCEPT ![w] = NoConn]
  /\ UNCHANGED <<watched, queue, refused>>

EventNext ==
  \/ \E c \in Conns : Connect(c) \/ ClientStep(c) \/ ServiceSocket(c)
  \/ \E w \in Workers : Dequeue(w) \/ RunHandler(w) \/ HandBack(w) \/ RetireTls(w)

EventSpec == EventInit /\ [][EventNext]_eventVars

(* The event loop reports what is readable, the threads are scheduled and  *)
(* handlers return; clients read what they are sent, and no more is assumed*)
(* of them.                                                                *)
WorkerProceeds(w) ==
  \/ Dequeue(w) \/ HandBack(w) \/ RetireTls(w)
  \/ /\ runs[w] # NoConn
     /\ Proceed(runs[w]) \/ HandshakeDoomed(runs[w])
     /\ UNCHANGED loopStateVars

EventFairness ==
  /\ \A c \in Conns : WF_eventVars(ServiceSocket(c))
  /\ \A w \in Workers : WF_eventVars(WorkerProceeds(w))

(* Clients whose requests arrive whole.                                    *)
WholeRequestsSpec ==
  /\ EventInit
  /\ [][EventNext /\ \A c \in Conns : ~Trickle(c)]_eventVars
  /\ EventFairness

-----------------------------------------------------------------------------
(* Properties.                                                             *)

(* Every variable of the event server has its type.                        *)
EventTypeOK ==
  /\ TypeOK
  /\ watched \in SUBSET Conns
  /\ queue \in Seq(Conns)
  /\ runs \in [Workers -> Conns \cup {NoConn}]
  /\ refused \in SUBSET Conns

(* Through any number of sessions on one socket, the socket is in one place*)
(* at a time: with the event loop, in the queue once, with the one thread  *)
(* that runs a session on it, refused or closed. A session that ends, in   *)
(* whichever way, loses no socket and leaves it in no two hands.           *)
EverySocketAccounted ==
  /\ \A c \in Conns :
       /\ (\E w \in Workers : runs[w] = c) <=> phase[c] \notin {"idle", "closed"}
       /\ phase[c] = "closed" => ~Connected(c)
       /\ c \in watched => ~Taken(c) /\ c \notin refused
       /\ c \in refused => ~Taken(c)
       /\ c \in ToSet(queue) => phase[c] = "idle"
  /\ \A v, w \in Workers : v # w /\ runs[v] = runs[w] => runs[v] = NoConn
  /\ IsInjective(queue)

(* README.md:207-213: a connection is handed to a worker "once it actually *)
(* has data to read", an idle one costs no thread. A whole request on a    *)
(* watched socket gets a session (or is refused), however many other       *)
(* clients have connected and are silent for ever, during their sessions   *)
(* or between them.                                                        *)
RequestsNotBlockedByIdleSockets ==
  \A c \in Conns :
    (c \in watched /\ inbox[c] # <<>>) ~> (c \in refused \/ phase[c] # "idle")

=============================================================================
