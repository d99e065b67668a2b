# A verification development for misere

misere is an HTTP/1.1 server (with an HTTP client in the same library) in C++.
This directory holds TLA+ modules that model it, TLC configurations that check
them on small instances, and proofs, checked by TLAPS, that hold for every
value of the constants. Source files are named as in the repository
(`src/HttpServer.cpp`); `PROJECT.json` names, for every definition, the lines it
stands for.

## Inventory

| component | state | operations | interacts with |
|---|---|---|---|
| request handling loop (`HttpRequestHandler`) | locals of `run()`: `requestCount`, `connectionOpen`, the request, the response code and headers, `unconsumedBytes`; the socket's receive time-out | `run()` for one accepted connection | framing (reads a request), registry (`getPathHandler`), handlers (`serviceRequest`), TLS connection, thread pool (which runs it) |
| request framing (`HttpTransaction`, `HttpRequest`) | buffer, headers, body, `m_unconsumedBytes` | `streamFromConnection`, `takeUnconsumedBytes`, `write` | a `ByteConnection`; the handling loop; the client |
| dispatch (`HttpServer::run*`, `HttpSocketServiceHandler`) | `m_isThreaded`, `m_threadPool`, `m_serverSocket`, `m_isDone` | accept loop, `serviceSocket` | listen queue, thread pool, epoll/kqueue (all external) |
| start-up and shut-down (`HttpServer::init`, `setup*`, the destructor, `main`) | every `m_` setting, the listening socket, the pool | `init`, `setupTls`, `setupHandlers`, `setupConcurrency`, ... | configuration file, handler libraries |
| handler registry | `m_mapPathHandlers`, `m_mapPathLibraries` | `addPathHandler`, `removePathHandler`, `getPathHandler` | start-up, handling loop |
| HTTP client (`HttpClient`) | none between calls | `get`, `head`, `put`, `post`, `do_delete` | `HttpRequest::write`, `HttpResponse` |
| responses read by the client (`HttpResponse`) | status, reason, body | `streamFromConnection` | a `ByteConnection`, which it owns; the client |
| TLS connection (`TlsConnection`, `SocketTransport`) | armure connection, closed or not, the bytes of a write not yet taken | handshake, `read`, `write`, `close` | socket, armure (external) |
| plain connection (`SocketConnection`) | a socket | forwards `read`, `write`, `close` | socket |
| handlers (echo, statistics, date, ...) | none | `serviceRequest` | handling loop |
| `Url`, `HTTP` | none | parse a URL; constants, status lines | client, handling loop |

The directories of chaudiere (sockets, thread pool, event servers, strings),
poivre and armure (TLS) are empty in the repository: they are external and
modelled from how the code uses them.

What makes the behaviour hard: many requests share one connection and the
decisions about one of them (keep the connection, how long to wait, which bytes
are left over) act on the next; a read may end anywhere; a client may say
nothing, hang up or send too much at any moment, also during the TLS handshake;
a handler may throw; threads, connections and two different dispatchers
interleave; a thread serving a connection is not available to another.

What correctness means, per component:

* handling loop: a client reads well-formed, complete responses, one per
  request and in their order; what a response announces about the connection
  happens; the limit on requests holds; TLS is set up before and shut down after
  everything else; the loop ends.
* framing: the requests delivered are those the stream consists of, whatever the
  reads return; no byte is lost between two requests.
* dispatch: one thread per connection, first come first served, not more
  sessions than threads, everybody has a turn; with kernel events a socket goes
  from the event loop to a thread and back, is never lost and never in two
  hands, and a silent client costs no thread for long.
* start-up, registry, shut-down: a configuration gives a server that runs or an
  error; a handler in use is not deleted; libraries outlive their handlers.
* client: what it sends is what the server reads, what it reads is what the
  server sent, a connection that fails is reported.
* TLS connection: partial and retried reads and writes neither repeat nor skip
  bytes; a call fails only for a cause and ends unless the peer withholds what
  it waits for; closing always closes.

`PROJECT.json` lists the hazards of the code at their lines, each with the
properties that would catch it or the reason why none does yet.

## Modules

| module | models |
|---|---|
| `HttpRequestHandler` | `run()` of a set of independent connections: an action per step of the code that another party can observe or interleave with |
| `HttpSession` | abstract: what a client is promised of a connection |
| `HttpServer` | the socket server: extends `HttpRequestHandler` with who runs the sessions: listen queue, accept loop, pool queue, threads |
| `HttpEventServer` | the kernel-event server: extends `HttpRequestHandler` with an event loop that hands out readable sockets, one session after the other on each |
| `WorkerPool` | abstract: first come first served by a bounded number of servers |
| `HttpBytes` | the units of a byte stream, terminator, content length |
| `HttpTransaction` | `streamFromConnection`, request after request on one connection |
| `RequestStream` | abstract: a stream cut into requests |
| `HttpServerSetup` | the life of a server: constructors with `init`, registry and libraries, `run()`, destructor |
| `HandlerRegistry` | abstract: handlers and libraries without a lock; who may change them, and when |
| `HttpClient` | the bytes `HttpClient` and `HttpRequest::write` put on the wire |
| `HttpExchange` | extends `HttpClient`: a thread's calls, the connection of each, `HttpResponse` reading the answer, and a server |
| `RemoteCall` | abstract: what a call of a client promises its caller |
| `ConnectionEnds` | what can be seen of a connection from outside: the calls of its two ends, their answers, the bytes |
| `ByteConnection` | abstract: what `ByteConnection.h` promises of `read`, `write` and `close` |
| `TlsConnection` | two ends of a TLS connection: the loops around armure, the transport and the sockets below |
| `MC...` | values of the constants for TLC |
| `...Proofs` | theorems |

Operators named `Faulty...` are what a plausible mistake would make of the
definition after them. No specification uses them; `PROJECT.json` pairs each
with a property that the mistake breaks.

### HttpRequestHandler

State per connection: where `run()` stands (`phase`), `requestCount`,
`connectionOpen`, whether the receive time-out is set, the request and the reply
under way, and everything `written` to the connection. The code's order is kept:

    start -> (handshake) -> read -> route -> (service) -> head -> (body)
               read <- EndIteration <-'         `-> exit -> return -> closed

* `EnterIteration` is the head of the loop with its three assignments;
  `EndIteration` is the `while` condition, and part of the last action of an
  iteration. A request line without three words skips the body of the loop.
* `ParseThrows` is the exception of the `HttpRequest` constructor with the catch
  blocks: because the peer closed, because the time-out expired (only when it is
  set), or because the network failed, at any moment.
* `Route` is everything from `getPathHandler` to the choice of 505, 404, 503 or
  the handler; `Service` and `ServiceThrows` are what `serviceRequest` does.
* `CloseGuard` is the destructor of `TlsCloseGuard`; the two exits before it is
  constructed go to `return` directly.

A request enters `inbox` when its last byte arrives: its data is what the loop
looks at (three words or not, protocol, Connection header, path). `arriving`
says that part of a request waits for a `recv`: the receive time-out is that of
one `recv` of the reading loops, not of a request, so that `Receive`, which
takes such a part, starts it anew, and `TimedOut` needs that nothing is left to
receive (`Drained`). Clients are unrestricted: they pipeline, trickle, close, and
speak plain HTTP to the TLS port. The handler here is the one made from a
`Socket`, which it owns, so that its destruction closes the connection.

Assumed: `HttpHandler::isAvailable`, `getPeerIPAddress` and
`populateWithHeaders` do not throw (an exception there would reach the outer
catch blocks, a response already announced or not); a receive returns when its
time-out expires. A write has no time-out: that it returns is assumed only where
a property says that the client reads. A write whose result is an error is
ignored by the code and therefore not distinguished.

### HttpServer

The server with `sockets = socket_server`. `backlog` (listen queue) and `queue`
(pool) hold connections in order, `runs` says which connection a thread runs;
`arrivals` and `served` are history. `Accept`, `AcceptRefused`, `AcceptInline`
are the branches of `runSocketServer`, `Dequeue` and `Retire` the pool. Every
step of a session is a step of `HttpRequestHandler` taken by the thread that
runs it.

Assumed of chaudiere: the pool is first in first out and each thread runs a
handler to its end. A null `accept()` changes nothing and is left out. Nothing
ends the accept loop (`m_isDone` is never set).

### HttpEventServer

The server with `sockets = kernel_events`. `watched` are the sockets the event
loop waits on, `queue` and `runs` are as above. `ServiceSocket` is the callback
of that name: a readable socket goes to the pool with a new handler, or is
refused, which the code does not look at. That handler is made from a
`SocketRequest` and does not own its socket (`setSocketOwned(false)`), so that
its end does not close it: `HandBack` gives the socket back to the event loop,
and a later event starts another session on it. `Release` is what becomes of
the session's state: the locals of `run()` begin anew, `SO_RCVTIMEO` stays on the
socket, and what the handler has read beyond its last request goes with it (any
part of it: `LeftUnread`). Over TLS `TlsConnection::close` does close the socket
(`RetireTls`); one whose handshake failed is handed back.

Assumed of chaudiere: the event loop does not report a socket that a handler
has, and waits on it again when the handler is done (README.md:214-222); the
pool is that of `HttpServer`. What the event loop does by itself when a peer
hangs up, and what it makes of a descriptor closed under it, is left out. So is
a server without a pool: `run()` excludes it.

### HttpTransaction

A unit stands for a run of bytes: CR LF, a line of a number of words, a
Content-Length line, any other text. Bodies consist of the same units, so that a
body may look like a terminator or like a request. A read returns between one
and `ChunkSize` units. A terminator is two units and may be cut between them; a
cut inside a CR LF behaves alike (the search fails once more). The code's
`foundHeaderEnd`, `headers`, `buffered`, `contentLength`, body and unconsumed
bytes are variables of these names. Not modelled: a Content-Length that is not
a number (`StrUtils::parseInt`, external) and header lines other than that one.

### HttpServerSetup

`pc` is where the owning thread stands. During `init` it is the name of the
setting that is read next, so that the order of the `setup...` functions is that
of the code, and the six numeric settings, which are read alike by
`getIntValue`, share one action:

    init -> port -> threading -> thread_pool_size -> sockets -> buffer sizes
         -> keep_alive -> ... -> tls -> builtins -> handlers -> socket
         -> concurrency -> constructed -> serving -> returned
         -> closing -> stopping -> erasing -> unloading -> gone

Every `return false` of `init` and every catch block leads to `constructed`: the
constructors ignore the answer of `init`, and `run()` refuses by
`m_isFullyInitialized`. `LoadModule`, `SkipModule` and `ModuleThrows` are the
ways through one round of the loop of `setupHandlers`. A handler is known by its
path and by who registered it. A thread is in the session of a connection or not
(`BeginSession`, `EndSession`), and in it holds the handler `getPathHandler` gave
it (`StartRequest`) until `serviceRequest` returns (`FinishRequest`). A session
that has begun goes on to take requests, and handlers with them, while the
destructor is in `stop()`; no new one begins then.

Not in it: text. A switch is on or off, a number is absent, no number, or a
number; `setupLogFiles`, `setupLogLevel` and `setupServerString` set members
nothing else reads. The port given to `HttpServer(port)` is not distinguished
from the default one. Assumed: an application adds and removes handlers before
it calls `run()`, as the README's example does (the map has no lock);
`ThreadPoolDispatcher::stop` begins no queued handler and returns when the
sessions that run have ended (`PoolStopped`), a session blocked in a read without
a time-out among them.

Met while modelling, and outside these properties: with `threading = none` the
server string says `pthreads` for `$CFG_THREADING`, where `misere.ini` says it
may be `none`; `addPathHandler` answers true when it has dropped the handler,
where `HttpServer.h` promises an answer that tells; `main` returns 0 when
`run()` returns 1; `HttpHandler::destroy` is never called.

### HttpExchange

One thread calls `get`, `put` and the like, one after the other. `pc` is where
the call stands: what it writes next (`write`, `eol`, `data`), where
`streamFromConnection2` is (`header`, `parse`, `fill`), or `done`. The bytes it
writes are those of `HttpClient`, the bytes it reads are units as in
`HttpTransaction`; `HttpResponse.cpp` has its own copy of those loops, and so
has the model. `get`, `head` and `do_delete` are one method (`bare`), `put` and
`post` of an `HttpRequest` another (`body`), the `post` that builds its own
header, with `sendReceive`, a third. An `HttpRequest` outlives its calls, and so
do its `argumentLength` and the connection its constructor opens.

`BeginCall` connects; when that fails the constructor of the socket throws and
the call is over, with nothing written.

`result` tells the ways out apart: a null pointer (`null`), an exception because
the bytes ended (`failed`) or the connection broke (`broken`; the code throws
the same exception), an `HttpException` with a status (`http`), a response.

The server is external. It has `ServerThreads` threads, one of which the
connection of the `HttpRequest` holds, answers once with any of `Answers` when
it has read a whole request, and may close at any time. Assumed: a write does
not wait for its reader (the bodies fit the buffers of the sockets); a status is
a number, 0 standing for one that `parseInt` cannot read.

Met while modelling, and outside these properties:

* `write()` leaves the Content-Length it sets among `m_arguments`. A `get` with
  an `HttpRequest` that was used for a `put` announces a body it does not send,
  and client and server wait for each other. `Stale` names this case, and
  `NoStandoff` and `EveryCallEnds` except it, and nothing else.
* `HttpRequest(url)` opens a connection that no call uses. It holds a worker of
  a server like misere; `EveryCallEnds` needs two.
* A status line of fewer than three words leaves the status uninitialised, and
  the response is returned all the same: `ResultIsTheAnswer` promises the body
  alone for it.
* `head` reads a body of the announced length, which misere sends and a server
  that follows the standard does not.

### TlsConnection

Two ends, each with a thread of its own, as in `TestTlsConnection`; `call[e]` is
what the thread is in, and each action a round of a loop:

    connecting -> idle <-> read, write
                  idle -> close -> closed -> gone      (thrown -> gone)

* `Handshake`, `ReadLoop`, `WriteLoop` and `CloseLoop` call armure once.
  `Retries` is the arm of a result for which `isWantRetry` is true, `GivesUp`
  the other one; `WriteLoop` goes on with `Remaining` after a partial write.
* `CallRead`, `CallWrite` and `CallClose` enter a loop or return at once, for
  an empty buffer; `Destroy` is the destruction of the connection and its socket.
* `RecvAvailable`, `TransportRead` and `TransportWrite` are `SocketTransport`:
  every reason for no data, also the receive time-out, becomes `Closed`.
* A byte is its place in what an end writes, so that a byte lost, repeated or
  moved shows.

External, and assumed of armure: records arrive in order; a write that it asked
to repeat must be repeated with the same bytes, and any others are refused;
after an error it takes nothing more. The transport blocks, so that armure asks
to be called again only for records of its own, `MaxWants` times. A network that
is `mute` makes armure answer that it took 0 bytes, which the code guards
against. A socket holds `Capacity` bytes nobody has read, and the writer of more
waits without a time-out.

Met while modelling, and outside these properties: a receive time-out and a peer
that closed without close_notify reach the caller as the same -1. That is why
`FailureHasCause` names the time-out as a cause of its own, and why a caller
that must know whether the stream was complete has to count its bytes.

## Runs

| run | question | states |
|---|---|---|
| `Handler` | all kinds of requests over TLS, limit 3, from clients that may fail the handshake, trickle, not read, fall silent or hang up: responses well formed, numbered, limited, announcements kept; TLS discipline; implements `HttpSession`; every step leaves less to do; the thread is freed | 447 000 |
| `HandlerMalformed` | violated: malformed requests are logged | |
| `ServerPool` | 3 connections, 2 workers, pool may refuse, keep-alive off: one thread per session; implements `WorkerPool`, first come first served | 514 000 |
| `ServerSerial` | no threads, TLS: everybody has a turn | 55 000 |
| `ServerIdle` | violated: without keep-alive a worker is freed almost immediately | |
| `EventServer` | kernel events, TLS, 2 sockets, 2 workers: no socket is lost or in two hands, TLS discipline of every session | 293 000 |
| `EventIdle` | kernel events, plain HTTP, 3 sockets, 1 worker: each session answers from the first response on, and a request gets a session however many clients are silent | 109 000 |
| `Framing` | one to three requests, cut off anywhere, any reads: bytes conserved, implements `RequestStream`, whole requests delivered | 17 500 |
| `FramingClient` | violated: what the client puts is what the server reads | |
| `Exchange` | two calls of any kind, connections refused, answers whole, cut off, doubled, malformed, or none: the caller gets the answer or an error, client and server do not wait for each other, calls end; implements `RemoteCall` | 71 700 |
| `Setup` | 404 configurations, sessions under way when the server ends: what serves is what the file asks for, no handler is deleted or unloaded while it can be used, the destructor ends when the sessions do; implements `HandlerRegistry` | 61 800 |
| `Tls` | two ends that write, read and close as they like, repeated calls, partial writes, a refused certificate, a time-out, a network that breaks: the stream is whole, failures have causes, closing is orderly, every round leaves less to do, calls end; implements `ByteConnection` | 623 000 |

Bounds. Connections do not share state in `HttpRequestHandler`, so that one is
enough for the session; a limit of three requests has a first, a middle and a
last one, and `MaxPipelined` (requests in flight; 1 or 2) lets the next request
arrive before the answer to the last. `Handler` has TLS on, since the loop is
the same with and without it and TLS adds what comes before and after; sessions
over plain HTTP are those of `ServerPool` and `EventIdle`. Three connections
and two workers are the smallest pool in which one waits while two run. With
kernel events two sockets and two workers show a socket that is handed out to
one thread while the other still has it, and three sockets on one worker a
request that waits behind two silent ones; a limit of two gives a session a
second read, which is the one with the time-out. `ServerPool` and `EventServer`
use symmetry: connections, and workers, are interchangeable, and they check no
liveness. For framing, a chunk of five units is longer than a request without
body, so that a read may end inside a request, at its end, or beyond it, and
three requests have one whose beginning was read with the one before and whose
end is read with the one after. For the start-up, the settings and the modules
do not influence each other: `Setup` has every combination of threading,
sockets and TLS with one handler, every numeric setting absent, no number, zero
or negative, and every outcome of two modules, one of them at the path of a
built-in handler, with and without built-ins. In `Exchange` two calls are
enough for what the first leaves behind (the `HttpRequest`, its Content-Length,
a connection) to meet the second; a chunk of three units ends inside a
terminator, at it or beyond it, and inside a body or after it; every prefix of
every answer is an answer. In `Tls` the client writes up to three bytes and the
server two, in writes of any size; a socket of two bytes is filled by one end
and by both; each end may be asked once to repeat a call, which meets each kind
of call, the rest of a partial write among them (the proofs allow any number).
All runs turn the deadlock check off since sessions, clients, streams and
servers come to an end.

Fairness. A thread is scheduled, a handler returns, a receive with a time-out
returns when nothing has arrived for that long: weak fairness of the steps of a
thread, without the failures and without the writes, which have no time-out.
What a property needs of clients it says: `EngagedSessionEnds` that the client
reads its responses (`ReadsResponses`) and does not send pieces of requests for
ever (`StopsTrickling`), and nothing else, so that it may fall silent at any
moment; `SessionEnds` and `EveryConnectionServed` that it reads and eventually
completes a request or hangs up. The code gives no more: a client that
trickles, or does not read, holds its thread. The accept loop and the event
loop are scheduled (weak fairness of each, per socket for the latter, since it
may report any). `RequestsNotBlockedByIdleSockets` is about clients that read
and whose requests arrive whole (`WholeRequestsSpec`): a client that sends half
a request and falls silent holds a thread, as the first read has no time-out.
It is about plain HTTP: with TLS the first bytes of a handshake make a socket
readable, and a client that goes no further does the same. For `EveryCallEnds`,
the caller's thread runs unless it waits for bytes, and a server takes up a
connection when it has a thread for it, answers a whole request, and closes
some time after its answer; that a call is made, or that the network fails, is
not assumed. For `ShutDownEnds`, the owner's thread is scheduled; that anybody
calls `run()`, or ends it, is not assumed, and that the sessions end is its
premise: one that waits for its client without a time-out keeps the destructor
waiting. For `CallsEnd`, the thread of an end takes the next round of its loop
when that does not have to wait for bytes or room, and the owner of a
connection that threw or was closed destroys it; that any call is made, that
anybody closes, or that the network stays up, is not assumed. `CallsEnd` is
therefore conditional: a call that never ends has a peer that for ever
withholds the bytes or the room it waits for.

The three violated properties are statements of the repository's documents that
the code does not honour; `PROJECT.json` quotes them under `findings`:

* `HttpClient::put` and `post` write one line end too many between the blank
  line and the body, so that the body read at the other end is shifted by it.
* A request line that does not have three words is not logged.
* A connection that never sends a request holds its worker without limit.

## Proofs

All theorems hold for every set of connections, requests, paths and workers,
every limit, with and without TLS, keep-alive and threads, from the assumptions
the modules name (`...Assumption`): types of the constants, a positive limit, a
positive chunk.

`HttpRequestHandlerProofs`: `TypeCorrect`, `SessionInvariant`,
`TlsDisciplined`, `ResponsesInOrder`, `LimitHonoured`, `AnnouncementIsKept`,
`SessionRefinement`, `SessionsAreBoundedWork`. The core is `SessionInv`. That
responses are well formed is not inductive: whether the next write may follow
the last depends on where the loop stands. `SessionInv` says it: while a
request is being read or answered, exactly the `requestCount - 1` requests
before it have been answered, the last of them completely and with keep-alive
announced; the reply under way has the ordinal `requestCount` and agrees with
`connectionOpen`; and a connection kept open is below the limit. Everything
else follows from it, a step at a time; a lemma says that a step of one
connection leaves the others alone, so that only one needs to be looked at.
`SessionsAreBoundedWork` is the bound on a session: `Work`, the steps to the
end of the iteration and five for every request the limit still allows, is a
natural number because `CountInv` keeps `requestCount` within the limit, every
step of the thread makes it smaller but for a `recv` that returns part of a
request (`Receive`), and nothing a client does makes it larger.

`HttpTransactionProofs`: `TypeCorrect`, `EveryByteAccountedFor`,
`FramingRefinement`, `GivesUpForWantOfBytes`, `ReadingTerminates`. The abstract
`rest` of the stream is what is in progress (headers, terminator and body so
far), the buffer, the carried-over bytes and the wire, in this order. The
invariant adds that the headers found contain no terminator and that body and
buffer agree with the content length, so that the first terminator of the
buffer is the first one of the rest of the stream. A read fails for want of
bytes only when the wire is empty; what is ahead is then what has been read,
which holds no terminator, or a body shorter than announced (`FailedInv`).
`ReadingTerminates`: each step takes from the units not delivered yet, or from
the places left in the reading of one request. Of several Content-Length lines
the property lets any count.

`HttpServerProofs`, about the socket server: `ServerRunsSessions` (every
behaviour of the server is one of the sessions: the theorems above hold of it),
`ServerTypeCorrect`, `OneThread`. `OneThreadPerSession` is not inductive: that a
line has no connection twice needs that a new arrival is nowhere yet, and that
one taken up was never served. `PoolInv` adds that whatever waits or has begun
did arrive, and that whatever was served has begun. `ServedInOrder`: the line
`served \o queue \o backlog` grows at its end (`Connect`), loses an element
(`AcceptRefused`) and is otherwise the same sequence, divided elsewhere.
`ServerIsAPool` is the refinement: that a connection begins only while fewer are
served than there are threads follows from an injection of the connections
served into the threads other than the free one. `SessionsAreBounded`, for every
setting, serial ones included: the sessions under way are injected into the
threads. `NoConnectionIsLost`: a connection that came is in exactly one of the
two lines, the hands of one thread, the refused and the closed.
`ServedSessionsKeepPromises` carries the properties of single sessions over to
those the server runs, which with keep-alive hold a thread for many requests.

`HttpEventServerProofs`, about the kernel-event server: `EventTypeCorrect`,
`SocketsAreAccounted`, `EventSessionsKeepPromises`. `EverySocketAccounted` is
inductive: each step moves one socket between the event loop, the queue and a
thread. A behaviour of this server is none of `HttpRequestHandler`, since
`Release` begins a session where one has ended; but it is the only such step
(`EventStepIsSessionStep`), what it leaves is a session that has promised nothing
yet (`NewSession`), and so the invariants of a session go through any number of
them.

`HttpServerSetupProofs`: `SetupTypeCorrect`, `HandlersStayUsable`,
`RegisteredHandlersStay`, `ServerAsConfigured`, `HandlersLoadedAsConfigured`,
`HandlerRegistryRefinement`, for every set of configurations, paths and
threads. That a server serves as configured is not inductive: it needs what has
been set up so far. `Rank` numbers the steps of `init`; the invariant says of
each setting that it is the default before its rank and what the file asks for
after it (`SettingsInv`), of the socket and the pool that they are there from
theirs on (`ResourcesInv`), of the registry that it holds the built-in handlers
and those of the modules read so far, and that a thread has a handler only
while somebody may be served (`HandlersInv`), and that a server is initialised
exactly when it came to the end of `init` without failing (`LifeInv`).
`ServerAsConfigured` is what discharges the assumptions the other modules make
of their constants: a positive limit, at least one worker, kernel events only
with a pool. `HandlerRegistryRefinement` maps the places of the owning thread
to the four phases of `HandlerRegistry`: all of `init` and the owner's calls
are building; a session begins in the serving phase only, and goes on to take
handlers in the stopping one, where nothing changes; and nothing is erased
before the pool has stopped, with nobody in a session. It contains
`RegisteredHandlersStay`.

`HttpExchangeProofs`: `ExchangeTypeCorrect`, `ConnectionIsOwned`,
`NoMutualWait`, `ResultsAreAnswers`, `FailuresHaveCause`,
`RemoteCallRefinement`, `CallsAreFinite`, `RequestsAreReadBack`,
`BodyIsShifted`, `RequestsReachTheServer`, for every set of answers and bodies,
any number of calls and every size of read. `StreamInv` is the core: what has
been read of an answer, in the order of the stream, followed by the wire, is
the answer, the headers found hold no terminator, and the body is the front of
what follows it. `OwnerInv` says who has the connection at each `pc`,
`WrittenInv` what has been written, with which the server's view of a whole
request follows from the shape of the head. `HttpBytesProofs` holds what this
shares with `HttpTransactionProofs`: the first terminator of a buffer is that
of every longer one, and concatenation may be regrouped.

`RemoteCallRefinement` adds to `ResultsAreAnswers` when a result comes and that it
stays, and to `ConnectionIsOwned` that a connection is one call's.
`RequestsAreReadBack` is about the bytes alone: for every body, whatever it
contains and whatever follows it, the first terminator of what a bodiless
request, the `post` with its own header, or a head with the body right behind it
writes is the one the client put there, and what it and the Content-Length cut
off is the body. `BodyIsShifted` is the finding about `put` and `post` for every
body and not only the one of `FramingClient`: the server takes the extra line end
and all but the last unit of the body. `RequestsReachTheServer` ties both to the
calls (`RequestInv`: what has been written at each place, by method): what a
client has sent when it begins to wait is read back like this, unless its
Content-Length is stale.

`TlsConnectionProofs`: `TlsTypeCorrect`, `StreamStaysIntact`,
`FailuresHaveCause`, `ClosesInOrder`, `ByteConnectionRefinement`, `LoopsShrink`,
for every size of writes, reads and sockets and any number of repeated calls. `TlsInv` says of
each end that the bytes sent are the ones before the rest of the buffer
(`SentInv`, `WriteInv`), that what armure asked to repeat is exactly that rest
(`PendingInv`), so that it is never refused, and that whatever failed has a
cause (`CauseInv`). Every round of a loop is then a step of `ByteConnection` or
none: a round that repeats is none, a round that takes bytes is one of its
writes. `LoopsShrink` counts rounds: the repetitions armure may still ask for,
the flights of the handshake and the bytes of the write that are left. It rests
on the assumption that armure asks for finitely many (`MaxWants`, any number).

Only model-checked: everything under fairness (`EngagedSessionEnds`,
`SessionEnds`, `EveryConnectionServed`, `RequestsNotBlockedByIdleSockets`,
`WholeRequestDelivered`, `EveryCallEnds`, `ShutDownEnds`, `CallsEnd`), since
neither liveness under fairness nor `ENABLED` is in the prover's reach. Half of
the argument is proved: the measures of `SessionsAreBoundedWork`,
`ReadingTerminates`, `CallsAreFinite` and `LoopsShrink` show, for every value of
the constants, that no loop of the code goes around for ever by its own doing, so
that what does not end is something that waits, or that receives. That nothing
waits without need is what the runs show on small instances.

The other way round, a few theorems state what no run checks, each by its own
definition: `ServerTypeCorrect`, `EventTypeCorrect`, `ServedInOrder` (which
`ImplementsWorkerPool` says in another form), `SessionsAreBounded`,
`NoConnectionIsLost`, `ReadingTerminates`, `CallsAreFinite`,
`RequestsReachTheServer`, and, about bytes alone, `RequestsAreReadBack` and
`BodyIsShifted`; `SessionInvariant`, `RegisteredHandlersStay` and
`ConnectionIsOwned` are steps on the way to theorems whose properties the runs
check.

## Plan, and what is not modelled

Done: handling loop, dispatch of both kinds and framing with their abstract specifications;
the life of a server with its registry; the client with its responses and the
contract of a call; the TLS connection with the contract of `ByteConnection`.
Every invariant, action property and refinement of the runs is proved, and four
measures of termination.

Still to prove: that start-up and shut-down pass the places of `HttpServerSetup`
in their order, and so take finitely many steps; what the connection of a client
carries in both directions in one theorem, by taking `RequestsReachTheServer` and
`FramingRefinement` together.

What could follow in the model: several connections of one client; the addition
and removal of handlers while the server runs, once the registry has a lock; what
chaudiere's epoll and kqueue loops do on a peer's hang-up and with a descriptor
closed under them, once their source is at hand.

Not modelled: string formatting and parsing (`Url`, dates, header lines, log
lines) and constants, which are functions of their arguments and keep no state;
the handlers' contents, each of which formats one response; the setters and
copies of requests and responses; chaudiere, poivre and armure, whose source is
not part of the repository; and the tests.
