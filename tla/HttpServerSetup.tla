--------------------------- MODULE HttpServerSetup ---------------------------
(***************************************************************************)
(* The life of an HttpServer object (src/HttpServer.cpp): a constructor    *)
(* that calls init, the registry of handlers and the libraries they come   *)
(* from, run(), and the destructor. What threads do with a connection is   *)
(* in HttpServer.tla; here a thread is in run() of a connection, and there *)
(* holds the handler getPathHandler gave it while it answers a request.    *)
(*                                                                         *)
(* pc names the next step of the thread that owns the object. During init  *)
(* it is the name of the setting, or part, that is set up next.            *)
(*                                                                         *)
(* A handler is known by its path and by who made it. External: whether a  *)
(* file, a library, a certificate or a port is there; the pool, whose      *)
(* stop() returns when its threads have finished what they run: whole      *)
(* sessions, with the requests they still read.                            *)
(***************************************************************************)
EXTENDS Integers

CONSTANTS
  Paths,          \* the paths a handler may be registered for
  BuiltInPaths,   \* those of addBuiltInHandlers
  Configs,        \* the configuration files considered
  Workers,        \* threads a pool may have
  MainThread,     \* the thread that owns the server
  NoHandler,      \* what a thread uses that is in run() but has no handler
  Idle            \* what a thread uses that runs no session

NumberSettings ==
  {"port", "thread_pool_size", "socket_send_buffer_size",
   "socket_receive_buffer_size", "keep_alive_timeout", "keep_alive_max_requests"}

(* A value getIntValue finds: no text, a text parseInt does not like, or a *)
(* number.                                                                 *)
Numbers == [kind : {"absent", "garbled", "number"}, value : Int]

(* What is in the file for a path: no section name, no such section, one   *)
(* that cannot be read, one without dll, a library without CreateHandler,  *)
(* a handler whose init throws or fails, or one that works.                *)
Modules == {"absent", "unnamed", "nosection", "unreadable", "nodll",
            "unloadable", "throws", "refuses", "good"}

(* given: HttpServer(configFilePath), not HttpServer(port). tls: off, a    *)
(* certificate or key that is missing or cannot be loaded, or good.        *)
ConfigType ==
  [given : BOOLEAN, readable : BOOLEAN, server : BOOLEAN,
   threading : {"absent", "pthreads", "c++11", "gcd_libdispatch", "none"},
   kernel : BOOLEAN, keepAlive : BOOLEAN, builtIns : BOOLEAN,
   tls : {"off", "bad", "good"},
   number : [NumberSettings -> Numbers],
   modules : [Paths -> Modules]]

ASSUME SetupAssumption ==
  /\ BuiltInPaths \subseteq Paths
  /\ Configs \subseteq ConfigType
  /\ MainThread \notin Workers
  /\ Idle # NoHandler
  /\ {Idle, NoHandler} \cap [path : Paths, origin : {"builtin", "module", "application"}] = {}

Origins == {"builtin", "module", "application"}
Threads == Workers \cup {MainThread}

VARIABLES
  config,     \* the configuration this server is given
  pc,         \* next step of the owning thread
  m_isThreaded, m_threading, m_isUsingKernelEventServer,
  m_tlsEnabled, m_tlsContext,      \* the latter: is there one?
  m_keepAliveEnabled, m_allowBuiltInHandlers,
  m_number,               \* [NumberSettings -> Int] the numeric settings
  m_serverSocket,         \* "none", "open" or "closed"
  m_threadPool,           \* "none", "started", "stopping" or "stopped"
  m_isFullyInitialized,
  m_mapPathHandlers,      \* [Paths -> Origins \cup {"none"}]
  m_mapPathLibraries,     \* paths whose module library is loaded and kept
  todo,                   \* paths of the section setupHandlers has to read
  uses                    \* the handler each thread answers with, NoHandler or Idle

settings == <<m_isThreaded, m_threading, m_isUsingKernelEventServer, m_tlsEnabled,
              m_tlsContext, m_keepAliveEnabled, m_allowBuiltInHandlers, m_number>>
resources == <<m_serverSocket, m_threadPool>>
registry == <<m_mapPathHandlers, m_mapPathLibraries>>
vars == <<config, pc, settings, resources, registry, m_isFullyInitialized, todo, uses>>

Default == [s \in NumberSettings |->
  CASE s = "port" -> 9000 [] s = "thread_pool_size" -> 4
    [] s = "keep_alive_timeout" -> 5 [] s = "keep_alive_max_requests" -> 100
    [] OTHER -> 8192]

(* The member initialisers, the same in both constructors.                 *)
SetupInit ==
  /\ config \in Configs
  /\ pc = "init"
  /\ m_isThreaded = TRUE /\ m_threading = ""
  /\ m_isUsingKernelEventServer = FALSE
  /\ m_tlsEnabled = FALSE /\ m_tlsContext = FALSE
  /\ m_keepAliveEnabled = FALSE /\ m_allowBuiltInHandlers = FALSE
  /\ m_number = Default
  /\ m_serverSocket = "none" /\ m_threadPool = "none"
  /\ m_isFullyInitialized = FALSE
  /\ m_mapPathHandlers = [p \in Paths |-> "none"]
  /\ m_mapPathLibraries = {}
  /\ todo = {}
  /\ uses = [t \in Threads |-> Idle]

(* init returns false; the constructors do not look at its result.         *)
InitFails == pc' = "constructed"

(* Nothing ever sets it, so a handler that cannot be had is only logged.   *)
m_requireAllHandlersForStartup == FALSE

-----------------------------------------------------------------------------
(* init, up to the handlers.                                               *)

BeginInit ==
  /\ pc = "init"
  /\ \/ ~config.given /\ pc' = "socket"
     \/ config.given /\ ~config.readable /\ InitFails
     \/ config.given /\ config.readable /\ pc' = IF config.server THEN "port" ELSE "builtins"
  /\ UNCHANGED <<config, settings, resources, registry, m_isFullyInitialized, todo, uses>>

After == [s \in NumberSettings |->
  CASE s = "port" -> "threading"
    [] s = "thread_pool_size" -> "sockets"
    [] s = "socket_send_buffer_size" -> "socket_receive_buffer_size"
    [] s = "socket_receive_buffer_size" -> "keep_alive"
    [] s = "keep_alive_timeout" -> "keep_alive_max_requests"
    [] s = "keep_alive_max_requests" -> "tls"]

(* A setting that is absent, or not positive, keeps its default.           *)
ReadNumber ==
  /\ pc \in NumberSettings
  /\ m_number' = IF config.number[pc].kind = "number" /\ config.number[pc].value > 0
                 THEN [m_number EXCEPT ![pc] = config.number[pc].value]
                 ELSE m_number
  /\ pc' = After[pc]
  /\ UNCHANGED <<config, m_isThreaded, m_threading, m_isUsingKernelEventServer,
                 m_tlsEnabled, m_tlsContext, m_keepAliveEnabled, m_allowBuiltInHandlers,
                 resources, registry, m_isFullyInitialized, todo, uses>>

(* parseInt may throw at a text that is not a number: init's catch blocks. *)
NumberThrows ==
  /\ pc \in NumberSettings
  /\ config.number[pc].kind = "garbled"
  /\ InitFails
  /\ UNCHANGED <<config, settings, resources, registry, m_isFullyInitialized, todo, uses>>

FaultySetupThreading ==
  /\ pc = "threading"
  /\ m_threading' = config.threading
  /\ m_isThreaded' = (config.threading # "none")
  /\ m_number' = [m_number EXCEPT !["thread_pool_size"] = Default["thread_pool_size"]]
  /\ pc' = "thread_pool_size"
  /\ UNCHANGED <<config, m_isUsingKernelEventServer, m_tlsEnabled, m_tlsContext,
                 m_keepAliveEnabled, m_allowBuiltInHandlers, resources, registry,
                 m_isFullyInitialized, todo, uses>>

SetupThreading ==
  /\ pc = "threading"
  /\ m_threading' = IF config.threading \in {"c++11", "gcd_libdispatch"}
                    THEN config.threading ELSE "pthreads"
  /\ m_isThreaded' = (config.threading # "none")
  /\ m_number' = [m_number EXCEPT !["thread_pool_size"] = Default["thread_pool_size"]]
  /\ pc' = "thread_pool_size"
  /\ UNCHANGED <<config, m_isUsingKernelEventServer, m_tlsEnabled, m_tlsContext,
                 m_keepAliveEnabled, m_allowBuiltInHandlers, resources, registry,
                 m_isFullyInitialized, todo, uses>>

SetupSocketHandling ==
  /\ pc = "sockets"
  /\ m_isUsingKernelEventServer' = (m_isUsingKernelEventServer \/ config.kernel)
  /\ pc' = "socket_send_buffer_size"
  /\ UNCHANGED <<config, m_isThreaded, m_threading, m_tlsEnabled, m_tlsContext,
                 m_keepAliveEnabled, m_allowBuiltInHandlers, m_number, resources,
                 registry, m_isFullyInitialized, todo, uses>>

SetupKeepAlive ==
  /\ pc = "keep_alive"
  /\ m_keepAliveEnabled' = config.keepAlive
  /\ pc' = "keep_alive_timeout"
  /\ UNCHANGED <<config, m_isThreaded, m_threading, m_isUsingKernelEventServer,
                 m_tlsEnabled, m_tlsContext, m_allowBuiltInHandlers, m_number,
                 resources, registry, m_isFullyInitialized, todo, uses>>

(* setupTls, and the return of init when it fails.                         *)
FaultySetupTls ==
  /\ pc = "tls"
  /\ m_tlsEnabled' = (config.tls # "off")
  /\ m_tlsContext' = (config.tls = "good")
  /\ pc' = "builtins"
  /\ m_allowBuiltInHandlers' = config.builtIns
  /\ UNCHANGED <<config, m_isThreaded, m_threading, m_isUsingKernelEventServer,
                 m_keepAliveEnabled, m_number, resources, registry,
                 m_isFullyInitialized, todo, uses>>

SetupTls ==
  /\ pc = "tls"
  /\ m_tlsEnabled' = (config.tls # "off")
  /\ m_tlsContext' = (config.tls = "good")
  /\ \/ config.tls = "bad" /\ InitFails /\ UNCHANGED m_allowBuiltInHandlers
     \/ config.tls # "bad" /\ pc' = "builtins" /\ m_allowBuiltInHandlers' = config.builtIns
  /\ UNCHANGED <<config, m_isThreaded, m_threading, m_isUsingKernelEventServer,
                 m_keepAliveEnabled, m_number, resources, registry,
                 m_isFullyInitialized, todo, uses>>

-----------------------------------------------------------------------------
(* The registry.                                                           *)

(* addPathHandler of a set of paths: emplace leaves a path that has a      *)
(* handler as it is. The answer is true all the same.                      *)
FaultyAddPathHandlers(S, origin) ==
  m_mapPathHandlers' = [p \in Paths |-> IF p \in S THEN origin ELSE m_mapPathHandlers[p]]

AddPathHandlers(S, origin) ==
  m_mapPathHandlers' = [p \in Paths |->
    IF p \in S /\ m_mapPathHandlers[p] = "none" THEN origin ELSE m_mapPathHandlers[p]]

AddBuiltInHandlers ==
  /\ pc = "builtins"
  /\ IF m_allowBuiltInHandlers THEN AddPathHandlers(BuiltInPaths, "builtin")
                               ELSE UNCHANGED m_mapPathHandlers
  /\ todo' = {p \in Paths : config.modules[p] # "absent"}
  /\ pc' = "handlers"
  /\ UNCHANGED <<config, settings, resources, m_mapPathLibraries, m_isFullyInitialized, uses>>

(* One round of the loop of setupHandlers, over the paths in any order.    *)
(* A handler that works is registered and its library kept, even when the  *)
(* path had a handler.                                                     *)
FaultyLoadModuleDropsLibrary(p) ==
  /\ pc = "handlers" /\ p \in todo
  /\ config.modules[p] = "good"
  /\ AddPathHandlers({p}, "module")
  /\ todo' = todo \ {p}
  /\ UNCHANGED <<config, pc, settings, resources, m_mapPathLibraries,
                 m_isFullyInitialized, uses>>

LoadModule(p) ==
  /\ pc = "handlers" /\ p \in todo
  /\ config.modules[p] = "good"
  /\ AddPathHandlers({p}, "module")
  /\ m_mapPathLibraries' = m_mapPathLibraries \cup {p}
  /\ todo' = todo \ {p}
  /\ UNCHANGED <<config, pc, settings, resources, m_isFullyInitialized, uses>>

(* Nothing can be registered for the path. The library that was loaded, if *)
(* any, is unloaded at the end of the round.                               *)
FaultySkipModule(p) ==
  /\ pc = "handlers" /\ p \in todo
  /\ config.modules[p] \notin {"good", "throws"}
  /\ todo' = {}
  /\ UNCHANGED <<config, pc, settings, resources, registry, m_isFullyInitialized, uses>>

SkipModule(p) ==
  /\ pc = "handlers" /\ p \in todo
  /\ config.modules[p] \notin {"good", "throws"}
  /\ todo' = todo \ {p}
  /\ IF /\ m_requireAllHandlersForStartup
        /\ config.modules[p] \in {"nosection", "nodll", "unloadable", "refuses"}
     THEN InitFails ELSE UNCHANGED pc
  /\ UNCHANGED <<config, settings, resources, registry, m_isFullyInitialized, uses>>

(* The handler's init throws; so may getValue of the dll setting that is   *)
(* not there (external): init's catch blocks.                              *)
ModuleThrows(p) ==
  /\ pc = "handlers" /\ p \in todo
  /\ config.modules[p] \in {"nodll", "throws"}
  /\ InitFails
  /\ todo' = todo \ {p}
  /\ UNCHANGED <<config, settings, resources, registry, m_isFullyInitialized, uses>>

EndHandlers ==
  /\ pc = "handlers" /\ todo = {}
  /\ IF m_allowBuiltInHandlers \/ \E p \in Paths : m_mapPathHandlers[p] # "none"
     THEN pc' = "socket" ELSE InitFails
  /\ UNCHANGED <<config, settings, resources, registry, m_isFullyInitialized, todo, uses>>

-----------------------------------------------------------------------------
(* The end of init.                                                        *)

SetupServerSocket ==
  /\ pc = "socket"
  /\ \/ m_isUsingKernelEventServer /\ pc' = "concurrency" /\ UNCHANGED m_serverSocket
     \/ ~m_isUsingKernelEventServer /\ pc' = "concurrency" /\ m_serverSocket' = "open"
     \/ ~m_isUsingKernelEventServer /\ InitFails /\ UNCHANGED m_serverSocket
  /\ UNCHANGED <<config, settings, m_threadPool, registry, m_isFullyInitialized, todo, uses>>

SetupConcurrency ==
  /\ pc = "concurrency"
  /\ \/ /\ m_isThreaded
        /\ m_threading' = IF m_threading = "c++11" THEN "c++11" ELSE "pthreads"
        /\ m_threadPool' = "started"
        /\ UNCHANGED m_number
     \/ /\ ~m_isThreaded
        /\ m_number' = [m_number EXCEPT !["thread_pool_size"] = 1]
        /\ UNCHANGED <<m_threading, m_threadPool>>
  /\ m_isFullyInitialized' = TRUE
  /\ pc' = "constructed"
  /\ UNCHANGED <<config, m_isThreaded, m_isUsingKernelEventServer, m_tlsEnabled,
                 m_tlsContext, m_keepAliveEnabled, m_allowBuiltInHandlers,
                 m_serverSocket, registry, todo, uses>>

-----------------------------------------------------------------------------
(* The owner: registers handlers, then calls run (README.md).              *)

AddApplicationHandler(p) ==
  /\ pc = "constructed"
  /\ AddPathHandlers({p}, "application")
  /\ UNCHANGED <<config, pc, settings, resources, m_mapPathLibraries,
                 m_isFullyInitialized, todo, uses>>

RemovePathHandler(p) ==
  /\ pc = "constructed" /\ m_mapPathHandlers[p] # "none"
  /\ m_mapPathHandlers' = [m_mapPathHandlers EXCEPT ![p] = "none"]
  /\ UNCHANGED <<config, pc, settings, resources, m_mapPathLibraries,
                 m_isFullyInitialized, todo, uses>>

(* run() has something to run. The event server has its threads from the   *)
(* factory that setupConcurrency makes with the pool.                      *)
MayRun == m_isFullyInitialized /\ (m_isUsingKernelEventServer => m_threadPool = "started")

Run ==
  /\ pc = "constructed"
  /\ MayRun
  /\ pc' = "serving"
  /\ UNCHANGED <<config, settings, resources, registry, m_isFullyInitialized, todo, uses>>

(* run() returns 1 (the event server may also fail to start), or is never  *)
(* called.                                                                 *)
RunRefuses ==
  /\ pc = "constructed"
  /\ pc' = "returned"
  /\ UNCHANGED <<config, settings, resources, registry, m_isFullyInitialized, todo, uses>>

(* accept() throws out of run(), or the event server does or returns. In   *)
(* a serial server the thread that would is the one that answers.          *)
StopServing ==
  /\ pc = "serving" /\ uses[MainThread] = Idle
  /\ pc' = "returned"
  /\ UNCHANGED <<config, settings, resources, registry, m_isFullyInitialized, todo, uses>>

-----------------------------------------------------------------------------
(* Threads that answer. Those of a pool do so wherever the owner is, while *)
(* there are connections in the queue (HttpServer.tla; here a choice).     *)

(* A connection comes to a thread: to one of the pool until it is stopped, *)
(* to the thread of a serial server while it is in run().                  *)
CanStart(t) ==
  \/ t \in Workers /\ m_threadPool = "started" /\ pc # "constructed"
  \/ t = MainThread /\ m_threadPool = "none" /\ pc = "serving"

BeginSession(t) ==
  /\ CanStart(t) /\ uses[t] = Idle
  /\ uses' = [uses EXCEPT ![t] = NoHandler]
  /\ UNCHANGED <<config, pc, settings, resources, registry, m_isFullyInitialized, todo>>

(* A request of the session, as many as the client sends and keep-alive    *)
(* allows: also when stop() already waits for the session.                 *)
StartRequest(t, p) ==
  /\ uses[t] = NoHandler
  /\ m_mapPathHandlers[p] # "none"
  /\ uses' = [uses EXCEPT ![t] = [path |-> p, origin |-> m_mapPathHandlers[p]]]
  /\ UNCHANGED <<config, pc, settings, resources, registry, m_isFullyInitialized, todo>>

FinishRequest(t) ==
  /\ uses[t] \notin {Idle, NoHandler}
  /\ uses' = [uses EXCEPT ![t] = NoHandler]
  /\ UNCHANGED <<config, pc, settings, resources, registry, m_isFullyInitialized, todo>>

EndSession(t) ==
  /\ uses[t] = NoHandler
  /\ uses' = [uses EXCEPT ![t] = Idle]
  /\ UNCHANGED <<config, pc, settings, resources, registry, m_isFullyInitialized, todo>>

ThreadStep(t) ==
  \/ BeginSession(t) \/ FinishRequest(t) \/ EndSession(t)
  \/ \E p \in Paths : StartRequest(t, p)

-----------------------------------------------------------------------------
(* ~HttpServer.                                                            *)

CloseServerSocket ==
  /\ pc = "returned"
  /\ m_serverSocket' = IF m_serverSocket = "open" THEN "closed" ELSE m_serverSocket
  /\ pc' = "closing"
  /\ UNCHANGED <<config, settings, m_threadPool, registry, m_isFullyInitialized, todo, uses>>

(* m_threadPool->stop(): no session is begun any more; it returns when all *)
(* threads are through with theirs. Without a pool there is nothing to     *)
(* stop.                                                                   *)
FaultyStopPool ==
  /\ pc = "closing"
  /\ pc' = "stopping"
  /\ UNCHANGED <<config, settings, resources, registry, m_isFullyInitialized, todo, uses>>

StopPool ==
  /\ pc = "closing"
  /\ m_threadPool' = IF m_threadPool = "started" THEN "stopping" ELSE m_threadPool
  /\ pc' = "stopping"
  /\ UNCHANGED <<config, settings, m_serverSocket, registry, m_isFullyInitialized, todo, uses>>

PoolStopped ==
  /\ pc = "stopping"
  /\ \A t \in Threads : uses[t] = Idle
  /\ m_threadPool' = IF m_threadPool = "stopping" THEN "stopped" ELSE m_threadPool
  /\ pc' = "erasing"
  /\ UNCHANGED <<config, settings, m_serverSocket, registry, m_isFullyInitialized, todo, uses>>

EraseHandlers ==
  /\ pc = "erasing"
  /\ m_mapPathHandlers' = [p \in Paths |-> "none"]
  /\ pc' = "unloading"
  /\ UNCHANGED <<config, settings, resources, m_mapPathLibraries, m_isFullyInitialized, todo, uses>>

EraseLibraries ==
  /\ pc = "unloading"
  /\ m_mapPathLibraries' = {}
  /\ pc' = "gone"
  /\ UNCHANGED <<config, settings, resources, m_mapPathHandlers, m_isFullyInitialized, todo, uses>>

-----------------------------------------------------------------------------

InitStep ==
  \/ BeginInit \/ ReadNumber \/ NumberThrows
  \/ SetupThreading \/ SetupSocketHandling \/ SetupKeepAlive \/ SetupTls
  \/ AddBuiltInHandlers \/ EndHandlers
  \/ \E p \in Paths : LoadModule(p) \/ SkipModule(p) \/ ModuleThrows(p)
  \/ SetupServerSocket \/ SetupConcurrency

DestructorStep ==
  CloseServerSocket \/ StopPool \/ PoolStopped \/ EraseHandlers \/ EraseLibraries

SetupNext ==
  \/ InitStep \/ Run \/ RunRefuses \/ StopServing \/ DestructorStep
  \/ \E p \in Paths : AddApplicationHandler(p) \/ RemovePathHandler(p)
  \/ \E t \in Threads : ThreadStep(t)

SetupSpec == SetupInit /\ [][SetupNext]_vars

(* The owner runs on. That an application calls run or destroys the server,*)
(* that an accept fails, or that a session ends, is not assumed.           *)
FairSetupSpec == SetupSpec /\ WF_vars(InitStep) /\ WF_vars(DestructorStep)

-----------------------------------------------------------------------------
(* Properties.                                                             *)

Places ==
  NumberSettings \cup
  {"init", "threading", "sockets", "keep_alive", "tls", "builtins", "handlers",
   "socket", "concurrency", "constructed", "serving", "returned", "closing",
   "stopping", "erasing", "unloading", "gone"}

SettingsTyped ==
  /\ m_isThreaded \in BOOLEAN
  /\ m_threading \in {"", "pthreads", "c++11", "gcd_libdispatch"}
  /\ m_isUsingKernelEventServer \in BOOLEAN
  /\ m_tlsEnabled \in BOOLEAN /\ m_tlsContext \in BOOLEAN
  /\ m_keepAliveEnabled \in BOOLEAN /\ m_allowBuiltInHandlers \in BOOLEAN
  /\ m_number \in [NumberSettings -> Int]

ResourcesTyped ==
  /\ m_serverSocket \in {"none", "open", "closed"}
  /\ m_threadPool \in {"none", "started", "stopping", "stopped"}

RegistryTyped ==
  /\ m_mapPathHandlers \in [Paths -> Origins \cup {"none"}]
  /\ m_mapPathLibraries \in SUBSET Paths

(* Every variable has its type.                                            *)
SetupTypeOK ==
  /\ config \in Configs
  /\ pc \in Places
  /\ SettingsTyped /\ ResourcesTyped /\ RegistryTyped
  /\ m_isFullyInitialized \in BOOLEAN
  /\ todo \in SUBSET Paths
  /\ uses \in [Threads -> [path : Paths, origin : Origins] \cup {NoHandler, Idle}]

(* The code of a registered handler is there: the library it came from is  *)
(* loaded for as long as the handler is registered; and the handler a      *)
(* thread is answering with is still registered, also while the server is  *)
(* being destroyed.                                                        *)
HandlersUsable ==
  /\ \A p \in Paths : m_mapPathHandlers[p] = "module" => p \in m_mapPathLibraries
  /\ \A t \in Threads :
       uses[t] \notin {Idle, NoHandler} =>
         m_mapPathHandlers[uses[t].path] = uses[t].origin

Configured == config.given /\ config.server

(* The value of a numeric setting that a file asks for.                    *)
Asked(s) ==
  IF Configured /\ config.number[s].kind = "number" /\ config.number[s].value > 0
  THEN config.number[s].value ELSE Default[s]

(* A server that serves is the one the file describes, whatever was missing*)
(* or failed on the way: with TLS if and only if asked for, and then with a*)
(* certificate; with a pool if and only if threading is not none; with a   *)
(* listening socket or, never without threads, kernel events; with numeric *)
(* settings that are positive. HttpServer.tla and HttpRequestHandler.tla   *)
(* assume as much of their constants.                                      *)
ServesAsConfigured ==
  pc = "serving" =>
    /\ m_isFullyInitialized
    /\ config.given => config.readable
    /\ m_tlsEnabled <=> (Configured /\ config.tls # "off")
    /\ m_tlsContext <=> m_tlsEnabled
    /\ m_isThreaded <=> ~(Configured /\ config.threading = "none")
    /\ m_threadPool = IF m_isThreaded THEN "started" ELSE "none"
    /\ m_threading # "gcd_libdispatch"
    /\ m_isUsingKernelEventServer <=> (Configured /\ config.kernel)
    /\ m_isUsingKernelEventServer => m_isThreaded
    /\ m_serverSocket = IF m_isUsingKernelEventServer THEN "none" ELSE "open"
    /\ m_keepAliveEnabled <=> (Configured /\ config.keepAlive)
    /\ \A s \in NumberSettings :
         m_number[s] = IF s = "thread_pool_size" /\ ~m_isThreaded THEN 1 ELSE Asked(s)
    /\ \A s \in NumberSettings : m_number[s] > 0

(* A module that cannot be loaded costs its own path and no other: when the*)
(* file has been read, a path has the built-in handler if there is one and *)
(* they are allowed, else that of its module if it works, else none.       *)
HandlersAsConfigured ==
  pc \in {"socket", "concurrency"} =>
    \A p \in Paths :
      m_mapPathHandlers[p] =
        IF m_allowBuiltInHandlers /\ p \in BuiltInPaths THEN "builtin"
        ELSE IF config.given /\ config.modules[p] = "good" THEN "module"
        ELSE "none"

(* A registered handler is never replaced by another. It goes when it is   *)
(* removed before run(), or when the server is destroyed and no session    *)
(* runs, or can begin, any more.                                           *)
RegistrationStays ==
  [][\A p \in Paths :
       m_mapPathHandlers[p] # "none" /\ m_mapPathHandlers'[p] # m_mapPathHandlers[p] =>
         /\ m_mapPathHandlers'[p] = "none"
         /\ \A t \in Threads : ~CanStart(t) /\ uses[t] = Idle]_vars

(* Who may do what with the registry, by the place of the owning thread.   *)
RegistryPhase ==
  CASE pc \in {"serving", "returned", "closing"} -> "serving"
    [] pc = "stopping" -> "stopping"
    [] pc \in {"erasing", "unloading", "gone"} -> "stopped"
    [] OTHER -> "building"

Registry == INSTANCE HandlerRegistry WITH
  phase <- RegistryPhase, handlers <- m_mapPathHandlers, libraries <- m_mapPathLibraries,
  Loaded <- "module", None <- "none"

(* The handlers of a server are a HandlerRegistry: init, the owner, the    *)
(* threads and the destructor only do with them what it allows, when it    *)
(* allows it.                                                              *)
ImplementsHandlerRegistry == Registry!RegistrySpec

(* The destructor ends if the sessions it finds do. (One that waits in a   *)
(* read without a time-out does not: then neither does stop().)            *)
ShutDownEnds ==
  (\A t \in Threads : []<>(uses[t] = Idle)) => (pc = "returned" ~> pc = "gone")

=============================================================================
