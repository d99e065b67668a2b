------------------------ MODULE HttpServerSetupProofs ------------------------
(***************************************************************************)
(* Theorems about HttpServerSetup, for every set of paths, of              *)
(* configuration files and of threads.                                     *)
(***************************************************************************)
EXTENDS HttpServerSetup, TLAPS

-----------------------------------------------------------------------------
(* Types.                                                                  *)

(* A configuration file is of its type.                                    *)
LEMMA ConfigTyped ==
  ASSUME SetupTypeOK
  PROVE  /\ config \in ConfigType
         /\ \A s \in NumberSettings : config.number[s] \in Numbers
         /\ \A p \in Paths : config.modules[p] \in Modules
<1>1. config \in ConfigType
  BY SetupAssumption DEF SetupTypeOK
<1> QED BY <1>1 DEF ConfigType

(* The defaults are positive numbers.                                      *)
LEMMA DefaultPositive ==
  /\ \A s \in NumberSettings : Default[s] \in Nat \ {0}
  /\ Default \in [NumberSettings -> Int]
<1>1. \A s \in NumberSettings : Default[s] \in Nat \ {0}
  <2> TAKE s \in NumberSettings
  <2>1. CASE s = "port"
    BY <2>1 DEF Default
  <2>2. CASE s = "thread_pool_size"
    BY <2>2 DEF Default
  <2>3. CASE s = "keep_alive_timeout"
    BY <2>3 DEF Default
  <2>4. CASE s = "keep_alive_max_requests"
    BY <2>4 DEF Default
  <2>5. CASE s \in {"socket_send_buffer_size", "socket_receive_buffer_size"}
    BY <2>5 DEF Default
  <2> QED BY <2>1, <2>2, <2>3, <2>4, <2>5 DEF NumberSettings
<1>2. Default = [s \in NumberSettings |-> Default[s]]
  BY DEF Default
<1> QED BY <1>1, <1>2

(* What a step leaves alone keeps its type.                                *)
LEMMA UnchangedTyped ==
  /\ SettingsTyped /\ UNCHANGED settings => SettingsTyped'
  /\ ResourcesTyped /\ UNCHANGED resources => ResourcesTyped'
  /\ RegistryTyped /\ UNCHANGED registry => RegistryTyped'
<1>1. SettingsTyped /\ UNCHANGED settings => SettingsTyped'
  BY DEF SettingsTyped, settings
<1>2. ResourcesTyped /\ UNCHANGED resources => ResourcesTyped'
  BY DEF ResourcesTyped, resources
<1>3. RegistryTyped /\ UNCHANGED registry => RegistryTyped'
  BY DEF RegistryTyped, registry
<1> QED BY <1>1, <1>2, <1>3

(* addPathHandler keeps the registry's type.                               *)
LEMMA AddPathHandlersTyped ==
  ASSUME RegistryTyped, NEW S, NEW origin \in Origins, AddPathHandlers(S, origin)
  PROVE  m_mapPathHandlers' \in [Paths -> Origins \cup {"none"}]
BY DEF RegistryTyped, AddPathHandlers

(* What threads do changes nothing but what they use.                      *)
LEMMA ThreadStepMoves ==
  ASSUME NEW t \in Threads, ThreadStep(t)
  PROVE  /\ UNCHANGED config /\ UNCHANGED pc /\ UNCHANGED settings
         /\ UNCHANGED resources /\ UNCHANGED registry
         /\ UNCHANGED m_isFullyInitialized /\ UNCHANGED todo
BY DEF ThreadStep, BeginSession, StartRequest, FinishRequest, EndSession

(* The variables have their types, whatever the configuration.             *)
THEOREM SetupTypeCorrect == SetupSpec => []SetupTypeOK
<1>1. SetupInit => SetupTypeOK
  <2> SUFFICES ASSUME SetupInit PROVE SetupTypeOK
    OBVIOUS
  <2>1. SettingsTyped
    BY DefaultPositive DEF SetupInit, SettingsTyped
  <2>2. ResourcesTyped /\ RegistryTyped
    BY DEF SetupInit, ResourcesTyped, RegistryTyped
  <2> QED BY <2>1, <2>2 DEF SetupInit, SetupTypeOK, Places
<1>2. SetupTypeOK /\ [SetupNext]_vars => SetupTypeOK'
  <2> SUFFICES ASSUME SetupTypeOK, [SetupNext]_vars PROVE SetupTypeOK'
    OBVIOUS
  <2> USE UnchangedTyped DEF SetupTypeOK, InitFails
  <2>1. CASE BeginInit
    BY <2>1 DEF BeginInit, Places, NumberSettings
  <2>2. CASE ReadNumber
    <3>1. config.number[pc] \in Numbers
      BY <2>2, ConfigTyped DEF ReadNumber
    <3>2. m_number' \in [NumberSettings -> Int]
      BY <2>2, <3>1 DEF ReadNumber, Numbers, SettingsTyped
    <3>3. SettingsTyped'
      BY <2>2, <3>2 DEF ReadNumber, SettingsTyped
    <3>4. pc' \in Places
      BY <2>2 DEF ReadNumber, Places, NumberSettings, After
    <3> QED BY <2>2, <3>3, <3>4 DEF ReadNumber
  <2>3. CASE NumberThrows
    BY <2>3 DEF NumberThrows, Places
  <2>4. CASE SetupThreading
    <3>1. m_number' \in [NumberSettings -> Int]
      BY <2>4, DefaultPositive DEF SetupThreading, SettingsTyped, NumberSettings
    <3>2. m_threading' \in {"", "pthreads", "c++11", "gcd_libdispatch"}
      BY <2>4 DEF SetupThreading
    <3>3. SettingsTyped'
      BY <2>4, <3>1, <3>2 DEF SetupThreading, SettingsTyped
    <3> QED BY <2>4, <3>3 DEF SetupThreading, Places, NumberSettings
  <2>5. CASE SetupSocketHandling
    <3>1. SettingsTyped'
      BY <2>5 DEF SetupSocketHandling, SettingsTyped
    <3> QED BY <2>5, <3>1 DEF SetupSocketHandling, Places, NumberSettings
  <2>6. CASE SetupKeepAlive
    <3>1. config.keepAlive \in BOOLEAN
      BY ConfigTyped DEF ConfigType
    <3>2. SettingsTyped'
      BY <2>6, <3>1 DEF SetupKeepAlive, SettingsTyped
    <3> QED BY <2>6, <3>2 DEF SetupKeepAlive, Places, NumberSettings
  <2>7. CASE SetupTls
    <3>1. config.builtIns \in BOOLEAN
      BY ConfigTyped DEF ConfigType
    <3>2. SettingsTyped'
      BY <2>7, <3>1 DEF SetupTls, SettingsTyped
    <3> QED BY <2>7, <3>2 DEF SetupTls, Places
  <2>8. CASE AddBuiltInHandlers
    <3>1. RegistryTyped'
      BY <2>8, AddPathHandlersTyped DEF AddBuiltInHandlers, Origins, RegistryTyped
    <3>2. todo' \in SUBSET Paths
      BY <2>8 DEF AddBuiltInHandlers
    <3> QED BY <2>8, <3>1, <3>2 DEF AddBuiltInHandlers, Places
  <2>9. CASE EndHandlers
    BY <2>9 DEF EndHandlers, Places
  <2>10. ASSUME NEW p \in Paths, LoadModule(p) PROVE SetupTypeOK'
    <3>1. RegistryTyped'
      BY <2>10, AddPathHandlersTyped DEF LoadModule, Origins, RegistryTyped
    <3> QED BY <2>10, <3>1 DEF LoadModule
  <2>11. ASSUME NEW p \in Paths, SkipModule(p) PROVE SetupTypeOK'
    BY <2>11 DEF SkipModule, Places
  <2>12. ASSUME NEW p \in Paths, ModuleThrows(p) PROVE SetupTypeOK'
    BY <2>12 DEF ModuleThrows, Places
  <2>13. CASE SetupServerSocket
    <3>1. m_serverSocket' \in {m_serverSocket, "open"} /\ m_threadPool' = m_threadPool
      BY <2>13 DEF SetupServerSocket
    <3>2. ResourcesTyped'
      BY <3>1 DEF ResourcesTyped
    <3> QED BY <2>13, <3>2 DEF SetupServerSocket, Places
  <2>14. CASE SetupConcurrency
    <3>1. m_number' \in [NumberSettings -> Int]
      <4>1. m_number \in [NumberSettings -> Int]
        BY DEF SettingsTyped
      <4>2. m_number' \in {m_number, [m_number EXCEPT !["thread_pool_size"] = 1]}
        BY <2>14 DEF SetupConcurrency
      <4> QED BY <4>1, <4>2
    <3>2. m_threading' \in {m_threading, "c++11", "pthreads"}
      BY <2>14 DEF SetupConcurrency
    <3>3. /\ UNCHANGED m_isThreaded /\ UNCHANGED m_isUsingKernelEventServer
          /\ UNCHANGED m_tlsEnabled /\ UNCHANGED m_tlsContext
          /\ UNCHANGED m_keepAliveEnabled /\ UNCHANGED m_allowBuiltInHandlers
      BY <2>14, Zenon DEF SetupConcurrency
    <3>4. SettingsTyped'
      BY <3>1, <3>2, <3>3 DEF SettingsTyped
    <3>5. ResourcesTyped'
      BY <2>14 DEF SetupConcurrency, ResourcesTyped
    <3> QED BY <2>14, <3>4, <3>5 DEF SetupConcurrency, Places
  <2>15. ASSUME NEW p \in Paths, AddApplicationHandler(p) PROVE SetupTypeOK'
    <3>1. RegistryTyped'
      BY <2>15, AddPathHandlersTyped DEF AddApplicationHandler, Origins, RegistryTyped
    <3> QED BY <2>15, <3>1 DEF AddApplicationHandler
  <2>16. ASSUME NEW p \in Paths, RemovePathHandler(p) PROVE SetupTypeOK'
    <3>1. RegistryTyped'
      BY <2>16 DEF RemovePathHandler, RegistryTyped
    <3> QED BY <2>16, <3>1 DEF RemovePathHandler
  <2>17. CASE Run \/ RunRefuses \/ StopServing
    BY <2>17 DEF Run, RunRefuses, StopServing, Places
  <2>18. ASSUME NEW t \in Threads, ThreadStep(t) PROVE SetupTypeOK'
    <3>1. /\ UNCHANGED config /\ UNCHANGED pc /\ UNCHANGED settings
          /\ UNCHANGED resources /\ UNCHANGED registry
          /\ UNCHANGED m_isFullyInitialized /\ UNCHANGED todo
      BY <2>18, ThreadStepMoves
    <3>2. uses' \in [Threads -> [path : Paths, origin : Origins] \cup {NoHandler, Idle}]
      <4>1. CASE BeginSession(t) \/ FinishRequest(t) \/ EndSession(t)
        BY <4>1 DEF BeginSession, FinishRequest, EndSession
      <4>2. ASSUME NEW p \in Paths, StartRequest(t, p)
            PROVE  uses' \in [Threads -> [path : Paths, origin : Origins]
                                          \cup {NoHandler, Idle}]
        <5>1. m_mapPathHandlers[p] \in Origins
          BY <4>2 DEF StartRequest, RegistryTyped
        <5> QED BY <4>2, <5>1 DEF StartRequest
      <4> QED BY <2>18, <4>1, <4>2 DEF ThreadStep
    <3> QED BY <3>1, <3>2
  <2>19. CASE CloseServerSocket \/ StopPool \/ PoolStopped
    <3>1. ResourcesTyped'
      BY <2>19 DEF CloseServerSocket, StopPool, PoolStopped, ResourcesTyped
    <3> QED BY <2>19, <3>1 DEF CloseServerSocket, StopPool, PoolStopped, Places
  <2>20. CASE EraseHandlers \/ EraseLibraries
    <3>1. RegistryTyped'
      BY <2>20 DEF EraseHandlers, EraseLibraries, RegistryTyped
    <3> QED BY <2>20, <3>1 DEF EraseHandlers, EraseLibraries, Places
  <2>21. CASE UNCHANGED vars
    BY <2>21 DEF vars
  <2> QED
    BY <2>1, <2>2, <2>3, <2>4, <2>5, <2>6, <2>7, <2>8, <2>9, <2>10, <2>11, <2>12, <2>13,
       <2>14, <2>15, <2>16, <2>17, <2>18, <2>19, <2>20, <2>21
       DEF SetupNext, InitStep, DestructorStep
<1> QED BY <1>1, <1>2, PTL DEF SetupSpec

-----------------------------------------------------------------------------
(* The invariant. Its parts name what the order of the code establishes.   *)

(* How far init has come: the place of each step in its order; 15 outside. *)
Rank(p) ==
  CASE p = "init" -> 0 [] p = "port" -> 1 [] p = "threading" -> 2
    [] p = "thread_pool_size" -> 3 [] p = "sockets" -> 4
    [] p = "socket_send_buffer_size" -> 5 [] p = "socket_receive_buffer_size" -> 6
    [] p = "keep_alive" -> 7 [] p = "keep_alive_timeout" -> 8
    [] p = "keep_alive_max_requests" -> 9 [] p = "tls" -> 10
    [] p = "builtins" -> 11 [] p = "handlers" -> 12 [] p = "socket" -> 13
    [] p = "concurrency" -> 14 [] OTHER -> 15

(* The pool exists from the end of init, is stopped before the handlers are*)
(* erased, and sessions run only in between.                               *)
LifeInv ==
  /\ Rank(pc) < 15 => m_threadPool = "none" /\ ~m_isFullyInitialized
  /\ pc \in {"constructed", "serving", "returned", "closing"} =>
       m_threadPool \in {"none", "started"}
  /\ pc = "stopping" => m_threadPool \in {"none", "stopping"}
  /\ pc \in {"erasing", "unloading", "gone"} => m_threadPool \in {"none", "stopped"}
  /\ \A t \in Threads :
       uses[t] # Idle => pc \in {"serving", "returned", "closing", "stopping"}
  /\ pc \in {"unloading", "gone"} => \A p \in Paths : m_mapPathHandlers[p] = "none"

(* Unless init has failed, what has been read is as asked for, and what has*)
(* not been read has its default.                                          *)
SettingsInv ==
  /\ Rank(pc) \in 1 .. 10 => Configured
  /\ Rank(pc) \in 1 .. 14 => (config.given => config.readable)
  /\ (Rank(pc) < 15 \/ m_isFullyInitialized) =>
       /\ m_isThreaded <=> ~(Rank(pc) > 2 /\ Configured /\ config.threading = "none")
       /\ m_isUsingKernelEventServer <=> (Rank(pc) > 4 /\ Configured /\ config.kernel)
       /\ m_keepAliveEnabled <=> (Rank(pc) > 7 /\ Configured /\ config.keepAlive)
       /\ m_tlsEnabled <=> (Rank(pc) > 10 /\ Configured /\ config.tls # "off")
       /\ m_tlsContext <=> m_tlsEnabled
       /\ \A s \in NumberSettings :
            m_number[s] = IF s = "thread_pool_size" /\ m_isFullyInitialized /\ ~m_isThreaded
                          THEN 1 ELSE IF Rank(s) < Rank(pc) THEN Asked(s) ELSE Default[s]

(* What init has opened and started, and what run() has checked.           *)
ResourcesInv ==
  /\ ~m_isThreaded => m_threading # "gcd_libdispatch"
  /\ Rank(pc) < 14 => m_serverSocket = "none"
  /\ pc = "concurrency" =>
       m_serverSocket = IF m_isUsingKernelEventServer THEN "none" ELSE "open"
  /\ pc \in {"constructed", "serving"} /\ m_isFullyInitialized =>
       /\ config.given => config.readable
       /\ m_serverSocket = IF m_isUsingKernelEventServer THEN "none" ELSE "open"
       /\ m_threadPool = IF m_isThreaded THEN "started" ELSE "none"
       /\ m_threading # "gcd_libdispatch"
  /\ pc = "serving" => MayRun

(* The loop of setupHandlers: the paths it is done with.                   *)
HandlersInv ==
  /\ Rank(pc) \in 1 .. 12 => config.given
  /\ Rank(pc) < 11 => ~m_allowBuiltInHandlers
  /\ Rank(pc) < 12 => \A p \in Paths : m_mapPathHandlers[p] = "none"
  /\ pc \in {"socket", "concurrency"} /\ ~config.given => ~m_allowBuiltInHandlers
  /\ pc = "handlers" =>
       \A p \in Paths : m_mapPathHandlers[p] =
         IF m_allowBuiltInHandlers /\ p \in BuiltInPaths THEN "builtin"
         ELSE IF config.modules[p] = "good" /\ p \notin todo THEN "module"
         ELSE "none"

-----------------------------------------------------------------------------
(* How steps move.                                                         *)

(* The ranks of the places of init, and of those after it.                 *)
LEMMA Ranks ==
  /\ Rank("init") = 0 /\ Rank("port") = 1 /\ Rank("threading") = 2
  /\ Rank("thread_pool_size") = 3 /\ Rank("sockets") = 4
  /\ Rank("socket_send_buffer_size") = 5 /\ Rank("socket_receive_buffer_size") = 6
  /\ Rank("keep_alive") = 7 /\ Rank("keep_alive_timeout") = 8
  /\ Rank("keep_alive_max_requests") = 9 /\ Rank("tls") = 10
  /\ Rank("builtins") = 11 /\ Rank("handlers") = 12 /\ Rank("socket") = 13
  /\ Rank("concurrency") = 14
  /\ \A p \in {"constructed", "serving", "returned", "closing", "stopping", "erasing",
                "unloading", "gone"} : Rank(p) = 15
BY DEF Rank

(* A number is read, and the next thing is set up.                         *)
LEMMA NumberRanks ==
  \A s \in NumberSettings :
    Rank(s) \in 1 .. 9 /\ Rank(After[s]) = Rank(s) + 1 /\ After[s] \notin {"init", "socket"}
<1> TAKE s \in NumberSettings
<1>1. CASE s = "port"
  BY <1>1, Ranks DEF After, NumberSettings
<1>2. CASE s = "thread_pool_size"
  BY <1>2, Ranks DEF After, NumberSettings
<1>3. CASE s = "socket_send_buffer_size"
  BY <1>3, Ranks DEF After, NumberSettings
<1>4. CASE s = "socket_receive_buffer_size"
  BY <1>4, Ranks DEF After, NumberSettings
<1>5. CASE s = "keep_alive_timeout"
  BY <1>5, Ranks DEF After, NumberSettings
<1>6. CASE s = "keep_alive_max_requests"
  BY <1>6, Ranks DEF After, NumberSettings
<1> QED BY <1>1, <1>2, <1>3, <1>4, <1>5, <1>6 DEF NumberSettings

(* A step of init goes on, stays in the loop over the handlers, or gives   *)
(* up; only the last one starts the pool and declares the server ready.    *)
LEMMA InitStepMoves ==
  ASSUME SetupTypeOK, InitStep
  PROVE  /\ Rank(pc) < 15 /\ UNCHANGED config /\ UNCHANGED uses
         /\ \/ SetupConcurrency
            \/ /\ UNCHANGED m_threadPool /\ UNCHANGED m_isFullyInitialized
               /\ \/ Rank(pc') \in (Rank(pc) + 1) .. 14
                  \/ pc = "handlers" /\ pc' = "handlers"
                  \/ pc' = "constructed"
<1> USE Ranks DEF resources, InitFails
<1>1. CASE BeginInit
  BY <1>1 DEF BeginInit
<1>2. CASE ReadNumber
  BY <1>2, NumberRanks DEF ReadNumber
<1>3. CASE NumberThrows
  BY <1>3, NumberRanks DEF NumberThrows
<1>4. CASE SetupThreading \/ SetupSocketHandling \/ SetupKeepAlive
  BY <1>4 DEF SetupThreading, SetupSocketHandling, SetupKeepAlive
<1>5. CASE SetupTls
  BY <1>5 DEF SetupTls
<1>6. CASE AddBuiltInHandlers
  BY <1>6 DEF AddBuiltInHandlers
<1>7. CASE EndHandlers
  BY <1>7 DEF EndHandlers
<1>8. ASSUME NEW p \in Paths, LoadModule(p) \/ SkipModule(p) \/ ModuleThrows(p)
      PROVE  /\ pc = "handlers" /\ UNCHANGED config /\ UNCHANGED uses
             /\ UNCHANGED m_threadPool /\ UNCHANGED m_isFullyInitialized
             /\ pc' \in {"handlers", "constructed"}
  BY <1>8 DEF LoadModule, SkipModule, ModuleThrows
<1>9. CASE SetupServerSocket
  BY <1>9 DEF SetupServerSocket
<1>10. CASE SetupConcurrency
  <2>1. pc = "concurrency" /\ UNCHANGED config /\ UNCHANGED uses
    BY <1>10 DEF SetupConcurrency
  <2> QED BY <1>10, <2>1
<1> QED BY <1>1, <1>2, <1>3, <1>4, <1>5, <1>6, <1>7, <1>8, <1>9, <1>10 DEF InitStep

(* The other steps leave the settings alone and happen after init.         *)
LEMMA OtherStepMoves ==
  ASSUME SetupTypeOK, [SetupNext]_vars, ~InitStep
  PROVE  /\ UNCHANGED config /\ UNCHANGED settings /\ UNCHANGED m_isFullyInitialized
         /\ UNCHANGED todo
         /\ \/ UNCHANGED pc
            \/ Rank(pc) = 15 /\ Rank(pc') = 15
<1> USE Ranks
<1>1. CASE Run \/ RunRefuses \/ StopServing
  BY <1>1 DEF Run, RunRefuses, StopServing, Places
<1>2. CASE DestructorStep
  BY <1>2 DEF DestructorStep, CloseServerSocket, StopPool, PoolStopped, EraseHandlers,
              EraseLibraries
<1>3. ASSUME NEW p \in Paths, AddApplicationHandler(p) \/ RemovePathHandler(p)
      PROVE  /\ UNCHANGED config /\ UNCHANGED settings /\ UNCHANGED m_isFullyInitialized
             /\ UNCHANGED todo /\ UNCHANGED pc
  BY <1>3 DEF AddApplicationHandler, RemovePathHandler
<1>4. ASSUME NEW t \in Threads, ThreadStep(t)
      PROVE  /\ UNCHANGED config /\ UNCHANGED settings /\ UNCHANGED m_isFullyInitialized
             /\ UNCHANGED todo /\ UNCHANGED pc
  BY <1>4, ThreadStepMoves
<1>5. CASE UNCHANGED vars
  BY <1>5 DEF vars
<1> QED BY <1>1, <1>2, <1>3, <1>4, <1>5, Zenon DEF SetupNext

-----------------------------------------------------------------------------
(* Every part of the invariant is kept by every step.                      *)

LEMMA LifeStep ==
  ASSUME SetupTypeOK, LifeInv, [SetupNext]_vars
  PROVE  LifeInv'
<1> USE Ranks DEF LifeInv
<1>1. CASE InitStep
  <2>1. CASE SetupConcurrency
    BY <2>1 DEF SetupConcurrency
  <2>2. CASE ~SetupConcurrency
    <3>1. /\ UNCHANGED m_threadPool /\ UNCHANGED m_isFullyInitialized /\ UNCHANGED uses
          /\ Rank(pc) < 15
          /\ Rank(pc') < 15 \/ pc' = "constructed"
      BY <1>1, <2>2, InitStepMoves
    <3> HIDE DEF InitStep
    <3> QED BY <3>1
  <2> QED BY <2>1, <2>2
<1>2. CASE Run \/ RunRefuses \/ StopServing
  BY <1>2 DEF Run, RunRefuses, StopServing, resources
<1>3. CASE CloseServerSocket
  BY <1>3 DEF CloseServerSocket
<1>4. CASE StopPool
  BY <1>4 DEF StopPool
<1>5. CASE PoolStopped
  BY <1>5 DEF PoolStopped
<1>6. CASE EraseHandlers \/ EraseLibraries
  BY <1>6 DEF EraseHandlers, EraseLibraries, resources
<1>7. ASSUME NEW p \in Paths, AddApplicationHandler(p) \/ RemovePathHandler(p)
      PROVE  LifeInv'
  BY <1>7 DEF AddApplicationHandler, RemovePathHandler, resources
<1>8. ASSUME NEW t \in Threads, ThreadStep(t) PROVE LifeInv'
  <2>1. /\ UNCHANGED pc /\ UNCHANGED m_threadPool /\ UNCHANGED m_isFullyInitialized
        /\ UNCHANGED m_mapPathHandlers
    BY <1>8, ThreadStepMoves DEF resources, registry
  <2>2. CASE BeginSession(t)
    <3>1. pc \in {"serving", "returned", "closing"}
      BY <2>2, NumberRanks DEF BeginSession, CanStart, SetupTypeOK, Places
    <3> QED BY <2>1, <3>1
  <2>3. CASE ~BeginSession(t)
    <3>1. \A u \in Threads : uses'[u] # Idle => uses[u] # Idle
      BY <1>8, <2>3, SetupAssumption
         DEF ThreadStep, StartRequest, FinishRequest, EndSession, SetupTypeOK
    <3> QED BY <2>1, <3>1
  <2> QED BY <2>2, <2>3
<1>9. CASE UNCHANGED vars
  BY <1>9 DEF vars, resources, registry
<1> QED BY <1>1, <1>2, <1>3, <1>4, <1>5, <1>6, <1>7, <1>8, <1>9
       DEF SetupNext, DestructorStep

LEMMA UsableStep ==
  ASSUME SetupTypeOK, LifeInv, HandlersUsable, [SetupNext]_vars
  PROVE  HandlersUsable'
<1> USE Ranks DEF HandlersUsable
<1>1. CASE InitStep
  <2>1. \A t \in Threads : uses[t] = Idle /\ uses'[t] = Idle
    <3>1. Rank(pc) < 15 /\ UNCHANGED uses
      BY <1>1, InitStepMoves
    <3> QED BY <3>1 DEF LifeInv
  <2>2. \/ UNCHANGED registry
        \/ AddBuiltInHandlers
        \/ \E p \in Paths : LoadModule(p)
    BY <1>1 DEF InitStep, BeginInit, ReadNumber, NumberThrows, SetupThreading,
       SetupSocketHandling, SetupKeepAlive, SetupTls, EndHandlers, SkipModule,
       ModuleThrows, SetupServerSocket, SetupConcurrency
  <2>3. CASE UNCHANGED registry
    BY <2>1, <2>3 DEF registry
  <2>4. CASE AddBuiltInHandlers
    BY <2>1, <2>4 DEF AddBuiltInHandlers, AddPathHandlers
  <2>5. ASSUME NEW p \in Paths, LoadModule(p) PROVE HandlersUsable'
    BY <2>1, <2>5 DEF LoadModule, AddPathHandlers
  <2> QED BY <2>2, <2>3, <2>4, <2>5
<1>2. ASSUME UNCHANGED registry, UNCHANGED uses PROVE HandlersUsable'
  BY <1>2 DEF registry
<1>3. CASE Run \/ RunRefuses \/ StopServing \/ CloseServerSocket \/ StopPool \/ PoolStopped
  BY <1>2, <1>3 DEF Run, RunRefuses, StopServing, CloseServerSocket, StopPool, PoolStopped
<1>4. CASE EraseHandlers \/ EraseLibraries
  BY <1>4 DEF EraseHandlers, EraseLibraries, LifeInv
<1>5. ASSUME NEW p \in Paths, AddApplicationHandler(p) \/ RemovePathHandler(p)
      PROVE  HandlersUsable'
  <2>1. \A t \in Threads : uses'[t] = Idle
    BY <1>5 DEF AddApplicationHandler, RemovePathHandler, LifeInv
  <2>2. /\ UNCHANGED m_mapPathLibraries
        /\ \A q \in Paths :
             m_mapPathHandlers'[q] \in {m_mapPathHandlers[q], "none", "application"}
    BY <1>5 DEF AddApplicationHandler, RemovePathHandler, AddPathHandlers, SetupTypeOK,
       RegistryTyped
  <2> QED BY <2>1, <2>2
<1>6. ASSUME NEW t \in Threads, ThreadStep(t) PROVE HandlersUsable'
  <2>1. UNCHANGED m_mapPathHandlers /\ UNCHANGED m_mapPathLibraries
    BY <1>6, ThreadStepMoves DEF registry
  <2>2. ASSUME NEW u \in Threads, uses'[u] \notin {Idle, NoHandler}
        PROVE  m_mapPathHandlers[uses'[u].path] = uses'[u].origin
    BY <1>6, <2>2 DEF ThreadStep, BeginSession, StartRequest, FinishRequest, EndSession,
       SetupTypeOK
  <2> QED BY <2>1, <2>2
<1>7. CASE UNCHANGED vars
  BY <1>2, <1>7 DEF vars
<1> QED BY <1>1, <1>3, <1>4, <1>5, <1>6, <1>7 DEF SetupNext, DestructorStep

(* Handlers are there for as long as they are registered, and registered   *)
(* for as long as a thread answers with them.                              *)
THEOREM HandlersStayUsable == SetupSpec => []HandlersUsable
<1>1. SetupInit => LifeInv /\ HandlersUsable
  BY Ranks DEF SetupInit, LifeInv, HandlersUsable
<1>2. SetupTypeOK /\ LifeInv /\ HandlersUsable /\ [SetupNext]_vars => (LifeInv /\ HandlersUsable)'
  BY LifeStep, UsableStep
<1> QED BY <1>1, <1>2, SetupTypeCorrect, PTL DEF SetupSpec

-----------------------------------------------------------------------------
(* Registered handlers stay.                                               *)

LEMMA RegistrationStep ==
  ASSUME SetupTypeOK, LifeInv, SetupNext, NEW p \in Paths,
         m_mapPathHandlers[p] # "none", m_mapPathHandlers'[p] # m_mapPathHandlers[p]
  PROVE  /\ m_mapPathHandlers'[p] = "none"
         /\ \A t \in Threads : ~CanStart(t) /\ uses[t] = Idle
<1>1. RemovePathHandler(p) \/ EraseHandlers
  <2>1. CASE InitStep
    BY <2>1 DEF InitStep, BeginInit, ReadNumber, NumberThrows, SetupThreading,
       SetupSocketHandling, SetupKeepAlive, SetupTls, AddBuiltInHandlers, EndHandlers,
       LoadModule, SkipModule, ModuleThrows, SetupServerSocket, SetupConcurrency,
       AddPathHandlers, registry
  <2>2. CASE Run \/ RunRefuses \/ StopServing \/ CloseServerSocket \/ StopPool \/ PoolStopped
             \/ EraseLibraries
    BY <2>2 DEF Run, RunRefuses, StopServing, CloseServerSocket, StopPool, PoolStopped,
       EraseLibraries, registry
  <2>3. ASSUME NEW q \in Paths, AddApplicationHandler(q) PROVE FALSE
    BY <2>3 DEF AddApplicationHandler, AddPathHandlers
  <2>4. ASSUME NEW q \in Paths, RemovePathHandler(q) PROVE q = p
    BY <2>4 DEF RemovePathHandler, SetupTypeOK, RegistryTyped
  <2>5. ASSUME NEW t \in Threads, ThreadStep(t) PROVE FALSE
    BY <2>5, ThreadStepMoves DEF registry
  <2> QED BY <2>1, <2>2, <2>3, <2>4, <2>5 DEF SetupNext, DestructorStep
<1>2. CASE RemovePathHandler(p)
  BY <1>2 DEF RemovePathHandler, LifeInv, CanStart, SetupTypeOK, RegistryTyped
<1>3. CASE EraseHandlers
  BY <1>3 DEF EraseHandlers, LifeInv, CanStart
<1> QED BY <1>1, <1>2, <1>3

(* A handler that is registered is never replaced, and never destroyed     *)
(* while a session runs, which might have it or look it up, or can begin.  *)
THEOREM RegisteredHandlersStay == SetupSpec => RegistrationStays
<1> DEFINE Stays == \A p \in Paths :
      m_mapPathHandlers[p] # "none" /\ m_mapPathHandlers'[p] # m_mapPathHandlers[p] =>
        /\ m_mapPathHandlers'[p] = "none"
        /\ \A t \in Threads : ~CanStart(t) /\ uses[t] = Idle
<1>1. SetupInit => LifeInv
  BY Ranks DEF SetupInit, LifeInv
<1>2. SetupTypeOK /\ LifeInv /\ [SetupNext]_vars => LifeInv'
  BY LifeStep
<1>3. SetupTypeOK /\ LifeInv /\ [SetupNext]_vars => [Stays]_vars
  BY RegistrationStep
<1> QED BY <1>1, <1>2, <1>3, SetupTypeCorrect, PTL DEF SetupSpec, RegistrationStays

-----------------------------------------------------------------------------
(* The settings.                                                           *)

(* A step that changes only one kind of setting leaves the others right:   *)
(* the parts of the invariant, each for itself.                            *)
SwitchesInv ==
  /\ m_isThreaded <=> ~(Rank(pc) > 2 /\ Configured /\ config.threading = "none")
  /\ m_isUsingKernelEventServer <=> (Rank(pc) > 4 /\ Configured /\ config.kernel)
  /\ m_keepAliveEnabled <=> (Rank(pc) > 7 /\ Configured /\ config.keepAlive)
  /\ m_tlsEnabled <=> (Rank(pc) > 10 /\ Configured /\ config.tls # "off")
  /\ m_tlsContext <=> m_tlsEnabled

NumbersInv ==
  \A s \in NumberSettings :
    m_number[s] = IF s = "thread_pool_size" /\ m_isFullyInitialized /\ ~m_isThreaded
                  THEN 1 ELSE IF Rank(s) < Rank(pc) THEN Asked(s) ELSE Default[s]

LEMMA SettingsParts ==
  SettingsInv <=>
    /\ Rank(pc) \in 1 .. 10 => Configured
    /\ Rank(pc) \in 1 .. 14 => (config.given => config.readable)
    /\ (Rank(pc) < 15 \/ m_isFullyInitialized) => SwitchesInv /\ NumbersInv
BY DEF SettingsInv, SwitchesInv, NumbersInv

(* Where a step of init leads.                                             *)
LEMMA ReadStep ==
  ASSUME SetupTypeOK, LifeInv, SettingsInv, InitStep
  PROVE  \/ /\ pc' = "constructed" /\ ~m_isFullyInitialized'
            /\ UNCHANGED config
         \/ SettingsInv'
<1> USE Ranks
<1> DEFINE Here == Rank(pc) < 15 /\ ~m_isFullyInitialized /\ SwitchesInv /\ NumbersInv
           Kept == /\ UNCHANGED m_isThreaded /\ UNCHANGED m_isUsingKernelEventServer
                   /\ UNCHANGED m_keepAliveEnabled /\ UNCHANGED m_tlsEnabled
                   /\ UNCHANGED m_tlsContext
           Same == UNCHANGED config /\ UNCHANGED m_isFullyInitialized
<1>1. Here
  BY InitStepMoves, SettingsParts DEF LifeInv
<1>2. (Rank(pc) \in 1 .. 10 => Configured)
      /\ (Rank(pc) \in 1 .. 14 => (config.given => config.readable))
  BY SettingsParts
<1> DEFINE Known == /\ Rank(pc') \in 1 .. 10 => config.given /\ config.server
                    /\ Rank(pc') \in 1 .. 14 => (config.given => config.readable)
<1>3. Same /\ Known /\ SwitchesInv' /\ NumbersInv' => SettingsInv'
  BY DEF SettingsInv, SwitchesInv, NumbersInv, Configured
<1>4. CASE BeginInit
  <2>1. pc = "init" /\ Kept /\ Same /\ UNCHANGED m_number
    BY <1>4 DEF BeginInit, settings
  <2>2. CASE pc' = "constructed"
    BY <1>1, <2>1, <2>2
  <2>3. CASE ~config.given /\ pc' = "socket"
    <3>1. SwitchesInv'
      BY <1>1, <2>1, <2>3 DEF SwitchesInv, Configured
    <3>2. NumbersInv'
      BY <1>1, <2>1, <2>3, NumberRanks DEF NumbersInv, Configured, Asked
    <3> QED BY <1>3, <2>1, <2>3, <3>1, <3>2
  <2>4. CASE /\ config.given /\ config.readable
             /\ pc' = IF config.server THEN "port" ELSE "builtins"
    <3>1. SwitchesInv'
      BY <1>1, <2>1, <2>4 DEF SwitchesInv, Configured
    <3>2. NumbersInv'
      BY <1>1, <2>1, <2>4, NumberRanks DEF NumbersInv, Configured, Asked
    <3>3. Known
      BY <2>4
    <3> HIDE DEF Known
    <3> QED BY <1>3, <2>1, <3>1, <3>2, <3>3
  <2> QED BY <1>4, <2>2, <2>3, <2>4 DEF BeginInit, InitFails
<1>5. CASE ReadNumber
  <2>1. /\ pc \in NumberSettings /\ Kept /\ Same
        /\ pc' = After[pc]
        /\ m_number' = IF config.number[pc].kind = "number" /\ config.number[pc].value > 0
                       THEN [m_number EXCEPT ![pc] = config.number[pc].value] ELSE m_number
    BY <1>5 DEF ReadNumber
  <2>2. Rank(pc) \in 1 .. 9 /\ Rank(pc') = Rank(pc) + 1 /\ Configured
    BY <1>2, <2>1, NumberRanks
  <2>3. \A n \in {2, 4, 7, 10} : n < Rank(pc') <=> n < Rank(pc)
    <3>1. pc \notin {"threading", "sockets", "keep_alive", "tls"}
      BY <2>1 DEF NumberSettings
    <3>2. Rank(pc) \notin {2, 4, 7, 10}
      BY <2>1 DEF NumberSettings
    <3> QED BY <2>2, <3>2
  <2>4. SwitchesInv'
    BY <1>1, <2>1, <2>3 DEF SwitchesInv, Configured
  <2>5. NumbersInv'
    <3> SUFFICES ASSUME NEW s \in NumberSettings
                 PROVE  m_number'[s] = IF Rank(s) < Rank(pc') THEN Asked(s) ELSE Default[s]
      BY <1>1, <2>1 DEF NumbersInv, Asked, Configured
    <3>1. m_number[s] = IF Rank(s) < Rank(pc) THEN Asked(s) ELSE Default[s]
      BY <1>1 DEF NumbersInv
    <3>2. m_number \in [NumberSettings -> Int]
      BY DEF SetupTypeOK, SettingsTyped
    <3>3. CASE s = pc
      <4>1. m_number'[s] = Asked(s)
        BY <2>1, <2>2, <3>1, <3>2, <3>3 DEF Asked
      <4> QED BY <2>2, <3>3, <4>1
    <3>4. CASE s # pc
      <4>1. m_number'[s] = m_number[s]
        BY <2>1, <3>2, <3>4
      <4>2. Rank(s) \in Int /\ Rank(s) # Rank(pc)
        BY <2>1, <3>4 DEF NumberSettings
      <4> QED BY <2>2, <3>1, <4>1, <4>2
    <3> QED BY <3>3, <3>4
  <2>6. Known
    BY <1>2, <2>2 DEF Configured
  <2> HIDE DEF Known
  <2> QED BY <1>3, <2>1, <2>4, <2>5, <2>6
<1>6. CASE NumberThrows
  BY <1>1, <1>6 DEF NumberThrows, InitFails
<1>7. CASE SetupThreading
  <2>0. /\ pc = "threading" /\ pc' = "thread_pool_size" /\ Same
        /\ UNCHANGED m_isUsingKernelEventServer /\ UNCHANGED m_keepAliveEnabled
        /\ UNCHANGED m_tlsEnabled /\ UNCHANGED m_tlsContext
        /\ m_isThreaded' <=> config.threading # "none"
    BY <1>7, Zenon DEF SetupThreading
  <2>1. Configured
    BY <1>2, <2>0
  <2>2. m_number' = m_number
    <3>1. m_number' = [m_number EXCEPT !["thread_pool_size"] = Default["thread_pool_size"]]
      BY <1>7 DEF SetupThreading
    <3>2. m_number["thread_pool_size"] = Default["thread_pool_size"]
      BY <1>1, <2>0, <2>1 DEF NumbersInv, NumberSettings
    <3> QED BY <3>1, <3>2 DEF SetupTypeOK, SettingsTyped
  <2>3. SwitchesInv'
    BY <1>1, <2>0, <2>1 DEF SwitchesInv, Configured
  <2>4. NumbersInv'
    BY <1>1, <2>0, <2>1, <2>2 DEF NumbersInv, NumberSettings, Asked, Configured
  <2>5. Known
    BY <1>2, <2>0, <2>1 DEF Configured
  <2> HIDE DEF Known
  <2> QED BY <1>3, <2>0, <2>1, <2>3, <2>4, <2>5
<1>8. CASE SetupSocketHandling \/ SetupKeepAlive
  <2>0. /\ Same /\ UNCHANGED m_number /\ UNCHANGED m_isThreaded
        /\ UNCHANGED m_tlsEnabled /\ UNCHANGED m_tlsContext
        /\ \/ /\ pc = "sockets" /\ pc' = "socket_send_buffer_size"
              /\ UNCHANGED m_keepAliveEnabled
              /\ m_isUsingKernelEventServer' <=> m_isUsingKernelEventServer \/ config.kernel
           \/ /\ pc = "keep_alive" /\ pc' = "keep_alive_timeout"
              /\ UNCHANGED m_isUsingKernelEventServer
              /\ m_keepAliveEnabled' <=> config.keepAlive
    BY <1>8, Zenon DEF SetupSocketHandling, SetupKeepAlive
  <2>1. Configured
    BY <1>2, <2>0
  <2>2. SwitchesInv'
    BY <1>1, <2>0, <2>1 DEF SwitchesInv, Configured
  <2>3. NumbersInv'
    BY <1>1, <2>0, <2>1 DEF NumbersInv, NumberSettings, Asked, Configured
  <2>4. Known
    BY <1>2, <2>0, <2>1 DEF Configured
  <2> HIDE DEF Known
  <2> QED BY <1>3, <2>0, <2>1, <2>2, <2>3, <2>4
<1>9. CASE SetupTls
  <2>1. CASE pc' = "constructed"
    BY <1>1, <1>9, <2>1 DEF SetupTls
  <2>2. CASE pc' = "builtins"
    <3>0. /\ pc = "tls" /\ Same /\ UNCHANGED m_number
          /\ UNCHANGED m_isThreaded /\ UNCHANGED m_isUsingKernelEventServer
          /\ UNCHANGED m_keepAliveEnabled
          /\ m_tlsEnabled' <=> config.tls # "off"
      BY <1>9, Zenon DEF SetupTls
    <3>1. Configured
      BY <1>2, <3>0
    <3>2. m_tlsContext' <=> m_tlsEnabled'
      BY <1>9, <2>2, ConfigTyped DEF SetupTls, InitFails, ConfigType
    <3>3. SwitchesInv'
      BY <1>1, <2>2, <3>0, <3>1, <3>2 DEF SwitchesInv, Configured
    <3>4. NumbersInv'
      BY <1>1, <2>2, <3>0, <3>1, NumberRanks DEF NumbersInv, Asked, Configured
    <3>5. Known
      BY <1>2, <2>2, <3>0, <3>1 DEF Configured
    <3> HIDE DEF Known
    <3> QED BY <1>3, <3>0, <3>1, <3>3, <3>4, <3>5
  <2> QED BY <1>9, <2>1, <2>2 DEF SetupTls, InitFails
<1>10. ASSUME Same, UNCHANGED settings, Rank(pc) \in 11 .. 13, Rank(pc') \in 11 .. 14
       PROVE  SettingsInv'
  <2>1. Kept /\ UNCHANGED m_number
    BY <1>10 DEF settings
  <2>2. SwitchesInv'
    BY <1>1, <1>10, <2>1 DEF SwitchesInv, Configured
  <2>3. NumbersInv'
    BY <1>1, <1>10, <2>1, NumberRanks DEF NumbersInv, Asked, Configured
  <2>4. Known
    BY <1>2, <1>10
  <2> HIDE DEF Known
  <2> QED BY <1>3, <1>10, <2>2, <2>3, <2>4
<1>11. CASE AddBuiltInHandlers \/ EndHandlers \/ SetupServerSocket
  <2>1. /\ Same /\ UNCHANGED settings /\ Rank(pc) \in 11 .. 13
        /\ Rank(pc') \in 12 .. 14 \/ pc' = "constructed"
    BY <1>11 DEF AddBuiltInHandlers, EndHandlers, SetupServerSocket, InitFails
  <2> QED BY <1>1, <1>10, <2>1
<1>12. ASSUME NEW p \in Paths, LoadModule(p) \/ SkipModule(p) \/ ModuleThrows(p)
       PROVE  \/ pc' = "constructed" /\ ~m_isFullyInitialized' /\ UNCHANGED config
              \/ SettingsInv'
  <2>1. /\ Same /\ UNCHANGED settings /\ pc = "handlers"
        /\ pc' = "handlers" \/ pc' = "constructed"
    BY <1>12 DEF LoadModule, SkipModule, ModuleThrows, InitFails
  <2> QED BY <1>1, <1>10, <2>1
<1>13. CASE SetupConcurrency
  <2>1. /\ pc = "concurrency" /\ pc' = "constructed" /\ UNCHANGED config
        /\ m_isFullyInitialized' /\ Kept
        /\ \/ m_isThreaded /\ UNCHANGED m_number
           \/ ~m_isThreaded /\ m_number' = [m_number EXCEPT !["thread_pool_size"] = 1]
    BY <1>13 DEF SetupConcurrency
  <2>2. SwitchesInv'
    BY <1>1, <2>1 DEF SwitchesInv, Configured
  <2>3. NumbersInv'
    <3> SUFFICES ASSUME NEW s \in NumberSettings
                 PROVE  m_number'[s] = IF s = "thread_pool_size" /\ ~m_isThreaded
                                       THEN 1 ELSE Asked(s)
      BY <2>1, NumberRanks DEF NumbersInv, Asked, Configured
    <3>1. m_number[s] = Asked(s)
      BY <1>1, <2>1, NumberRanks DEF NumbersInv
    <3>2. m_number \in [NumberSettings -> Int]
      BY DEF SetupTypeOK, SettingsTyped
    <3> QED BY <2>1, <3>1, <3>2
  <2>4. ~(Rank(pc') \in 1 .. 14)
    BY <2>1
  <2> QED BY <2>2, <2>3, <2>4 DEF SettingsInv, SwitchesInv, NumbersInv
<1> QED BY <1>4, <1>5, <1>6, <1>7, <1>8, <1>9, <1>11, <1>12, <1>13 DEF InitStep

LEMMA SettingsStep ==
  ASSUME SetupTypeOK, LifeInv, SettingsInv, [SetupNext]_vars
  PROVE  SettingsInv'
<1> USE Ranks
<1>1. CASE InitStep
  <2>1. CASE pc' = "constructed" /\ ~m_isFullyInitialized'
    BY <2>1 DEF SettingsInv
  <2> QED BY <1>1, <2>1, ReadStep
<1>2. CASE ~InitStep
  <2>1. /\ UNCHANGED config /\ UNCHANGED settings /\ UNCHANGED m_isFullyInitialized
        /\ UNCHANGED pc \/ (Rank(pc) = 15 /\ Rank(pc') = 15)
    BY <1>2, OtherStepMoves
  <2>2. Rank(pc') = Rank(pc)
    BY <2>1
  <2>3. /\ UNCHANGED m_isThreaded /\ UNCHANGED m_isUsingKernelEventServer
        /\ UNCHANGED m_tlsEnabled /\ UNCHANGED m_tlsContext
        /\ UNCHANGED m_keepAliveEnabled /\ UNCHANGED m_number
    BY <2>1 DEF settings
  <2> QED BY <2>1, <2>2, <2>3 DEF SettingsInv, Configured, Asked
<1> QED BY <1>1, <1>2

LEMMA ResourcesStep ==
  ASSUME SetupTypeOK, LifeInv, SettingsInv, ResourcesInv, [SetupNext]_vars
  PROVE  ResourcesInv'
<1> USE Ranks
<1>1. CASE SetupServerSocket
  <2>1. /\ pc = "socket" /\ UNCHANGED m_isUsingKernelEventServer
        /\ UNCHANGED m_isFullyInitialized /\ UNCHANGED m_isThreaded /\ UNCHANGED m_threading
    BY <1>1 DEF SetupServerSocket, settings
  <2>2. ~m_isFullyInitialized /\ m_serverSocket = "none"
    BY <2>1 DEF LifeInv, ResourcesInv
  <2>3. CASE pc' = "constructed"
    BY <2>1, <2>2, <2>3 DEF ResourcesInv
  <2>4. CASE pc' = "concurrency"
    <3>1. m_serverSocket' = IF m_isUsingKernelEventServer THEN "none" ELSE "open"
      BY <1>1, <2>2, <2>4 DEF SetupServerSocket, InitFails
    <3> QED BY <2>1, <2>4, <3>1 DEF ResourcesInv
  <2> QED BY <1>1, <2>3, <2>4 DEF SetupServerSocket, InitFails
<1>2. CASE SetupConcurrency
  <2>1. /\ pc = "concurrency" /\ pc' = "constructed" /\ UNCHANGED config
        /\ UNCHANGED m_isUsingKernelEventServer /\ UNCHANGED m_serverSocket
        /\ UNCHANGED m_isThreaded
    BY <1>2, Zenon DEF SetupConcurrency
  <2>2. m_threadPool' = IF m_isThreaded THEN "started" ELSE "none"
    BY <1>2, <2>1 DEF SetupConcurrency, LifeInv
  <2>3. m_threading' # "gcd_libdispatch"
    <3>1. CASE m_isThreaded
      BY <1>2, <3>1 DEF SetupConcurrency
    <3>2. CASE ~m_isThreaded
      BY <1>2, <3>2 DEF SetupConcurrency, ResourcesInv
    <3> QED BY <3>1, <3>2
  <2>4. config.given => config.readable
    BY <2>1 DEF SettingsInv
  <2>5. m_serverSocket = IF m_isUsingKernelEventServer THEN "none" ELSE "open"
    BY <2>1 DEF ResourcesInv
  <2> QED BY <2>1, <2>2, <2>3, <2>4, <2>5 DEF ResourcesInv
<1>3. CASE InitStep /\ ~SetupServerSocket /\ ~SetupConcurrency
  <2>1. /\ ~m_isFullyInitialized' /\ UNCHANGED m_serverSocket
        /\ Rank(pc') < 14 \/ pc' = "constructed"
        /\ Rank(pc) < 14
    <3>1. ~m_isFullyInitialized'
      BY <1>3, InitStepMoves DEF LifeInv
    <3>2. UNCHANGED m_serverSocket
      BY <1>3 DEF InitStep, BeginInit, ReadNumber, NumberThrows, SetupThreading,
         SetupSocketHandling, SetupKeepAlive, SetupTls, AddBuiltInHandlers, EndHandlers,
         LoadModule, SkipModule, ModuleThrows, resources
    <3>3. ASSUME ReadNumber PROVE Rank(pc) < 14 /\ Rank(pc') < 14
      BY <3>3, NumberRanks DEF ReadNumber
    <3>4. ASSUME NumberThrows PROVE Rank(pc) < 14 /\ pc' = "constructed"
      BY <3>4, NumberRanks DEF NumberThrows, InitFails
    <3>5. ASSUME BeginInit \/ SetupThreading \/ SetupSocketHandling \/ SetupKeepAlive
                 \/ SetupTls \/ AddBuiltInHandlers \/ EndHandlers
          PROVE  Rank(pc) < 14 /\ (Rank(pc') < 14 \/ pc' = "constructed")
      BY <3>5 DEF BeginInit, SetupThreading, SetupSocketHandling, SetupKeepAlive, SetupTls,
         AddBuiltInHandlers, EndHandlers, InitFails
    <3>6. ASSUME NEW p \in Paths, LoadModule(p) \/ SkipModule(p) \/ ModuleThrows(p)
          PROVE  Rank(pc) < 14 /\ (Rank(pc') < 14 \/ pc' = "constructed")
      BY <3>6 DEF LoadModule, SkipModule, ModuleThrows, InitFails
    <3> QED BY <1>3, <3>1, <3>2, <3>3, <3>4, <3>5, <3>6 DEF InitStep
  <2>2. (~m_isThreaded => m_threading # "gcd_libdispatch")'
    <3>1. CASE SetupThreading
      BY <3>1 DEF SetupThreading
    <3>2. CASE ~SetupThreading
      <4>1. UNCHANGED m_isThreaded /\ UNCHANGED m_threading
        BY <1>3, <3>2 DEF InitStep, BeginInit, ReadNumber, NumberThrows,
           SetupSocketHandling, SetupKeepAlive, SetupTls, AddBuiltInHandlers, EndHandlers,
           LoadModule, SkipModule, ModuleThrows, settings
      <4> QED BY <4>1 DEF ResourcesInv
    <3> QED BY <3>1, <3>2
  <2> QED BY <2>1, <2>2 DEF ResourcesInv
<1>4. CASE Run
  <2>1. pc = "constructed" /\ pc' = "serving" /\ MayRun /\ UNCHANGED config
    BY <1>4, Zenon DEF Run
  <2>2. /\ UNCHANGED m_isFullyInitialized /\ UNCHANGED m_isUsingKernelEventServer
        /\ UNCHANGED m_isThreaded /\ UNCHANGED m_threading
        /\ UNCHANGED m_serverSocket /\ UNCHANGED m_threadPool
    BY <1>4 DEF Run, settings, resources
  <2> QED BY <2>1, <2>2 DEF ResourcesInv, MayRun
<1>5. CASE RunRefuses \/ StopServing \/ DestructorStep
  <2>1. pc' \notin {"concurrency", "constructed", "serving"} /\ Rank(pc') = 15
    BY <1>5 DEF RunRefuses, StopServing, DestructorStep, CloseServerSocket, StopPool,
       PoolStopped, EraseHandlers, EraseLibraries
  <2>2. UNCHANGED m_isThreaded /\ UNCHANGED m_threading
    BY <1>5 DEF RunRefuses, StopServing, DestructorStep, CloseServerSocket, StopPool,
       PoolStopped, EraseHandlers, EraseLibraries, settings
  <2> QED BY <2>1, <2>2 DEF ResourcesInv
<1>6. ASSUME UNCHANGED pc, UNCHANGED config, UNCHANGED settings, UNCHANGED resources,
             UNCHANGED m_isFullyInitialized
      PROVE  ResourcesInv'
  BY <1>6 DEF ResourcesInv, MayRun, settings, resources
<1>7. ASSUME NEW p \in Paths, AddApplicationHandler(p) \/ RemovePathHandler(p)
      PROVE  ResourcesInv'
  BY <1>6, <1>7 DEF AddApplicationHandler, RemovePathHandler
<1>8. ASSUME NEW t \in Threads, ThreadStep(t)
      PROVE  ResourcesInv'
  BY <1>6, <1>8, ThreadStepMoves
<1>9. CASE UNCHANGED vars
  BY <1>6, <1>9 DEF vars
<1> QED BY <1>1, <1>2, <1>3, <1>4, <1>5, <1>7, <1>8, <1>9 DEF SetupNext

(* A server that serves is the one its configuration describes: for every  *)
(* file, whatever fails, and whatever handlers the owner registers.        *)
THEOREM ServerAsConfigured == SetupSpec => []ServesAsConfigured
<1> DEFINE Inv == LifeInv /\ SettingsInv /\ ResourcesInv
<1>1. SetupInit => Inv
  <2> SUFFICES ASSUME SetupInit PROVE Inv
    OBVIOUS
  <2>1. /\ pc = "init" /\ m_number = Default /\ m_isThreaded /\ ~m_isFullyInitialized
        /\ ~m_isUsingKernelEventServer /\ ~m_tlsEnabled /\ ~m_tlsContext
        /\ ~m_keepAliveEnabled
    BY DEF SetupInit
  <2>2. LifeInv /\ ResourcesInv
    BY Ranks DEF SetupInit, LifeInv, ResourcesInv
  <2>3. \A s \in NumberSettings : m_number[s] = Default[s] /\ ~(Rank(s) < Rank(pc))
    BY <2>1, Ranks, NumberRanks
  <2>4. SettingsInv
    BY <2>1, <2>3, Ranks DEF SettingsInv
  <2> QED BY <2>2, <2>4
<1>2. SetupTypeOK /\ Inv /\ [SetupNext]_vars => Inv'
  BY LifeStep, SettingsStep, ResourcesStep
<1>3. SetupTypeOK /\ Inv => ServesAsConfigured
  <2> SUFFICES ASSUME SetupTypeOK, Inv, pc = "serving" PROVE ServesAsConfigured
    BY DEF ServesAsConfigured
  <2>1. Rank(pc) = 15 /\ m_isFullyInitialized
    BY Ranks DEF ResourcesInv, MayRun
  <2>2. \A s \in NumberSettings : Rank(s) < Rank(pc)
    BY <2>1, NumberRanks
  <2>3. \A s \in NumberSettings :
          m_number[s] = IF s = "thread_pool_size" /\ ~m_isThreaded THEN 1 ELSE Asked(s)
    BY <2>1, <2>2 DEF SettingsInv
  <2>4. \A s \in NumberSettings : Asked(s) > 0
    BY DefaultPositive DEF Asked
  <2>5. \A s \in NumberSettings : m_number[s] > 0
    BY <2>3, <2>4
  <2>6. /\ m_isThreaded <=> ~(Configured /\ config.threading = "none")
        /\ m_isUsingKernelEventServer <=> (Configured /\ config.kernel)
        /\ m_keepAliveEnabled <=> (Configured /\ config.keepAlive)
        /\ m_tlsEnabled <=> (Configured /\ config.tls # "off")
        /\ m_tlsContext <=> m_tlsEnabled
    BY <2>1 DEF SettingsInv
  <2>7. /\ config.given => config.readable
        /\ m_serverSocket = IF m_isUsingKernelEventServer THEN "none" ELSE "open"
        /\ m_threadPool = IF m_isThreaded THEN "started" ELSE "none"
        /\ m_threading # "gcd_libdispatch"
        /\ MayRun
    BY <2>1 DEF ResourcesInv
  <2>8. m_isUsingKernelEventServer => m_isThreaded
    BY <2>7 DEF MayRun
  <2> QED BY <2>1, <2>3, <2>5, <2>6, <2>7, <2>8 DEF ServesAsConfigured
<1> QED BY <1>1, <1>2, <1>3, SetupTypeCorrect, PTL DEF SetupSpec

-----------------------------------------------------------------------------
(* The handlers.                                                           *)

LEMMA HandlersStep ==
  ASSUME SetupTypeOK, HandlersInv, HandlersAsConfigured, [SetupNext]_vars
  PROVE  HandlersInv' /\ HandlersAsConfigured'
<1> USE Ranks
<1>1. ASSUME Rank(pc') = 15 PROVE HandlersInv' /\ HandlersAsConfigured'
  BY <1>1 DEF HandlersInv, HandlersAsConfigured
<1>2. ASSUME UNCHANGED config, UNCHANGED registry, UNCHANGED m_allowBuiltInHandlers,
             UNCHANGED todo, UNCHANGED pc
      PROVE  HandlersInv' /\ HandlersAsConfigured'
  BY <1>2 DEF HandlersInv, HandlersAsConfigured, registry
<1>3. CASE BeginInit
  <2>1. /\ pc = "init" /\ UNCHANGED config /\ UNCHANGED m_mapPathHandlers
        /\ UNCHANGED m_allowBuiltInHandlers
        /\ \/ ~config.given /\ pc' = "socket"
           \/ config.given /\ pc' \in {"port", "builtins", "constructed"}
    BY <1>3 DEF BeginInit, settings, registry, InitFails
  <2> QED BY <1>1, <2>1 DEF HandlersInv, HandlersAsConfigured
<1>4. CASE \/ ReadNumber \/ NumberThrows \/ SetupThreading \/ SetupSocketHandling
           \/ SetupKeepAlive
  <2>1. /\ UNCHANGED config /\ UNCHANGED m_mapPathHandlers
        /\ UNCHANGED m_allowBuiltInHandlers
    BY <1>4 DEF ReadNumber, NumberThrows, SetupThreading, SetupSocketHandling,
       SetupKeepAlive, settings, registry
  <2>2. /\ Rank(pc) \in 1 .. 9
        /\ pc' = "constructed" \/ (Rank(pc') \in 2 .. 10)
    <3>1. CASE ReadNumber
      BY <3>1, NumberRanks DEF ReadNumber
    <3>2. CASE NumberThrows
      BY <3>2, NumberRanks DEF NumberThrows, InitFails
    <3>3. CASE SetupThreading \/ SetupSocketHandling \/ SetupKeepAlive
      BY <3>3 DEF SetupThreading, SetupSocketHandling, SetupKeepAlive
    <3> QED BY <1>4, <3>1, <3>2, <3>3
  <2>3. CASE Rank(pc') \in 2 .. 10
    BY <2>1, <2>2, <2>3 DEF HandlersInv, HandlersAsConfigured
  <2> QED BY <1>1, <2>2, <2>3
<1>5. CASE SetupTls
  <2>1. /\ pc = "tls" /\ UNCHANGED config /\ UNCHANGED m_mapPathHandlers
        /\ pc' \in {"builtins", "constructed"}
    BY <1>5 DEF SetupTls, registry, InitFails
  <2> QED BY <1>1, <2>1 DEF HandlersInv, HandlersAsConfigured
<1>6. CASE AddBuiltInHandlers
  <2>1. /\ pc = "builtins" /\ pc' = "handlers" /\ UNCHANGED config
        /\ UNCHANGED m_allowBuiltInHandlers
        /\ todo' = {p \in Paths : config.modules[p] # "absent"}
    BY <1>6 DEF AddBuiltInHandlers, settings
  <2>2. config.given /\ \A p \in Paths : m_mapPathHandlers[p] = "none"
    BY <2>1 DEF HandlersInv
  <2>3. \A p \in Paths : m_mapPathHandlers'[p] =
          IF m_allowBuiltInHandlers /\ p \in BuiltInPaths THEN "builtin" ELSE "none"
    BY <1>6, <2>2 DEF AddBuiltInHandlers, AddPathHandlers
  <2>4. \A p \in Paths : config.modules[p] = "good" => p \in todo'
    BY <2>1
  <2> QED BY <2>1, <2>2, <2>3, <2>4 DEF HandlersInv, HandlersAsConfigured
<1>7. ASSUME NEW q \in Paths, LoadModule(q) \/ SkipModule(q) \/ ModuleThrows(q)
      PROVE  HandlersInv' /\ HandlersAsConfigured'
  <2>1. /\ pc = "handlers" /\ UNCHANGED config /\ UNCHANGED m_allowBuiltInHandlers
        /\ q \in todo /\ todo' = todo \ {q}
        /\ pc' \in {"handlers", "constructed"}
    BY <1>7 DEF LoadModule, SkipModule, ModuleThrows, settings, InitFails
  <2>2. CASE pc' = "handlers"
    <3>1. config.given
      BY <2>1 DEF HandlersInv
    <3>2. ASSUME NEW p \in Paths
          PROVE  m_mapPathHandlers'[p] =
                   IF m_allowBuiltInHandlers /\ p \in BuiltInPaths THEN "builtin"
                   ELSE IF config.modules[p] = "good" /\ p \notin todo' THEN "module"
                   ELSE "none"
      <4>1. m_mapPathHandlers[p] =
              IF m_allowBuiltInHandlers /\ p \in BuiltInPaths THEN "builtin"
              ELSE IF config.modules[p] = "good" /\ p \notin todo THEN "module"
              ELSE "none"
        BY <2>1 DEF HandlersInv
      <4>2. CASE LoadModule(q)
        <5>1. /\ config.modules[q] = "good"
              /\ m_mapPathHandlers'[p] = IF p = q /\ m_mapPathHandlers[p] = "none"
                                         THEN "module" ELSE m_mapPathHandlers[p]
          BY <4>2 DEF LoadModule, AddPathHandlers
        <5> QED BY <2>1, <4>1, <5>1
      <4>3. CASE SkipModule(q)
        <5>1. config.modules[q] # "good" /\ UNCHANGED m_mapPathHandlers
          BY <4>3 DEF SkipModule, registry
        <5> QED BY <2>1, <4>1, <5>1
      <4>4. CASE ModuleThrows(q)
        BY <2>2, <4>4 DEF ModuleThrows, InitFails
      <4> QED BY <1>7, <4>2, <4>3, <4>4
    <3> QED BY <2>1, <2>2, <3>1, <3>2 DEF HandlersInv, HandlersAsConfigured
  <2> QED BY <1>1, <2>1, <2>2
<1>8. CASE EndHandlers
  <2>1. /\ pc = "handlers" /\ todo = {} /\ UNCHANGED config
        /\ UNCHANGED m_allowBuiltInHandlers /\ UNCHANGED m_mapPathHandlers
        /\ pc' \in {"socket", "constructed"}
    BY <1>8 DEF EndHandlers, settings, registry, InitFails
  <2> QED BY <1>1, <2>1 DEF HandlersInv, HandlersAsConfigured
<1>9. CASE SetupServerSocket
  <2>1. /\ pc = "socket" /\ UNCHANGED config
        /\ UNCHANGED m_allowBuiltInHandlers /\ UNCHANGED m_mapPathHandlers
        /\ pc' \in {"concurrency", "constructed"}
    BY <1>9 DEF SetupServerSocket, settings, registry, InitFails
  <2> QED BY <1>1, <2>1 DEF HandlersInv, HandlersAsConfigured
<1>10. CASE SetupConcurrency
  BY <1>1, <1>10 DEF SetupConcurrency
<1>11. CASE Run \/ RunRefuses \/ StopServing \/ DestructorStep
  <2>1. pc' \in {"serving", "returned", "closing", "stopping", "erasing", "unloading", "gone"}
    BY <1>11 DEF Run, RunRefuses, StopServing, DestructorStep, CloseServerSocket, StopPool,
       PoolStopped, EraseHandlers, EraseLibraries
  <2> QED BY <1>1, <2>1
<1>12. ASSUME NEW p \in Paths, AddApplicationHandler(p) \/ RemovePathHandler(p)
       PROVE  HandlersInv' /\ HandlersAsConfigured'
  BY <1>1, <1>12 DEF AddApplicationHandler, RemovePathHandler
<1>13. ASSUME NEW t \in Threads, ThreadStep(t)
       PROVE  HandlersInv' /\ HandlersAsConfigured'
  BY <1>2, <1>13, ThreadStepMoves DEF settings, registry
<1>14. CASE UNCHANGED vars
  BY <1>2, <1>14 DEF vars, settings
<1> QED BY <1>3, <1>4, <1>5, <1>6, <1>7, <1>8, <1>9, <1>10, <1>11, <1>12, <1>13, <1>14
        DEF SetupNext, InitStep

(* Every path gets the handler its file describes, whatever becomes of the *)
(* other paths and in whatever order they are read.                        *)
THEOREM HandlersLoadedAsConfigured == SetupSpec => []HandlersAsConfigured
<1>1. SetupInit => HandlersInv /\ HandlersAsConfigured
  <2> SUFFICES ASSUME SetupInit PROVE HandlersInv /\ HandlersAsConfigured
    OBVIOUS
  <2>1. /\ pc = "init" /\ ~m_allowBuiltInHandlers
        /\ \A p \in Paths : m_mapPathHandlers[p] = "none"
    BY DEF SetupInit
  <2> QED BY <2>1, Ranks DEF HandlersInv, HandlersAsConfigured
<1>2. SetupTypeOK /\ HandlersInv /\ HandlersAsConfigured /\ [SetupNext]_vars
        => (HandlersInv /\ HandlersAsConfigured)'
  BY HandlersStep
<1> QED BY <1>1, <1>2, SetupTypeCorrect, PTL DEF SetupSpec

-----------------------------------------------------------------------------
(* The refinement: what a step does to the state of a HandlerRegistry.     *)

registryState == <<RegistryPhase, m_mapPathHandlers, m_mapPathLibraries, uses>>

LEMMA PhaseOf ==
  /\ RegistryPhase = IF pc \in {"serving", "returned", "closing"} THEN "serving"
                     ELSE IF pc = "stopping" THEN "stopping"
                     ELSE IF pc \in {"erasing", "unloading", "gone"} THEN "stopped"
                     ELSE "building"
  /\ RegistryPhase' = IF pc' \in {"serving", "returned", "closing"} THEN "serving"
                      ELSE IF pc' = "stopping" THEN "stopping"
                      ELSE IF pc' \in {"erasing", "unloading", "gone"} THEN "stopped"
                      ELSE "building"
BY DEF RegistryPhase

(* All of init is building.                                                *)
LEMMA InitBuilds ==
  ASSUME SetupTypeOK, InitStep
  PROVE  /\ RegistryPhase = "building" /\ RegistryPhase' = "building" /\ UNCHANGED uses
<1>1. Rank(pc) < 15 /\ UNCHANGED uses
  BY InitStepMoves
<1>2. pc' = "constructed" \/ pc' = "handlers" \/ Rank(pc') < 15
  <2>1. CASE SetupConcurrency
    BY <2>1 DEF SetupConcurrency
  <2>2. CASE ~SetupConcurrency
    <3>1. \/ Rank(pc') \in (Rank(pc) + 1) .. 14
          \/ pc = "handlers" /\ pc' = "handlers"
          \/ pc' = "constructed"
      BY <2>2, InitStepMoves
    <3>. QED BY <3>1
  <2>. QED BY <2>1, <2>2
<1>3. \A q \in {"serving", "returned", "closing", "stopping", "erasing", "unloading", "gone"} :
        Rank(q) = 15
  BY Ranks
<1>. QED BY <1>1, <1>2, <1>3, PhaseOf

LEMMA RegisterRefines ==
  ASSUME RegistryPhase = "building", UNCHANGED RegistryPhase,
         NEW S \in SUBSET Paths, NEW origin \in {"builtin", "application"},
         AddPathHandlers(S, origin), UNCHANGED m_mapPathLibraries, UNCHANGED uses
  PROVE  Registry!RegistryNext
<1>1. origin \in Origins \ {"module"}
  BY DEF Origins
<1>2. Registry!Register(S, origin)
  BY DEF AddPathHandlers, Registry!Register, Registry!Given
<1>. QED BY <1>1, <1>2 DEF Registry!RegistryNext

LEMMA InitRefines ==
  ASSUME SetupTypeOK, InitStep
  PROVE  Registry!RegistryNext \/ UNCHANGED registryState
<1>1. RegistryPhase = "building" /\ RegistryPhase' = "building" /\ UNCHANGED uses
  BY InitBuilds
<1>2. \/ UNCHANGED registry
      \/ AddBuiltInHandlers
      \/ \E p \in Paths : LoadModule(p)
  BY DEF InitStep, BeginInit, ReadNumber, NumberThrows, SetupThreading,
     SetupSocketHandling, SetupKeepAlive, SetupTls, EndHandlers, SkipModule,
     ModuleThrows, SetupServerSocket, SetupConcurrency
<1>3. CASE UNCHANGED registry
  BY <1>1, <1>3 DEF registry, registryState
<1>4. CASE AddBuiltInHandlers /\ ~UNCHANGED registry
  <2>1. AddPathHandlers(BuiltInPaths, "builtin") /\ UNCHANGED m_mapPathLibraries
    BY <1>4 DEF AddBuiltInHandlers, registry
  <2>2. BuiltInPaths \in SUBSET Paths
    BY SetupAssumption DEF SetupAssumption
  <2>. QED BY <1>1, <2>1, <2>2, RegisterRefines
<1>5. ASSUME NEW p \in Paths, LoadModule(p) PROVE Registry!RegistryNext
  <2>1. Registry!Load(p)
    BY <1>1, <1>5 DEF LoadModule, AddPathHandlers, Registry!Load, Registry!Given
  <2>. QED BY <2>1 DEF Registry!RegistryNext
<1>. QED BY <1>2, <1>3, <1>4, <1>5

LEMMA OwnerRefines ==
  ASSUME SetupTypeOK, LifeInv, NEW p \in Paths,
         AddApplicationHandler(p) \/ RemovePathHandler(p)
  PROVE  Registry!RegistryNext
<1>1. /\ pc = "constructed" /\ UNCHANGED pc /\ UNCHANGED m_mapPathLibraries /\ UNCHANGED uses
  BY DEF AddApplicationHandler, RemovePathHandler
<1>2. RegistryPhase = "building" /\ UNCHANGED RegistryPhase
  BY <1>1, PhaseOf
<1>3. CASE AddApplicationHandler(p)
  <2>1. AddPathHandlers({p}, "application") /\ {p} \in SUBSET Paths
    BY <1>3 DEF AddApplicationHandler
  <2>. QED BY <1>1, <1>2, <2>1, RegisterRefines
<1>4. CASE RemovePathHandler(p)
  <2>1. \A t \in Threads : uses[t] = Idle
    BY <1>1 DEF LifeInv
  <2>2. Registry!Remove(p)
    BY <1>1, <1>2, <1>4, <2>1 DEF RemovePathHandler, Registry!Remove, Registry!NobodyIn
  <2>. QED BY <2>2 DEF Registry!RegistryNext
<1>. QED BY <1>3, <1>4

LEMMA RunRefines ==
  ASSUME Run \/ RunRefuses \/ StopServing
  PROVE  Registry!RegistryNext \/ UNCHANGED registryState
<1>1. /\ UNCHANGED m_mapPathHandlers /\ UNCHANGED m_mapPathLibraries /\ UNCHANGED uses
      /\ \/ pc = "constructed" /\ pc' \in {"serving", "returned"}
         \/ pc = "serving" /\ pc' = "returned"
  BY DEF Run, RunRefuses, StopServing, registry
<1>2. CASE pc = "constructed" /\ pc' \in {"serving", "returned"}
  BY <1>1, <1>2, PhaseOf DEF Registry!RegistryNext, Registry!Open
<1>3. CASE pc = "serving" /\ pc' = "returned"
  BY <1>1, <1>3, PhaseOf DEF registryState
<1>. QED BY <1>1, <1>2, <1>3

(* Sessions begin while the server serves only: the pool has been told to  *)
(* stop before the destructor goes on. Those that run when it is told may  *)
(* take handlers still.                                                    *)
LEMMA ThreadRefines ==
  ASSUME SetupTypeOK, LifeInv, NEW t \in Threads, ThreadStep(t)
  PROVE  Registry!RegistryNext
<1>1. UNCHANGED m_mapPathHandlers /\ UNCHANGED m_mapPathLibraries /\ UNCHANGED RegistryPhase
  BY ThreadStepMoves, PhaseOf DEF registry
<1>2. CASE BeginSession(t)
  <2>1. pc \in {"serving", "returned", "closing"}
    BY <1>2, Ranks, NumberRanks DEF LifeInv, BeginSession, CanStart, SetupTypeOK, Places
  <2>2. RegistryPhase = "serving"
    BY <2>1, PhaseOf
  <2>3. Registry!Enter(t)
    BY <1>1, <1>2, <2>2 DEF BeginSession, Registry!Enter, Registry!Use
  <2>. QED BY <2>3 DEF Registry!RegistryNext
<1>3. ASSUME NEW p \in Paths, StartRequest(t, p) PROVE Registry!RegistryNext
  <2>1. /\ uses[t] = NoHandler /\ m_mapPathHandlers[p] # "none"
        /\ uses' = [uses EXCEPT ![t] = [path |-> p, origin |-> m_mapPathHandlers[p]]]
    BY <1>3 DEF StartRequest
  <2>2. pc \in {"serving", "returned", "closing", "stopping"}
    BY <2>1, SetupAssumption DEF LifeInv
  <2>3. RegistryPhase \in {"serving", "stopping"}
    BY <2>2, PhaseOf
  <2>4. Registry!Take(t, p)
    BY <1>1, <2>1, <2>3 DEF Registry!Take, Registry!Use
  <2>. QED BY <2>4 DEF Registry!RegistryNext
<1>4. CASE FinishRequest(t)
  <2>1. Registry!GiveBack(t)
    BY <1>1, <1>4 DEF FinishRequest, Registry!GiveBack, Registry!Use
  <2>. QED BY <2>1 DEF Registry!RegistryNext
<1>5. CASE EndSession(t)
  <2>1. Registry!Leave(t)
    BY <1>1, <1>5 DEF EndSession, Registry!Leave, Registry!Use
  <2>. QED BY <2>1 DEF Registry!RegistryNext
<1>. QED BY <1>2, <1>3, <1>4, <1>5 DEF ThreadStep

LEMMA DestructorRefines ==
  ASSUME LifeInv, DestructorStep
  PROVE  Registry!RegistryNext \/ UNCHANGED registryState
<1>1. CASE CloseServerSocket
  <2>1. /\ pc = "returned" /\ pc' = "closing"
        /\ UNCHANGED m_mapPathHandlers /\ UNCHANGED m_mapPathLibraries /\ UNCHANGED uses
    BY <1>1 DEF CloseServerSocket, registry
  <2>. QED BY <2>1, PhaseOf DEF registryState
<1>2. CASE StopPool
  <2>1. /\ pc = "closing" /\ pc' = "stopping"
        /\ UNCHANGED m_mapPathHandlers /\ UNCHANGED m_mapPathLibraries /\ UNCHANGED uses
    BY <1>2 DEF StopPool, registry
  <2>. QED BY <2>1, PhaseOf DEF Registry!RegistryNext, Registry!Close
<1>3. CASE PoolStopped
  <2>1. /\ pc = "stopping" /\ pc' = "erasing" /\ \A t \in Threads : uses[t] = Idle
        /\ UNCHANGED m_mapPathHandlers /\ UNCHANGED m_mapPathLibraries /\ UNCHANGED uses
    BY <1>3 DEF PoolStopped, registry
  <2>. QED BY <2>1, PhaseOf DEF Registry!RegistryNext, Registry!Stopped, Registry!NobodyIn
<1>4. CASE EraseHandlers
  <2>1. /\ pc = "erasing" /\ pc' = "unloading" /\ m_mapPathHandlers' = [p \in Paths |-> "none"]
        /\ UNCHANGED m_mapPathLibraries /\ UNCHANGED uses
    BY <1>4 DEF EraseHandlers
  <2>. QED BY <2>1, PhaseOf DEF Registry!RegistryNext, Registry!Erase
<1>5. CASE EraseLibraries
  <2>1. /\ pc = "unloading" /\ pc' = "gone" /\ m_mapPathLibraries' = {}
        /\ UNCHANGED m_mapPathHandlers /\ UNCHANGED uses
    BY <1>5 DEF EraseLibraries
  <2>2. \A p \in Paths : m_mapPathHandlers[p] = "none"
    BY <2>1 DEF LifeInv
  <2>. QED BY <2>1, <2>2, PhaseOf DEF Registry!RegistryNext, Registry!Unload
<1>. QED BY <1>1, <1>2, <1>3, <1>4, <1>5 DEF DestructorStep

(* The handlers of a server are a HandlerRegistry (HttpServer.cpp, init,   *)
(* addPathHandler, getPathHandler and the destructor): whatever the        *)
(* configuration, however many threads answer, and also while stop() waits *)
(* for sessions that still look handlers up, no lock is needed, since      *)
(* nothing changes while a thread can look.                                *)
THEOREM HandlerRegistryRefinement == SetupSpec => ImplementsHandlerRegistry
<1>1. SetupInit => LifeInv
  BY Ranks DEF SetupInit, LifeInv
<1>2. SetupInit => Registry!RegistryInit
  BY DEF SetupInit, Registry!RegistryInit, RegistryPhase
<1>3. SetupTypeOK /\ LifeInv /\ [SetupNext]_vars => LifeInv'
  BY LifeStep
<1>4. SetupTypeOK /\ LifeInv /\ [SetupNext]_vars
        => [Registry!RegistryNext]_(Registry!registryVars)
  <2>1. SUFFICES ASSUME SetupTypeOK, LifeInv, [SetupNext]_vars
                 PROVE  Registry!RegistryNext \/ UNCHANGED registryState
    BY DEF Registry!registryVars, registryState
  <2>2. CASE UNCHANGED vars
    BY <2>2, PhaseOf DEF vars, registry, registryState
  <2>3. CASE InitStep
    BY <2>1, <2>3, InitRefines
  <2>4. CASE Run \/ RunRefuses \/ StopServing
    BY <2>4, RunRefines
  <2>5. CASE DestructorStep
    BY <2>1, <2>5, DestructorRefines
  <2>6. ASSUME NEW p \in Paths, AddApplicationHandler(p) \/ RemovePathHandler(p)
        PROVE  Registry!RegistryNext
    BY <2>1, <2>6, OwnerRefines
  <2>7. ASSUME NEW t \in Threads, ThreadStep(t)
        PROVE  Registry!RegistryNext
    BY <2>1, <2>7, ThreadRefines
  <2>. QED BY <2>1, <2>2, <2>3, <2>4, <2>5, <2>6, <2>7 DEF SetupNext
<1>. QED BY <1>1, <1>2, <1>3, <1>4, SetupTypeCorrect, PTL
         DEF SetupSpec, ImplementsHandlerRegistry, Registry!RegistrySpec

=============================================================================
