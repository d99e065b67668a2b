--------------------------- MODULE HandlerRegistry ---------------------------
(***************************************************************************)
(* What an HttpServer promises the handlers it is given and the threads    *)
(* that use them, without a lock and whatever the owner, the configuration *)
(* and the pool do: while the registry is built a path gets one handler,   *)
(* the first; from then on it does not change until every thread that      *)
(* entered, and may look a handler up at any time, has left and none can   *)
(* enter; and the code of a handler is unloaded after the handler is gone. *)
(* HttpServerSetup.tla implements it.                                      *)
(***************************************************************************)
CONSTANTS
  Paths, Threads,
  Origins,     \* who may make a handler
  Loaded,      \* the origin whose code is in a library
  None,        \* a path without a handler has this
  NoHandler,   \* a thread that is in but has no handler has this
  Idle         \* a thread that is not in has this

VARIABLES
  phase,      \* "building", "serving", "stopping" or "stopped"
  handlers,   \* [Paths -> Origins \cup {None}]
  libraries,  \* the paths whose library is loaded
  uses        \* [Threads -> handlers \cup {NoHandler, Idle}]

registryVars == <<phase, handlers, libraries, uses>>

RegistryInit ==
  /\ phase = "building"
  /\ handlers = [p \in Paths |-> None] /\ libraries = {}
  /\ uses = [t \in Threads |-> Idle]

Given(S, origin) ==
  [p \in Paths |-> IF p \in S /\ handlers[p] = None THEN origin ELSE handlers[p]]

NobodyIn == \A t \in Threads : uses[t] = Idle

Register(S, origin) ==
  /\ phase = "building"
  /\ handlers' = Given(S, origin)
  /\ UNCHANGED <<phase, libraries, uses>>

Load(p) ==
  /\ phase = "building"
  /\ handlers' = Given({p}, Loaded)
  /\ libraries' = libraries \cup {p}
  /\ UNCHANGED <<phase, uses>>

Remove(p) ==
  /\ phase = "building" /\ NobodyIn
  /\ handlers' = [handlers EXCEPT ![p] = None]
  /\ UNCHANGED <<phase, libraries, uses>>

Open == phase = "building" /\ phase' = "serving" /\ UNCHANGED <<handlers, libraries, uses>>

Use(t, u) == uses' = [uses EXCEPT ![t] = u] /\ UNCHANGED <<phase, handlers, libraries>>

Enter(t) == phase = "serving" /\ uses[t] = Idle /\ Use(t, NoHandler)

Take(t, p) ==
  /\ phase \in {"serving", "stopping"} /\ uses[t] = NoHandler /\ handlers[p] # None
  /\ Use(t, [path |-> p, origin |-> handlers[p]])

GiveBack(t) == uses[t] \notin {Idle, NoHandler} /\ Use(t, NoHandler)

Leave(t) == uses[t] = NoHandler /\ Use(t, Idle)

(* Nobody enters any more; then everybody has left.                        *)
Close == phase = "serving" /\ phase' = "stopping" /\ UNCHANGED <<handlers, libraries, uses>>

Stopped ==
  /\ phase = "stopping" /\ NobodyIn /\ phase' = "stopped"
  /\ UNCHANGED <<handlers, libraries, uses>>

Erase ==
  /\ phase = "stopped" /\ handlers' = [p \in Paths |-> None]
  /\ UNCHANGED <<phase, libraries, uses>>

Unload ==
  /\ phase = "stopped" /\ \A p \in Paths : handlers[p] = None
  /\ libraries' = {}
  /\ UNCHANGED <<phase, handlers, uses>>

RegistryNext ==
  \/ \E S \in SUBSET Paths, origin \in Origins \ {Loaded} : Register(S, origin)
  \/ \E p \in Paths : Load(p) \/ Remove(p) \/ \E t \in Threads : Take(t, p)
  \/ \E t \in Threads : Enter(t) \/ GiveBack(t) \/ Leave(t)
  \/ Open \/ Close \/ Stopped \/ Erase \/ Unload

RegistrySpec == RegistryInit /\ [][RegistryNext]_registryVars

=============================================================================
