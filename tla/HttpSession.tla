----------------------------- MODULE HttpSession -----------------------------
(***************************************************************************)
(* What misere promises the client of one connection, whatever threads,    *)
(* TLS, keep-alive negotiation and handlers do behind it: it takes one     *)
(* request at a time, answers every request it has taken, answers at most  *)
(* Limit of them, and closes the connection only when it owes nothing.     *)
(* HttpRequestHandler.tla implements it.                                   *)
(***************************************************************************)
EXTENDS Integers

CONSTANTS Conns, Limit

VARIABLES
  state,     \* [Conns -> SessionState]
  answered   \* [Conns -> Nat] complete responses given

vars == <<state, answered>>

SessionState == {"new", "listening", "owing", "finishing", "closed"}

Init == /\ state = [c \in Conns |-> "new"]
        /\ answered = [c \in Conns |-> 0]

Become(c, from, to) == state[c] = from /\ state' = [state EXCEPT ![c] = to]

Open(c)    == Become(c, "new", "listening") /\ UNCHANGED answered
Receive(c) == Become(c, "listening", "owing") /\ UNCHANGED answered

(* Answer and stay open for another request, or answer and finish.         *)
Answer(c) ==
  /\ answered[c] + 1 < Limit
  /\ Become(c, "owing", "listening")
  /\ answered' = [answered EXCEPT ![c] = @ + 1]

AnswerLast(c) ==
  /\ answered[c] < Limit
  /\ Become(c, "owing", "finishing")
  /\ answered' = [answered EXCEPT ![c] = @ + 1]

(* Nothing is owed: the peer is gone, idle, or did not speak HTTP or TLS.  *)
GiveUp(c) == Become(c, "listening", "finishing") /\ UNCHANGED answered
Close(c)  == Become(c, "finishing", "closed") /\ UNCHANGED answered

Next == \E c \in Conns :
          \/ Open(c) \/ Receive(c) \/ Answer(c) \/ AnswerLast(c)
          \/ GiveUp(c) \/ Close(c)

Spec == Init /\ [][Next]_vars

=============================================================================
