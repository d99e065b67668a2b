----------------------------- MODULE RemoteCall -----------------------------
(***************************************************************************)
(* What HttpClient promises the thread that uses it, however a request is  *)
(* written and an answer arrives: a call gives one result, at its end, and *)
(* the result is what the server's answer to this very call says. Nothing  *)
(* that comes later changes it, nothing of it is left for the next call,   *)
(* and the connection of a call is kept for a response only.               *)
(* HttpExchange.tla implements it.                                         *)
(***************************************************************************)
CONSTANTS
  Silence,        \* the answer of a server that has not answered
  NoResult,       \* what the caller has before the end of a call
  Says(_, _),     \* Says(answer, result): the answer gives the caller this result
  Lacks(_)        \* Lacks(answer): the answer is none, or not a whole one

VARIABLES
  phase,       \* "idle", "called" or "returned"
  connection,  \* "none", "open" or "failed"
  answer,
  result       \* its kind is response, http, failed, broken or null

callVars == <<phase, connection, answer, result>>

CallInit ==
  phase = "idle" /\ connection = "none" /\ answer = Silence /\ result = NoResult

(* It may be that no connection can be had: the call is over at once.      *)
Begins ==
  /\ phase = "idle" /\ connection = "none" /\ answer' = Silence
  /\ \/ phase' = "called" /\ connection' = "open" /\ result' = NoResult
     \/ phase' = "returned" /\ connection' = "none" /\ result'.kind = "broken"

(* Whatever it sends, once.                                                *)
ServerAnswers ==
  /\ phase = "called" /\ connection = "open" /\ answer = Silence
  /\ UNCHANGED <<phase, connection, result>>

LosesConnection ==
  /\ phase = "called" /\ connection' = "failed"
  /\ UNCHANGED <<phase, answer, result>>

(* A response or an HttpException is what the answer says; a call fails    *)
(* for want of a whole answer, or because the answer says so (a status that*)
(* is no number); and it may be broken off at any time.                    *)
Returns ==
  /\ phase = "called" /\ phase' = "returned"
  /\ \/ result'.kind \in {"response", "http"} /\ Says(answer, result')
     \/ result'.kind = "failed" /\ Lacks(answer)
     \/ result'.kind \in {"broken", "null"}
  /\ result'.kind \in {"response", "http", "failed"} => connection = "open"
  /\ connection' = IF result'.kind = "response" THEN connection ELSE "none"
  /\ UNCHANGED answer

(* The caller deletes the response, and the connection with it.            *)
Ends ==
  /\ phase = "returned" /\ phase' = "idle" /\ connection' = "none"
  /\ UNCHANGED <<answer, result>>

CallNext == Begins \/ ServerAnswers \/ LosesConnection \/ Returns \/ Ends

CallSpec == CallInit /\ [][CallNext]_callVars

=============================================================================
