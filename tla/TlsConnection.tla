---------------------------- MODULE TlsConnection ----------------------------
(***************************************************************************)
(* Two ends of a TLS connection, each a TlsConnection                      *)
(* (src/TlsConnection.cpp) over a SocketTransport                          *)
(* (src/SocketTransport.cpp), each used by a thread of its own. The loops  *)
(* of handshake, read, write and close call armure again while it asks for *)
(* it (WantRead, WantWrite), and again for the rest of a partial write.    *)
(*                                                                         *)
(* armure and the sockets are external. What the code relies on: records   *)
(* arrive in order; a write that armure asked to repeat must be repeated   *)
(* with the same bytes; after an error that is not a Want, it takes no     *)
(* more. SocketTransport blocks, so that armure asks for a repetition only *)
(* on account of records of its own (MaxWants of them). A socket holds     *)
(* Capacity bytes nobody has read; a write then waits, for which there is  *)
(* no time-out.                                                            *)
(***************************************************************************)
EXTENDS ConnectionEnds

CONSTANTS
  MaxWrite,   \* bound on the length of one write
  MaxWants,   \* bound on how often armure asks for a repetition, per end
  Capacity,   \* bytes a socket takes before its peer reads them
  TimedEnds,  \* the ends whose socket has a receive time-out
  SocketEnds  \* the ends whose TlsConnection was given the socket to close

ASSUME TlsAssumption ==
  /\ Client # Server
  /\ MaxBytes \in [Ends -> Nat] /\ MaxRead \in Nat /\ MaxWrite \in Nat /\ MaxWants \in Nat
  /\ Capacity \in Nat \ {0}
  /\ TimedEnds \subseteq Ends /\ SocketEnds \subseteq Ends

VARIABLES
  length,        \* of the buffer of the call under way
  totalWritten,  \* how much of it armure has taken
  handshake,     \* "start", "hello", "reply", "done" or "rejected"
  pending,       \* armure: the bytes of the write it asked to repeat
  wants,         \* armure: how often it may still ask
  failed,        \* armure: it has reported an error
  notified,      \* armure: it has sent close_notify
  open,          \* the socket is open
  network        \* "up", "broken", or "mute": armure then takes 0 bytes

armureVars == <<pending, wants, failed, notified>>
vars == <<call, answer, asked, sent, got, length, totalWritten, handshake,
          armureVars, open, network>>

TlsInit ==
  /\ call = [e \in Ends |-> "connecting"] /\ answer = [e \in Ends |-> "none"]
  /\ asked = [e \in Ends |-> 0] /\ sent = [e \in Ends |-> <<>>]
  /\ got = [e \in Ends |-> 0]
  /\ length = [e \in Ends |-> 0] /\ totalWritten = [e \in Ends |-> 0]
  /\ handshake = "start"
  /\ pending = [e \in Ends |-> <<>>] /\ wants = [e \in Ends |-> MaxWants]
  /\ failed = [e \in Ends |-> FALSE] /\ notified = [e \in Ends |-> FALSE]
  /\ open = [e \in Ends |-> TRUE] /\ network = "up"

-----------------------------------------------------------------------------
(* Socket and SocketTransport.                                             *)

Unread(e) == Len(sent[Peer(e)]) - got[e]

(* What recvAvailable() may return: bytes, or nothing for every reason     *)
(* there is.                                                               *)
RecvAvailable(e) ==
  (IF Unread(e) > 0 \/ notified[Peer(e)] THEN {"bytes"} ELSE {}) \cup
  (IF \/ network # "up"
      \/ Unread(e) = 0 /\ ~notified[Peer(e)] /\ ~open[Peer(e)]
      \/ Unread(e) = 0 /\ ~notified[Peer(e)] /\ call[e] = "read" /\ e \in TimedEnds
   THEN {"nothing"} ELSE {})

FaultyTransportRead(e) ==
  {IF r = "bytes" THEN "ok" ELSE "WantRead" : r \in RecvAvailable(e)}

TransportRead(e) ==
  {IF r = "bytes" THEN "ok" ELSE "Closed" : r \in RecvAvailable(e)}

(* n more bytes fit, or nobody keeps them.                                 *)
Fits(e, n) == Unread(Peer(e)) + n <= Capacity \/ ~open[Peer(e)]

TransportWrite(e, n) ==
  (IF network = "up" /\ Fits(e, n) THEN {"ok"} ELSE {}) \cup
  (IF network # "up" \/ ~open[Peer(e)] THEN {"TransportError"} ELSE {})

-----------------------------------------------------------------------------
(* armure. A result is "ok" or an error code.                              *)

Wants == {"WantRead", "WantWrite"}
Results == Wants \cup {"ok", "Closed", "TransportError", "ProtocolError"}

Asks(e, result) ==
  /\ result \in Wants /\ ~failed[e] /\ wants[e] > 0
  /\ wants' = [wants EXCEPT ![e] = @ - 1]

Fails(e) == failed' = [failed EXCEPT ![e] = TRUE]

ArmureHandshake(e, result) ==
  \/ /\ result = "ok" /\ e = Client /\ handshake = "reply" /\ network = "up"
     /\ handshake' = "done" /\ UNCHANGED <<wants, failed>>
  \/ /\ result = "ok" /\ e = Server /\ handshake = "done"
     /\ UNCHANGED <<handshake, wants, failed>>
  \/ Asks(e, result) /\ UNCHANGED <<handshake, failed>>
  \/ /\ result = "ProtocolError" /\ e = Client /\ handshake = "reply"
     /\ handshake' = "rejected" /\ Fails(e) /\ UNCHANGED wants
  \/ /\ result = "ProtocolError" /\ e = Server /\ handshake = "rejected"
     /\ Fails(e) /\ UNCHANGED <<handshake, wants>>
  \/ /\ result = "Closed" /\ result \in TransportRead(e)
     /\ Fails(e) /\ UNCHANGED <<handshake, wants>>

(* The flights of the handshake before its last one, sent inside a call.   *)
Flight(e) ==
  /\ call[e] = "connecting" /\ network = "up"
  /\ \/ e = Client /\ handshake = "start" /\ handshake' = "hello"
     \/ e = Server /\ handshake = "hello" /\ handshake' = "reply"
  /\ UNCHANGED <<call, answer, asked, sent, got, length, totalWritten,
                 armureVars, open, network>>

ArmureRead(e, size, result, n) ==
  \/ /\ result = "ok" /\ ~failed[e] /\ n \in 1 .. size /\ n <= Unread(e)
     /\ got' = [got EXCEPT ![e] = @ + n] /\ UNCHANGED <<wants, failed>>
  \/ Asks(e, result) /\ n = 0 /\ UNCHANGED <<got, failed>>
  \/ /\ result = "Closed" /\ n = 0 /\ ~failed[e]
     /\ Unread(e) = 0 /\ notified[Peer(e)]
     /\ UNCHANGED <<got, wants, failed>>
  \/ /\ result = "Closed" /\ n = 0 /\ ~failed[e] /\ result \in TransportRead(e)
     /\ Fails(e) /\ UNCHANGED <<got, wants>>
  \/ /\ result = "ProtocolError" /\ n = 0 /\ failed[e]
     /\ UNCHANGED <<got, wants, failed>>

ArmureWrite(e, span, result, n) ==
  \/ /\ result = "ok" /\ ~failed[e] /\ n \in 1 .. Len(span)
     /\ pending[e] \in {<<>>, span} /\ result \in TransportWrite(e, n)
     /\ sent' = [sent EXCEPT ![e] = @ \o SubSeq(span, 1, n)]
     /\ pending' = [pending EXCEPT ![e] = <<>>] /\ UNCHANGED <<wants, failed>>
  \/ /\ result = "ok" /\ n = 0 /\ network = "mute"
     /\ UNCHANGED <<sent, pending, wants, failed>>
  \/ /\ Asks(e, result) /\ n = 0 /\ pending[e] \in {<<>>, span}
     /\ pending' = [pending EXCEPT ![e] = span] /\ UNCHANGED <<sent, failed>>
  \/ /\ result = "TransportError" /\ n = 0 /\ network # "mute"
     /\ result \in TransportWrite(e, 1)
     /\ Fails(e) /\ UNCHANGED <<sent, pending, wants>>
  \/ /\ result = "ProtocolError" /\ n = 0
     /\ failed[e] \/ pending[e] \notin {<<>>, span}
     /\ Fails(e) /\ UNCHANGED <<sent, pending, wants>>

ArmureShutdown(e, result) ==
  \/ /\ result = "ok" /\ ~failed[e] /\ result \in TransportWrite(e, 1)
     /\ notified' = [notified EXCEPT ![e] = TRUE] /\ UNCHANGED <<wants, failed>>
  \/ Asks(e, result) /\ UNCHANGED <<notified, failed>>
  \/ /\ result = "TransportError" /\ result \in TransportWrite(e, 1)
     /\ Fails(e) /\ UNCHANGED <<notified, wants>>
  \/ /\ result = "ProtocolError" /\ failed[e]
     /\ UNCHANGED <<notified, wants, failed>>

-----------------------------------------------------------------------------
(* TlsConnection.                                                          *)

FaultyIsWantRetry(code) == code = "WantRead"

isWantRetry(code) == code \in {"WantRead", "WantWrite"}

locals == <<length, totalWritten>>

EntersWith(e, c, size) ==
  /\ Enters(e, c)
  /\ length' = [length EXCEPT ![e] = size]
  /\ totalWritten' = [totalWritten EXCEPT ![e] = 0]

Returns(e, c, a) ==
  /\ Leaves(e, c, a)
  /\ length' = [length EXCEPT ![e] = 0]
  /\ totalWritten' = [totalWritten EXCEPT ![e] = 0]

(* What the two arms of each loop make of an error: armure is called       *)
(* again, or the call is over.                                             *)
Retries(result) ==
  /\ result # "ok" /\ isWantRetry(result)
  /\ UNCHANGED <<call, answer, locals>>

GivesUp(e, result, c, a) ==
  /\ result # "ok" /\ ~isWantRetry(result)
  /\ Returns(e, c, a)

Handshake(e) ==
  /\ call[e] = "connecting"
  /\ \E result \in Results :
       /\ ArmureHandshake(e, result)
       /\ \/ result = "ok" /\ Returns(e, "idle", "none")
          \/ Retries(result)
          \/ GivesUp(e, result, "thrown", "none")
  /\ UNCHANGED <<asked, sent, got, pending, notified, open, network>>

CallRead(e, size) ==
  /\ call[e] = "idle"
  /\ IF size <= 0 THEN Returns(e, "idle", "ok") ELSE EntersWith(e, "read", size)
  /\ UNCHANGED <<asked, sent, got, handshake, armureVars, open, network>>

ReadLoop(e) ==
  /\ call[e] = "read"
  /\ \E result \in Results, n \in 0 .. length[e] :
       /\ ArmureRead(e, length[e], result, n)
       /\ \/ result = "ok" /\ Returns(e, "idle", "ok")
          \/ Retries(result)
          \/ GivesUp(e, result, "idle", "failed")
  /\ UNCHANGED <<asked, sent, handshake, pending, notified, open, network>>

CallWrite(e, size) ==
  /\ call[e] = "idle" /\ asked[e] + size <= MaxBytes[e]
  /\ asked' = [asked EXCEPT ![e] = @ + size]
  /\ IF size = 0 THEN Returns(e, "idle", "ok") ELSE EntersWith(e, "write", size)
  /\ UNCHANGED <<sent, got, handshake, armureVars, open, network>>

FaultyRemaining(e) == Bytes(asked[e] - length[e] + 1, length[e] - totalWritten[e])

(* The bytes of the buffer that armure has not taken.                      *)
Remaining(e) ==
  Bytes(asked[e] - length[e] + totalWritten[e] + 1, length[e] - totalWritten[e])

FaultyAdvances(e, n) ==
  IF totalWritten[e] + n <= length[e]
  THEN /\ totalWritten' = [totalWritten EXCEPT ![e] = @ + n]
       /\ UNCHANGED <<call, answer, length>>
  ELSE Returns(e, "idle", "true")

FaultyAdvancesForgets(e, n) ==
  IF totalWritten[e] + n < length[e]
  THEN /\ totalWritten' = [totalWritten EXCEPT ![e] = n]
       /\ UNCHANGED <<call, answer, length>>
  ELSE Returns(e, "idle", "true")

FaultyShortWrite(e, n) == Returns(e, "idle", "true")

(* n bytes were taken: another round, or the end of the loop.              *)
Advances(e, n) ==
  IF totalWritten[e] + n < length[e]
  THEN /\ totalWritten' = [totalWritten EXCEPT ![e] = @ + n]
       /\ UNCHANGED <<call, answer, length>>
  ELSE Returns(e, "idle", "true")

WriteLoop(e) ==
  /\ call[e] = "write"
  /\ \E result \in Results, n \in 0 .. length[e] :
       /\ ArmureWrite(e, Remaining(e), result, n)
       /\ \/ result = "ok" /\ n > 0 /\ Advances(e, n)
          \/ result = "ok" /\ n = 0 /\ Returns(e, "idle", "failed")
          \/ Retries(result)
          \/ GivesUp(e, result, "idle", "failed")
  /\ UNCHANGED <<asked, got, handshake, notified, open, network>>

CallClose(e) ==
  /\ call[e] = "idle" /\ EntersWith(e, "close", 0)
  /\ UNCHANGED <<asked, sent, got, handshake, armureVars, open, network>>

(* After the loop, the socket is closed whatever became of the shutdown.   *)
CloseSocket(e) == open' = [open EXCEPT ![e] = @ /\ e \notin SocketEnds]

FaultyCloseLoop(e) ==
  /\ call[e] = "close"
  /\ \E result \in Results :
       /\ ArmureShutdown(e, result)
       /\ \/ result = "ok" /\ Returns(e, "closed", "none") /\ CloseSocket(e)
          \/ Retries(result) /\ UNCHANGED open
          \/ GivesUp(e, result, "closed", "none") /\ UNCHANGED open
  /\ UNCHANGED <<asked, sent, got, handshake, pending, network>>

CloseLoop(e) ==
  /\ call[e] = "close"
  /\ \E result \in Results :
       /\ ArmureShutdown(e, result)
       /\ \/ result = "ok" /\ Returns(e, "closed", "none") /\ CloseSocket(e)
          \/ Retries(result) /\ UNCHANGED open
          \/ GivesUp(e, result, "closed", "none") /\ CloseSocket(e)
  /\ UNCHANGED <<asked, sent, got, handshake, pending, network>>

(* The owner destroys the connection and its socket.                       *)
Destroy(e) ==
  /\ call[e] \in {"idle", "thrown", "closed"} /\ EntersWith(e, "gone", 0)
  /\ open' = [open EXCEPT ![e] = FALSE]
  /\ UNCHANGED <<asked, sent, got, handshake, armureVars, network>>

Break ==
  /\ network = "up" /\ network' \in {"broken", "mute"}
  /\ UNCHANGED <<call, answer, asked, sent, got, length, totalWritten, handshake,
                 armureVars, open>>

Loop(e) == Flight(e) \/ Handshake(e) \/ ReadLoop(e) \/ WriteLoop(e) \/ CloseLoop(e)

Use(e) ==
  \/ \E size \in 0 .. MaxRead : CallRead(e, size)
  \/ \E size \in 0 .. MaxWrite : CallWrite(e, size)
  \/ CallClose(e)

TlsNext == (\E e \in Ends : Loop(e) \/ Use(e) \/ Destroy(e)) \/ Break

TlsSpec == TlsInit /\ [][TlsNext]_vars

(* A thread in a call runs on unless it waits for bytes or for room; the   *)
(* owner of a connection that threw, or was closed, drops it. That a call  *)
(* is made is not assumed.                                                 *)
FairTlsSpec ==
  /\ TlsSpec
  /\ \A e \in Ends : /\ WF_vars(Loop(e))
                     /\ WF_vars(call[e] \in {"thrown", "closed"} /\ Destroy(e))

-----------------------------------------------------------------------------
(* Type.                                                                   *)

Calls == InCall \cup Over \cup {"idle"}

CallsTyped ==
  /\ call \in [Ends -> Calls] /\ answer \in [Ends -> Answers]
  /\ length \in [Ends -> Nat] /\ totalWritten \in [Ends -> Nat]
  /\ \A e \in Ends : /\ call[e] = "write" => totalWritten[e] < length[e]
                     /\ call[e] = "read" => length[e] <= MaxRead

BytesTyped ==
  /\ asked \in [Ends -> Nat] /\ \A e \in Ends : asked[e] <= MaxBytes[e]
  /\ sent \in [Ends -> Seq(Nat)] /\ got \in [Ends -> Nat]

ArmureTyped ==
  /\ pending \in [Ends -> Seq(Nat)] /\ wants \in [Ends -> 0 .. MaxWants]
  /\ failed \in [Ends -> BOOLEAN] /\ notified \in [Ends -> BOOLEAN]

TlsTypeOK ==
  /\ CallsTyped /\ BytesTyped /\ ArmureTyped
  /\ handshake \in {"start", "hello", "reply", "done", "rejected"}
  /\ open \in [Ends -> BOOLEAN] /\ network \in {"up", "broken", "mute"}

-----------------------------------------------------------------------------
(* Properties.                                                             *)

(* However writes are split and repeated (WriteLoop), the bytes armure has *)
(* taken of an end are those the end asked to be written, in their order,  *)
(* each once, and what its peer reads is a front of them. A write that     *)
(* answered true left none out.                                            *)
StreamIntact ==
  \A e \in Ends :
    /\ sent[e] = Bytes(1, Len(sent[e]))
    /\ Len(sent[e]) <= asked[e]
    /\ got[Peer(e)] <= Len(sent[e])
    /\ answer[e] = "true" => Len(sent[e]) = asked[e]

(* What may make the connection of e fail: the network, the certificate, a *)
(* peer that is done, the receive time-out.                                *)
Cause(e) ==
  \/ network # "up" \/ handshake = "rejected" \/ call[Peer(e)] \in Over
  \/ e \in TimedEnds

(* A constructor throws, a write answers false and a read that no more     *)
(* will come for one of these reasons only: never because armure asked to  *)
(* be called again, nor because it was called again in the wrong way.      *)
FailureHasCause ==
  \A e \in Ends :
    failed[e] \/ call[e] = "thrown" \/ answer[e] = "failed" => Cause(e)

(* close() leaves the socket closed whatever becomes of close_notify. And  *)
(* close_notify vouches for the stream: an end that sent it has sent all   *)
(* it was asked to write, though every write may have failed before it.    *)
OrderlyClose ==
  \A e \in Ends :
    /\ call[e] = "closed" => (e \in SocketEnds => ~open[e]) /\ (notified[e] \/ Cause(e))
    /\ notified[e] => Len(sent[e]) = asked[e]

FlightsLeft == CASE handshake = "start" -> 2 [] handshake = "hello" -> 1 [] OTHER -> 0

CallLeft(e) ==
  CASE call[e] = "write" -> length[e] - totalWritten[e]
    [] call[e] \in InCall \ {"write"} -> 1
    [] OTHER -> 0

(* How often the loop of the call that end e is in may still go around.    *)
RoundsLeft(e) == wants[e] + FlightsLeft + CallLeft(e)

(* Every round of a loop brings the end of its call nearer, and nothing    *)
(* the peer does takes it further away: a write goes around once for every *)
(* byte and once for every repetition, at the most. No loop of handshake,  *)
(* read, write and close spins on what armure answers, but for repetitions *)
(* that armure asks for without end (MaxWants bounds them).                *)
RoundStep ==
  \A e \in Ends :
    /\ RoundsLeft(e)' \in Nat
    /\ Loop(e) => RoundsLeft(e)' < RoundsLeft(e)
    /\ call[e] \in InCall => RoundsLeft(e)' <= RoundsLeft(e)

RoundsShrink == [][RoundStep]_vars

Down == [e \in Ends |-> failed[e] \/ network # "up"]

Contract == INSTANCE ByteConnection WITH down <- Down

(* A TlsConnection is a ByteConnection: the repeated calls of armure do    *)
(* not show, an error is final.                                            *)
ImplementsByteConnection == Contract!ContractSpec

(* The peer of e holds back what e waits for: it does not call for it, or  *)
(* its calls fail and it does not close.                                   *)
Withholds(e, calls) == call[Peer(e)] \in calls \/ failed[Peer(e)]

Withheld(e) ==
  \/ call[e] = "read" /\ e \notin TimedEnds /\ Withholds(e, {"idle", "read"})
  \/ call[e] \in {"write", "close"} /\ Withholds(e, {"idle", "write", "close"})

(* Every call ends but for one reason: its peer withholds what it waits    *)
(* for. A read waits for bytes, if its socket has no time-out; a write and *)
(* a close wait for the peer to read, for which there is no time-out. A    *)
(* handshake ends, and no loop spins.                                      *)
CallsEnd ==
  \A e \in Ends :
    <>[](call[e] \in InCall) => <>[](network = "up" /\ Withheld(e))

=============================================================================
