------------------------- MODULE TlsConnectionProofs -------------------------
(***************************************************************************)
(* Theorems about TlsConnection, for every number of bytes, every size of  *)
(* reads, writes and sockets, and however often armure asks to be called   *)
(* again.                                                                  *)
(***************************************************************************)
EXTENDS TlsConnection, TLAPS

LEMMA PeerFacts ==
  ASSUME NEW e \in Ends
  PROVE  /\ Peer(e) \in Ends /\ Peer(e) # e /\ Peer(Peer(e)) = e
         /\ \A x \in Ends : x = e \/ x = Peer(e)
BY TlsAssumption DEF TlsAssumption, Ends, Peer

LEMMA BytesType ==
  ASSUME NEW f \in Nat \ {0}, NEW n \in Nat
  PROVE  Bytes(f, n) \in Seq(Nat) /\ Len(Bytes(f, n)) = n
BY DEF Bytes

(* The next bytes of the stream, put behind it, continue it.               *)
LEMMA BytesExtend ==
  ASSUME NEW m \in Nat, NEW k \in Nat, NEW n \in Nat, n <= k
  PROVE  /\ SubSeq(Bytes(m + 1, k), 1, n) = Bytes(m + 1, n)
         /\ Bytes(1, m) \o Bytes(m + 1, n) = Bytes(1, m + n)
<1>1. SubSeq(Bytes(m + 1, k), 1, n) = Bytes(m + 1, n)
  BY DEF Bytes
<1>2. Bytes(1, m) \o Bytes(m + 1, n) = Bytes(1, m + n)
  BY DEF Bytes
<1>. QED BY <1>1, <1>2

-----------------------------------------------------------------------------
(* The inductive invariant.                                                *)

SentInv(e) ==
  /\ sent[e] = Bytes(1, Len(sent[e]))
  /\ Len(sent[e]) <= asked[e]
  /\ got[Peer(e)] <= Len(sent[e])

(* What armure has of the write under way; unless the connection is down,  *)
(* everything that was asked for before it.                                *)
WriteInv(e) ==
  /\ call[e] = "write" => length[e] <= asked[e]
  /\ ~Down[e] => Len(sent[e]) = IF call[e] = "write"
                                THEN asked[e] - length[e] + totalWritten[e]
                                ELSE asked[e]
  /\ answer[e] = "true" => Len(sent[e]) = asked[e]
  /\ notified[e] => Len(sent[e]) = asked[e]

(* A write that is to be repeated is the one under way.                    *)
PendingInv(e) ==
  Down[e] \/ pending[e] = <<>> \/ (call[e] = "write" /\ pending[e] = Remaining(e))

CauseInv(e) ==
  /\ failed[e] \/ call[e] = "thrown" \/ answer[e] = "failed" => Cause(e)
  /\ call[e] = "closed" => (e \in SocketEnds => ~open[e]) /\ (notified[e] \/ Cause(e))
  /\ notified[e] \/ ~open[e] => call[e] \in {"closed", "gone"}

TlsInv == TlsTypeOK /\ \A e \in Ends : SentInv(e) /\ WriteInv(e) /\ PendingInv(e) /\ CauseInv(e)

LEMMA InitInv == TlsInit => TlsInv
<1>. SUFFICES ASSUME TlsInit PROVE TlsInv
  OBVIOUS
<1>1. TlsTypeOK
  BY TlsAssumption, PeerFacts DEF TlsInit, TlsTypeOK, CallsTyped, BytesTyped,
    ArmureTyped, TlsAssumption, Calls, InCall, Answers
<1>2. ASSUME NEW e \in Ends PROVE SentInv(e) /\ WriteInv(e) /\ PendingInv(e) /\ CauseInv(e)
  BY PeerFacts DEF TlsInit, SentInv, WriteInv, PendingInv, CauseInv, Bytes, Down, Cause
<1>. QED BY <1>1, <1>2 DEF TlsInv

(* Type correctness, one group of variables at a time.                     *)

LEMMA LeavesTyped ==
  ASSUME CallsTyped, NEW e \in Ends, NEW c \in Calls \ {"write"}, NEW a \in Answers,
         Leaves(e, c, a),
         length' \in [Ends -> Nat] /\ totalWritten' \in [Ends -> Nat],
         \A x \in Ends : x # e => length'[x] = length[x] /\ totalWritten'[x] = totalWritten[x],
         c = "read" => length'[e] <= MaxRead
  PROVE  CallsTyped'
BY DEF CallsTyped, Leaves

LEMMA ReturnsTyped ==
  ASSUME CallsTyped, NEW e \in Ends, NEW c \in Calls \ {"read", "write"}, NEW a \in Answers,
         Returns(e, c, a)
  PROVE  CallsTyped'
BY LeavesTyped DEF CallsTyped, Returns

LEMMA EntersTyped ==
  ASSUME CallsTyped, NEW e \in Ends, NEW c \in Calls \ {"write"}, NEW size \in Nat,
         c = "read" => size <= MaxRead, EntersWith(e, c, size)
  PROVE  CallsTyped'
BY LeavesTyped DEF CallsTyped, EntersWith, Enters, Answers

LEMMA CallsTypedStep ==
  ASSUME TlsInv, [TlsNext]_vars
  PROVE  CallsTyped'
<1>0. CallsTyped
  BY DEF TlsInv, TlsTypeOK
<1>. DEFINE Same == UNCHANGED call /\ UNCHANGED answer /\ UNCHANGED length /\ UNCHANGED totalWritten
<1>1. Same => CallsTyped'
  BY <1>0 DEF CallsTyped
<1>2. CASE UNCHANGED vars
  BY <1>1, <1>2 DEF vars
<1>3. CASE Break
  BY <1>1, <1>3 DEF Break
<1>4. ASSUME NEW e \in Ends, Flight(e) PROVE CallsTyped'
  BY <1>1, <1>4 DEF Flight
<1>5. ASSUME NEW e \in Ends, Handshake(e) PROVE CallsTyped'
  <2>1. Same \/ Returns(e, "idle", "none") \/ Returns(e, "thrown", "none")
    BY <1>5 DEF Handshake, Retries, GivesUp, locals
  <2>. QED BY <1>0, <1>1, <2>1, ReturnsTyped DEF Calls, Over, Answers
<1>6. ASSUME NEW e \in Ends, NEW size \in 0 .. MaxRead, CallRead(e, size) PROVE CallsTyped'
  <2>1. Returns(e, "idle", "ok") \/ EntersWith(e, "read", size)
    BY <1>6 DEF CallRead
  <2>2. size \in Nat
    BY TlsAssumption DEF TlsAssumption
  <2>. QED BY <1>0, <2>1, <2>2, ReturnsTyped, EntersTyped DEF Calls, InCall, Over, Answers
<1>7. ASSUME NEW e \in Ends, ReadLoop(e) PROVE CallsTyped'
  <2>1. Same \/ Returns(e, "idle", "ok") \/ Returns(e, "idle", "failed")
    BY <1>7 DEF ReadLoop, Retries, GivesUp, locals
  <2>. QED BY <1>0, <1>1, <2>1, ReturnsTyped DEF Calls, Over, Answers
<1>8. ASSUME NEW e \in Ends, NEW size \in 0 .. MaxWrite, CallWrite(e, size) PROVE CallsTyped'
  <2>1. size \in Nat
    BY TlsAssumption DEF TlsAssumption
  <2>2. CASE Returns(e, "idle", "ok")
    BY <1>0, <2>2, ReturnsTyped DEF Calls, Over, Answers
  <2>3. CASE size > 0 /\ EntersWith(e, "write", size)
    BY <1>0, <1>8, <2>1, <2>3 DEF CallsTyped, EntersWith, Enters, Leaves, Calls, InCall, Answers,
                                  CallWrite
  <2>. QED BY <1>8, <2>1, <2>2, <2>3 DEF CallWrite
<1>9. ASSUME NEW e \in Ends, WriteLoop(e) PROVE CallsTyped'
  <2>1. PICK n \in 0 .. length[e] :
          Same \/ Returns(e, "idle", "failed") \/ Advances(e, n)
    BY <1>9 DEF WriteLoop, Retries, GivesUp, locals
  <2>2. CASE Advances(e, n)
    <3>1. CASE Returns(e, "idle", "true")
      BY <1>0, <3>1, ReturnsTyped DEF Calls, Over, Answers
    <3>2. CASE totalWritten[e] + n < length[e] /\ ~Returns(e, "idle", "true")
      BY <1>0, <2>2, <3>2 DEF Advances, CallsTyped
    <3>. QED BY <2>2, <3>1, <3>2 DEF Advances
  <2>. QED BY <1>0, <1>1, <2>1, <2>2, ReturnsTyped DEF Calls, Over, Answers
<1>10. ASSUME NEW e \in Ends, CallClose(e) PROVE CallsTyped'
  BY <1>0, <1>10, EntersTyped DEF CallClose, Calls, InCall
<1>11. ASSUME NEW e \in Ends, CloseLoop(e) PROVE CallsTyped'
  <2>1. Same \/ Returns(e, "closed", "none")
    BY <1>11 DEF CloseLoop, Retries, GivesUp, locals
  <2>. QED BY <1>0, <1>1, <2>1, ReturnsTyped DEF Calls, Over, Answers
<1>12. ASSUME NEW e \in Ends, Destroy(e) PROVE CallsTyped'
  BY <1>0, <1>12, EntersTyped DEF Destroy, Calls, Over
<1>. QED BY <1>2, <1>3, <1>4, <1>5, <1>6, <1>7, <1>8, <1>9, <1>10, <1>11, <1>12
         DEF TlsNext, Loop, Use

LEMMA RemainingTyped ==
  ASSUME TlsInv, NEW e \in Ends, call[e] = "write"
  PROVE  /\ Remaining(e) \in Seq(Nat)
         /\ Len(Remaining(e)) = length[e] - totalWritten[e]
<1>1. length[e] \in Nat /\ totalWritten[e] \in Nat /\ asked[e] \in Nat
  BY DEF TlsInv, TlsTypeOK, CallsTyped, BytesTyped
<1>2. totalWritten[e] < length[e]
  BY DEF TlsInv, TlsTypeOK, CallsTyped
<1>3. length[e] <= asked[e]
  BY DEF TlsInv, WriteInv
<1>4. /\ asked[e] - length[e] + totalWritten[e] + 1 \in Nat \ {0}
      /\ length[e] - totalWritten[e] \in Nat
  BY <1>1, <1>2, <1>3
<1>. QED BY <1>4, BytesType DEF Remaining

LEMMA BytesTypedStep ==
  ASSUME TlsInv, [TlsNext]_vars
  PROVE  BytesTyped'
<1>0. CallsTyped /\ BytesTyped
  BY DEF TlsInv, TlsTypeOK
<1>. DEFINE Same == UNCHANGED asked /\ UNCHANGED sent /\ UNCHANGED got
<1>1. Same => BytesTyped'
  BY <1>0 DEF BytesTyped
<1>2. CASE UNCHANGED vars
  BY <1>1, <1>2 DEF vars
<1>3. CASE Break
  BY <1>1, <1>3 DEF Break
<1>4. ASSUME NEW e \in Ends, Flight(e) \/ Handshake(e) PROVE BytesTyped'
  BY <1>1, <1>4 DEF Flight, Handshake
<1>5. ASSUME NEW e \in Ends, NEW size \in 0 .. MaxRead, CallRead(e, size) PROVE BytesTyped'
  BY <1>1, <1>5 DEF CallRead
<1>6. ASSUME NEW e \in Ends, ReadLoop(e) PROVE BytesTyped'
  <2>1. PICK n \in Nat : UNCHANGED asked /\ UNCHANGED sent /\
                         (got' = [got EXCEPT ![e] = @ + n] \/ UNCHANGED got)
    <3>1. PICK result \in Results, n \in 0 .. length[e] : ArmureRead(e, length[e], result, n)
      BY <1>6 DEF ReadLoop
    <3>2. n \in Nat
      BY <1>0 DEF CallsTyped
    <3>. QED BY <1>6, <3>1, <3>2 DEF ReadLoop, ArmureRead
  <2>2. got' \in [Ends -> Nat]
    <3>0. got \in [Ends -> Nat]
      BY <1>0 DEF BytesTyped
    <3>1. CASE got' = [got EXCEPT ![e] = @ + n]
      <4>1. got[e] + n \in Nat
        BY <3>0
      <4>. QED BY <3>0, <3>1, <4>1
    <3>. QED BY <2>1, <3>0, <3>1
  <2>. QED BY <1>0, <2>1, <2>2 DEF BytesTyped
<1>7. ASSUME NEW e \in Ends, NEW size \in 0 .. MaxWrite, CallWrite(e, size) PROVE BytesTyped'
  <2>1. size \in Nat /\ UNCHANGED sent /\ UNCHANGED got
    BY <1>7, TlsAssumption DEF CallWrite, TlsAssumption
  <2>2. asked' = [asked EXCEPT ![e] = @ + size] /\ asked[e] + size <= MaxBytes[e]
    BY <1>7 DEF CallWrite
  <2>. QED BY <1>0, <2>1, <2>2 DEF BytesTyped
<1>8. ASSUME NEW e \in Ends, WriteLoop(e) PROVE BytesTyped'
  <2>1. PICK result \in Results, n \in 0 .. length[e] : ArmureWrite(e, Remaining(e), result, n)
    BY <1>8 DEF WriteLoop
  <2>2. UNCHANGED asked /\ UNCHANGED got
    BY <1>8 DEF WriteLoop
  <2>3. CASE UNCHANGED sent
    BY <1>1, <2>2, <2>3
  <2>4. CASE n \in 1 .. Len(Remaining(e)) /\ sent' = [sent EXCEPT ![e] = @ \o SubSeq(Remaining(e), 1, n)]
    <3>1. Remaining(e) \in Seq(Nat)
      BY <1>8, RemainingTyped DEF WriteLoop
    <3>2. sent[e] \o SubSeq(Remaining(e), 1, n) \in Seq(Nat)
      BY <1>0, <2>4, <3>1 DEF BytesTyped
    <3>. QED BY <1>0, <2>2, <2>4, <3>2 DEF BytesTyped
  <2>. QED BY <2>1, <2>3, <2>4 DEF ArmureWrite
<1>9. ASSUME NEW e \in Ends, CallClose(e) \/ CloseLoop(e) \/ Destroy(e) PROVE BytesTyped'
  BY <1>1, <1>9 DEF CallClose, CloseLoop, Destroy
<1>. QED BY <1>2, <1>3, <1>4, <1>5, <1>6, <1>7, <1>8, <1>9 DEF TlsNext, Loop, Use

LEMMA ArmureTypedStep ==
  ASSUME TlsInv, [TlsNext]_vars
  PROVE  ArmureTyped'
<1>0. CallsTyped /\ BytesTyped /\ ArmureTyped
  BY DEF TlsInv, TlsTypeOK
<1>. DEFINE Same == UNCHANGED pending /\ UNCHANGED wants /\ UNCHANGED failed /\ UNCHANGED notified
<1>1. Same => ArmureTyped'
  BY <1>0 DEF ArmureTyped
<1>2. ASSUME NEW e \in Ends, NEW result,
             UNCHANGED wants \/ Asks(e, result),
             UNCHANGED failed \/ Fails(e),
             UNCHANGED notified \/ notified' = [notified EXCEPT ![e] = TRUE],
             pending' \in [Ends -> Seq(Nat)]
      PROVE  ArmureTyped'
  <2>1. wants' \in [Ends -> 0 .. MaxWants]
    <3>0. wants \in [Ends -> 0 .. MaxWants] /\ MaxWants \in Nat
      BY <1>0, TlsAssumption DEF ArmureTyped, TlsAssumption
    <3>1. CASE wants[e] > 0 /\ wants' = [wants EXCEPT ![e] = @ - 1]
      <4>1. wants[e] - 1 \in 0 .. MaxWants
        BY <3>0, <3>1
      <4>. QED BY <3>0, <3>1, <4>1
    <3>. QED BY <1>2, <3>0, <3>1 DEF Asks
  <2>2. failed' \in [Ends -> BOOLEAN]
    BY <1>0, <1>2 DEF ArmureTyped, Fails
  <2>3. notified' \in [Ends -> BOOLEAN]
    BY <1>0, <1>2 DEF ArmureTyped
  <2>. QED BY <1>2, <2>1, <2>2, <2>3 DEF ArmureTyped
<1>3. pending \in [Ends -> Seq(Nat)]
  BY <1>0 DEF ArmureTyped
<1>4. CASE UNCHANGED vars
  BY <1>1, <1>4 DEF vars, armureVars
<1>5. CASE Break
  BY <1>1, <1>5 DEF Break, armureVars
<1>6. ASSUME NEW e \in Ends, Flight(e) PROVE ArmureTyped'
  BY <1>1, <1>6 DEF Flight, armureVars
<1>7. ASSUME NEW e \in Ends, Handshake(e) PROVE ArmureTyped'
  <2>1. PICK result \in Results : ArmureHandshake(e, result)
    BY <1>7 DEF Handshake
  <2>. QED BY <1>2, <1>3, <1>7, <2>1 DEF Handshake, ArmureHandshake
<1>8. ASSUME NEW e \in Ends, Use(e) \/ Destroy(e) PROVE ArmureTyped'
  BY <1>1, <1>8 DEF Use, CallRead, CallWrite, CallClose, Destroy, armureVars
<1>9. ASSUME NEW e \in Ends, ReadLoop(e) PROVE ArmureTyped'
  <2>1. PICK result \in Results, n \in 0 .. length[e] : ArmureRead(e, length[e], result, n)
    BY <1>9 DEF ReadLoop
  <2>. QED BY <1>2, <1>3, <1>9, <2>1 DEF ReadLoop, ArmureRead
<1>10. ASSUME NEW e \in Ends, WriteLoop(e) PROVE ArmureTyped'
  <2>1. PICK result \in Results, n \in 0 .. length[e] : ArmureWrite(e, Remaining(e), result, n)
    BY <1>10 DEF WriteLoop
  <2>2. Remaining(e) \in Seq(Nat)
    BY <1>10, RemainingTyped DEF WriteLoop
  <2>3. /\ UNCHANGED wants \/ Asks(e, result)
        /\ UNCHANGED failed \/ Fails(e)
        /\ UNCHANGED pending \/ pending' = [pending EXCEPT ![e] = <<>>]
             \/ pending' = [pending EXCEPT ![e] = Remaining(e)]
    BY <2>1 DEF ArmureWrite
  <2>4. pending' \in [Ends -> Seq(Nat)]
    <3>1. CASE pending' = [pending EXCEPT ![e] = <<>>]
      BY <1>3, <3>1
    <3>2. CASE pending' = [pending EXCEPT ![e] = Remaining(e)]
      BY <1>3, <2>2, <3>2
    <3>. QED BY <1>3, <2>3, <3>1, <3>2
  <2>5. UNCHANGED notified
    BY <1>10 DEF WriteLoop
  <2>. QED BY <1>2, <2>3, <2>4, <2>5
<1>11. ASSUME NEW e \in Ends, CloseLoop(e) PROVE ArmureTyped'
  <2>1. PICK result \in Results : ArmureShutdown(e, result)
    BY <1>11 DEF CloseLoop
  <2>. QED BY <1>2, <1>3, <1>11, <2>1 DEF CloseLoop, ArmureShutdown
<1>. QED BY <1>4, <1>5, <1>6, <1>7, <1>8, <1>9, <1>10, <1>11 DEF TlsNext, Loop

LEMMA TypeStep ==
  ASSUME TlsInv, [TlsNext]_vars
  PROVE  TlsTypeOK'
<1>. DEFINE Phase == handshake \in {"start", "hello", "reply", "done", "rejected"}
            Socket == open \in [Ends -> BOOLEAN]
<1>1. Phase /\ Socket /\ network \in {"up", "broken", "mute"}
  BY DEF TlsInv, TlsTypeOK
<1>2. Phase'
  <2>1. ASSUME NEW e \in Ends, Handshake(e) PROVE Phase'
    <3>1. PICK result \in Results : ArmureHandshake(e, result)
      BY <2>1 DEF Handshake
    <3>. QED BY <1>1, <3>1 DEF ArmureHandshake
  <2>2. ASSUME NEW e \in Ends, Flight(e) PROVE Phase'
    BY <2>2 DEF Flight
  <2>. QED BY <1>1, <2>1, <2>2 DEF TlsNext, vars, Loop, Use, Break, CallRead, ReadLoop,
              CallWrite, WriteLoop, CallClose, CloseLoop, Destroy
<1>3. (network \in {"up", "broken", "mute"})'
  BY <1>1 DEF TlsNext, vars, Loop, Use, Break, Flight, Handshake, CallRead, ReadLoop,
              CallWrite, WriteLoop, CallClose, CloseLoop, Destroy
<1>4. Socket'
  <2>1. ASSUME NEW e \in Ends, CloseLoop(e) PROVE Socket'
    BY <1>1, <2>1 DEF CloseLoop, CloseSocket
  <2>2. ASSUME NEW e \in Ends, Destroy(e) PROVE Socket'
    BY <1>1, <2>2 DEF Destroy
  <2>. QED BY <1>1, <2>1, <2>2 DEF TlsNext, vars, Loop, Use, Break, Flight, Handshake, CallRead,
              ReadLoop, CallWrite, WriteLoop, CallClose
<1>. QED BY <1>2, <1>3, <1>4, CallsTypedStep, BytesTypedStep, ArmureTypedStep DEF TlsTypeOK

-----------------------------------------------------------------------------
(* What no step takes back, and what a step leaves alone.                  *)

OthersKept(e) ==
  \A x \in Ends \ {e} :
    /\ call'[x] = call[x] /\ answer'[x] = answer[x] /\ asked'[x] = asked[x]
    /\ sent'[x] = sent[x] /\ got'[x] = got[x]
    /\ length'[x] = length[x] /\ totalWritten'[x] = totalWritten[x]
    /\ pending'[x] = pending[x] /\ failed'[x] = failed[x]
    /\ notified'[x] = notified[x] /\ open'[x] = open[x]

EndStep(e) == Loop(e) \/ Use(e) \/ Destroy(e)

LEMMA StepKeepsOthers ==
  ASSUME TlsTypeOK, NEW e \in Ends, EndStep(e)
  PROVE  OthersKept(e) /\ network' = network
<1>. USE DEF TlsTypeOK, CallsTyped, BytesTyped, ArmureTyped
<1>1. CASE Flight(e)
  BY <1>1 DEF Flight, OthersKept, armureVars
<1>2. CASE Handshake(e)
  <2>1. PICK result \in Results : /\ ArmureHandshake(e, result)
                                  /\ \/ Returns(e, "idle", "none")
                                     \/ UNCHANGED <<call, answer, length, totalWritten>>
                                     \/ Returns(e, "thrown", "none")
    BY <1>2 DEF Handshake, Retries, GivesUp, locals
  <2>2. UNCHANGED failed \/ Fails(e)
    BY <2>1 DEF ArmureHandshake
  <2>. QED BY <1>2, <2>1, <2>2 DEF Handshake, Returns, Leaves, Fails, OthersKept
<1>3. CASE ReadLoop(e)
  <2>1. PICK result \in Results, n \in 0 .. length[e] :
          /\ ArmureRead(e, length[e], result, n)
          /\ \/ Returns(e, "idle", "ok")
             \/ UNCHANGED <<call, answer, length, totalWritten>>
             \/ Returns(e, "idle", "failed")
    BY <1>3 DEF ReadLoop, Retries, GivesUp, locals
  <2>2. (UNCHANGED failed \/ Fails(e)) /\ (UNCHANGED got \/ got' = [got EXCEPT ![e] = @ + n])
    BY <2>1 DEF ArmureRead
  <2>. QED BY <1>3, <2>1, <2>2 DEF ReadLoop, Returns, Leaves, Fails, OthersKept
<1>4. CASE WriteLoop(e)
  <2>1. PICK result \in Results, n \in 0 .. length[e] :
          /\ ArmureWrite(e, Remaining(e), result, n)
          /\ \/ Advances(e, n)
             \/ UNCHANGED <<call, answer, length, totalWritten>>
             \/ Returns(e, "idle", "failed")
    BY <1>4 DEF WriteLoop, Retries, GivesUp, locals
  <2>2. /\ UNCHANGED failed \/ Fails(e)
        /\ UNCHANGED sent \/ sent' = [sent EXCEPT ![e] = @ \o SubSeq(Remaining(e), 1, n)]
        /\ UNCHANGED pending \/ pending' = [pending EXCEPT ![e] = <<>>]
             \/ pending' = [pending EXCEPT ![e] = Remaining(e)]
    BY <2>1 DEF ArmureWrite
  <2>3. \A x \in Ends \ {e} : call'[x] = call[x] /\ answer'[x] = answer[x]
                              /\ length'[x] = length[x] /\ totalWritten'[x] = totalWritten[x]
    BY <2>1 DEF Returns, Leaves, Advances
  <2>4. \A x \in Ends \ {e} : pending'[x] = pending[x] /\ sent'[x] = sent[x] /\ failed'[x] = failed[x]
    BY <2>2 DEF Fails
  <2>. QED BY <1>4, <2>3, <2>4 DEF WriteLoop, OthersKept
<1>5. CASE CloseLoop(e)
  <2>1. PICK result \in Results : /\ ArmureShutdown(e, result)
                                  /\ UNCHANGED open \/ CloseSocket(e)
                                  /\ \/ Returns(e, "closed", "none")
                                     \/ UNCHANGED <<call, answer, length, totalWritten>>
    BY <1>5 DEF CloseLoop, Retries, GivesUp, locals
  <2>2. /\ UNCHANGED failed \/ Fails(e)
        /\ UNCHANGED notified \/ notified' = [notified EXCEPT ![e] = TRUE]
    BY <2>1 DEF ArmureShutdown
  <2>. QED BY <1>5, <2>1, <2>2 DEF CloseLoop, CloseSocket, Returns, Leaves, Fails, OthersKept
<1>6. ASSUME NEW size \in 0 .. MaxRead, CallRead(e, size) PROVE OthersKept(e) /\ network' = network
  BY <1>6 DEF CallRead, Returns, EntersWith, Enters, Leaves, OthersKept, armureVars
<1>7. ASSUME NEW size \in 0 .. MaxWrite, CallWrite(e, size) PROVE OthersKept(e) /\ network' = network
  BY <1>7 DEF CallWrite, Returns, EntersWith, Enters, Leaves, OthersKept, armureVars
<1>8. CASE CallClose(e)
  BY <1>8 DEF CallClose, EntersWith, Enters, Leaves, OthersKept, armureVars
<1>9. CASE Destroy(e)
  BY <1>9 DEF Destroy, EntersWith, Enters, Leaves, OthersKept, armureVars
<1>. QED BY <1>1, <1>2, <1>3, <1>4, <1>5, <1>6, <1>7, <1>8, <1>9 DEF EndStep, Loop, Use

(* An end that is over stays over, and a failure is final.                 *)
LEMMA StepKeepsFailures ==
  ASSUME TlsTypeOK, NEW e \in Ends, EndStep(e)
  PROVE  /\ call[e] \in Over => call'[e] \in Over
         /\ failed[e] => failed'[e]
         /\ handshake = "rejected" => handshake' = "rejected"
<1>. USE DEF TlsTypeOK, CallsTyped, ArmureTyped
<1>1. CASE Flight(e)
  BY <1>1 DEF Flight, armureVars
<1>2. CASE Handshake(e)
  <2>1. PICK result \in Results : ArmureHandshake(e, result)
    BY <1>2 DEF Handshake
  <2>. QED BY <1>2, <2>1 DEF Handshake, ArmureHandshake, Fails, Over
<1>3. CASE ReadLoop(e)
  <2>1. PICK result \in Results, n \in 0 .. length[e] : ArmureRead(e, length[e], result, n)
    BY <1>3 DEF ReadLoop
  <2>. QED BY <1>3, <2>1 DEF ReadLoop, ArmureRead, Fails, Over
<1>4. CASE WriteLoop(e)
  <2>1. PICK result \in Results, n \in 0 .. length[e] : ArmureWrite(e, Remaining(e), result, n)
    BY <1>4 DEF WriteLoop
  <2>. QED BY <1>4, <2>1 DEF WriteLoop, ArmureWrite, Fails, Over
<1>5. CASE CloseLoop(e)
  <2>1. PICK result \in Results : ArmureShutdown(e, result)
    BY <1>5 DEF CloseLoop
  <2>. QED BY <1>5, <2>1 DEF CloseLoop, ArmureShutdown, Fails, Over
<1>6. CASE Use(e)
  BY <1>6 DEF Use, CallRead, CallWrite, CallClose, armureVars, Over
<1>7. CASE Destroy(e)
  BY <1>7 DEF Destroy, EntersWith, Enters, Leaves, armureVars, Over
<1>. QED BY <1>1, <1>2, <1>3, <1>4, <1>5, <1>6, <1>7 DEF EndStep, Loop

LEMMA CauseStays ==
  ASSUME TlsTypeOK, [TlsNext]_vars, NEW x \in Ends
  PROVE  /\ Cause(x) => Cause(x)'
         /\ Down[x] => Down'[x]
<1>1. CASE UNCHANGED vars
  BY <1>1 DEF vars, armureVars, Cause, Down
<1>2. CASE Break
  BY <1>2 DEF Break, armureVars, Cause, Down
<1>3. ASSUME NEW e \in Ends, EndStep(e)
      PROVE  (Cause(x) => Cause(x)') /\ (Down[x] => Down'[x])
  <2>1. OthersKept(e) /\ network' = network
    BY <1>3, StepKeepsOthers
  <2>2. /\ call[e] \in Over => call'[e] \in Over
        /\ failed[e] => failed'[e]
        /\ handshake = "rejected" => handshake' = "rejected"
    BY <1>3, StepKeepsFailures
  <2>3. Peer(x) \in Ends
    BY PeerFacts
  <2>. QED BY <2>1, <2>2, <2>3 DEF OthersKept, Cause, Down
<1>. QED BY <1>1, <1>2, <1>3 DEF TlsNext, EndStep

-----------------------------------------------------------------------------
(* A step keeps the invariant of the end that does not take it.            *)

EndInv(x) == SentInv(x) /\ WriteInv(x) /\ PendingInv(x) /\ CauseInv(x)

LEMMA OtherEnd ==
  ASSUME TlsInv, NEW e \in Ends, EndStep(e), NEW x \in Ends, x # e,
         got'[e] <= Len(sent[x])
  PROVE  EndInv(x)'
<1>1. EndInv(x) /\ TlsTypeOK
  BY DEF TlsInv, EndInv
<1>2. OthersKept(e) /\ network' = network
  BY <1>1, StepKeepsOthers
<1>3. Peer(x) = e
  BY PeerFacts
<1>4. Cause(x) => Cause(x)'
  BY <1>1, CauseStays DEF TlsNext, EndStep
<1>5. SentInv(x)'
  BY <1>1, <1>2, <1>3 DEF EndInv, SentInv, OthersKept
<1>6. WriteInv(x)'
  BY <1>1, <1>2 DEF EndInv, WriteInv, OthersKept, Down
<1>7. PendingInv(x)'
  BY <1>1, <1>2 DEF EndInv, PendingInv, OthersKept, Down, Remaining
<1>8. CauseInv(x)'
  BY <1>1, <1>2, <1>4 DEF EndInv, CauseInv, OthersKept
<1>. QED BY <1>5, <1>6, <1>7, <1>8 DEF EndInv

(* ... and of the one that does, action by action.                         *)

LEMMA HandshakeStep ==
  ASSUME TlsInv, NEW e \in Ends, Flight(e) \/ Handshake(e)
  PROVE  EndInv(e)' /\ got'[e] = got[e]
<1>1. EndInv(e) /\ TlsTypeOK /\ call[e] = "connecting"
  BY DEF TlsInv, EndInv, Flight, Handshake
<1>2. Cause(e) => Cause(e)'
  BY <1>1, CauseStays DEF TlsNext, Loop
<1>3. UNCHANGED asked /\ UNCHANGED sent /\ UNCHANGED got /\ UNCHANGED pending
      /\ UNCHANGED notified /\ UNCHANGED open /\ UNCHANGED network
  BY DEF Flight, Handshake, armureVars
<1>4. CASE Flight(e)
  BY <1>1, <1>2, <1>3, <1>4 DEF Flight, EndInv, SentInv, WriteInv, PendingInv, CauseInv, Down, Remaining, armureVars
<1>5. CASE Handshake(e)
  <2>1. PICK result \in Results :
          /\ ArmureHandshake(e, result)
          /\ \/ result = "ok" /\ Returns(e, "idle", "none")
             \/ Retries(result)
             \/ GivesUp(e, result, "thrown", "none")
    BY <1>5 DEF Handshake
  <2>2. /\ failed[e] => failed'[e]
        /\ failed'[e] => Cause(e)' \/ failed[e]
        /\ result \notin Wants /\ result # "ok" => failed'[e]
    <3>1. ASSUME result = "Closed", result \in TransportRead(e) PROVE Cause(e)
      <4>1. network # "up" \/ ~open[Peer(e)]
        BY <1>1, <3>1 DEF TransportRead, RecvAvailable
      <4>2. ~open[Peer(e)] => call[Peer(e)] \in Over
        BY PeerFacts DEF TlsInv, CauseInv, Over
      <4>. QED BY <4>1, <4>2 DEF Cause
    <3>. QED BY <1>1, <1>2, <2>1, <3>1 DEF ArmureHandshake, Fails, Asks, Cause, TlsTypeOK, ArmureTyped
  <2>3. /\ call'[e] \in {"idle", "connecting", "thrown"}
        /\ answer'[e] = answer[e] \/ answer'[e] = "none"
        /\ call'[e] = "thrown" => failed'[e]
    BY <1>1, <2>1, <2>2 DEF Returns, Leaves, Retries, GivesUp, isWantRetry, Wants, TlsTypeOK, CallsTyped, locals
  <2>4. SentInv(e)'
    BY <1>1, <1>3 DEF EndInv, SentInv
  <2>5. WriteInv(e)'
    BY <1>1, <1>3, <2>2, <2>3 DEF EndInv, WriteInv, Down
  <2>6. PendingInv(e)'
    BY <1>1, <1>3, <2>2 DEF EndInv, PendingInv, Down
  <2>7. CauseInv(e)'
    BY <1>1, <1>2, <1>3, <2>2, <2>3 DEF EndInv, CauseInv
  <2>. QED BY <1>3, <2>4, <2>5, <2>6, <2>7 DEF EndInv
<1>. QED BY <1>4, <1>5

LEMMA ReadLoopStep ==
  ASSUME TlsInv, NEW e \in Ends, ReadLoop(e)
  PROVE  EndInv(e)' /\ got'[e] <= Len(sent[Peer(e)])
<1>1. EndInv(e) /\ TlsTypeOK /\ call[e] = "read"
  BY DEF TlsInv, EndInv, ReadLoop
<1>2. Cause(e) => Cause(e)'
  BY <1>1, CauseStays DEF TlsNext, Loop
<1>3. UNCHANGED asked /\ UNCHANGED sent /\ UNCHANGED pending
      /\ UNCHANGED notified /\ UNCHANGED open /\ UNCHANGED network
  BY DEF ReadLoop
<1>4. PICK result \in Results, n \in 0 .. length[e] :
          /\ ArmureRead(e, length[e], result, n)
          /\ \/ result = "ok" /\ Returns(e, "idle", "ok")
             \/ Retries(result)
             \/ GivesUp(e, result, "idle", "failed")
  BY DEF ReadLoop
<1>5. Peer(e) \in Ends /\ Peer(e) # e /\ Peer(Peer(e)) = e
  BY PeerFacts
<1>6. got[e] <= Len(sent[Peer(e)])
  BY <1>5 DEF TlsInv, SentInv
<1>7. /\ got'[Peer(e)] = got[Peer(e)]
      /\ got'[e] <= Len(sent[Peer(e)])
  <2>1. CASE UNCHANGED got
    BY <1>6, <2>1
  <2>2. CASE n <= Unread(e) /\ got' = [got EXCEPT ![e] = @ + n]
    <3>1. got[e] \in Nat /\ Len(sent[Peer(e)]) \in Nat /\ n \in Nat
      BY <1>1, <1>5 DEF TlsTypeOK, BytesTyped, CallsTyped
    <3>2. got'[e] = got[e] + n /\ got'[Peer(e)] = got[Peer(e)]
      BY <1>1, <1>5, <2>2 DEF TlsTypeOK, BytesTyped
    <3>. QED BY <2>2, <3>1, <3>2 DEF Unread
  <2>. QED BY <1>4, <2>1, <2>2 DEF ArmureRead
<1>8. /\ failed[e] => failed'[e]
      /\ failed'[e] => failed[e] \/ Cause(e)
      /\ result \notin Wants /\ result # "ok" => Cause(e)
  <2>1. ASSUME result = "Closed", result \in TransportRead(e) PROVE Cause(e)
    <3>1. network # "up" \/ ~open[Peer(e)] \/ e \in TimedEnds
      BY <2>1 DEF TransportRead, RecvAvailable
    <3>2. ~open[Peer(e)] => call[Peer(e)] \in Over
      BY <1>5 DEF TlsInv, CauseInv, Over
    <3>. QED BY <3>1, <3>2 DEF Cause
  <2>2. notified[Peer(e)] => Cause(e)
    BY <1>5 DEF TlsInv, CauseInv, Over, Cause
  <2>3. failed[e] => Cause(e)
    BY <1>1 DEF EndInv, CauseInv
  <2>. QED BY <1>1, <1>4, <2>1, <2>2, <2>3 DEF ArmureRead, Fails, Asks, TlsTypeOK, ArmureTyped
<1>9. /\ call'[e] \in {"idle", "read"}
      /\ answer'[e] \in {answer[e], "ok", "failed"}
      /\ answer'[e] = "failed" => answer[e] = "failed" \/ Cause(e)
  BY <1>1, <1>4, <1>8 DEF Returns, Leaves, Retries, GivesUp, isWantRetry, Wants, TlsTypeOK, CallsTyped, locals
<1>10. SentInv(e)'
  BY <1>1, <1>3, <1>7 DEF EndInv, SentInv
<1>11. WriteInv(e)'
  BY <1>1, <1>3, <1>8, <1>9 DEF EndInv, WriteInv, Down
<1>12. PendingInv(e)'
  BY <1>1, <1>3, <1>8 DEF EndInv, PendingInv, Down
<1>13. CauseInv(e)'
  BY <1>1, <1>2, <1>3, <1>8, <1>9 DEF EndInv, CauseInv
<1>. QED BY <1>7, <1>10, <1>11, <1>12, <1>13 DEF EndInv

LEMMA UseStep ==
  ASSUME TlsInv, NEW e \in Ends, Use(e) \/ Destroy(e)
  PROVE  EndInv(e)' /\ got'[e] = got[e]
<1>1. EndInv(e) /\ TlsTypeOK
  BY DEF TlsInv, EndInv
<1>2. Cause(e) => Cause(e)'
  BY <1>1, CauseStays DEF TlsNext
<1>3. /\ UNCHANGED sent /\ UNCHANGED got /\ UNCHANGED pending /\ UNCHANGED failed
      /\ UNCHANGED notified /\ UNCHANGED network
  BY DEF Use, CallRead, CallWrite, CallClose, Destroy, armureVars
<1>4. CASE call[e] = "idle" /\ UNCHANGED asked /\ UNCHANGED open
           /\ call'[e] \in {"idle", "read", "close"} /\ answer'[e] \in {"ok", "none"}
  BY <1>1, <1>2, <1>3, <1>4 DEF EndInv, SentInv, WriteInv, PendingInv, CauseInv, Down
<1>5. ASSUME NEW size \in 0 .. MaxRead, CallRead(e, size) PROVE EndInv(e)'
  BY <1>1, <1>4, <1>5 DEF CallRead, Returns, EntersWith, Enters, Leaves, TlsTypeOK, CallsTyped
<1>6. CASE CallClose(e)
  BY <1>1, <1>4, <1>6 DEF CallClose, EntersWith, Enters, Leaves, TlsTypeOK, CallsTyped
<1>7. ASSUME NEW size \in 0 .. MaxWrite, CallWrite(e, size) PROVE EndInv(e)'
  <2>1. size \in Nat /\ asked[e] \in Nat /\ call[e] = "idle" /\ Len(sent[e]) \in Nat
    BY <1>1, <1>7, TlsAssumption DEF TlsAssumption, CallWrite, TlsTypeOK, BytesTyped
  <2>2. asked'[e] = asked[e] + size /\ UNCHANGED open
    BY <1>1, <1>7 DEF CallWrite, TlsTypeOK, BytesTyped
  <2>3. \/ size = 0 /\ call'[e] = "idle" /\ answer'[e] = "ok"
        \/ call'[e] = "write" /\ answer'[e] = "none" /\ length'[e] = size /\ totalWritten'[e] = 0
    <3>1. CASE size = 0
      BY <1>1, <1>7, <3>1 DEF CallWrite, Returns, Leaves, TlsTypeOK, CallsTyped
    <3>2. CASE size # 0
      BY <1>1, <1>7, <3>2 DEF CallWrite, EntersWith, Enters, Leaves, TlsTypeOK, CallsTyped
    <3>. QED BY <3>1, <3>2
  <2>4. SentInv(e)'
    BY <1>1, <1>3, <2>1, <2>2 DEF EndInv, SentInv
  <2>5. WriteInv(e)'
    <3>1. ~notified[e]
      BY <1>1, <2>1 DEF EndInv, CauseInv
    <3>. QED BY <1>1, <1>3, <2>1, <2>2, <2>3, <3>1 DEF EndInv, WriteInv, Down
  <2>6. PendingInv(e)'
    BY <1>1, <1>3, <2>1 DEF EndInv, PendingInv, Down
  <2>7. CauseInv(e)'
    BY <1>1, <1>2, <1>3, <2>1, <2>2, <2>3 DEF EndInv, CauseInv
  <2>. QED BY <2>4, <2>5, <2>6, <2>7 DEF EndInv
<1>8. CASE Destroy(e)
  <2>1. /\ call[e] \in {"idle", "thrown", "closed"} /\ call'[e] = "gone" /\ answer'[e] = "none"
        /\ UNCHANGED asked
    BY <1>1, <1>8 DEF Destroy, EntersWith, Enters, Leaves, TlsTypeOK, CallsTyped
  <2>. QED BY <1>1, <1>2, <1>3, <2>1 DEF EndInv, SentInv, WriteInv, PendingInv, CauseInv, Down
<1>. QED BY <1>3, <1>5, <1>6, <1>7, <1>8 DEF Use

LEMMA CloseLoopStep ==
  ASSUME TlsInv, NEW e \in Ends, CloseLoop(e)
  PROVE  EndInv(e)' /\ got'[e] = got[e]
<1>1. EndInv(e) /\ TlsTypeOK /\ call[e] = "close"
  BY DEF TlsInv, EndInv, CloseLoop
<1>2. Cause(e) => Cause(e)'
  BY <1>1, CauseStays DEF TlsNext, Loop
<1>3. UNCHANGED asked /\ UNCHANGED sent /\ UNCHANGED got /\ UNCHANGED pending /\ UNCHANGED network
  BY DEF CloseLoop
<1>4. PICK result \in Results :
          /\ ArmureShutdown(e, result)
          /\ \/ result = "ok" /\ Returns(e, "closed", "none") /\ CloseSocket(e)
             \/ Retries(result) /\ UNCHANGED open
             \/ GivesUp(e, result, "closed", "none") /\ CloseSocket(e)
  BY DEF CloseLoop
<1>5. ~open[Peer(e)] => Cause(e)
  BY PeerFacts DEF TlsInv, CauseInv, Over, Cause
<1>6. ~notified[e]
  BY <1>1 DEF EndInv, CauseInv
<1>7. /\ failed[e] => failed'[e]
      /\ failed'[e] => failed[e] \/ Cause(e)
      /\ notified'[e] => ~Down[e]
      /\ result = "ok" => notified'[e]
      /\ result \in Wants => ~notified'[e]
      /\ result \notin Wants /\ result # "ok" => Cause(e)
  <2>1. failed[e] => Cause(e)
    BY <1>1 DEF EndInv, CauseInv
  <2>2. network # "up" => Cause(e)
    BY DEF Cause
  <2>3. result = "ok" \/ result = "TransportError" \/ result = "ProtocolError" \/ result \in Wants
    BY <1>4 DEF ArmureShutdown, Asks
  <2>. QED BY <1>1, <1>4, <1>5, <1>6, <2>1, <2>2, <2>3 DEF ArmureShutdown, Fails, Asks, TransportWrite,
              Down, TlsTypeOK, ArmureTyped, Wants
<1>8. \/ /\ call'[e] = "closed" /\ answer'[e] = "none" /\ result \notin Wants
         /\ (e \in SocketEnds => ~open'[e])
      \/ call'[e] = "close" /\ answer'[e] = answer[e] /\ UNCHANGED open /\ result \in Wants
  <2>1. CASE Returns(e, "closed", "none") /\ CloseSocket(e) /\ result \notin Wants
    BY <1>1, <2>1 DEF Returns, Leaves, CloseSocket, TlsTypeOK, CallsTyped
  <2>2. CASE Retries(result) /\ UNCHANGED open
    BY <1>1, <2>2 DEF Retries, isWantRetry, Wants
  <2>. QED BY <1>4, <2>1, <2>2 DEF GivesUp, isWantRetry, Wants
<1>9. SentInv(e)'
  BY <1>1, <1>3 DEF EndInv, SentInv
<1>10. WriteInv(e)'
  BY <1>1, <1>3, <1>7, <1>8 DEF EndInv, WriteInv, Down
<1>11. PendingInv(e)'
  BY <1>1, <1>3, <1>7 DEF EndInv, PendingInv, Down
<1>12. CauseInv(e)'
  BY <1>1, <1>2, <1>3, <1>7, <1>8 DEF EndInv, CauseInv
<1>. QED BY <1>3, <1>9, <1>10, <1>11, <1>12 DEF EndInv

(* What a round of the write loop does.                                    *)
LEMMA WriteLoopCases ==
  ASSUME TlsInv, NEW e \in Ends, WriteLoop(e)
  PROVE  \/ \E n \in Nat \ {0} :
              /\ ~Down[e] /\ UNCHANGED failed /\ n <= Len(Remaining(e))
              /\ sent' = [sent EXCEPT ![e] = @ \o SubSeq(Remaining(e), 1, n)]
              /\ pending' = [pending EXCEPT ![e] = <<>>]
              /\ Advances(e, n)
         \/ /\ UNCHANGED sent /\ UNCHANGED failed
            /\ pending' = [pending EXCEPT ![e] = Remaining(e)]
            /\ UNCHANGED <<call, answer, locals>>
         \/ /\ UNCHANGED sent /\ UNCHANGED pending
            /\ Cause(e) /\ Down'[e] /\ (failed'[e] => failed[e] \/ Cause(e))
            /\ Returns(e, "idle", "failed")
<1>1. EndInv(e) /\ TlsTypeOK /\ call[e] = "write" /\ UNCHANGED network
  BY DEF TlsInv, EndInv, WriteLoop
<1>2. PICK result \in Results, n \in 0 .. length[e] :
        /\ ArmureWrite(e, Remaining(e), result, n)
        /\ \/ result = "ok" /\ n > 0 /\ Advances(e, n)
           \/ result = "ok" /\ n = 0 /\ Returns(e, "idle", "failed")
           \/ Retries(result)
           \/ GivesUp(e, result, "idle", "failed")
  BY DEF WriteLoop
<1>3. /\ ~open[Peer(e)] => Cause(e)
      /\ failed[e] => Cause(e)
      /\ network # "up" => Cause(e)
  BY <1>1, PeerFacts DEF TlsInv, EndInv, CauseInv, Over, Cause
<1>4. length[e] \in Nat /\ n \in Nat
  BY <1>1 DEF TlsTypeOK, CallsTyped
<1>5. CASE result = "ok" /\ n > 0
  <2>1. /\ ~failed[e] /\ UNCHANGED failed /\ n \in 1 .. Len(Remaining(e))
        /\ "ok" \in TransportWrite(e, n)
        /\ sent' = [sent EXCEPT ![e] = @ \o SubSeq(Remaining(e), 1, n)]
        /\ pending' = [pending EXCEPT ![e] = <<>>]
    <3>1. n # 0 /\ "ok" \notin Wants
      BY <1>4, <1>5 DEF Wants
    <3>. QED BY <1>2, <1>5, <3>1 DEF ArmureWrite, Asks
  <2>2. network = "up"
    BY <2>1 DEF TransportWrite
  <2>3. Advances(e, n)
    BY <1>2, <1>4, <1>5 DEF Retries, GivesUp
  <2>4. n \in Nat \ {0} /\ n <= Len(Remaining(e))
    BY <1>4, <1>5, <2>1
  <2>5. ~Down[e]
    BY <2>1, <2>2 DEF Down
  <2>. QED BY <2>1, <2>3, <2>4, <2>5
<1>6. CASE result = "ok" /\ n = 0
  <2>1. UNCHANGED sent /\ UNCHANGED pending /\ UNCHANGED failed /\ network = "mute"
    BY <1>2, <1>4, <1>6 DEF ArmureWrite, Asks, Wants
  <2>2. Returns(e, "idle", "failed")
    BY <1>2, <1>6 DEF Retries, GivesUp
  <2>. QED BY <1>1, <1>3, <2>1, <2>2 DEF Down
<1>7. CASE result \in Wants
  <2>1. UNCHANGED sent /\ UNCHANGED failed /\ pending' = [pending EXCEPT ![e] = Remaining(e)]
    BY <1>2, <1>7 DEF ArmureWrite, Wants
  <2>2. UNCHANGED <<call, answer, locals>>
    BY <1>2, <1>7 DEF Retries, GivesUp, isWantRetry, Wants
  <2>. QED BY <2>1, <2>2
<1>8. CASE result \notin Wants /\ result # "ok"
  <2>1. UNCHANGED sent /\ UNCHANGED pending /\ Fails(e)
    BY <1>2, <1>8 DEF ArmureWrite, Asks
  <2>2. Returns(e, "idle", "failed")
    BY <1>2, <1>8 DEF Retries, GivesUp, isWantRetry, Wants
  <2>3. Cause(e)
    <3>1. CASE Down[e]
      BY <1>3, <3>1 DEF Down
    <3>2. CASE ~Down[e]
      <4>1. pending[e] \in {<<>>, Remaining(e)}
        BY <1>1, <3>2 DEF EndInv, PendingInv
      <4>. QED BY <1>2, <1>3, <1>8, <3>2, <4>1 DEF ArmureWrite, Asks, TransportWrite, Down
    <3>. QED BY <3>1, <3>2
  <2>4. Down'[e]
    BY <1>1, <2>1 DEF Fails, Down, TlsTypeOK, ArmureTyped
  <2>. QED BY <2>1, <2>2, <2>3, <2>4
<1>9. n > 0 \/ n = 0
  BY <1>4
<1>. QED BY <1>5, <1>6, <1>7, <1>8, <1>9

LEMMA WriteLoopStep ==
  ASSUME TlsInv, NEW e \in Ends, WriteLoop(e)
  PROVE  EndInv(e)' /\ got'[e] = got[e]
<1>1. EndInv(e) /\ TlsTypeOK /\ call[e] = "write"
  BY DEF TlsInv, EndInv, WriteLoop
<1>2. Cause(e) => Cause(e)'
  BY <1>1, CauseStays DEF TlsNext, Loop
<1>3. UNCHANGED asked /\ UNCHANGED got /\ UNCHANGED notified /\ UNCHANGED open /\ UNCHANGED network
  BY DEF WriteLoop
<1>4. /\ asked[e] \in Nat /\ length[e] \in Nat /\ totalWritten[e] \in Nat
      /\ totalWritten[e] < length[e] /\ length[e] <= asked[e]
      /\ sent[e] \in Seq(Nat) /\ Len(sent[e]) \in Nat /\ got[Peer(e)] \in Nat
      /\ ~notified[e] /\ call[e] \notin {"closed", "gone", "thrown"}
  BY <1>1, PeerFacts DEF TlsTypeOK, CallsTyped, BytesTyped, EndInv, WriteInv, CauseInv
<1>5. ASSUME NEW n \in Nat \ {0}, ~Down[e], UNCHANGED failed, n <= Len(Remaining(e)),
             sent' = [sent EXCEPT ![e] = @ \o SubSeq(Remaining(e), 1, n)],
             pending' = [pending EXCEPT ![e] = <<>>], Advances(e, n)
      PROVE  EndInv(e)'
  <2>1. Len(sent[e]) = asked[e] - length[e] + totalWritten[e]
    BY <1>1, <1>5 DEF EndInv, WriteInv
  <2>2. Remaining(e) = Bytes(Len(sent[e]) + 1, length[e] - totalWritten[e])
    BY <2>1 DEF Remaining
  <2>3. length[e] - totalWritten[e] \in Nat /\ n <= length[e] - totalWritten[e]
    BY <1>1, <1>4, <1>5, RemainingTyped
  <2>4. sent'[e] = Bytes(1, Len(sent[e])) \o Bytes(Len(sent[e]) + 1, n)
    <3>1. SubSeq(Remaining(e), 1, n) = Bytes(Len(sent[e]) + 1, n)
      <4>1. PICK m \in Nat, k \in Nat : m = Len(sent[e]) /\ k = length[e] - totalWritten[e]
        BY <1>4, <2>3
      <4>2. n \in Nat /\ n <= k
        BY <2>3, <4>1
      <4>3. SubSeq(Bytes(m + 1, k), 1, n) = Bytes(m + 1, n)
        BY <4>2, BytesExtend
      <4>. QED BY <2>2, <4>1, <4>3
    <3>2. sent[e] = Bytes(1, Len(sent[e]))
      BY <1>1 DEF EndInv, SentInv
    <3>3. sent'[e] = sent[e] \o SubSeq(Remaining(e), 1, n)
      BY <1>1, <1>5 DEF TlsTypeOK, BytesTyped
    <3>. QED BY <3>1, <3>2, <3>3
  <2>5. sent'[e] = Bytes(1, Len(sent[e]) + n) /\ Len(sent'[e]) = Len(sent[e]) + n
    <3>1. n \in Nat /\ n <= n /\ Len(sent[e]) + n \in Nat
      BY <1>4
    <3>2. sent'[e] = Bytes(1, Len(sent[e]) + n)
      BY <1>4, <2>4, <3>1, BytesExtend
    <3>. QED BY <3>1, <3>2, BytesType
  <2>6. \/ /\ totalWritten[e] + n < length[e] /\ totalWritten'[e] = totalWritten[e] + n
           /\ UNCHANGED call /\ UNCHANGED answer /\ UNCHANGED length
        \/ totalWritten[e] + n >= length[e] /\ call'[e] = "idle" /\ answer'[e] = "true"
    BY <1>1, <1>4, <1>5 DEF Advances, Returns, Leaves, TlsTypeOK, CallsTyped
  <2>7. SentInv(e)'
    BY <1>1, <1>3, <1>4, <2>1, <2>3, <2>5 DEF EndInv, SentInv
  <2>8. answer[e] # "true"
    BY <1>1, <1>4, <2>1 DEF EndInv, WriteInv
  <2>9. WriteInv(e)'
    <3>1. CASE /\ totalWritten'[e] = totalWritten[e] + n
               /\ UNCHANGED call /\ UNCHANGED answer /\ UNCHANGED length
      BY <1>1, <1>3, <1>4, <1>5, <2>1, <2>5, <2>8, <3>1 DEF WriteInv, Down
    <3>2. CASE totalWritten[e] + n >= length[e] /\ call'[e] = "idle" /\ answer'[e] = "true"
      <4>1. Len(sent[e]) + n = asked[e]
        <5>1. n = length[e] - totalWritten[e]
          BY <1>4, <2>3, <3>2
        <5>. QED BY <1>4, <2>1, <5>1
      <4>2. Len(sent'[e]) = asked'[e]
        BY <1>3, <2>5, <4>1
      <4>. QED BY <3>2, <4>2 DEF WriteInv
    <3>. QED BY <2>6, <3>1, <3>2
  <2>10. PendingInv(e)'
    BY <1>1, <1>5 DEF PendingInv, TlsTypeOK, ArmureTyped
  <2>11. CauseInv(e)'
    BY <1>1, <1>2, <1>3, <1>4, <1>5, <2>6 DEF EndInv, CauseInv
  <2>. QED BY <2>7, <2>9, <2>10, <2>11 DEF EndInv
<1>6. CASE /\ UNCHANGED sent /\ UNCHANGED failed
           /\ pending' = [pending EXCEPT ![e] = Remaining(e)]
           /\ UNCHANGED <<call, answer, locals>>
  <2>1. SentInv(e)' /\ WriteInv(e)'
    BY <1>1, <1>3, <1>6 DEF EndInv, SentInv, WriteInv, Down, locals
  <2>2. Remaining(e)' = Remaining(e)
    BY <1>3, <1>6 DEF Remaining, locals
  <2>3. PendingInv(e)'
    BY <1>1, <1>6, <2>2 DEF PendingInv, TlsTypeOK, ArmureTyped
  <2>4. CauseInv(e)'
    <3>1. UNCHANGED call /\ UNCHANGED answer
      BY <1>6
    <3>2. /\ call'[e] = call[e] /\ answer'[e] = answer[e] /\ failed'[e] = failed[e]
          /\ open'[e] = open[e] /\ notified'[e] = notified[e]
      BY <1>3, <1>6, <3>1
    <3>. QED BY <1>1, <1>2, <3>2 DEF EndInv, CauseInv
  <2>. QED BY <1>3, <2>1, <2>3, <2>4 DEF EndInv
<1>7. CASE /\ UNCHANGED sent /\ UNCHANGED pending
           /\ Cause(e) /\ Down'[e] /\ (failed'[e] => failed[e] \/ Cause(e))
           /\ Returns(e, "idle", "failed")
  <2>1. call'[e] = "idle" /\ answer'[e] = "failed"
    BY <1>1, <1>7 DEF Returns, Leaves, TlsTypeOK, CallsTyped
  <2>2. SentInv(e)'
    BY <1>1, <1>3, <1>7 DEF EndInv, SentInv
  <2>3. WriteInv(e)'
    BY <1>3, <1>4, <1>7, <2>1 DEF WriteInv
  <2>4. Down'[e] /\ Cause(e)'
    BY <1>2, <1>7
  <2>5. PendingInv(e)'
    BY <2>4 DEF PendingInv
  <2>6. CauseInv(e)'
    <3>1. open'[e] = open[e] /\ notified'[e] = notified[e] /\ (notified[e] \/ ~open[e] => FALSE)
      BY <1>1, <1>3, <1>4 DEF EndInv, CauseInv
    <3>. QED BY <2>1, <2>4, <3>1 DEF CauseInv
  <2>. QED BY <1>3, <2>2, <2>3, <2>5, <2>6 DEF EndInv
<1>8. EndInv(e)'
  BY <1>5, <1>6, <1>7, WriteLoopCases
<1>. QED BY <1>3, <1>8

LEMMA BreakStep ==
  ASSUME TlsInv, NEW e \in Ends, Break
  PROVE  EndInv(e)'
<1>1. EndInv(e) /\ Peer(e) \in Ends
  BY PeerFacts DEF TlsInv, EndInv
<1>2. Down'[e] /\ Cause(e)'
  BY DEF Break, Down, Cause
<1>3. /\ UNCHANGED call /\ UNCHANGED answer /\ UNCHANGED asked /\ UNCHANGED sent
      /\ UNCHANGED got /\ UNCHANGED notified /\ UNCHANGED open /\ UNCHANGED length
  BY DEF Break, armureVars
<1>4. SentInv(e)'
  BY <1>1, <1>3 DEF EndInv, SentInv
<1>5. WriteInv(e)' /\ PendingInv(e)'
  BY <1>1, <1>2, <1>3 DEF EndInv, WriteInv, PendingInv
<1>6. CauseInv(e)'
  BY <1>1, <1>2, <1>3 DEF EndInv, CauseInv
<1>. QED BY <1>4, <1>5, <1>6 DEF EndInv

LEMMA InvStep ==
  ASSUME TlsInv, [TlsNext]_vars
  PROVE  TlsInv'
<1>1. TlsTypeOK'
  BY TypeStep
<1>2. ASSUME NEW e \in Ends, EndStep(e), NEW x \in Ends
      PROVE  EndInv(x)'
  <2>1. EndInv(e)' /\ got'[e] <= Len(sent[Peer(e)])
    <3>1. got[e] <= Len(sent[Peer(e)])
      BY PeerFacts DEF TlsInv, SentInv
    <3>2. CASE Flight(e) \/ Handshake(e)
      BY <3>1, <3>2, HandshakeStep
    <3>3. CASE ReadLoop(e)
      BY <3>3, ReadLoopStep
    <3>4. CASE WriteLoop(e)
      BY <3>1, <3>4, WriteLoopStep
    <3>5. CASE CloseLoop(e)
      BY <3>1, <3>5, CloseLoopStep
    <3>6. CASE Use(e) \/ Destroy(e)
      BY <3>1, <3>6, UseStep
    <3>. QED BY <1>2, <3>2, <3>3, <3>4, <3>5, <3>6 DEF EndStep, Loop
  <2>2. x = e \/ x = Peer(e)
    BY PeerFacts
  <2>. QED BY <1>2, <2>1, <2>2, OtherEnd
<1>3. ASSUME NEW x \in Ends PROVE EndInv(x)'
  <2>1. CASE UNCHANGED vars
    <3>1. EndInv(x)
      BY DEF TlsInv, EndInv
    <3>. QED BY <2>1, <3>1 DEF vars, armureVars, EndInv, SentInv, WriteInv, PendingInv, CauseInv,
                Down, Cause, Remaining
  <2>2. CASE Break
    BY <2>2, BreakStep
  <2>. QED BY <1>2, <2>1, <2>2 DEF TlsNext, EndStep
<1>. QED BY <1>1, <1>3 DEF TlsInv, EndInv

THEOREM TlsInvariance == TlsSpec => []TlsInv
<1>1. TlsInv /\ [TlsNext]_vars => TlsInv'
  BY InvStep
<1>. QED BY InitInv, <1>1, PTL DEF TlsSpec

-----------------------------------------------------------------------------
(* The theorems.                                                           *)

(* The states of the model have their types; in particular, the place of a *)
(* write in its buffer never runs past it (TlsConnection.cpp, write).      *)
THEOREM TlsTypeCorrect == TlsSpec => []TlsTypeOK
<1>1. TlsInv => TlsTypeOK
  BY DEF TlsInv
<1>. QED BY <1>1, TlsInvariance, PTL

(* Whatever armure takes of a write at a time and however often it asks to *)
(* be called again, the peer reads a front of what was written.            *)
THEOREM StreamStaysIntact == TlsSpec => []StreamIntact
<1>1. TlsInv => StreamIntact
  BY DEF TlsInv, StreamIntact, SentInv, WriteInv
<1>. QED BY <1>1, TlsInvariance, PTL

(* No call fails but for the network, the certificate, a peer that is done *)
(* or the receive time-out.                                                *)
THEOREM FailuresHaveCause == TlsSpec => []FailureHasCause
<1>1. TlsInv => FailureHasCause
  BY DEF TlsInv, FailureHasCause, CauseInv
<1>. QED BY <1>1, TlsInvariance, PTL

(* close() closes the socket, and close_notify comes after all that was    *)
(* written.                                                                *)
THEOREM ClosesInOrder == TlsSpec => []OrderlyClose
<1>1. TlsInv => OrderlyClose
  BY DEF TlsInv, OrderlyClose, CauseInv, WriteInv
<1>. QED BY <1>1, TlsInvariance, PTL
-----------------------------------------------------------------------------
(* The refinement: what a step does to the contract's state.               *)

abstractVars == <<call, answer, asked, sent, got, Down>>

LEMMA DownKept ==
  ASSUME UNCHANGED failed, UNCHANGED network
  PROVE  Down' = Down
BY DEF Down

LEMMA DownFails ==
  ASSUME TlsTypeOK, NEW e \in Ends, EndStep(e), Down'[e]
  PROVE  Down' = [Down EXCEPT ![e] = TRUE]
<1>1. OthersKept(e) /\ network' = network
  BY StepKeepsOthers
<1>2. ASSUME NEW x \in Ends PROVE Down'[x] = [Down EXCEPT ![e] = TRUE][x]
  <2>1. CASE x = e
    <3>1. Down'[e] = TRUE
      BY DEF Down
    <3>. QED BY <2>1, <3>1 DEF Down
  <2>2. CASE x # e
    BY <1>1, <2>2 DEF OthersKept, Down
  <2>. QED BY <2>1, <2>2
<1>. QED BY <1>2 DEF Down

LEMMA HandshakeRefines ==
  ASSUME TlsInv, NEW e \in Ends, Flight(e) \/ Handshake(e)
  PROVE  Contract!Connects(e) \/ UNCHANGED abstractVars
<1>1. TlsTypeOK /\ EndStep(e)
  BY DEF TlsInv, EndStep, Loop
<1>2. CASE Flight(e)
  BY <1>2, DownKept DEF Flight, armureVars, abstractVars
<1>3. CASE Handshake(e)
  <2>1. PICK result \in Results :
          /\ ArmureHandshake(e, result)
          /\ \/ result = "ok" /\ Returns(e, "idle", "none")
             \/ Retries(result)
             \/ GivesUp(e, result, "thrown", "none")
    BY <1>3 DEF Handshake
  <2>2. call[e] = "connecting" /\ UNCHANGED asked /\ UNCHANGED sent /\ UNCHANGED got /\ UNCHANGED network
    BY <1>3 DEF Handshake
  <2>3. CASE result = "ok" \/ result \in Wants
    <3>1. UNCHANGED failed
      BY <2>1, <2>3 DEF ArmureHandshake, Wants
    <3>2. Leaves(e, "idle", "none") \/ (UNCHANGED call /\ UNCHANGED answer)
      BY <2>1, <2>3 DEF Returns, Retries, GivesUp, isWantRetry, Wants
    <3>. QED BY <2>2, <3>1, <3>2, DownKept
             DEF Contract!Connects, Contract!Leaves, Leaves, abstractVars
  <2>4. CASE ~(result = "ok" \/ result \in Wants)
    <3>1. Fails(e)
      BY <2>1, <2>4 DEF ArmureHandshake, Asks
    <3>2. Down' = [Down EXCEPT ![e] = TRUE]
      BY <1>1, <3>1, DownFails DEF Fails, Down, TlsTypeOK, ArmureTyped
    <3>3. Leaves(e, "thrown", "none")
      BY <2>1, <2>4 DEF Returns, Retries, GivesUp, isWantRetry, Wants
    <3>. QED BY <2>2, <3>2, <3>3
             DEF Contract!Connects, Contract!Leaves, Contract!GoesDown, Leaves
  <2>. QED BY <2>3, <2>4
<1>. QED BY <1>2, <1>3

LEMMA ReadLoopRefines ==
  ASSUME TlsInv, NEW e \in Ends, ReadLoop(e)
  PROVE  Contract!Reads(e) \/ Contract!ReadEnds(e) \/ UNCHANGED abstractVars
<1>1. TlsTypeOK /\ EndStep(e) /\ call[e] = "read" /\ Peer(e) \in Ends
  BY PeerFacts DEF TlsInv, EndStep, Loop, ReadLoop
<1>2. PICK result \in Results, n \in 0 .. length[e] :
          /\ ArmureRead(e, length[e], result, n)
          /\ \/ result = "ok" /\ Returns(e, "idle", "ok")
             \/ Retries(result)
             \/ GivesUp(e, result, "idle", "failed")
  BY DEF ReadLoop
<1>3. UNCHANGED asked /\ UNCHANGED sent /\ UNCHANGED network
  BY DEF ReadLoop
<1>4. CASE result = "ok"
  <2>1. /\ n \in 1 .. length[e] /\ n <= Unread(e) /\ UNCHANGED failed
        /\ got' = [got EXCEPT ![e] = @ + n]
    BY <1>2, <1>4 DEF ArmureRead, Asks, Wants
  <2>2. length[e] \in Nat /\ length[e] <= MaxRead /\ MaxRead \in Nat
    BY <1>1, TlsAssumption DEF TlsAssumption, TlsTypeOK, CallsTyped
  <2>3. got[e] \in Nat /\ Len(sent[Peer(e)]) \in Nat
    BY <1>1 DEF TlsTypeOK, BytesTyped
  <2>4. n \in 1 .. MaxRead /\ got[e] + n <= Len(sent[Peer(e)])
    BY <2>1, <2>2, <2>3 DEF Unread
  <2>5. Leaves(e, "idle", "ok")
    BY <1>2, <1>4 DEF Returns, Retries, GivesUp
  <2>. QED BY <1>1, <1>3, <2>1, <2>4, <2>5, DownKept
           DEF Contract!Reads, Contract!Leaves, Contract!Peer, Leaves, Peer
<1>5. CASE result \in Wants
  <2>1. UNCHANGED got /\ UNCHANGED failed
    BY <1>2, <1>5 DEF ArmureRead, Wants
  <2>2. UNCHANGED call /\ UNCHANGED answer
    BY <1>2, <1>5 DEF Returns, Retries, GivesUp, isWantRetry, Wants
  <2>. QED BY <1>3, <2>1, <2>2, DownKept DEF abstractVars
<1>6. CASE ~(result = "ok" \/ result \in Wants)
  <2>1. /\ UNCHANGED got
        /\ \/ UNCHANGED failed /\ Unread(e) = 0 /\ notified[Peer(e)]
           \/ Fails(e)
           \/ UNCHANGED failed /\ failed[e]
    BY <1>2, <1>6 DEF ArmureRead, Asks
  <2>2. Leaves(e, "idle", "failed")
    BY <1>2, <1>6 DEF Returns, Retries, GivesUp, isWantRetry, Wants
  <2>3. CASE UNCHANGED failed /\ Unread(e) = 0 /\ notified[Peer(e)]
    <3>1. got[e] \in Nat /\ Len(sent[Peer(e)]) \in Nat
      BY <1>1 DEF TlsTypeOK, BytesTyped
    <3>2. got[e] = Len(sent[Peer(e)])
      BY <2>3, <3>1 DEF Unread
    <3>3. call[Peer(e)] \in Over
      BY <1>1, <2>3 DEF TlsInv, CauseInv, Over
    <3>. QED BY <1>1, <1>3, <2>1, <2>2, <2>3, <3>2, <3>3, DownKept
             DEF Contract!ReadEnds, Contract!Drained, Contract!Leaves, Contract!Peer,
                 Contract!Over, Leaves, Peer, Over
  <2>4. CASE Fails(e) \/ (UNCHANGED failed /\ failed[e])
    <3>1. Down'[e]
      BY <1>1, <2>4 DEF Fails, Down, TlsTypeOK, ArmureTyped
    <3>2. Down' = [Down EXCEPT ![e] = TRUE]
      BY <1>1, <3>1, DownFails
    <3>. QED BY <1>1, <1>3, <2>1, <2>2, <3>2
             DEF Contract!ReadEnds, Contract!Leaves, Contract!GoesDown, Leaves
  <2>. QED BY <2>1, <2>3, <2>4
<1>. QED BY <1>4, <1>5, <1>6

LEMMA WriteLoopRefines ==
  ASSUME TlsInv, NEW e \in Ends, WriteLoop(e)
  PROVE  Contract!Writes(e) \/ Contract!WriteFails(e) \/ UNCHANGED abstractVars
<1>1. TlsTypeOK /\ EndStep(e) /\ call[e] = "write"
  BY DEF TlsInv, EndStep, Loop, WriteLoop
<1>2. UNCHANGED asked /\ UNCHANGED got /\ UNCHANGED network
  BY DEF WriteLoop
<1>3. ASSUME NEW n \in Nat \ {0}, ~Down[e], UNCHANGED failed, n <= Len(Remaining(e)),
             sent' = [sent EXCEPT ![e] = @ \o SubSeq(Remaining(e), 1, n)], Advances(e, n)
      PROVE  Contract!Writes(e)
  <2>1. /\ asked[e] \in Nat /\ length[e] \in Nat /\ totalWritten[e] \in Nat
        /\ totalWritten[e] < length[e] /\ length[e] <= asked[e]
        /\ Len(sent[e]) \in Nat /\ MaxBytes[e] \in Nat /\ asked[e] <= MaxBytes[e]
        /\ length[e] - totalWritten[e] \in Nat
    BY <1>1, TlsAssumption DEF TlsAssumption, TlsTypeOK, CallsTyped, BytesTyped, TlsInv, WriteInv
  <2>2. Len(sent[e]) = asked[e] - length[e] + totalWritten[e]
    BY <1>1, <1>3 DEF TlsInv, WriteInv
  <2>3. n <= length[e] - totalWritten[e]
    BY <1>1, <1>3, RemainingTyped
  <2>4. SubSeq(Remaining(e), 1, n) = Bytes(Len(sent[e]) + 1, n)
    <3>1. PICK m \in Nat, k \in Nat : m = Len(sent[e]) /\ k = length[e] - totalWritten[e]
      BY <2>1
    <3>2. SubSeq(Bytes(m + 1, k), 1, n) = Bytes(m + 1, n)
      BY <2>3, <3>1, BytesExtend
    <3>. QED BY <2>2, <3>1, <3>2 DEF Remaining
  <2>5. n \in 1 .. MaxBytes[e] /\ Len(sent[e]) + n <= asked[e]
    BY <2>1, <2>2, <2>3
  <2>6. totalWritten[e] + n < length[e] <=> Len(sent[e]) + n # asked[e]
    <3>1. n # length[e] - totalWritten[e] <=> Len(sent[e]) + n # asked[e]
      <4>1. PICK r \in Nat : r = length[e] - totalWritten[e]
        BY <2>1
      <4>2. Len(sent[e]) = asked[e] - r
        BY <2>1, <2>2, <4>1
      <4>. QED BY <2>1, <4>1, <4>2
    <3>2. totalWritten[e] + n < length[e] <=> n # length[e] - totalWritten[e]
      BY <2>1, <2>3
    <3>. QED BY <3>1, <3>2
  <2>7. IF Len(sent[e]) + n = asked[e] THEN Leaves(e, "idle", "true")
                                       ELSE UNCHANGED call /\ UNCHANGED answer
    BY <1>3, <2>6 DEF Advances, Returns
  <2>8. sent' = [sent EXCEPT ![e] = @ \o Bytes(Len(@) + 1, n)]
    BY <1>3, <2>4
  <2>. QED BY <1>1, <1>2, <1>3, <2>5, <2>7, <2>8, DownKept
           DEF Contract!Writes, Contract!Leaves, Contract!Bytes, Leaves, Bytes
<1>4. CASE /\ UNCHANGED sent /\ UNCHANGED failed
           /\ UNCHANGED <<call, answer, locals>>
  BY <1>2, <1>4, DownKept DEF abstractVars
<1>5. CASE UNCHANGED sent /\ Down'[e] /\ Returns(e, "idle", "failed")
  <2>1. Down' = [Down EXCEPT ![e] = TRUE]
    BY <1>1, <1>5, DownFails
  <2>. QED BY <1>1, <1>2, <1>5, <2>1
           DEF Contract!WriteFails, Contract!Leaves, Contract!GoesDown, Returns, Leaves
<1>. QED BY <1>3, <1>4, <1>5, WriteLoopCases

LEMMA UseRefines ==
  ASSUME TlsInv, NEW e \in Ends, Use(e) \/ Destroy(e)
  PROVE  Contract!BeginsRead(e) \/ Contract!BeginsWrite(e) \/ Contract!Closes(e)
<1>1. UNCHANGED sent /\ UNCHANGED got /\ Down' = Down
  <2>1. UNCHANGED sent /\ UNCHANGED got /\ UNCHANGED failed /\ UNCHANGED network
    BY DEF Use, CallRead, CallWrite, CallClose, Destroy, armureVars
  <2>. QED BY <2>1, DownKept
<1>2. ASSUME NEW size \in 0 .. MaxRead, CallRead(e, size) PROVE Contract!BeginsRead(e)
  <2>1. call[e] = "idle" /\ UNCHANGED asked /\ (Enters(e, "read") \/ Leaves(e, "idle", "ok"))
    BY <1>2 DEF CallRead, Returns, EntersWith
  <2>. QED BY <1>1, <2>1 DEF Contract!BeginsRead, Contract!Enters, Contract!Leaves, Enters, Leaves
<1>3. ASSUME NEW size \in 0 .. MaxWrite, CallWrite(e, size) PROVE Contract!BeginsWrite(e)
  <2>1. /\ call[e] = "idle" /\ asked[e] + size <= MaxBytes[e]
        /\ asked' = [asked EXCEPT ![e] = @ + size]
        /\ IF size = 0 THEN Leaves(e, "idle", "ok") ELSE Enters(e, "write")
    BY <1>3 DEF CallWrite, Returns, EntersWith
  <2>2. size \in 0 .. MaxBytes[e]
    <3>1. size \in Nat /\ asked[e] \in Nat /\ MaxBytes[e] \in Nat
      BY TlsAssumption DEF TlsAssumption, TlsInv, TlsTypeOK, BytesTyped
    <3>. QED BY <2>1, <3>1
  <2>. QED BY <1>1, <2>1, <2>2
           DEF Contract!BeginsWrite, Contract!Enters, Contract!Leaves, Enters, Leaves
<1>4. CASE CallClose(e)
  BY <1>1, <1>4 DEF CallClose, EntersWith, Enters, Leaves,
                    Contract!Closes, Contract!Enters, Contract!Leaves
<1>5. CASE Destroy(e)
  BY <1>1, <1>5 DEF Destroy, EntersWith, Enters, Leaves,
                    Contract!Closes, Contract!Enters, Contract!Leaves
<1>. QED BY <1>2, <1>3, <1>4, <1>5 DEF Use

LEMMA CloseLoopRefines ==
  ASSUME TlsInv, NEW e \in Ends, CloseLoop(e)
  PROVE  Contract!Closes(e) \/ UNCHANGED abstractVars
<1>1. TlsTypeOK /\ EndStep(e) /\ call[e] = "close"
  BY DEF TlsInv, EndStep, Loop, CloseLoop
<1>2. UNCHANGED asked /\ UNCHANGED sent /\ UNCHANGED got /\ UNCHANGED network
  BY DEF CloseLoop
<1>3. PICK result \in Results :
          /\ ArmureShutdown(e, result)
          /\ Retries(result) \/ Returns(e, "closed", "none")
  BY DEF CloseLoop, GivesUp
<1>4. Leaves(e, "closed", "none") \/ (result \in Wants /\ UNCHANGED call /\ UNCHANGED answer)
  BY <1>3 DEF Returns, Retries, isWantRetry, Wants
<1>5. UNCHANGED failed \/ (Fails(e) /\ result \notin Wants)
  BY <1>3 DEF ArmureShutdown, Wants
<1>6. CASE UNCHANGED failed
  BY <1>1, <1>2, <1>4, <1>6, DownKept
     DEF Contract!Closes, Contract!Leaves, Leaves, abstractVars
<1>7. CASE Fails(e) /\ result \notin Wants
  <2>1. Down' = [Down EXCEPT ![e] = TRUE]
    BY <1>1, <1>7, DownFails DEF Fails, Down, TlsTypeOK, ArmureTyped
  <2>. QED BY <1>1, <1>2, <1>4, <1>7, <2>1
           DEF Contract!Closes, Contract!Leaves, Contract!GoesDown, Leaves
<1>. QED BY <1>5, <1>6, <1>7

(* A TlsConnection is a ByteConnection (src/ByteConnection.h): however     *)
(* often armure asks to be called again, a caller sees the contract's      *)
(* steps only.                                                             *)
THEOREM ByteConnectionRefinement == TlsSpec => ImplementsByteConnection
<1>1. TlsInit => Contract!ContractInit
  BY DEF TlsInit, Contract!ContractInit, Contract!Ends, Ends, Down
<1>2. TlsInv /\ [TlsNext]_vars => [Contract!ContractNext]_(Contract!abstractVars)
  <2>. SUFFICES ASSUME TlsInv, [TlsNext]_vars
                PROVE  Contract!ContractNext \/ UNCHANGED abstractVars
    BY DEF Contract!abstractVars, abstractVars
  <2>1. CASE UNCHANGED vars
    BY <2>1, DownKept DEF vars, armureVars, abstractVars
  <2>2. CASE Break
    <3>1. Down' = [e \in Ends |-> TRUE]
      BY <2>2 DEF Break, Down
    <3>. QED BY <2>2, <3>1 DEF Break, Contract!ContractNext, Contract!Breaks, Contract!Ends, Ends
  <2>3. ASSUME NEW e \in Ends, EndStep(e)
        PROVE  Contract!ContractNext \/ UNCHANGED abstractVars
    <3>1. \/ Contract!Connects(e) \/ Contract!BeginsWrite(e) \/ Contract!Writes(e)
          \/ Contract!WriteFails(e) \/ Contract!BeginsRead(e) \/ Contract!Reads(e)
          \/ Contract!ReadEnds(e) \/ Contract!Closes(e) \/ UNCHANGED abstractVars
      BY <2>3, HandshakeRefines, ReadLoopRefines, WriteLoopRefines, UseRefines, CloseLoopRefines
         DEF EndStep, Loop
    <3>2. e \in Contract!Ends
      BY DEF Contract!Ends, Ends
    <3>. QED BY <3>1, <3>2 DEF Contract!ContractNext
  <2>. QED BY <2>1, <2>2, <2>3 DEF TlsNext, EndStep
<1>. QED BY <1>1, <1>2, TlsInvariance, PTL DEF TlsSpec, ImplementsByteConnection, Contract!ContractSpec

-----------------------------------------------------------------------------
(* The loops come to an end: how many rounds they have left.               *)

LEMMA RoundsTyped ==
  ASSUME TlsTypeOK, NEW e \in Ends
  PROVE  /\ wants[e] \in Nat /\ FlightsLeft \in Nat /\ CallLeft(e) \in Nat
         /\ RoundsLeft(e) \in Nat
         /\ call[e] \in InCall => CallLeft(e) > 0
<1>1. wants[e] \in Nat
  BY DEF TlsTypeOK, ArmureTyped
<1>2. FlightsLeft \in Nat
  BY DEF FlightsLeft
<1>3. /\ call[e] \in Calls /\ length[e] \in Nat /\ totalWritten[e] \in Nat
      /\ call[e] = "write" => totalWritten[e] < length[e]
  BY DEF TlsTypeOK, CallsTyped
<1>4. CASE call[e] = "write"
  <2>1. CallLeft(e) = length[e] - totalWritten[e]
    BY <1>4 DEF CallLeft
  <2>. QED BY <1>1, <1>2, <1>3, <1>4, <2>1 DEF RoundsLeft
<1>5. CASE call[e] # "write"
  <2>1. CallLeft(e) = IF call[e] \in InCall THEN 1 ELSE 0
    BY <1>5 DEF CallLeft, InCall
  <2>. QED BY <1>1, <1>2, <2>1 DEF RoundsLeft
<1>. QED BY <1>4, <1>5

LEMMA RoundsTypedNext ==
  ASSUME TlsTypeOK', NEW e \in Ends
  PROVE  /\ wants'[e] \in Nat /\ FlightsLeft' \in Nat /\ CallLeft(e)' \in Nat
         /\ RoundsLeft(e)' \in Nat
<1>1. wants'[e] \in Nat
  BY DEF TlsTypeOK, ArmureTyped
<1>2. FlightsLeft' \in Nat
  BY DEF FlightsLeft
<1>3. /\ length'[e] \in Nat /\ totalWritten'[e] \in Nat
      /\ call'[e] = "write" => totalWritten'[e] < length'[e]
  BY DEF TlsTypeOK, CallsTyped
<1>4. CallLeft(e)' \in Nat
  BY <1>3 DEF CallLeft
<1>. QED BY <1>1, <1>2, <1>4 DEF RoundsLeft

(* What a round takes: one of the three parts of the measure goes down,    *)
(* and none goes up.                                                       *)
LEMMA RoundsGoDown ==
  ASSUME TlsTypeOK, TlsTypeOK', NEW e \in Ends,
         wants'[e] <= wants[e], FlightsLeft' <= FlightsLeft, CallLeft(e)' <= CallLeft(e)
  PROVE  /\ RoundsLeft(e)' <= RoundsLeft(e)
         /\ \/ wants'[e] < wants[e] \/ FlightsLeft' < FlightsLeft \/ CallLeft(e)' < CallLeft(e)
            => RoundsLeft(e)' < RoundsLeft(e)
<1>1. /\ wants[e] \in Nat /\ FlightsLeft \in Nat /\ CallLeft(e) \in Nat
      /\ wants'[e] \in Nat /\ FlightsLeft' \in Nat /\ CallLeft(e)' \in Nat
  BY RoundsTyped, RoundsTypedNext
<1>. QED BY <1>1 DEF RoundsLeft

LEMMA ReturnsLeaves ==
  ASSUME TlsTypeOK, NEW e \in Ends, call[e] \in InCall,
         NEW c \in {"idle", "thrown", "closed"}, NEW a, Returns(e, c, a)
  PROVE  CallLeft(e)' = 0 /\ CallLeft(e)' < CallLeft(e)
<1>1. call'[e] = c
  BY DEF Returns, Leaves, TlsTypeOK, CallsTyped
<1>2. CallLeft(e)' = 0
  BY <1>1 DEF CallLeft, InCall
<1>3. CallLeft(e) \in Nat /\ CallLeft(e) > 0
  BY RoundsTyped
<1>. QED BY <1>2, <1>3

LEMMA AsksLess ==
  ASSUME TlsTypeOK, NEW e \in Ends, NEW result, Asks(e, result)
  PROVE  /\ wants'[e] < wants[e]
         /\ \A x \in Ends \ {e} : wants'[x] = wants[x]
<1>1. wants \in [Ends -> 0 .. MaxWants] /\ MaxWants \in Nat
  BY TlsAssumption DEF TlsAssumption, TlsTypeOK, ArmureTyped
<1>. QED BY <1>1 DEF Asks

LEMMA FlightsGoDown ==
  ASSUME TlsTypeOK, [TlsNext]_vars
  PROVE  /\ FlightsLeft' <= FlightsLeft
         /\ \A e \in Ends : Flight(e) => FlightsLeft' < FlightsLeft
<1>1. ASSUME NEW e \in Ends, Flight(e) PROVE FlightsLeft' < FlightsLeft
  BY <1>1 DEF Flight, FlightsLeft
<1>2. CASE UNCHANGED handshake
  <2>1. FlightsLeft' = FlightsLeft
    BY <1>2 DEF FlightsLeft
  <2>2. FlightsLeft \in Nat
    BY DEF FlightsLeft
  <2>. QED BY <1>1, <2>1, <2>2
<1>3. ASSUME NEW e \in Ends, Handshake(e) PROVE FlightsLeft' <= FlightsLeft
  <2>1. PICK result \in Results : ArmureHandshake(e, result)
    BY <1>3 DEF Handshake
  <2>2. UNCHANGED handshake \/ handshake' \in {"done", "rejected"}
    BY <2>1 DEF ArmureHandshake
  <2>. QED BY <1>2, <2>2 DEF FlightsLeft
<1>4. \/ UNCHANGED handshake
      \/ \E e \in Ends : Flight(e) \/ Handshake(e)
  BY DEF TlsNext, vars, Loop, Use, Break, CallRead, ReadLoop, CallWrite, WriteLoop,
         CallClose, CloseLoop, Destroy
<1>5. FlightsLeft \in Nat /\ FlightsLeft' \in Nat
  BY DEF FlightsLeft
<1>. QED BY <1>1, <1>2, <1>3, <1>4, <1>5

(* The bytes armure took are bytes less to write.                          *)
LEMMA AdvancesLess ==
  ASSUME TlsTypeOK, NEW e \in Ends, call[e] = "write", NEW n \in Nat \ {0}, Advances(e, n)
  PROVE  CallLeft(e)' < CallLeft(e)
<1>1. CASE Returns(e, "idle", "true")
  BY <1>1, ReturnsLeaves DEF InCall
<1>2. CASE /\ totalWritten' = [totalWritten EXCEPT ![e] = @ + n]
           /\ UNCHANGED <<call, answer, length>>
  <2>1. length[e] \in Nat /\ totalWritten[e] \in Nat /\ totalWritten'[e] = totalWritten[e] + n
    BY <1>2 DEF TlsTypeOK, CallsTyped
  <2>2. CallLeft(e) = length[e] - totalWritten[e]
    BY DEF CallLeft
  <2>3. CallLeft(e)' = length[e] - totalWritten'[e]
    BY <1>2 DEF CallLeft
  <2>. QED BY <2>1, <2>2, <2>3
<1>. QED BY <1>1, <1>2 DEF Advances

(* A round of a loop, then: armure asked, or the call is over or nearer    *)
(* its end.                                                                *)
LEMMA LoopGoesDown ==
  ASSUME TlsInv, NEW e \in Ends, Loop(e)
  PROVE  \/ Flight(e) /\ UNCHANGED wants /\ CallLeft(e)' = CallLeft(e)
         \/ CallLeft(e)' = CallLeft(e) /\ wants'[e] < wants[e]
         \/ CallLeft(e)' < CallLeft(e) /\ UNCHANGED wants
<1>0. TlsTypeOK
  BY DEF TlsInv
<1>. DEFINE Goal == \/ CallLeft(e)' = CallLeft(e) /\ wants'[e] < wants[e]
                    \/ CallLeft(e)' < CallLeft(e) /\ UNCHANGED wants
<1>1. ASSUME NEW result, Asks(e, result) \/ UNCHANGED wants, result \in Wants => Asks(e, result),
             call[e] \in InCall,
             \/ Retries(result)
             \/ \E c \in {"idle", "thrown", "closed"}, a \in Answers :
                  Returns(e, c, a) /\ result \notin Wants
      PROVE  Goal
  <2>1. CASE Retries(result)
    <3>1. Asks(e, result)
      BY <1>1, <2>1 DEF Retries, isWantRetry, Wants
    <3>2. CallLeft(e)' = CallLeft(e)
      BY <2>1 DEF Retries, locals, CallLeft
    <3>. QED BY <1>0, <3>1, <3>2, AsksLess
  <2>2. CASE \E c \in {"idle", "thrown", "closed"}, a \in Answers :
               Returns(e, c, a) /\ result \notin Wants
    <3>1. UNCHANGED wants
      BY <1>1, <2>2 DEF Asks
    <3>. QED BY <1>0, <1>1, <2>2, <3>1, ReturnsLeaves
  <2>. QED BY <1>1, <2>1, <2>2
<1>2. CASE Flight(e)
  BY <1>2 DEF Flight, armureVars, CallLeft
<1>3. CASE Handshake(e)
  <2>1. PICK result \in Results :
          /\ ArmureHandshake(e, result)
          /\ \/ result = "ok" /\ Returns(e, "idle", "none")
             \/ Retries(result)
             \/ GivesUp(e, result, "thrown", "none")
    BY <1>3 DEF Handshake
  <2>2. (Asks(e, result) \/ UNCHANGED wants) /\ (result \in Wants => Asks(e, result))
    BY <2>1 DEF ArmureHandshake, Wants
  <2>3. \/ Retries(result)
        \/ \E c \in {"idle", "thrown", "closed"}, a \in Answers :
             Returns(e, c, a) /\ result \notin Wants
    BY <2>1 DEF GivesUp, isWantRetry, Wants, Answers
  <2>4. call[e] \in InCall
    BY <1>3 DEF Handshake, InCall
  <2>. QED BY <1>1, <2>2, <2>3, <2>4
<1>4. CASE ReadLoop(e)
  <2>1. PICK result \in Results, n \in 0 .. length[e] :
          /\ ArmureRead(e, length[e], result, n)
          /\ \/ result = "ok" /\ Returns(e, "idle", "ok")
             \/ Retries(result)
             \/ GivesUp(e, result, "idle", "failed")
    BY <1>4 DEF ReadLoop
  <2>2. (Asks(e, result) \/ UNCHANGED wants) /\ (result \in Wants => Asks(e, result))
    BY <2>1 DEF ArmureRead, Wants
  <2>3. \/ Retries(result)
        \/ \E c \in {"idle", "thrown", "closed"}, a \in Answers :
             Returns(e, c, a) /\ result \notin Wants
    BY <2>1 DEF GivesUp, isWantRetry, Wants, Answers
  <2>4. call[e] \in InCall
    BY <1>4 DEF ReadLoop, InCall
  <2>. QED BY <1>1, <2>2, <2>3, <2>4
<1>5. CASE WriteLoop(e)
  <2>1. PICK result \in Results, n \in 0 .. length[e] :
          /\ ArmureWrite(e, Remaining(e), result, n)
          /\ \/ result = "ok" /\ n > 0 /\ Advances(e, n)
             \/ result = "ok" /\ n = 0 /\ Returns(e, "idle", "failed")
             \/ Retries(result)
             \/ GivesUp(e, result, "idle", "failed")
    BY <1>5 DEF WriteLoop
  <2>2. (Asks(e, result) \/ UNCHANGED wants) /\ (result \in Wants => Asks(e, result))
    BY <2>1 DEF ArmureWrite, Wants
  <2>3. call[e] = "write" /\ call[e] \in InCall
    BY <1>5 DEF WriteLoop, InCall
  <2>4. CASE result = "ok" /\ n > 0 /\ Advances(e, n)
    <3>1. n \in Nat \ {0}
      BY <1>0, <2>4 DEF TlsTypeOK, CallsTyped
    <3>2. UNCHANGED wants
      BY <2>2, <2>4 DEF Asks, Wants
    <3>. QED BY <1>0, <2>3, <2>4, <3>1, <3>2, AdvancesLess
  <2>5. CASE ~(result = "ok" /\ n > 0 /\ Advances(e, n))
    <3>1. \/ Retries(result)
          \/ \E c \in {"idle", "thrown", "closed"}, a \in Answers :
               Returns(e, c, a) /\ result \notin Wants
      BY <2>1, <2>5 DEF GivesUp, isWantRetry, Wants, Answers
    <3>. QED BY <1>1, <2>2, <2>3, <3>1
  <2>. QED BY <2>4, <2>5
<1>6. CASE CloseLoop(e)
  <2>1. PICK result \in Results :
          /\ ArmureShutdown(e, result)
          /\ \/ result = "ok" /\ Returns(e, "closed", "none")
             \/ Retries(result)
             \/ GivesUp(e, result, "closed", "none")
    BY <1>6 DEF CloseLoop
  <2>2. (Asks(e, result) \/ UNCHANGED wants) /\ (result \in Wants => Asks(e, result))
    BY <2>1 DEF ArmureShutdown, Wants
  <2>3. \/ Retries(result)
        \/ \E c \in {"idle", "thrown", "closed"}, a \in Answers :
             Returns(e, c, a) /\ result \notin Wants
    BY <2>1 DEF GivesUp, isWantRetry, Wants, Answers
  <2>4. call[e] \in InCall
    BY <1>6 DEF CloseLoop, InCall
  <2>. QED BY <1>1, <2>2, <2>3, <2>4
<1>. QED BY <1>2, <1>3, <1>4, <1>5, <1>6 DEF Loop

(* Nothing the other end does gives an end more to do.                     *)
LEMMA OthersRoundsKept ==
  ASSUME TlsInv, NEW e \in Ends, EndStep(e), NEW x \in Ends \ {e}
  PROVE  wants'[x] = wants[x] /\ CallLeft(x)' = CallLeft(x)
<1>0. TlsTypeOK
  BY DEF TlsInv
<1>1. CallLeft(x)' = CallLeft(x)
  BY <1>0, StepKeepsOthers DEF OthersKept, CallLeft
<1>2. UNCHANGED wants \/ \E result \in Results : Asks(e, result)
  <2>1. CASE Use(e) \/ Destroy(e) \/ Flight(e)
    BY <2>1 DEF Use, CallRead, CallWrite, CallClose, Destroy, Flight, armureVars
  <2>2. CASE Handshake(e)
    <3>1. PICK result \in Results : ArmureHandshake(e, result)
      BY <2>2 DEF Handshake
    <3>. QED BY <3>1 DEF ArmureHandshake
  <2>3. CASE ReadLoop(e)
    <3>1. PICK result \in Results, n \in 0 .. length[e] : ArmureRead(e, length[e], result, n)
      BY <2>3 DEF ReadLoop
    <3>. QED BY <3>1 DEF ArmureRead
  <2>4. CASE WriteLoop(e)
    <3>1. PICK result \in Results, n \in 0 .. length[e] : ArmureWrite(e, Remaining(e), result, n)
      BY <2>4 DEF WriteLoop
    <3>. QED BY <3>1 DEF ArmureWrite
  <2>5. CASE CloseLoop(e)
    <3>1. PICK result \in Results : ArmureShutdown(e, result)
      BY <2>5 DEF CloseLoop
    <3>. QED BY <3>1 DEF ArmureShutdown
  <2>. QED BY <2>1, <2>2, <2>3, <2>4, <2>5 DEF EndStep, Loop
<1>3. wants'[x] = wants[x]
  BY <1>0, <1>2, AsksLess
<1>. QED BY <1>1, <1>3

LEMMA RoundsStep ==
  ASSUME TlsInv, [TlsNext]_vars
  PROVE  RoundStep
<1>0. TlsTypeOK /\ TlsTypeOK'
  BY TypeStep DEF TlsInv
<1>1. FlightsLeft' <= FlightsLeft /\ \A e \in Ends : Flight(e) => FlightsLeft' < FlightsLeft
  BY <1>0, FlightsGoDown
<1>2. ASSUME NEW x \in Ends PROVE RoundsLeft(x)' \in Nat
  BY <1>0, RoundsTypedNext
<1>3. ASSUME NEW x \in Ends, Loop(x) PROVE RoundsLeft(x)' < RoundsLeft(x)
  <2>1. wants[x] \in Nat /\ CallLeft(x) \in Nat
    BY <1>0, RoundsTyped
  <2>2. CASE Flight(x) /\ UNCHANGED wants /\ CallLeft(x)' = CallLeft(x)
    BY <1>0, <1>1, <2>1, <2>2, RoundsGoDown
  <2>3. CASE CallLeft(x)' = CallLeft(x) /\ wants'[x] < wants[x]
    <3>1. wants'[x] <= wants[x]
      BY <1>0, <2>3 DEF TlsTypeOK, ArmureTyped
    <3>. QED BY <1>0, <1>1, <2>1, <2>3, <3>1, RoundsGoDown
  <2>4. CASE CallLeft(x)' < CallLeft(x) /\ UNCHANGED wants
    <3>1. CallLeft(x)' <= CallLeft(x)
      BY <1>0, <2>1, <2>4, RoundsTypedNext
    <3>. QED BY <1>0, <1>1, <2>1, <2>4, <3>1, RoundsGoDown
  <2>. QED BY <1>3, <2>2, <2>3, <2>4, LoopGoesDown
<1>4. ASSUME NEW x \in Ends, call[x] \in InCall PROVE RoundsLeft(x)' <= RoundsLeft(x)
  <2>1. wants[x] \in Nat /\ CallLeft(x) \in Nat
    BY <1>0, RoundsTyped
  <2>2. CASE UNCHANGED wants /\ UNCHANGED call /\ UNCHANGED length /\ UNCHANGED totalWritten
    <3>1. CallLeft(x)' = CallLeft(x)
      BY <2>2 DEF CallLeft
    <3>. QED BY <1>0, <1>1, <2>1, <2>2, <3>1, RoundsGoDown
  <2>3. CASE Loop(x)
    <3>1. RoundsLeft(x) \in Nat /\ RoundsLeft(x)' \in Nat /\ RoundsLeft(x)' < RoundsLeft(x)
      BY <1>0, <1>2, <1>3, <2>3, RoundsTyped
    <3>. QED BY <3>1
  <2>4. ASSUME NEW e \in Ends, EndStep(e), e # x PROVE RoundsLeft(x)' <= RoundsLeft(x)
    <3>1. wants'[x] = wants[x] /\ CallLeft(x)' = CallLeft(x)
      BY <2>4, OthersRoundsKept
    <3>. QED BY <1>0, <1>1, <2>1, <3>1, RoundsGoDown
  <2>5. ~(Use(x) \/ Destroy(x))
    BY <1>4 DEF Use, CallRead, CallWrite, CallClose, Destroy, InCall
  <2>6. UNCHANGED vars \/ Break => UNCHANGED wants /\ UNCHANGED call /\ UNCHANGED length
                                    /\ UNCHANGED totalWritten
    BY DEF vars, Break, armureVars
  <2>. QED BY <2>2, <2>3, <2>4, <2>5, <2>6 DEF TlsNext, EndStep
<1>. QED BY <1>2, <1>3, <1>4 DEF RoundStep

(* However armure answers, no loop of handshake, read, write and close     *)
(* goes around for ever (TlsConnection.cpp), if armure does not ask for    *)
(* repetitions for ever: a round takes one from a natural number that      *)
(* nothing raises while the call lasts. With the fairness of FairTlsSpec,  *)
(* a call that does not end is a call that waits.                          *)
THEOREM LoopsShrink == TlsSpec => RoundsShrink
<1>1. TlsInv /\ [TlsNext]_vars => RoundStep
  BY RoundsStep
<1>2. TlsInv /\ [TlsNext]_vars => [RoundStep]_vars
  BY <1>1
<1>. QED BY <1>2, TlsInvariance, PTL DEF TlsSpec, RoundsShrink

=============================================================================
