--------------------------- MODULE ByteConnection ---------------------------
(***************************************************************************)
(* What src/ByteConnection.h promises of a connection, seen from both of   *)
(* its ends: a write puts its whole buffer on the connection, in order, or *)
(* says that it could not; a read answers with bytes, or says that no more *)
(* will come; neither says so of a connection that works. How often the    *)
(* layers below ask to be called again is not visible here.                *)
(* TlsConnection.tla implements it.                                        *)
(***************************************************************************)
EXTENDS ConnectionEnds

VARIABLE down  \* an end's connection has failed

abstractVars == <<call, answer, asked, sent, got, down>>

ContractInit ==
  /\ call = [e \in Ends |-> "connecting"]
  /\ answer = [e \in Ends |-> "none"]
  /\ asked = [e \in Ends |-> 0]
  /\ sent = [e \in Ends |-> <<>>]
  /\ got = [e \in Ends |-> 0]
  /\ down = [e \in Ends |-> FALSE]

GoesDown(e) == down' = [down EXCEPT ![e] = TRUE]

(* The end of what the peer sends: all was read, and it is done.           *)
Drained(e) == got[e] = Len(sent[Peer(e)]) /\ call[Peer(e)] \in Over

Connects(e) ==
  /\ call[e] = "connecting"
  /\ \/ Leaves(e, "idle", "none") /\ UNCHANGED down
     \/ Leaves(e, "thrown", "none") /\ GoesDown(e)
  /\ UNCHANGED <<asked, sent, got>>

BeginsWrite(e) ==
  /\ call[e] = "idle"
  /\ \E n \in 0 .. MaxBytes[e] :
       /\ asked[e] + n <= MaxBytes[e]
       /\ asked' = [asked EXCEPT ![e] = @ + n]
       /\ IF n = 0 THEN Leaves(e, "idle", "ok") ELSE Enters(e, "write")
  /\ UNCHANGED <<sent, got, down>>

(* Some bytes, the next ones; the call answers true with the last of them. *)
(* A connection that has failed takes no more.                             *)
Writes(e) ==
  /\ call[e] = "write" /\ ~down[e]
  /\ \E n \in 1 .. MaxBytes[e] :
       /\ Len(sent[e]) + n <= asked[e]
       /\ sent' = [sent EXCEPT ![e] = @ \o Bytes(Len(@) + 1, n)]
       /\ IF Len(sent[e]) + n = asked[e] THEN Leaves(e, "idle", "true")
                                         ELSE UNCHANGED <<call, answer>>
  /\ UNCHANGED <<asked, got, down>>

WriteFails(e) ==
  /\ call[e] = "write" /\ Leaves(e, "idle", "failed") /\ GoesDown(e)
  /\ UNCHANGED <<asked, sent, got>>

BeginsRead(e) ==
  /\ call[e] = "idle" /\ (Enters(e, "read") \/ Leaves(e, "idle", "ok"))
  /\ UNCHANGED <<asked, sent, got, down>>

Reads(e) ==
  /\ call[e] = "read" /\ Leaves(e, "idle", "ok")
  /\ \E n \in 1 .. MaxRead :
       /\ got[e] + n <= Len(sent[Peer(e)])
       /\ got' = [got EXCEPT ![e] = @ + n]
  /\ UNCHANGED <<asked, sent, down>>

ReadEnds(e) ==
  /\ call[e] = "read" /\ Leaves(e, "idle", "failed")
  /\ \/ Drained(e) /\ UNCHANGED down
     \/ GoesDown(e)
  /\ UNCHANGED <<asked, sent, got>>

Closes(e) ==
  /\ \/ call[e] = "idle" /\ Enters(e, "close") /\ UNCHANGED down
     \/ call[e] = "close" /\ Leaves(e, "closed", "none") /\ (UNCHANGED down \/ GoesDown(e))
     \/ call[e] \in {"idle", "thrown", "closed"} /\ Enters(e, "gone") /\ UNCHANGED down
  /\ UNCHANGED <<asked, sent, got>>

Breaks ==
  /\ down' = [e \in Ends |-> TRUE]
  /\ UNCHANGED <<call, answer, asked, sent, got>>

ContractNext ==
  \/ \E e \in Ends :
       \/ Connects(e) \/ BeginsWrite(e) \/ Writes(e) \/ WriteFails(e)
       \/ BeginsRead(e) \/ Reads(e) \/ ReadEnds(e) \/ Closes(e)
  \/ Breaks

ContractSpec == ContractInit /\ [][ContractNext]_abstractVars

=============================================================================
