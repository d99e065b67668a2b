--------------------------- MODULE ConnectionEnds ---------------------------
(***************************************************************************)
(* What can be seen of a connection from outside (src/ByteConnection.h):   *)
(* the calls its two ends are in, what the calls answered, and the bytes.  *)
(***************************************************************************)
EXTENDS Integers, Sequences

CONSTANTS
  Client, Server,  \* the two ends
  MaxBytes,        \* [Ends -> Nat] bound on what an end asks to be written in all
  MaxRead          \* bound on the size of the buffer of a read

Ends == {Client, Server}
Peer(e) == IF e = Client THEN Server ELSE Client

(* Bytes are told apart by their place in what an end writes: the first    *)
(* byte it asks to be written is 1, the next one 2.                        *)
Bytes(first, n) == [i \in 1 .. n |-> first + i - 1]

VARIABLES
  call,    \* what the thread of an end is in
  answer,  \* what its last call answered: see Answers
  asked,   \* how many bytes it has asked to be written, up to now
  sent,    \* Seq(Nat) the bytes that have been put on the connection
  got      \* how many bytes it has read of what its peer sent

(* true: a write that wrote. failed: a write's false, a read's -1. ok: a   *)
(* read's bytes, and every call with an empty buffer.                      *)
Answers == {"none", "true", "failed", "ok"}

InCall == {"connecting", "read", "write", "close"}
Over == {"thrown", "closed", "gone"}

Leaves(e, c, a) ==
  /\ call' = [call EXCEPT ![e] = c]
  /\ answer' = [answer EXCEPT ![e] = a]

Enters(e, c) == Leaves(e, c, "none")

=============================================================================
