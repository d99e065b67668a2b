---------------------------- MODULE RequestStream ----------------------------
(***************************************************************************)
(* What reading requests off a connection amounts to, however the bytes    *)
(* arrive: the stream is cut at its first header terminator and after as   *)
(* many bytes of body as the header announces, the piece is delivered, and *)
(* the next request starts at the very next byte. HttpTransaction.tla      *)
(* implements it.                                                          *)
(***************************************************************************)
EXTENDS HttpBytes

CONSTANT Streams

VARIABLES
  rest,        \* Seq(Unit) the part of the stream not yet delivered
  delivered,   \* the requests delivered, each [headers, body]
  over         \* BOOLEAN nothing more will be delivered

vars == <<rest, delivered, over>>

Init == rest \in Streams /\ delivered = <<>> /\ over = FALSE

(* p is where the headers end, n the length of the body.                   *)
FrontMessage(p, n) ==
  /\ HasTerminator(rest) /\ p = PosTerminator(rest)
  /\ \E l \in ContentLengths(SubSeq(rest, 1, p - 1)) : n = BodyLength(l)
  /\ Len(rest) >= p + 1 + n

Consume(p, n) == rest' = SubSeq(rest, p + 2 + n, Len(rest))

Deliver ==
  /\ ~over
  /\ \E p \in 1 .. Len(rest), n \in 0 .. Len(rest) :
       LET headers == SubSeq(rest, 1, p - 1)
           body    == SubSeq(rest, p + 2, p + 1 + n)
       IN /\ FrontMessage(p, n)
          /\ WellFormed(headers)
          /\ delivered' = Append(delivered, [headers |-> headers, body |-> body])
          /\ Consume(p, n)
  /\ UNCHANGED over

(* A malformed request is consumed, nothing after it is looked at.         *)
Reject ==
  /\ ~over
  /\ \E p \in 1 .. Len(rest), n \in 0 .. Len(rest) :
       /\ FrontMessage(p, n)
       /\ ~WellFormed(SubSeq(rest, 1, p - 1))
       /\ Consume(p, n)
  /\ over' = TRUE
  /\ UNCHANGED delivered

Stop == ~over /\ over' = TRUE /\ UNCHANGED <<rest, delivered>>

Next == Deliver \/ Reject \/ Stop

Spec == Init /\ [][Next]_vars

=============================================================================
