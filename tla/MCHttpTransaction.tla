-------------------------- MODULE MCHttpTransaction --------------------------
(* Instance of HttpTransaction for TLC: the streams of peers that send one *)
(* to three requests, whole or cut off anywhere.                           *)
EXTENDS HttpTransaction, HttpClient, SequencesExt

Text(v) == [kind |-> "text", val |-> v]

(* Bodies: plain; one with a terminator inside; one that is a request.     *)
Bodies == {<<Text(1)>>, <<EOL, EOL>>, <<Text(1), Text(2), Text(3)>>, SendWithoutBody}

Malformed == {<<EOL, EOL>>, <<[RequestLine EXCEPT !.val = 2], EOL, EOL>>,
              <<[RequestLine EXCEPT !.val = 4], EOL, LengthLine(1), EOL, EOL, Text(1)>>}
Odd == {<<RequestLine, EOL, LengthLine(-1), EOL, EOL>>,
        <<RequestLine, EOL, LengthLine(0), EOL, EOL>>}

Sent == {ExpectedWithBody(b) : b \in Bodies} \cup {SendWithoutBody} \cup Malformed \cup Odd

Pairs == {a \o b : a, b \in Sent}
Triples == {SendWithoutBody \o ExpectedWithBody(b) \o SendWithoutBody : b \in Bodies}
MCStreams == UNION {Prefixes(s) : s \in Pairs \cup Triples}

(* What HttpClient sends for a body of two different pieces.               *)
ClientData == <<Text(1), Text(2)>>
ClientStreams == {SendWithBody(ClientData), SendWithBody(ClientData) \o SendWithoutBody}

(* HttpTransaction.cpp:338-339: "any bytes read past that point are the    *)
(* start of the body": what HttpClient is given to put or post is then     *)
(* what the handler at the other end is given as the body.                 *)
ClientBodyDelivered ==
  delivered # <<>> => delivered[1].body = ClientData

=============================================================================
