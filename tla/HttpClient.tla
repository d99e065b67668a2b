----------------------------- MODULE HttpClient -----------------------------
(***************************************************************************)
(* The bytes HttpClient (src/HttpClient.cpp) writes for a request, with    *)
(* HttpRequest::write, and the bytes a client following the comment of     *)
(* HttpTransaction::streamFromConnection would write.                      *)
(***************************************************************************)
EXTENDS HttpBytes

RequestLine == [kind |-> "line", val |-> 3]
LengthLine(n) == [kind |-> "length", val |-> n]

(* HttpRequest::write: the request line, the headers and the blank line;   *)
(* bodyLength is -1 for a request without a body.                          *)
FaultyRequestHead(bodyLength) ==
  <<RequestLine, EOL>>
    \o (IF bodyLength >= 0 THEN <<LengthLine(bodyLength), EOL>> ELSE <<>>)

RequestHead(bodyLength) ==
  <<RequestLine, EOL>>
    \o (IF bodyLength >= 0 THEN <<LengthLine(bodyLength), EOL>> ELSE <<>>)
    \o <<EOL>>

(* get, head, do_delete.                                                   *)
SendWithoutBody == RequestHead(-1)

(* put, post: the head, one more line end, the body.                       *)
SendWithBody(data) == RequestHead(Len(data)) \o <<EOL>> \o data

(* post(address, port, url, ...): buildHeader and the data, in one write.  *)
PostPayload(data) == RequestHead(IF data = <<>> THEN -1 ELSE Len(data)) \o data

(* What the reading side expects: "any bytes read past that point are the  *)
(* start of the body" (HttpTransaction.cpp:338-339).                       *)
ExpectedWithBody(data) == RequestHead(Len(data)) \o data

=============================================================================
