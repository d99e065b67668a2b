------------------------ MODULE MCHttpRequestHandler ------------------------
(* Instance of HttpRequestHandler for TLC. One connection is enough: the   *)
(* sessions share nothing; MCHttpServer has several.                       *)
EXTENDS HttpRequestHandler

(* A path with a handler and one without.                                  *)
MCPaths == {"/echo", "/none"}
MCRegistered == {"/echo"}

Plain == [words3 |-> TRUE, protocol |-> "1.1", connection |-> "absent", path |-> "/echo"]

(* Every request whose first line has three words, and one malformed one,  *)
(* of which nothing but the first line is looked at.                       *)
AllRequests ==
  {r \in Request : r.words3} \cup {[Plain EXCEPT !.words3 = FALSE]}

(* One of each kind the loop tells apart.                                  *)
FewRequests ==
  {Plain,
   [Plain EXCEPT !.words3 = FALSE],
   [Plain EXCEPT !.connection = "close"],
   [Plain EXCEPT !.protocol = "1.0", !.connection = "keep-alive"],
   [Plain EXCEPT !.protocol = "other"],
   [Plain EXCEPT !.path = "/none"]}

=============================================================================
