---------------------------- MODULE MCHttpServer ----------------------------
(* Instance of HttpServer for TLC. Which handler answers is a matter of the*)
(* session (MCHttpRequestHandler), so here a few requests stand for all:   *)
(* one that keeps the connection open if the server lets it, and one that  *)
(* closes it.                                                              *)
EXTENDS HttpServer

MCPaths == {"/none"}
MCRegistered == {}

Keep == [words3 |-> TRUE, protocol |-> "1.1", connection |-> "absent", path |-> "/none"]
MCRequests == {Keep, [Keep EXCEPT !.words3 = FALSE]}
KeepOnly == {Keep}

(* Connections are interchangeable, and so are the workers: nothing in the *)
(* module or in the safety properties names one or orders them.            *)
Interchangeable == Permutations(Conns) \cup Permutations(Workers)

=============================================================================
