--------------------------- MODULE MCHttpEventServer ---------------------------
(* Instance of HttpEventServer for TLC. As in MCHttpServer, one request    *)
(* that keeps the connection open and one that closes it stand for all.    *)
EXTENDS HttpEventServer

MCPaths == {"/none"}
MCRegistered == {}

Keep == [words3 |-> TRUE, protocol |-> "1.1", connection |-> "absent", path |-> "/none"]
KeepOnly == {Keep}
MCRequests == {Keep, [Keep EXCEPT !.words3 = FALSE]}

(* Sockets, and threads, may change places.                                *)
Interchangeable == Permutations(Conns) \cup Permutations(Workers)

=============================================================================
