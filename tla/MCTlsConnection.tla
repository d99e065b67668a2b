--------------------------- MODULE MCTlsConnection ---------------------------
(* Instance of TlsConnection for TLC: a server whose socket has a receive  *)
(* time-out and is closed by close(), as HttpRequestHandler uses it, and a *)
(* client without either, as in TestTlsConnection.                         *)
EXTENDS TlsConnection, TLC

CONSTANTS client, server

MCServerOnly == {server}
MCMaxBytes == (client :> 3) @@ (server :> 2)

=============================================================================
