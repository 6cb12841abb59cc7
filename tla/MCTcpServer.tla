----------------------------- MODULE MCTcpServer -----------------------------
(***************************************************************************)
(* TcpServer with no thread, one or two, so that connections of one loop and *)
(* of different loops close while the server is destroyed.                   *)
(***************************************************************************)
EXTENDS TcpServer

=============================================================================
