-------------------------- MODULE MCTcpConnection ---------------------------
(***************************************************************************)
(* TcpConnection with three bytes, so that a write can be split, postponed   *)
(* and followed by another inside its callback.                              *)
(***************************************************************************)
EXTENDS TcpConnection

=============================================================================
