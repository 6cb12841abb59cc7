----------------------------- MODULE MCTcpClient -----------------------------
(***************************************************************************)
(* TcpClient with two descriptors, that of a closing connection and that of  *)
(* the next attempt, for a program that connects once and for one that does  *)
(* anything, in callbacks as long as a retry delay too; in the other         *)
(* configuration for one that only destroys the client.                      *)
(***************************************************************************)
EXTENDS TcpClient

=============================================================================
