----------------------------- MODULE MCTcpClient ----------------------------
(***************************************************************************)
(* TLC instance of TcpClient: four attempts, and stop() twice.             *)
(***************************************************************************)
EXTENDS TcpClient
=============================================================================
