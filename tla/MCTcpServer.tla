----------------------------- MODULE MCTcpServer ----------------------------
(***************************************************************************)
(* TLC instance of TcpServer: two clients of an RpcServer on one loop, or  *)
(* with one or two IO threads.                                             *)
(***************************************************************************)
EXTENDS TcpServer
=============================================================================
