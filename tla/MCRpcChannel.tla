---------------------------- MODULE MCRpcChannel ----------------------------
(***************************************************************************)
(* TLC instance of RpcChannel: three calls by two threads, of requests that *)
(* are served or refused for every reason.                                 *)
(***************************************************************************)
EXTENDS RpcChannel
=============================================================================
