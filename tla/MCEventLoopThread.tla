-------------------------- MODULE MCEventLoopThread --------------------------
(***************************************************************************)
(* TLC instance of EventLoopThread: a pool of three threads.               *)
(***************************************************************************)
EXTENDS EventLoopThread
=============================================================================
