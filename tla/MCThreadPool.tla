---------------------------- MODULE MCThreadPool ----------------------------
(***************************************************************************)
(* TLC instance of ThreadPool: two threads, one of which may not come up,  *)
(* two callers, three tasks (one an empty function).                       *)
(***************************************************************************)
EXTENDS ThreadPool
=============================================================================
