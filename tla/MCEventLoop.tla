----------------------------- MODULE MCEventLoop ----------------------------
(***************************************************************************)
(* TLC instance of EventLoop: three functors, two callers and the callbacks *)
(* of the loop.                                                            *)
(***************************************************************************)
EXTENDS EventLoop
=============================================================================
