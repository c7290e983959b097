---------------------------- MODULE MCTimerQueue ----------------------------
(***************************************************************************)
(* TLC instance of TimerQueue: three timers at two addresses, two calls    *)
(* of cancelTimer with any of their ids.                                   *)
(***************************************************************************)
EXTENDS TimerQueue
=============================================================================
