------------------------------ MODULE Executor ------------------------------
(***************************************************************************)
(* What EventLoop promises to the threads that hand it work: a serial      *)
(* first-in first-out executor.  Functors are submitted by any thread, run *)
(* one at a time in submission order, none is lost, repeated or run after  *)
(* the loop has stopped, and while the loop has not stopped every          *)
(* submitted functor is eventually run.  How the loop sleeps and is woken  *)
(* is no part of the promise.                                              *)
(***************************************************************************)
EXTENDS Sequences

CONSTANT Tasks          \* the functors (std::function<void()>) of the program

VARIABLES backlog,      \* submitted and not yet started, oldest first
          executed,     \* started, in the order they were started
          stopped       \* loop() has returned

exVars == <<backlog, executed, stopped>>

Init ==
    /\ backlog = << >>
    /\ executed = << >>
    /\ stopped = FALSE

Submit(t) ==
    /\ backlog' = Append(backlog, t)
    /\ UNCHANGED <<executed, stopped>>

Execute ==
    /\ ~stopped
    /\ backlog # << >>
    /\ executed' = Append(executed, Head(backlog))
    /\ backlog' = Tail(backlog)
    /\ UNCHANGED stopped

Stop ==
    /\ stopped' = TRUE
    /\ UNCHANGED <<backlog, executed>>

Next == (\E t \in Tasks : Submit(t)) \/ Execute \/ Stop

\* The promise without liveness: what the proofs refine.
SafeSpec == Init /\ [][Next]_exVars

\* The whole promise: what TLC checks the event loop against.
Spec == SafeSpec /\ WF_exVars(Execute)
=============================================================================
