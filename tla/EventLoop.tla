------------------------------ MODULE EventLoop ------------------------------
(***************************************************************************)
(* simplifyMuduo's EventLoop: one loop thread that sleeps in epoll_wait,   *)
(* dispatches the active channels and then runs the functors other threads *)
(* (or its own callbacks) queued.  The eventfd is what gets it out of the  *)
(* sleep; whether a wakeup is written depends on who queues and when, and  *)
(* that decision is what this module is about.                             *)
(*                                                                         *)
(* A critical section on _mutex is one push_back or one swap and nothing   *)
(* else touches _pendingFunctors, so each is one step.  Everything between *)
(* two accesses to shared state (_quit, _pendingFunctors, the eventfd) is  *)
(* a step of its own.  Callbacks are user code: while one runs, the loop   *)
(* thread may call any operation of the loop, as any other thread may at   *)
(* any time.                                                               *)
(*                                                                         *)
(* The Bug_ operators, here and in the other modules, are plausible        *)
(* mistakes in the definition they precede; no specification uses them.    *)
(* Each shows that a property would notice the mistake.                    *)
(***************************************************************************)
EXTENDS Naturals, Sequences

CONSTANTS Callers,         \* threads other than the loop's that use the loop
          LoopThread,      \* the thread that constructed the loop: _threadId
          Tasks,           \* functors; each is submitted at most once
          MaxIo,           \* bound: readiness events of the I/O channel
          QueueBeforeLoop  \* does the loop thread queue work before loop()?

ASSUME LoopAssumption ==
    /\ LoopThread \notin Callers
    /\ MaxIo \in Nat
    /\ QueueBeforeLoop \in BOOLEAN
    /\ {"none", "io"} \cap Tasks = {}

VARIABLES quit,            \* _quit
          callingPending,  \* _callingPendingFunctors
          pending,         \* _pendingFunctors
          tempRuns,        \* what is left of tempRuns in doPendingFunctors
          eventfd,         \* the counter behind _eventfd
          ioReady,         \* a socket registered with the poller is readable
          active,          \* activeChannels not yet handled
          running,         \* the callback the loop thread is inside
          loopPc,          \* where the loop thread is in loop()
          call,            \* where each thread is in queueInLoop() or quit()
          ioCount,         \* bound: readiness events so far
          submitted,       \* history: functors in the order of push_back
          ran,             \* history: queued functors in the order they ran
          inlined          \* history: functors runInLoop ran at once

loopVars == <<quit, callingPending, pending, tempRuns, active, running, loopPc>>
history  == <<submitted, ran, inlined>>
vars     == <<loopVars, eventfd, ioReady, ioCount, call, history>>

Threads == Callers \cup {LoopThread}
Elements(s) == {s[i] : i \in DOMAIN s}
Fresh(t) == t \notin Elements(submitted) \cup inlined

Init ==
    /\ quit = FALSE
    /\ callingPending = FALSE
    /\ pending = << >>
    /\ tempRuns = << >>
    /\ eventfd = 0
    /\ ioReady = FALSE
    /\ active = {}
    /\ running = "none"
    /\ loopPc = "start"
    /\ call = [th \in Threads |-> "idle"]
    /\ ioCount = 0
    /\ submitted = << >>
    /\ ran = << >>
    /\ inlined = {}

-----------------------------------------------------------------------------
(***************************************************************************)
(* Operations any thread may call.  A thread is in one call at a time; the *)
(* loop thread calls from user code only: from a callback, or, where the   *)
(* program does so, between constructing the loop and running it.          *)
(***************************************************************************)
isInLoopThread(th) == th = LoopThread

InUserCode ==
    \/ running # "none"
    \/ loopPc = "start" /\ QueueBeforeLoop

CanCall(th) == call[th] = "idle" /\ (isInLoopThread(th) => InUserCode)

wakeup == eventfd' = eventfd + 1

\* Does queueInLoop write a wakeup?  A functor queued by a callback of the
\* dispatch phase needs none: the functors of this round are still to run.
Bug_onlyForeignWake(th) == ~isInLoopThread(th)
MustWake(th) == ~isInLoopThread(th) \/ callingPending

\* queueInLoop: push_back under the mutex ...
queueInLoop(th, t) ==
    /\ CanCall(th) /\ Fresh(t)
    /\ pending' = Append(pending, t)
    /\ submitted' = Append(submitted, t)
    /\ call' = [call EXCEPT ![th] = "pushed"]
    /\ UNCHANGED <<quit, callingPending, tempRuns, active, running, loopPc,
                   eventfd, ioReady, ioCount, ran, inlined>>

\* ... then the test, outside the mutex, that decides on the wakeup.
queueInLoopWakeup(th) ==
    /\ call[th] = "pushed"
    /\ call' = [call EXCEPT ![th] = "idle"]
    /\ IF MustWake(th) THEN wakeup ELSE UNCHANGED eventfd
    /\ UNCHANGED <<loopVars, ioReady, ioCount, history>>

\* runInLoop: at once on the loop thread, ahead of everything queued; any
\* other thread queues.
runInLoop(th, t) ==
    \/ /\ isInLoopThread(th) /\ CanCall(th) /\ Fresh(t)
       /\ inlined' = inlined \cup {t}
       /\ UNCHANGED <<loopVars, eventfd, ioReady, ioCount, call, submitted, ran>>
    \/ ~isInLoopThread(th) /\ queueInLoop(th, t)

\* quit: set the flag ...  (only the first call is modelled: a later one
\* stores the same value and only adds to the eventfd.)
Bug_quitWakesNobody(th) == "idle"
AfterQuit(th) == IF isInLoopThread(th) THEN "idle" ELSE "quitting"

quitLoop(th) ==
    /\ CanCall(th) /\ ~quit
    /\ quit' = TRUE
    /\ call' = [call EXCEPT ![th] = AfterQuit(th)]
    /\ UNCHANGED <<callingPending, pending, tempRuns, active, running, loopPc,
                   eventfd, ioReady, ioCount, history>>

\* ... then, off the loop thread, write the eventfd.
quitWakeup(th) ==
    /\ call[th] = "quitting"
    /\ call' = [call EXCEPT ![th] = "idle"]
    /\ wakeup
    /\ UNCHANGED <<loopVars, ioReady, ioCount, history>>

-----------------------------------------------------------------------------
(* The loop thread. *)

\* Control is in the library, not in user code or in a call user code made.
InLibrary(pc) == loopPc = pc /\ running = "none" /\ call[LoopThread] = "idle"

enterLoop ==
    /\ InLibrary("start")
    /\ loopPc' = "check"
    /\ UNCHANGED <<quit, callingPending, pending, tempRuns, active, running,
                   eventfd, ioReady, ioCount, call, history>>

checkQuit ==
    /\ InLibrary("check")
    /\ loopPc' = IF quit THEN "stopped" ELSE "poll"
    /\ UNCHANGED <<quit, callingPending, pending, tempRuns, active, running,
                   eventfd, ioReady, ioCount, call, history>>

ReadyChannels ==
    (IF eventfd > 0 THEN {"eventfd"} ELSE {}) \cup (IF ioReady THEN {"io"} ELSE {})

\* epoll_wait(-1): sleeps until a registered descriptor is ready.
poll ==
    /\ InLibrary("poll")
    /\ ReadyChannels # {}
    /\ active' = ReadyChannels
    /\ loopPc' = "dispatch"
    /\ UNCHANGED <<quit, callingPending, pending, tempRuns, running,
                   eventfd, ioReady, ioCount, call, history>>

\* epoll_wait fails (a signal): no active channel, and the loop goes on to
\* the functors.
pollError ==
    /\ InLibrary("poll")
    /\ active' = {}
    /\ loopPc' = "dispatch"
    /\ UNCHANGED <<quit, callingPending, pending, tempRuns, running,
                   eventfd, ioReady, ioCount, call, history>>

\* handleEvent of the eventfd's channel: EventLoop::handleRead empties the
\* counter.
handleWakeup ==
    /\ InLibrary("dispatch") /\ "eventfd" \in active
    /\ active' = active \ {"eventfd"}
    /\ eventfd' = 0
    /\ UNCHANGED <<quit, callingPending, pending, tempRuns, running, loopPc,
                   ioReady, ioCount, call, history>>

\* handleEvent of any other channel: user code runs.
handleIo ==
    /\ InLibrary("dispatch") /\ "io" \in active
    /\ active' = active \ {"io"}
    /\ ioReady' = FALSE
    /\ running' = "io"
    /\ UNCHANGED <<quit, callingPending, pending, tempRuns, loopPc,
                   eventfd, ioCount, call, history>>

\* doPendingFunctors: raise the flag and take the whole queue.
Bug_copyWithoutSwap == tempRuns' = pending /\ UNCHANGED pending
swapFunctors == tempRuns' = pending /\ pending' = << >>

takeFunctors ==
    /\ InLibrary("dispatch") /\ active = {}
    /\ callingPending' = TRUE
    /\ swapFunctors
    /\ loopPc' = "functors"
    /\ UNCHANGED <<quit, active, running, eventfd, ioReady, ioCount, call, history>>

runFunctor ==
    /\ InLibrary("functors") /\ tempRuns # << >>
    /\ running' = Head(tempRuns)
    /\ tempRuns' = Tail(tempRuns)
    /\ ran' = Append(ran, Head(tempRuns))
    /\ UNCHANGED <<quit, callingPending, pending, active, loopPc,
                   eventfd, ioReady, ioCount, call, submitted, inlined>>

\* Back to while (!_quit).
Bug_clearAfterRunning ==
    /\ InLibrary("functors") /\ tempRuns = << >>
    /\ callingPending' = FALSE
    /\ pending' = << >>
    /\ loopPc' = "check"
    /\ UNCHANGED <<quit, tempRuns, active, running,
                   eventfd, ioReady, ioCount, call, history>>

endFunctors ==
    /\ InLibrary("functors") /\ tempRuns = << >>
    /\ callingPending' = FALSE
    /\ loopPc' = "check"
    /\ UNCHANGED <<quit, pending, tempRuns, active, running,
                   eventfd, ioReady, ioCount, call, history>>

callbackReturns ==
    /\ running # "none" /\ call[LoopThread] = "idle"
    /\ running' = "none"
    /\ UNCHANGED <<quit, callingPending, pending, tempRuns, active, loopPc,
                   eventfd, ioReady, ioCount, call, history>>

\* The peer of a socket sends something.
ioEvent ==
    /\ ~ioReady /\ ioCount < MaxIo
    /\ ioReady' = TRUE
    /\ ioCount' = ioCount + 1
    /\ UNCHANGED <<loopVars, eventfd, call, history>>

-----------------------------------------------------------------------------
LoopStep ==
    \/ enterLoop \/ checkQuit \/ poll \/ handleWakeup \/ handleIo
    \/ takeFunctors \/ runFunctor \/ endFunctors \/ callbackReturns

FinishCall(th) == queueInLoopWakeup(th) \/ quitWakeup(th)

Next ==
    \/ LoopStep
    \/ pollError
    \/ ioEvent
    \/ \E th \in Threads :
          \/ FinishCall(th)
          \/ quitLoop(th)
          \/ \E t \in Tasks : queueInLoop(th, t) \/ runInLoop(th, t)

\* The scheduler runs every thread that can run, and callbacks return.
\* Nobody has to call anything, no socket has to become ready and
\* epoll_wait need not fail.
Fairness == WF_vars(LoopStep) /\ \A th \in Threads : WF_vars(FinishCall(th))

Spec == Init /\ [][Next]_vars /\ Fairness

-----------------------------------------------------------------------------
(***************************************************************************)
(* Properties.                                                             *)
(***************************************************************************)
LoopPcs   == {"start", "check", "poll", "dispatch", "functors", "stopped"}
CallPcs   == {"idle", "pushed", "quitting"}

\* Types, and the control state each flag stands for: the flag that decides
\* on the wakeup is up exactly while doPendingFunctors runs, and user code
\* runs only under dispatch or doPendingFunctors.
TypeOK ==
    /\ quit \in BOOLEAN
    /\ callingPending = (loopPc = "functors")
    /\ pending \in Seq(Tasks)
    /\ tempRuns \in Seq(Tasks)
    /\ tempRuns # << >> => loopPc = "functors"
    /\ eventfd \in Nat
    /\ ioReady \in BOOLEAN
    /\ ioCount \in 0..MaxIo
    /\ active \subseteq {"eventfd", "io"}
    /\ active # {} => loopPc = "dispatch"
    /\ running \in Tasks \cup {"none", "io"}
    /\ running # "none" => loopPc \in {"dispatch", "functors"}
    /\ loopPc \in LoopPcs
    /\ call \in [Threads -> CallPcs]
    /\ submitted \in Seq(Tasks)
    /\ ran \in Seq(Tasks)
    /\ inlined \subseteq Tasks

\* Someone is about to write the eventfd.
WakeupComing(th) == th \in Callers /\ call[th] \in {"pushed", "quitting"}

\* The loop never sleeps on work: when it is in epoll_wait with a functor
\* queued or quit() called, the eventfd is readable or a thread is between
\* its store and its wakeup (queueInLoop's condition on the wakeup is
\* sufficient).  It is not for a loop thread that queues before loop().
NoLostWakeup ==
    ~QueueBeforeLoop /\ loopPc = "poll" /\ (pending # << >> \/ quit)
        => eventfd > 0 \/ \E th \in Callers : call[th] \in {"pushed", "quitting"}

\* Why it holds.  Work that is queued has its wakeup written or coming, or
\* this round of the loop will still take it ...
PendingIsSeen ==
    ~QueueBeforeLoop /\ pending # << >>
        => \/ eventfd > 0
           \/ \E th \in Callers : call[th] = "pushed"
           \/ loopPc = "dispatch"
           \/ loopPc = "functors" /\ call[LoopThread] = "pushed"

\* ... and a quit() that the test of _quit missed came from another thread.
QuitIsSeen ==
    ~QueueBeforeLoop /\ quit /\ loopPc = "poll"
        => eventfd > 0 \/ \E th \in Callers : call[th] = "quitting"

WakeupInv == PendingIsSeen /\ QuitIsSeen

\* No functor is lost, run twice or overtaken by a later one: what was
\* pushed is what ran, then what is left of the batch, then what waits
\* (doPendingFunctors swaps the whole queue and walks it front to back).
FifoExecution == submitted = ran \o tempRuns \o pending

\* quit() from any thread gets loop() to return, even out of epoll_wait.
QuitReturns == quit ~> (loopPc = "stopped")

\* The loop implements the executor its callers rely on.
Promise == INSTANCE Executor
               WITH backlog <- tempRuns \o pending,
                    executed <- ran,
                    stopped <- (loopPc = "stopped")
IsExecutor == Promise!Spec
=============================================================================
