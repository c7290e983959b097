--------------------------- MODULE EventLoopThread ---------------------------
(***************************************************************************)
(* An EventLoopThreadPool and its EventLoopThreads: the thread that owns   *)
(* the pool starts IO threads one after the other, waits until each has    *)
(* made its loop known, and in the end makes each quit and joins it.       *)
(*                                                                         *)
(* A loop is a local variable of threadFunc: it is dead when threadFunc    *)
(* returns, and _loop still points to it.  What quit() does to a dead loop *)
(* is recorded.  Its stack stays mapped until the thread is joined and     *)
(* nobody runs there, so a store has no effect; but what quit() reads      *)
(* there may be anything, and it may wake another loop or none.  A         *)
(* critical section on _mutex is one step.                                 *)
(***************************************************************************)
EXTENDS Integers

CONSTANTS numThreads,   \* _numThreads
          MaxSpurious   \* bound: waits that return for no reason

ASSUME ThreadAssumption == numThreads \in Nat /\ MaxSpurious \in Nat

VARIABLES ownerPc, k,   \* where the owner is, and with which thread
          threads,      \* _threads: those startLoop has returned for
          started,      \* Thread's _started
          joined,       \* Thread's _joined
          pc,           \* where each IO thread is
          loop,         \* threads whose _loop is not NULL
          alive,        \* threads whose EventLoop exists
          quit,         \* loops with _quit
          eventfd,      \* loops whose eventfd is not zero
          spurious,     \* waits that have returned for no reason
          freed,        \* history: EventLoopThreads that were destroyed
          detached,     \* history: threads that were detached
          userQuit,     \* history: loops the program has quit by itself
          deadUses,     \* history: dead loops that quit() stored in, or went on with
          unmapped      \* history: those whose stack was gone by then

shared == <<loop, alive, quit, eventfd>>
owner == <<ownerPc, k, threads, started, joined>>
dead == <<deadUses, unmapped>>
history == <<freed, detached, userQuit, dead>>
vars == <<owner, pc, shared, spurious, history>>

IoThreads == 1 .. numThreads

Init ==
    /\ ownerPc = "start" /\ k = 1 /\ threads = {} /\ started = {} /\ joined = {}
    /\ pc = [i \in IoThreads |-> "none"]
    /\ loop = {} /\ alive = {} /\ quit = {} /\ eventfd = {} /\ spurious = 0
    /\ freed = {} /\ detached = {} /\ userQuit = {} /\ deadUses = {} /\ unmapped = {}

Goes(i, to) == pc' = [pc EXCEPT ![i] = to]

-----------------------------------------------------------------------------
(* EventLoopThreadPool::start and EventLoopThread::startLoop. *)

\* new EventLoopThread and Thread::start, where pthread_create may fail.
startThread ==
    /\ ownerPc = "start" /\ k \in IoThreads
    /\ \/ started' = started \cup {k} /\ Goes(k, "construct")
       \/ UNCHANGED <<started, pc>>
    /\ ownerPc' = "check"
    /\ UNCHANGED <<k, threads, joined, shared, spurious, history>>

\* while (_loop == NULL) _cond.wait();
waitForLoop ==
    /\ ownerPc = "check" /\ k \notin loop
    /\ ownerPc' = "waiting"
    /\ UNCHANGED <<k, threads, started, joined, pc, shared, spurious, history>>

\* pthread_cond_wait returns for no reason.
waitReturns ==
    /\ ownerPc = "waiting" /\ spurious < MaxSpurious
    /\ ownerPc' = "check" /\ spurious' = spurious + 1
    /\ UNCHANGED <<k, threads, started, joined, pc, shared, history>>

Bug_startLoopReturns ==
    /\ ownerPc = "check"
    /\ ownerPc' = "start" /\ k' = k + 1 /\ threads' = threads \cup {k}
    /\ UNCHANGED <<started, joined, pc, shared, spurious, history>>

startLoopReturns ==
    /\ ownerPc = "check" /\ k \in loop
    /\ ownerPc' = "start" /\ k' = k + 1 /\ threads' = threads \cup {k}
    /\ UNCHANGED <<started, joined, pc, shared, spurious, history>>

startReturns ==
    /\ ownerPc = "start" /\ k \notin IoThreads
    /\ ownerPc' = "running" /\ k' = 1
    /\ UNCHANGED <<threads, started, joined, pc, shared, spurious, history>>

-----------------------------------------------------------------------------
(* EventLoop::quit off the loop's thread: the flag, and then the eventfd. *)

Uses(i, what) ==
    /\ deadUses' = deadUses \cup ({<<i, what>>} \cap ((IoThreads \ alive) \X {what}))
    /\ unmapped' = unmapped \cup ({i} \cap joined)

setQuit(i) ==
    /\ Uses(i, "store")
    /\ quit' = quit \cup (alive \cap {i})
    /\ UNCHANGED <<loop, alive, eventfd>>

\* isInLoopThread reads _threadId, and wakeup _eventfd.
Bug_wakeup(i) == UNCHANGED <<shared, dead>>
wakeup(i) ==
    /\ Uses(i, "rest")
    /\ \/ i \in alive /\ eventfd' = eventfd \cup {i}
       \/ i \notin alive /\ \E woken \in {{}} \cup {{j} : j \in alive} : eventfd' = eventfd \cup woken
    /\ UNCHANGED <<loop, alive, quit>>

\* The program calls quit() on a loop, before it lets the pool go.
userQuits(i) ==
    /\ ownerPc = "running" /\ i \notin userQuit
    /\ ownerPc' = "quitting" /\ k' = i
    /\ setQuit(i) /\ userQuit' = userQuit \cup {i}
    /\ UNCHANGED <<threads, started, joined, pc, spurious, freed, detached>>

userQuitReturns ==
    /\ ownerPc = "quitting"
    /\ ownerPc' = "running" /\ k' = 1
    /\ wakeup(k)
    /\ UNCHANGED <<threads, started, joined, pc, spurious, freed, detached, userQuit>>

-----------------------------------------------------------------------------
(* ~EventLoopThreadPool erases the first of _threads, until there is none. *)

Bug_destructorQuits ==
    /\ ownerPc \in {"running", "next"} /\ k \in threads
    /\ ownerPc' = "wake"
    /\ Uses(k, "store")
    /\ quit' = quit \cup alive
    /\ UNCHANGED <<k, threads, started, joined, pc, loop, alive, eventfd, spurious,
                   freed, detached, userQuit>>

destructorQuits ==
    /\ ownerPc \in {"running", "next"} /\ k \in threads
    /\ ownerPc' = "wake" /\ setQuit(k)
    /\ UNCHANGED <<k, threads, started, joined, pc, spurious, freed, detached, userQuit>>

destructorWakes ==
    /\ ownerPc = "wake" /\ ownerPc' = "join"
    /\ wakeup(k)
    /\ UNCHANGED <<k, threads, started, joined, pc, spurious, freed, detached, userQuit>>

\* Thread::join
join ==
    /\ ownerPc = "join" /\ pc[k] = "over"
    /\ ownerPc' = "free" /\ joined' = joined \cup {k}
    /\ UNCHANGED <<k, threads, started, pc, shared, spurious, history>>

\* ~Thread detaches what was started and not joined; the EventLoopThread is
\* gone, its _mutex, _cond and _loop with it.
free ==
    /\ ownerPc = "free"
    /\ detached' = IF k \in started \ joined THEN detached \cup {k} ELSE detached
    /\ freed' = freed \cup {k} /\ threads' = threads \ {k} /\ k' = k + 1
    /\ ownerPc' = IF threads' = {} THEN "done" ELSE "next"
    /\ UNCHANGED <<started, joined, pc, shared, spurious, userQuit, dead>>

-----------------------------------------------------------------------------
(* threadFunc, on an IO thread. *)

construct(i) ==
    /\ pc[i] = "construct" /\ Goes(i, "publish")
    /\ alive' = alive \cup {i}
    /\ UNCHANGED <<owner, loop, quit, eventfd, spurious, history>>

Bug_publish(i) ==
    /\ pc[i] = "publish" /\ Goes(i, "test")
    /\ loop' = loop \cup {i}
    /\ UNCHANGED <<owner, alive, quit, eventfd, spurious, history>>

\* _loop = &loop; _cond.notify();
publish(i) ==
    /\ pc[i] = "publish" /\ Goes(i, "test")
    /\ loop' = loop \cup {i}
    /\ ownerPc' = IF ownerPc = "waiting" /\ k = i THEN "check" ELSE ownerPc
    /\ UNCHANGED <<k, threads, started, joined, alive, quit, eventfd, spurious, history>>

\* while (!_quit)
testQuit(i) ==
    /\ pc[i] = "test" /\ Goes(i, IF i \in quit THEN "returning" ELSE "poll")
    /\ UNCHANGED <<owner, shared, spurious, history>>

\* epoll_wait returns for the eventfd, and handleRead empties it.
pollWakeup(i) ==
    /\ pc[i] = "poll" /\ i \in eventfd
    /\ Goes(i, "test") /\ eventfd' = eventfd \ {i}
    /\ UNCHANGED <<owner, loop, alive, quit, spurious, history>>

\* It returns for a socket or a timer, and a callback may call quit().
pollOther(i) ==
    /\ pc[i] = "poll" /\ Goes(i, "test")
    /\ \/ UNCHANGED <<quit, userQuit>>
       \/ i \notin userQuit /\ quit' = quit \cup {i} /\ userQuit' = userQuit \cup {i}
    /\ UNCHANGED <<owner, loop, alive, eventfd, spurious, freed, detached, dead>>

\* threadFunc returns and the loop is destroyed; ThreadRoutine ends.
threadReturns(i) ==
    /\ pc[i] = "returning" /\ Goes(i, "over")
    /\ alive' = alive \ {i}
    /\ UNCHANGED <<owner, loop, quit, eventfd, spurious, history>>

-----------------------------------------------------------------------------
start == startThread \/ waitForLoop \/ startLoopReturns \/ startReturns
quitReturns == userQuitReturns \/ destructorWakes
destroy == join \/ free \/ (ownerPc = "next" /\ destructorQuits)
threadFunc(i) == construct(i) \/ publish(i) \/ testQuit(i) \/ pollWakeup(i) \/ threadReturns(i)

Next == \/ start \/ waitReturns \/ quitReturns \/ join \/ free \/ destructorQuits
        \/ \E i \in IoThreads : userQuits(i) \/ threadFunc(i) \/ pollOther(i)

\* The threads run.  The owner need not quit a loop or let the pool go, but
\* ends what it has begun.
Fairness == /\ WF_vars(start) /\ WF_vars(quitReturns) /\ WF_vars(destroy)
            /\ \A i \in IoThreads : WF_vars(threadFunc(i))

Spec == Init /\ [][Next]_vars /\ Fairness

-----------------------------------------------------------------------------
(***************************************************************************)
(* Properties.                                                             *)
(***************************************************************************)
TypeOK ==
    /\ ownerPc \in {"start", "check", "waiting", "running", "quitting", "wake", "join",
                    "free", "next", "done"}
    /\ k \in 1 .. numThreads + 1
    /\ pc \in [IoThreads -> {"none", "construct", "publish", "test", "poll", "returning",
                             "over"}]
    /\ {threads, started, joined, loop, alive, quit, eventfd} \subseteq SUBSET IoThreads
    /\ {freed, detached, userQuit, unmapped} \subseteq SUBSET IoThreads
    /\ deadUses \subseteq IoThreads \X {"store", "rest"}
    /\ spurious \in Nat

\* startLoop returns a loop that exists, or that the program has quit since:
\* it waits for the loop itself and not for the wakeup.
StartedLoop == \A i \in threads : i \in loop /\ (i \in alive \/ i \in quit)

\* An EventLoopThread, its mutex and its condition outlive its thread, and a
\* thread of the pool is joined, never detached.
OutlivesItsThread == detached = {} /\ \A i \in freed : pc[i] = "over"

\* The destructor sets _quit in a dead loop only if the program itself has
\* quit that loop before.  What follows the store in quit() may find any loop
\* dead, although the comment at EventLoopThread.cc:35 says that nobody needs
\* it then.  But no part of quit() finds a loop that was never asked to stop
\* dead, nor one that is not made yet, nor its stack unmapped.
QuitsLiveLoop ==
    /\ \A i \in IoThreads : <<i, "store">> \in deadUses => i \in userQuit
    /\ \A use \in deadUses : use[1] \in quit
    /\ unmapped = {}

\* start() returns, unless a thread could not be created.
StartReturns ==
    ownerPc = "start" ~> ownerPc = "running" \/ (ownerPc = "waiting" /\ k \notin started)

\* Once the destructor has set _quit the thread ends and is joined: whether
\* the loop was asleep, busy, or had not begun, nothing is lost.
Joins == \A i \in IoThreads : (ownerPc = "wake" /\ k = i) ~> i \in freed
=============================================================================
