------------------------ MODULE EventLoopThreadProofs ------------------------
(***************************************************************************)
(* Theorems about EventLoopThread, for pools of any size.                  *)
(*                                                                         *)
(* The argument: where an IO thread is tells whether its loop exists and   *)
(* is known (Stage), and a loop with _quit was quit by the program, or is  *)
(* the one the destructor is at, or one it is done with (QuitBy).  So a    *)
(* dead loop the destructor meets anew was quit by the program.            *)
(***************************************************************************)
EXTENDS EventLoopThread, TLAPS

\* Where an IO thread is, and what there is of its loop.
Stage ==
    \A i \in IoThreads :
        /\ pc[i] \in {"none", "construct"} => i \notin alive /\ i \notin loop
        /\ pc[i] = "publish" => i \in alive /\ i \notin loop
        /\ pc[i] \in {"test", "poll"} => i \in alive /\ i \in loop
        /\ pc[i] = "returning" => i \in alive /\ i \in loop /\ i \in quit
        /\ pc[i] = "over" => i \notin alive /\ i \in loop /\ i \in quit

\* The destructor is at thread k, which it has not freed.
Destroying == ownerPc \in {"wake", "join", "free"}

Known == threads \subseteq loop /\ (Destroying => k \in threads)
QuitBy == \A i \in quit : i \in userQuit \/ i \in freed \/ (Destroying /\ i = k)

\* Threads are freed in order, when they are over and were joined.
FreedInOrder ==
    /\ threads \cap freed = {}
    /\ detached = {}
    /\ \A i \in joined : pc[i] = "over"
    /\ freed \subseteq joined
    /\ ownerPc = "free" => k \in joined
    /\ \A i \in joined : i \in freed \/ (ownerPc = "free" /\ i = k)
    /\ ownerPc \in {"running", "quitting"} => freed = {} /\ threads = IoThreads
    /\ ownerPc = "quitting" => k \in IoThreads

\* While the owner starts threads, those after the k-th are not begun.
StartsInOrder ==
    ownerPc \in {"start", "check", "waiting"} =>
        /\ freed = {} /\ threads = 1 .. k - 1
        /\ k \in IoThreads \/ ownerPc = "start"
        /\ \A i \in IoThreads : i > k \/ (i = k /\ ownerPc = "start") => pc[i] = "none"

IInv == TypeOK /\ StartsInOrder /\ Stage /\ Known /\ QuitBy /\ FreedInOrder /\ QuitsLiveLoop

LEMMA InitInv == Init => IInv
  BY ThreadAssumption DEF Init, IInv, TypeOK, StartsInOrder, Stage, Known, QuitBy, FreedInOrder, QuitsLiveLoop,
     Destroying, IoThreads

USE DEF shared, owner, history, dead

\* The owner starts its threads.
LEMMA StartStep ==
  ASSUME IInv, startThread \/ waitForLoop \/ waitReturns \/ startLoopReturns \/ startReturns
  PROVE  IInv'
<1> USE ThreadAssumption DEF IInv, TypeOK, StartsInOrder, Stage, Known, QuitBy, FreedInOrder, QuitsLiveLoop,
        Destroying, IoThreads
<1>1. CASE startThread
  BY <1>1 DEF startThread, Goes
<1>2. CASE waitForLoop
  BY <1>2 DEF waitForLoop
<1>3. CASE waitReturns
  BY <1>3 DEF waitReturns
<1>4. CASE startLoopReturns
  BY <1>4 DEF startLoopReturns
<1>5. CASE startReturns
  BY <1>5 DEF startReturns
<1> QED
  BY <1>1, <1>2, <1>3, <1>4, <1>5

\* The program quits a loop; the destructor quits, joins and frees.
LEMMA QuitStep ==
  ASSUME IInv, userQuitReturns \/ destructorQuits \/ destructorWakes \/ join \/ free
                 \/ (\E i \in IoThreads : userQuits(i))
  PROVE  IInv'
<1> USE ThreadAssumption DEF IInv, TypeOK, StartsInOrder, Stage, Known, QuitBy, FreedInOrder,
        QuitsLiveLoop, Destroying, IoThreads
<1>1. CASE userQuitReturns
  BY <1>1 DEF userQuitReturns, wakeup, Uses
<1>2. CASE destructorQuits
  BY <1>2 DEF destructorQuits, setQuit, Uses
<1>3. CASE destructorWakes
  BY <1>3 DEF destructorWakes, wakeup, Uses
<1>4. CASE join
  BY <1>4 DEF join
<1>5. CASE free
  BY <1>5 DEF free
<1>6. ASSUME NEW i \in IoThreads, userQuits(i) PROVE IInv'
  BY <1>6 DEF userQuits, setQuit, Uses
<1> QED
  BY <1>1, <1>2, <1>3, <1>4, <1>5, <1>6

\* A step of an IO thread.
LEMMA ThreadStep ==
  ASSUME IInv, NEW i \in IoThreads, threadFunc(i) \/ pollOther(i)
  PROVE  IInv'
<1> USE ThreadAssumption DEF IInv, TypeOK, StartsInOrder, Stage, Known, QuitBy, FreedInOrder,
        QuitsLiveLoop, Destroying, IoThreads, Goes
<1>1. CASE construct(i)
  BY <1>1 DEF construct
<1>2. CASE publish(i)
  BY <1>2 DEF publish
<1>3. CASE testQuit(i)
  BY <1>3 DEF testQuit
<1>4. CASE pollWakeup(i)
  BY <1>4 DEF pollWakeup
<1>5. CASE threadReturns(i)
  BY <1>5 DEF threadReturns
<1>6. CASE pollOther(i)
  BY <1>6 DEF pollOther
<1> QED
  BY <1>1, <1>2, <1>3, <1>4, <1>5, <1>6 DEF threadFunc

LEMMA StepInv == IInv /\ [Next]_vars => IInv'
<1> SUFFICES ASSUME IInv, [Next]_vars PROVE IInv'
  OBVIOUS
<1>1. CASE UNCHANGED vars
  BY <1>1 DEF vars, IInv, TypeOK, StartsInOrder, Stage, Known, QuitBy, FreedInOrder, QuitsLiveLoop,
     Destroying
<1>2. CASE Next
  BY <1>2, StartStep, QuitStep, ThreadStep DEF Next, start, quitReturns
<1> QED
  BY <1>1, <1>2

THEOREM Invariance == Spec => []IInv
  BY InitInv, StepInv, PTL DEF Spec

\* The pool and its threads keep to their types (EventLoopThreadPool.cc,
\* EventLoopThread.cc).
THEOREM TypeCorrect == Spec => []TypeOK
<1>1. IInv => TypeOK
  BY DEF IInv
<1> QED
  BY <1>1, Invariance, PTL

\* Whatever wakes it, startLoop returns a loop that exists or was quit since
\* (EventLoopThread.cc:22).
THEOREM StartLoopReturnsALoop == Spec => []StartedLoop
<1>1. IInv => StartedLoop
  BY DEF IInv, TypeOK, Stage, Known, StartedLoop
<1> QED
  BY <1>1, Invariance, PTL

\* The destructor's store to _quit hits a dead loop only if the program had
\* quit that loop; and wherever a quit() is when its loop dies, the thread it
\* runs on was not joined (EventLoopThread.cc:13, EventLoop.cc:41).
THEOREM QuitsLive == Spec => []QuitsLiveLoop
<1>1. IInv => QuitsLiveLoop
  BY DEF IInv
<1> QED
  BY <1>1, Invariance, PTL

\* An EventLoopThread is freed when its thread is over, and was joined
\* (EventLoopThread.cc:14, Thread.cc:21).
THEOREM Outlives == Spec => []OutlivesItsThread
<1>1. IInv => OutlivesItsThread
  BY DEF IInv, FreedInOrder, OutlivesItsThread
<1> QED
  BY <1>1, Invariance, PTL
=============================================================================
