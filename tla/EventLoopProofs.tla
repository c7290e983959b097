-------------------------- MODULE EventLoopProofs --------------------------
(***************************************************************************)
(* What holds of EventLoop for every set of callers and functors, however  *)
(* many: the type invariant, the order of execution, the absence of lost   *)
(* wakeups, and that every step of the loop is a step of the executor it   *)
(* promises to be; and, of the loop's timers (TimerQueue), that no Timer   *)
(* dies early, none is slept past and a cancelled one stays down.          *)
(***************************************************************************)
EXTENDS EventLoop, TimerQueue, SequenceTheorems, WellFoundedInduction, TLAPS

\* The operators the actions are built from are expanded everywhere below.
USE DEF vars, loopVars, history, wakeup, CanCall, InLibrary, isInLoopThread,
        Threads

(***************************************************************************)
(* Type correctness: the flags and program counters of loop() stay in step *)
(* with each other (EventLoop::loop, doPendingFunctors).                   *)
(***************************************************************************)
THEOREM TypeCorrect == Spec => []TypeOK
<1>1. Init => TypeOK
  <2> SUFFICES ASSUME Init PROVE TypeOK
    OBVIOUS
  <2>1. << >> \in Seq(Tasks)
    OBVIOUS
  <2>2. 0 \in 0 .. MaxIo
    BY LoopAssumption
  <2>3. call \in [Threads -> CallPcs]
    BY DEF Init, CallPcs
  <2> QED
    BY <2>1, <2>2, <2>3 DEF Init, TypeOK, LoopPcs
<1>2. TypeOK /\ [Next]_vars => TypeOK'
  <2> SUFFICES ASSUME TypeOK, [Next]_vars PROVE TypeOK'
    OBVIOUS
  <2>1. ASSUME NEW th \in Threads, NEW t \in Tasks, queueInLoop(th, t)
        PROVE  TypeOK'
    BY <2>1 DEF queueInLoop, TypeOK, LoopPcs, CallPcs
  <2>2. ASSUME NEW th \in Threads, NEW t \in Tasks, runInLoop(th, t)
        PROVE  TypeOK'
    BY <2>1, <2>2 DEF runInLoop, TypeOK, LoopPcs, CallPcs
  <2>3. ASSUME NEW th \in Threads, queueInLoopWakeup(th)
        PROVE  TypeOK'
    BY <2>3 DEF queueInLoopWakeup, MustWake, TypeOK, LoopPcs, CallPcs
  <2>4. ASSUME NEW th \in Threads, quitLoop(th)
        PROVE  TypeOK'
    BY <2>4 DEF quitLoop, AfterQuit, TypeOK, LoopPcs, CallPcs
  <2>5. ASSUME NEW th \in Threads, quitWakeup(th)
        PROVE  TypeOK'
    BY <2>5 DEF quitWakeup, TypeOK, LoopPcs, CallPcs
  <2>6. CASE enterLoop
    BY <2>6 DEF enterLoop, TypeOK, LoopPcs, CallPcs
  <2>7. CASE checkQuit
    BY <2>7 DEF checkQuit, TypeOK, LoopPcs, CallPcs
  <2>8. CASE poll
    BY <2>8 DEF poll, ReadyChannels, TypeOK, LoopPcs, CallPcs
  <2>9. CASE pollError
    BY <2>9 DEF pollError, TypeOK, LoopPcs, CallPcs
  <2>10. CASE handleWakeup
    BY <2>10 DEF handleWakeup, TypeOK, LoopPcs, CallPcs
  <2>11. CASE handleIo
    BY <2>11 DEF handleIo, TypeOK, LoopPcs, CallPcs
  <2>12. CASE takeFunctors
    BY <2>12 DEF takeFunctors, swapFunctors, TypeOK, LoopPcs, CallPcs
  <2>13. CASE runFunctor
    <3>1. /\ Head(tempRuns) \in Tasks
          /\ Tail(tempRuns) \in Seq(Tasks)
          /\ Append(ran, Head(tempRuns)) \in Seq(Tasks)
      BY <2>13 DEF runFunctor, TypeOK
    <3> QED
      BY <2>13, <3>1 DEF runFunctor, TypeOK, LoopPcs, CallPcs
  <2>14. CASE endFunctors
    BY <2>14 DEF endFunctors, TypeOK, LoopPcs, CallPcs
  <2>15. CASE callbackReturns
    BY <2>15 DEF callbackReturns, TypeOK, LoopPcs, CallPcs
  <2>16. CASE ioEvent
    BY <2>16, LoopAssumption DEF ioEvent, TypeOK, LoopPcs, CallPcs
  <2>17. CASE UNCHANGED vars
    BY <2>17 DEF TypeOK, LoopPcs, CallPcs
  <2> QED
    BY <2>1, <2>2, <2>3, <2>4, <2>5, <2>6, <2>7, <2>8, <2>9, <2>10, <2>11,
       <2>12, <2>13, <2>14, <2>15, <2>16, <2>17
       DEF Next, LoopStep, FinishCall
<1> QED
  BY <1>1, <1>2, PTL DEF Spec

(***************************************************************************)
(* No lost wakeup: EventLoop::queueInLoop and quit write the eventfd       *)
(* whenever the loop could otherwise sleep on what they stored.            *)
(***************************************************************************)
LEMMA WakeupStep == TypeOK /\ WakeupInv /\ [Next]_vars => WakeupInv'
<1> SUFFICES ASSUME TypeOK, WakeupInv, [Next]_vars PROVE WakeupInv'
  OBVIOUS
<1> USE DEF WakeupInv, PendingIsSeen, QuitIsSeen, TypeOK, CallPcs, LoopPcs
<1>1. ASSUME NEW th \in Threads, NEW t \in Tasks, queueInLoop(th, t)
      PROVE  WakeupInv'
  <2>1. /\ call' = [call EXCEPT ![th] = "pushed"]
        /\ UNCHANGED <<quit, loopPc, eventfd>>
        /\ pending' # << >> /\ call[th] = "idle"
    BY <1>1 DEF queueInLoop
  <2>2. CASE th \in Callers
    BY <2>1, <2>2
  <2>3. CASE th = LoopThread /\ ~QueueBeforeLoop
    <3>1. loopPc \in {"dispatch", "functors"}
      BY <1>1, <2>3 DEF queueInLoop, InUserCode
    <3> QED
      BY <2>1, <2>3, <3>1
  <2>4. CASE QueueBeforeLoop
    BY <2>4
  <2> QED
    BY <2>2, <2>3, <2>4
<1>2. ASSUME NEW th \in Threads, NEW t \in Tasks, runInLoop(th, t)
      PROVE  WakeupInv'
  BY <1>1, <1>2 DEF runInLoop
<1>3. ASSUME NEW th \in Threads, queueInLoopWakeup(th)
      PROVE  WakeupInv'
  <2>1. call' = [call EXCEPT ![th] = "idle"] /\ UNCHANGED loopVars
    BY <1>3 DEF queueInLoopWakeup
  <2>2. CASE th \in Callers
    <3>1. eventfd' > 0
      BY <1>3, <2>2, LoopAssumption DEF queueInLoopWakeup, MustWake
    <3> QED
      BY <2>1, <3>1
  <2>3. CASE th = LoopThread
    <3>1. eventfd' \in Nat /\ (eventfd > 0 \/ callingPending => eventfd' > 0)
      BY <1>3 DEF queueInLoopWakeup, MustWake
    <3>2. \A c \in Callers : call'[c] = call[c]
      BY <2>1, <2>3, LoopAssumption
    <3> QED
      BY <2>1, <3>1, <3>2
  <2> QED
    BY <2>2, <2>3
<1>4. ASSUME NEW th \in Threads, quitLoop(th)
      PROVE  WakeupInv'
  BY <1>4, LoopAssumption DEF quitLoop, AfterQuit, InUserCode
<1>5. ASSUME NEW th \in Threads, quitWakeup(th)
      PROVE  WakeupInv'
  BY <1>5 DEF quitWakeup
<1>6. CASE enterLoop
  BY <1>6 DEF enterLoop
<1>7. CASE checkQuit
  BY <1>7 DEF checkQuit
<1>8. CASE poll
  BY <1>8 DEF poll
<1>9. CASE pollError
  BY <1>9 DEF pollError
<1>10. CASE handleWakeup
  BY <1>10 DEF handleWakeup
<1>11. CASE handleIo
  BY <1>11 DEF handleIo
<1>12. CASE takeFunctors
  BY <1>12 DEF takeFunctors, swapFunctors
<1>13. CASE runFunctor
  BY <1>13 DEF runFunctor
<1>14. CASE endFunctors
  BY <1>14 DEF endFunctors
<1>15. CASE callbackReturns
  BY <1>15 DEF callbackReturns
<1>16. CASE ioEvent
  BY <1>16 DEF ioEvent
<1>17. CASE UNCHANGED vars
  BY <1>17
<1> QED
  BY <1>1, <1>2, <1>3, <1>4, <1>5, <1>6, <1>7, <1>8, <1>9, <1>10, <1>11,
     <1>12, <1>13, <1>14, <1>15, <1>16, <1>17
     DEF Next, LoopStep, FinishCall

THEOREM WakeupsNotLost == Spec => []NoLostWakeup
<1>1. Init => WakeupInv
  BY DEF Init, WakeupInv, PendingIsSeen, QuitIsSeen
<1>2. WakeupInv => NoLostWakeup
  BY DEF WakeupInv, PendingIsSeen, QuitIsSeen, NoLostWakeup
<1> QED
  BY <1>1, <1>2, TypeCorrect, WakeupStep, PTL DEF Spec

(***************************************************************************)
(* Taking the first element off one queue and putting it at the end of     *)
(* another keeps their concatenation.                                      *)
(***************************************************************************)
LEMMA MoveHead ==
    ASSUME NEW S, NEW s \in Seq(S), NEW t \in Seq(S), t # << >>
    PROVE  s \o t = Append(s, Head(t)) \o Tail(t)
<1>1. s \o t \in Seq(S) /\ Append(s, Head(t)) \o Tail(t) \in Seq(S)
  OBVIOUS
<1>2. Len(s \o t) = Len(Append(s, Head(t)) \o Tail(t))
  OBVIOUS
<1>3. ASSUME NEW i \in 1 .. Len(s \o t)
      PROVE  (s \o t)[i] = (Append(s, Head(t)) \o Tail(t))[i]
  OBVIOUS
<1> QED
  BY <1>1, <1>2, <1>3, SeqEqual

LEMMA AppendConcat ==
    ASSUME NEW S, NEW s \in Seq(S), NEW t \in Seq(S), NEW e \in S
    PROVE  s \o Append(t, e) = Append(s \o t, e)
  OBVIOUS

LEMMA ConcatHeadTail ==
    ASSUME NEW S, NEW s \in Seq(S), NEW t \in Seq(S), s # << >>
    PROVE  /\ s \o t # << >>
           /\ Head(s \o t) = Head(s)
           /\ Tail(s \o t) = Tail(s) \o t
<1>1. s \o t # << >> /\ Head(s \o t) = Head(s)
  OBVIOUS
<1>2. Tail(s \o t) \in Seq(S) /\ Tail(s) \o t \in Seq(S)
  OBVIOUS
<1>3. Len(Tail(s \o t)) = Len(Tail(s) \o t)
  OBVIOUS
<1>4. ASSUME NEW i \in 1 .. Len(Tail(s \o t))
      PROVE  Tail(s \o t)[i] = (Tail(s) \o t)[i]
  OBVIOUS
<1> QED
  BY <1>1, <1>2, <1>3, <1>4, SeqEqual

(***************************************************************************)
(* The loop is a serial first-in first-out executor: each step is one of   *)
(* Executor's or changes nothing the executor shows (queueInLoop,          *)
(* doPendingFunctors).                                                     *)
(***************************************************************************)
THEOREM ImplementsExecutor == Spec => Promise!SafeSpec
<1>1. Init => Promise!Init
  BY DEF Init, Promise!Init
<1>2. TypeOK /\ [Next]_vars => [Promise!Next]_(Promise!exVars)
  <2> SUFFICES ASSUME TypeOK, [Next]_vars
               PROVE  Promise!Next \/ UNCHANGED Promise!exVars
    OBVIOUS
  <2> USE DEF Promise!exVars, Promise!Next
  <2>1. ASSUME NEW th \in Threads, NEW t \in Tasks, queueInLoop(th, t)
        PROVE  Promise!Submit(t)
    <3>1. tempRuns \o Append(pending, t) = Append(tempRuns \o pending, t)
      BY AppendConcat DEF TypeOK
    <3> QED
      BY <2>1, <3>1 DEF queueInLoop, Promise!Submit
  <2>2. ASSUME NEW th \in Threads, NEW t \in Tasks, runInLoop(th, t)
        PROVE  Promise!Submit(t) \/ UNCHANGED Promise!exVars
    BY <2>1, <2>2 DEF runInLoop
  <2>3. ASSUME NEW th \in Threads, queueInLoopWakeup(th)
        PROVE  UNCHANGED Promise!exVars
    BY <2>3 DEF queueInLoopWakeup
  <2>4. ASSUME NEW th \in Threads, quitLoop(th)
        PROVE  UNCHANGED Promise!exVars
    BY <2>4 DEF quitLoop
  <2>5. ASSUME NEW th \in Threads, quitWakeup(th)
        PROVE  UNCHANGED Promise!exVars
    BY <2>5 DEF quitWakeup
  <2>6. CASE enterLoop
    BY <2>6 DEF enterLoop
  <2>7. CASE checkQuit
    BY <2>7 DEF checkQuit, Promise!Stop
  <2>8. CASE poll
    BY <2>8 DEF poll
  <2>9. CASE pollError
    BY <2>9 DEF pollError
  <2>10. CASE handleWakeup
    BY <2>10 DEF handleWakeup
  <2>11. CASE handleIo
    BY <2>11 DEF handleIo
  <2>12. CASE takeFunctors
    <3>1. tempRuns = << >>
      BY <2>12 DEF takeFunctors, TypeOK
    <3>2. << >> \o pending = pending \o << >>
      BY DEF TypeOK
    <3> QED
      BY <2>12, <3>1, <3>2 DEF takeFunctors, swapFunctors
  <2>13. CASE runFunctor
    <3>1. /\ tempRuns \o pending # << >>
          /\ Head(tempRuns \o pending) = Head(tempRuns)
          /\ Tail(tempRuns \o pending) = Tail(tempRuns) \o pending
      BY <2>13, ConcatHeadTail, SMTT(30) DEF runFunctor, TypeOK
    <3> QED
      BY <2>13, <3>1 DEF runFunctor, Promise!Execute
  <2>14. CASE endFunctors
    BY <2>14 DEF endFunctors
  <2>15. CASE callbackReturns
    BY <2>15 DEF callbackReturns
  <2>16. CASE ioEvent
    BY <2>16 DEF ioEvent
  <2>17. CASE UNCHANGED vars
    BY <2>17
  <2> QED
    BY <2>1, <2>2, <2>3, <2>4, <2>5, <2>6, <2>7, <2>8, <2>9, <2>10, <2>11,
       <2>12, <2>13, <2>14, <2>15, <2>16, <2>17
       DEF Next, LoopStep, FinishCall
<1> QED
  BY <1>1, <1>2, TypeCorrect, PTL DEF Spec, Promise!SafeSpec

(***************************************************************************)
(* No functor is lost, repeated or overtaken.                              *)
(***************************************************************************)
THEOREM FunctorsInOrder == Spec => []FifoExecution
<1>1. Init => FifoExecution
  BY DEF Init, FifoExecution
<1>2. TypeOK /\ FifoExecution /\ [Next]_vars => FifoExecution'
  <2> SUFFICES ASSUME TypeOK, FifoExecution, [Next]_vars
               PROVE  FifoExecution'
    OBVIOUS
  <2>1. ASSUME NEW th \in Threads, NEW t \in Tasks, queueInLoop(th, t)
        PROVE  FifoExecution'
    <3>1. ran \o tempRuns \in Seq(Tasks)
      BY DEF TypeOK
    <3>2. (ran \o tempRuns) \o Append(pending, t)
             = Append((ran \o tempRuns) \o pending, t)
      BY <3>1, AppendConcat DEF TypeOK
    <3> QED
      BY <2>1, <3>2 DEF queueInLoop, FifoExecution
  <2>2. ASSUME NEW th \in Threads, NEW t \in Tasks, runInLoop(th, t)
        PROVE  FifoExecution'
    BY <2>1, <2>2 DEF runInLoop, FifoExecution
  <2>3. CASE takeFunctors
    <3>1. tempRuns = << >>
      BY <2>3 DEF takeFunctors, TypeOK
    <3>2. (ran \o << >>) \o pending = (ran \o pending) \o << >>
      BY DEF TypeOK
    <3> QED
      BY <2>3, <3>1, <3>2 DEF takeFunctors, swapFunctors, FifoExecution
  <2>4. CASE runFunctor
    BY <2>4, MoveHead DEF runFunctor, TypeOK, FifoExecution
  <2>5. ASSUME UNCHANGED <<submitted, ran, tempRuns, pending>>
        PROVE  FifoExecution'
    BY <2>5 DEF FifoExecution
  <2> QED
    BY <2>1, <2>2, <2>3, <2>4, <2>5
       DEF Next, LoopStep, FinishCall, queueInLoopWakeup, quitLoop,
           quitWakeup, enterLoop, checkQuit, poll, pollError, handleWakeup,
           handleIo, endFunctors, callbackReturns, ioEvent
<1> QED
  BY <1>1, <1>2, TypeCorrect, PTL DEF Spec

-----------------------------------------------------------------------------
(***************************************************************************)
(* The timers of the loop.  A Timer that is alive is the only one with its *)
(* sequence, and no cancel came for it while it waited (Known); each queued *)
(* add finds its Timer alive and nowhere else (AddsWait).  A cancel may    *)
(* carry any id: what it finds is a Timer that waits, which is then in no  *)
(* batch and in no queued add, so that nothing else refers to it.          *)
(***************************************************************************)
USE TimerAssumption

Cell == [live : BOOLEAN, seq : Nat, left : Nat, interval : Nat]
Ids == [addr : Addresses, seq : Nat]
Entry == [op : {"add"}, addr : Addresses] \cup [op : {"cancel"}, id : Ids]

Types ==
    /\ mem \in [Addresses -> Cell]
    /\ pTimers \subseteq Addresses /\ batch \subseteq Addresses /\ todo \subseteq batch
    /\ fd \in Nat \cup {-1} /\ added \in Nat /\ dropped \subseteq 1 .. added
    /\ functors \in Seq(Entry) /\ round \in Nat /\ round <= Len(functors)
    /\ ids \subseteq Ids
    /\ batch # {} => pc \in {"timeouts", "callback"}

Alive ==
    /\ \A a \in pTimers \cup batch : mem[a].live
    /\ pTimers \cap batch = {}

Known ==
    \A a \in Addresses : mem[a].live =>
        /\ mem[a].seq \in 1 .. added /\ mem[a].seq \notin dropped
        /\ \A b \in Addresses : mem[b].live /\ mem[b].seq = mem[a].seq => a = b

AddsWait ==
    \A i \in 1 .. Len(functors) : functors[i].op = "add" =>
        /\ mem[functors[i].addr].live /\ functors[i].addr \notin pTimers \cup batch
        /\ \A j \in 1 .. Len(functors) :
              functors[j].op = "add" /\ functors[j].addr = functors[i].addr => i = j

\* The timerfd is set for no later than each timer that waits, but while the
\* batch is out.
Armed ==
    pTimers # {} /\ pc \notin {"timeouts", "callback"} =>
        fd # -1 /\ \A a \in pTimers : fd <= ArmedFor(mem[a].left)

TimerInv == Types /\ Alive /\ Known /\ AddsWait /\ Armed

LEMMA Enqueued ==
    ASSUME NEW S, NEW s \in Seq(S), NEW e \in S
    PROVE  /\ Append(s, e) \in Seq(S) /\ Len(Append(s, e)) = Len(s) + 1 /\ Len(s) \in Nat
           /\ Append(s, e)[Len(s) + 1] = e /\ \A i \in 1 .. Len(s) : Append(s, e)[i] = s[i]
           /\ \A i \in 1 .. Len(Append(s, e)) : i \in 1 .. Len(s) \/ i = Len(s) + 1
<1>1. Len(s) \in Nat
  OBVIOUS
<1>2. /\ Append(s, e) \in Seq(S) /\ Len(Append(s, e)) = Len(s) + 1
      /\ Append(s, e)[Len(s) + 1] = e /\ \A i \in 1 .. Len(s) : Append(s, e)[i] = s[i]
  BY AppendProperties
<1>3. \A i \in 1 .. Len(s) + 1 : i \in 1 .. Len(s) \/ i = Len(s) + 1
  BY <1>1
<1> QED
  BY <1>1, <1>2, <1>3

LEMMA Dequeued ==
    ASSUME NEW S, NEW s \in Seq(S), Len(s) > 0
    PROVE  /\ Tail(s) \in Seq(S) /\ Len(Tail(s)) = Len(s) - 1 /\ Len(s) \in Nat
           /\ Head(s) = s[1] /\ s[1] \in S /\ 1 \in 1 .. Len(s)
           /\ \A i \in 1 .. Len(Tail(s)) : i + 1 \in 1 .. Len(s) /\ Tail(s)[i] = s[i + 1]
           /\ \A j \in 1 .. Len(s) : j = 1 \/ (j - 1 \in 1 .. Len(Tail(s)) /\ (j - 1) + 1 = j)
<1>1. Len(s) \in Nat /\ s # << >>
  OBVIOUS
<1>2. /\ Tail(s) \in Seq(S) /\ Len(Tail(s)) = Len(s) - 1 /\ Head(s) = s[1]
      /\ \A i \in 1 .. Len(s) - 1 : Tail(s)[i] = s[i + 1]
  OBVIOUS
<1>3. 1 \in 1 .. Len(s)
  BY <1>1
<1>4. s[1] \in S
  BY <1>3
<1>5. \A i \in 1 .. Len(s) - 1 : i + 1 \in 1 .. Len(s)
  BY ONLY <1>1
<1>6. \A j \in 1 .. Len(s) : j = 1 \/ (j - 1 \in 1 .. Len(s) - 1 /\ (j - 1) + 1 = j)
  BY ONLY <1>1
<1> QED
  BY ONLY <1>1, <1>2, <1>3, <1>4, <1>5, <1>6, Len(s) > 0

\* Steps that leave the timers, the queue and the batch alone.
LEMMA Untouched ==
    ASSUME TimerInv, UNCHANGED <<mem, pTimers, batch, functors, added, dropped>>
    PROVE  Alive' /\ Known' /\ AddsWait'
<1>1. Alive'
  BY DEF TimerInv, Alive
<1>2. Known'
  BY DEF TimerInv, Known
<1>3. AddsWait'
  BY DEF TimerInv, AddsWait
<1> QED
  BY <1>1, <1>2, <1>3

\* cancelInLoop with any id, called at once (k = 0) or as the functor at the
\* front (k = 1).
LEMMA Cancelled ==
    ASSUME TimerInv, NEW id, cancelInLoop(id), UNCHANGED <<batch, added>>, NEW k \in {0, 1},
           functors' \in Seq(Entry), Len(functors') = Len(functors) - k,
           \A i \in 1 .. Len(functors') :
              i + k \in 1 .. Len(functors) /\ functors'[i] = functors[i + k]
    PROVE  /\ mem' \in [Addresses -> Cell] /\ pTimers' \subseteq pTimers
           /\ dropped' \subseteq 1 .. added
           /\ \A b \in Addresses : mem'[b].left = mem[b].left
           /\ Alive' /\ Known' /\ AddsWait'
<1>1. PICK F : F = Found(id)
  OBVIOUS
<1>2. /\ mem \in [Addresses -> Cell] /\ pTimers \subseteq Addresses /\ batch \subseteq Addresses
      /\ dropped \subseteq 1 .. added
  BY DEF TimerInv, Types
<1>3. F \subseteq pTimers /\ F \subseteq Addresses
  BY <1>1, <1>2 DEF Found
<1>4. /\ pTimers' = pTimers \ F /\ dropped' = dropped \cup {mem[a].seq : a \in F}
      /\ mem' = [a \in Addresses |-> IF a \in F THEN [mem[a] EXCEPT !.live = FALSE] ELSE mem[a]]
  BY <1>1 DEF cancelInLoop
<1>5. /\ mem' \in [Addresses -> Cell]
      /\ \A b \in Addresses :
            /\ mem'[b].seq = mem[b].seq /\ mem'[b].left = mem[b].left
            /\ mem'[b].live => mem[b].live /\ b \notin F
            /\ b \notin F => mem'[b] = mem[b]
  BY <1>2, <1>4 DEF Cell
<1>6. (\A a \in pTimers \cup batch : mem[a].live) /\ pTimers \cap batch = {}
  BY DEF TimerInv, Alive
<1>7. \A a \in Addresses : mem[a].live =>
         /\ mem[a].seq \in 1 .. added /\ mem[a].seq \notin dropped
         /\ \A b \in Addresses : mem[b].live /\ mem[b].seq = mem[a].seq => a = b
  BY DEF TimerInv, Known
<1>8. Alive'
  BY <1>2, <1>3, <1>4, <1>5, <1>6 DEF Alive
<1>9. dropped' \subseteq 1 .. added
  BY <1>2, <1>3, <1>4, <1>6, <1>7
<1>10. Known'
  <2> SUFFICES ASSUME NEW a \in Addresses, mem'[a].live
               PROVE  /\ mem'[a].seq \in 1 .. added /\ mem'[a].seq \notin dropped'
                      /\ \A b \in Addresses : mem'[b].live /\ mem'[b].seq = mem'[a].seq => a = b
    BY DEF Known
  <2>1. mem[a].live /\ a \notin F /\ mem'[a].seq = mem[a].seq
    BY <1>5
  <2>2. \A b \in F : mem[b].seq # mem[a].seq
    BY <1>3, <1>6, <1>7, <2>1
  <2>3. mem'[a].seq \notin dropped'
    BY <1>4, <1>7, <2>1, <2>2
  <2> QED
    BY <1>5, <1>7, <2>1, <2>3
<1>11. AddsWait'
  <2> SUFFICES ASSUME NEW i \in 1 .. Len(functors'), functors'[i].op = "add"
               PROVE  /\ mem'[functors'[i].addr].live /\ functors'[i].addr \notin pTimers' \cup batch'
                      /\ \A j \in 1 .. Len(functors') :
                            functors'[j].op = "add" /\ functors'[j].addr = functors'[i].addr => i = j
    BY DEF AddsWait
  <2>1. i + k \in 1 .. Len(functors) /\ functors'[i] = functors[i + k]
    OBVIOUS
  <2>2. /\ mem[functors'[i].addr].live /\ functors'[i].addr \notin pTimers \cup batch
        /\ \A j \in 1 .. Len(functors) :
              functors[j].op = "add" /\ functors[j].addr = functors'[i].addr => i + k = j
    BY <2>1 DEF TimerInv, AddsWait
  <2>3. functors'[i].addr \in Addresses
    <3>1. functors'[i] \in Entry
      OBVIOUS
    <3> QED
      BY <3>1 DEF Entry
  <2>4. ASSUME NEW j \in 1 .. Len(functors'), functors'[j].op = "add",
               functors'[j].addr = functors'[i].addr
        PROVE  i = j
    <3>1. j + k \in 1 .. Len(functors) /\ functors'[j] = functors[j + k]
      OBVIOUS
    <3>2. i + k = j + k
      BY <2>2, <2>4, <3>1
    <3> QED
      BY <3>2
  <2> QED
    BY <1>3, <1>4, <1>5, <2>2, <2>3, <2>4
<1> QED
  BY <1>4, <1>5, <1>8, <1>9, <1>10, <1>11

\* The timerfd after an insert: addTimerInLoop sets it for the earliest.
LEMMA InsertArms ==
    ASSUME TimerInv, NEW m, m = mem', mem' \in [Addresses -> Cell], NEW a \in Addresses,
           \A b \in pTimers : mem'[b].left = mem[b].left,
           addTimerInLoop(m, a), pc' = pc
    PROVE  Armed' /\ fd' \in Nat \cup {-1}
<1> DEFINE left(b) == m[b].left
<1>1. /\ \A b \in Addresses : left(b) \in Nat
      /\ pTimers \subseteq Addresses /\ fd \in Nat \cup {-1}
  BY DEF TimerInv, Types, Cell
<1>2. \A b \in pTimers : left(b) = mem[b].left
  OBVIOUS
<1>3. pTimers' = pTimers \cup {a}
  BY DEF addTimerInLoop
<1>4. \A n \in Nat : ArmedFor(n) = IF n < 1 THEN 1 ELSE n
  BY DEF ArmedFor, MaxOf
<1>5. pc \notin {"timeouts", "callback"} /\ pTimers # {} =>
         fd # -1 /\ \A b \in pTimers : fd <= ArmedFor(left(b))
  BY <1>2 DEF TimerInv, Armed
<1>6. \/ (\A b \in pTimers : left(a) < left(b) \/ left(a) = 0) /\ fd' = ArmedFor(left(a))
      \/ (\E b \in pTimers : left(b) <= left(a)) /\ fd' = fd
  BY DEF addTimerInLoop, BecomesEarliest
<1> HIDE DEF left
<1>7. /\ fd' \in Nat \cup {-1}
      /\ pc \notin {"timeouts", "callback"} =>
            fd' # -1 /\ \A b \in pTimers \cup {a} : fd' <= ArmedFor(left(b))
  <2>1. CASE (\A b \in pTimers : left(a) < left(b) \/ left(a) = 0) /\ fd' = ArmedFor(left(a))
    BY <1>1, <1>4, <2>1
  <2>2. CASE (\E b \in pTimers : left(b) <= left(a)) /\ fd' = fd
    <3>1. PICK b \in pTimers : left(b) <= left(a)
      BY <2>2
    <3>2. pc \notin {"timeouts", "callback"} => fd <= ArmedFor(left(b))
      BY <1>5
    <3>3. pc \notin {"timeouts", "callback"} => fd <= ArmedFor(left(a))
      BY <1>1, <1>4, <3>1, <3>2
    <3> QED
      BY <1>1, <1>5, <2>2, <3>1, <3>3
  <2> QED
    BY <1>6, <2>1, <2>2
<1>8. Armed'
  BY <1>3, <1>7 DEF Armed, left
<1> QED
  BY <1>7, <1>8

\* A Timer allocated where none lives, queued (by another thread) or inserted.
LEMMA Allocated ==
    ASSUME TimerInv, NEW d \in Nat, NEW i \in Nat,
           NEW a \in Addresses, ~mem[a].live, added' = added + 1,
           mem' = [mem EXCEPT ![a] = [live |-> TRUE, seq |-> added + 1,
                                      left |-> d, interval |-> i]],
           ids' = ids \cup {[addr |-> a, seq |-> added + 1]}, UNCHANGED <<batch, dropped>>,
           \/ /\ pTimers' = pTimers \cup {a} /\ UNCHANGED functors
           \/ /\ pTimers' = pTimers
              /\ functors' = Append(functors, [op |-> "add", addr |-> a])
    PROVE  /\ mem' \in [Addresses -> Cell] /\ \A b \in Addresses : b # a => mem'[b] = mem[b]
           /\ ids' \subseteq Ids /\ dropped' \subseteq 1 .. added' /\ added' \in Nat
           /\ functors' \in Seq(Entry) /\ Len(functors') >= Len(functors)
           /\ a \notin pTimers \cup batch
           /\ Alive' /\ Known' /\ AddsWait'
<1>1. /\ mem \in [Addresses -> Cell] /\ added \in Nat /\ functors \in Seq(Entry)
      /\ pTimers \subseteq Addresses /\ batch \subseteq Addresses
      /\ ids \subseteq Ids /\ dropped \subseteq 1 .. added /\ Len(functors) \in Nat
  BY DEF TimerInv, Types
<1>2. PICK c \in Cell : c = [live |-> TRUE, seq |-> added + 1, left |-> d, interval |-> i]
  <2>1. added + 1 \in Nat
    BY <1>1
  <2> QED
    BY <2>1 DEF Cell
<1>3. c.live /\ c.seq = added + 1 /\ c.interval = i
  BY <1>2
<1>4. ids' \subseteq Ids /\ dropped' \subseteq 1 .. added' /\ added' \in Nat
  <2>1. added + 1 \in Nat /\ \A j \in 1 .. added : j \in 1 .. added + 1
    BY <1>1
  <2> QED
    BY <1>1, <2>1 DEF Ids
<1>6. mem' = [mem EXCEPT ![a] = c]
  BY <1>2
<1>7. /\ mem' \in [Addresses -> Cell] /\ mem'[a] = c
      /\ \A b \in Addresses : b # a => mem'[b] = mem[b]
  BY <1>1, <1>6
<1>9. a \notin pTimers \cup batch
  BY DEF TimerInv, Alive
<1>10. Alive'
  BY <1>1, <1>3, <1>7, <1>9 DEF TimerInv, Alive
<1>11. Known'
  <2> SUFFICES ASSUME NEW b \in Addresses, mem'[b].live
               PROVE  /\ mem'[b].seq \in 1 .. added' /\ mem'[b].seq \notin dropped'
                      /\ \A x \in Addresses : mem'[x].live /\ mem'[x].seq = mem'[b].seq => b = x
    BY DEF Known
  <2>1. added + 1 \in 1 .. added + 1 /\ \A j \in 1 .. added : j \in 1 .. added + 1 /\ j # added + 1
    BY <1>1
  <2>2. \A x \in Addresses \ {a} : mem'[x].live =>
           /\ mem'[x].seq \in 1 .. added /\ mem'[x].seq \notin dropped
           /\ \A y \in Addresses \ {a} : mem'[y].live /\ mem'[y].seq = mem'[x].seq => x = y
    BY <1>7 DEF TimerInv, Known
  <2>3. mem'[a].seq = added + 1 /\ added + 1 \notin dropped
    BY <1>1, <1>3, <1>7, <2>1
  <2> QED
    BY <2>1, <2>2, <2>3
\* The queue, longer by an add of a or the same.
<1>12. PICK e \in Entry : e = [op |-> "add", addr |-> a]
  BY DEF Entry
<1>13. e.op = "add" /\ e.addr = a
  BY <1>12
<1>14. /\ functors' \in Seq(Entry) /\ Len(functors') \in Nat /\ Len(functors') >= Len(functors)
       /\ \A j \in 1 .. Len(functors) : j \in 1 .. Len(functors') /\ functors'[j] = functors[j]
       /\ \A j \in 1 .. Len(functors') :
             j \in 1 .. Len(functors) \/ (functors'[j] = e /\ j = Len(functors) + 1 /\ pTimers' = pTimers)
  <2>1. CASE UNCHANGED functors
    BY <1>1, <2>1
  <2>2. CASE functors' = Append(functors, e) /\ pTimers' = pTimers
    <3>1. PICK q \in Seq(Entry) : q = functors
      BY <1>1
    <3>2. /\ Append(q, e) \in Seq(Entry) /\ Len(Append(q, e)) = Len(q) + 1 /\ Len(q) \in Nat
          /\ Append(q, e)[Len(q) + 1] = e /\ \A j \in 1 .. Len(q) : Append(q, e)[j] = q[j]
          /\ \A j \in 1 .. Len(Append(q, e)) : j \in 1 .. Len(q) \/ j = Len(q) + 1
      BY Enqueued
    <3>3. functors' = Append(q, e)
      BY <2>2, <3>1
    <3>4. \A j \in 1 .. Len(q) : j \in 1 .. Len(q) + 1
      BY <3>2
    <3> QED
      BY <2>2, <3>1, <3>2, <3>3, <3>4
  <2> QED
    BY <1>12, <2>1, <2>2
<1>15. \A j \in 1 .. Len(functors) : functors[j].op = "add" =>
          functors[j].addr \in Addresses /\ functors[j].addr # a
  <2> SUFFICES ASSUME NEW j \in 1 .. Len(functors), functors[j].op = "add"
               PROVE  functors[j].addr \in Addresses /\ functors[j].addr # a
    OBVIOUS
  <2>1. functors[j] \in Entry
    BY <1>1
  <2>2. functors[j].addr \in Addresses
    BY <2>1 DEF Entry
  <2> QED
    BY <2>2 DEF TimerInv, AddsWait
<1>17. AddsWait'
  <2> SUFFICES ASSUME NEW j \in 1 .. Len(functors'), functors'[j].op = "add"
               PROVE  /\ mem'[functors'[j].addr].live /\ functors'[j].addr \notin pTimers' \cup batch'
                      /\ \A l \in 1 .. Len(functors') :
                            functors'[l].op = "add" /\ functors'[l].addr = functors'[j].addr => j = l
    BY DEF AddsWait
  <2>1. CASE j \in 1 .. Len(functors)
    <3>1. functors'[j] = functors[j] /\ functors[j].addr # a /\ functors[j].addr \in Addresses
      BY <1>14, <1>15, <2>1
    <3>2. /\ mem[functors[j].addr].live /\ functors[j].addr \notin pTimers \cup batch
          /\ \A l \in 1 .. Len(functors) :
                functors[l].op = "add" /\ functors[l].addr = functors[j].addr => j = l
      BY <2>1, <3>1 DEF TimerInv, AddsWait
    <3>3. ASSUME NEW l \in 1 .. Len(functors'), functors'[l].op = "add",
                 functors'[l].addr = functors'[j].addr
          PROVE  j = l
      <4>1. l \in 1 .. Len(functors) /\ functors'[l] = functors[l]
        BY <1>13, <1>14, <3>1, <3>3
      <4> QED
        BY <3>1, <3>2, <3>3, <4>1
    <3> QED
      BY <1>7, <3>1, <3>2, <3>3
  <2>2. CASE functors'[j] = e /\ j = Len(functors) + 1 /\ pTimers' = pTimers
    <3>1. \A l \in 1 .. Len(functors') :
             functors'[l].op = "add" /\ functors'[l].addr = a => j = l
      BY <1>14, <1>15, <2>2
    <3> QED
      BY <1>3, <1>7, <1>9, <1>13, <2>2, <3>1
  <2> QED
    BY <1>14, <2>1, <2>2
<1> QED
  BY <1>4, <1>7, <1>9, <1>10, <1>11, <1>14, <1>17

LEMMA Smallest ==
    ASSUME NEW T, T \subseteq Nat, T # {}
    PROVE  \E n \in T : \A k \in T : n <= k
<1> DEFINE R == OpToRel(<, Nat)
<1>1. PICK n \in T : \A k \in T : ~(<<k, n>> \in R)
  <2>1. IsWellFoundedOn(R, Nat)
    BY NatLessThanWellFounded
  <2> HIDE DEF R
  <2> QED
    BY <2>1, WFMin
<1>2. ASSUME NEW k \in T, k < n PROVE FALSE
  <2>1. <<k, n>> \in R
    BY <1>2, Zenon DEF OpToRel
  <2> QED
    BY <1>1, <2>1
<1> HIDE DEF R
<1>3. ASSUME NEW k \in T PROVE n <= k
  BY ONLY <1>2, k \in T, n \in T, T \subseteq Nat
<1> QED
  BY ONLY <1>3, n \in T

\* Earliest is the time left of a timer of the set, and of none is it less.
LEMMA EarliestIs ==
    ASSUME NEW m, NEW s, s # {}, \A a \in s : m[a].left \in Nat
    PROVE  /\ Earliest(m, s) \in Nat
           /\ \A a \in s : Earliest(m, s) <= m[a].left
           /\ \E a \in s : Earliest(m, s) = m[a].left
<1>1. PICK T : T = {m[a].left : a \in s}
  OBVIOUS
<1>2. T \subseteq Nat /\ T # {} /\ \A a \in s : m[a].left \in T
  BY <1>1
<1>3. PICK n \in T : \A k \in T : n <= k
  BY <1>2, Smallest
<1>4. \E x \in T : \A a \in s : x <= m[a].left
  BY <1>2, <1>3
<1>5. Earliest(m, s) = CHOOSE x \in T : \A a \in s : x <= m[a].left
  BY <1>1 DEF Earliest
<1>6. Earliest(m, s) \in T /\ \A a \in s : Earliest(m, s) <= m[a].left
  BY <1>4, <1>5
<1>7. \E a \in s : Earliest(m, s) = m[a].left
  BY <1>1, <1>6
<1> QED
  BY <1>2, <1>6, <1>7

LEMMA TimerInvStep ==
    ASSUME TimerInv, [TimerNext]_timerVars
    PROVE  TimerInv'
<1>1. /\ mem \in [Addresses -> Cell] /\ added \in Nat /\ functors \in Seq(Entry)
      /\ pTimers \subseteq Addresses /\ batch \subseteq Addresses /\ todo \subseteq batch
      /\ ids \subseteq Ids /\ dropped \subseteq 1 .. added /\ Len(functors) \in Nat
      /\ fd \in Nat \cup {-1} /\ round \in Nat /\ round <= Len(functors)
      /\ batch # {} => pc \in {"timeouts", "callback"}
  BY DEF TimerInv, Types
<1>2. /\ Delays \subseteq Nat /\ Intervals \subseteq Nat /\ OwnThread \notin Others
  BY TimerAssumption
<1>3. ASSUME NEW th \in TimerUsers, NEW d \in Delays, NEW i \in Intervals,
             addTimer(th, d, i)
      PROVE  TimerInv'
  <2>1. PICK a \in Addresses :
           /\ ~mem[a].live
           /\ mem' = [mem EXCEPT ![a] = [live |-> TRUE, seq |-> added + 1,
                                         left |-> d, interval |-> i]]
           /\ ids' = ids \cup {[addr |-> a, seq |-> added + 1]}
           /\ IF th = OwnThread
              THEN addTimerInLoop(mem', a) /\ UNCHANGED functors
              ELSE /\ functors' = Append(functors, [op |-> "add", addr |-> a])
                   /\ UNCHANGED <<pTimers, fd>>
    BY <1>3 DEF addTimer
  <2>2. /\ added' = added + 1
        /\ UNCHANGED <<pc, polled, batch, todo, round, timerRunning, cancels, dropped, done>>
    BY <1>3 DEF addTimer, timerLoop
  <2>3. \/ /\ pTimers' = pTimers \cup {a} /\ UNCHANGED functors
        \/ /\ pTimers' = pTimers
           /\ functors' = Append(functors, [op |-> "add", addr |-> a])
    BY <1>2, <2>1 DEF addTimerInLoop
  <2>4. d \in Nat /\ i \in Nat
    BY <1>2
  <2>5. /\ mem' \in [Addresses -> Cell] /\ \A b \in Addresses : b # a => mem'[b] = mem[b]
        /\ ids' \subseteq Ids /\ dropped' \subseteq 1 .. added' /\ added' \in Nat
        /\ functors' \in Seq(Entry) /\ Len(functors') >= Len(functors)
        /\ a \notin pTimers \cup batch
        /\ Alive' /\ Known' /\ AddsWait'
    BY <2>1, <2>2, <2>3, <2>4, Allocated
  <2>6. \A b \in pTimers : mem'[b].left = mem[b].left /\ mem'[b] = mem[b]
    BY <1>1, <2>5
  <2>7. Armed' /\ fd' \in Nat \cup {-1}
    <3>1. CASE th = OwnThread
      <4>1. PICK m : m = mem'
        OBVIOUS
      <4>2. addTimerInLoop(m, a)
        BY <2>1, <3>1, <4>1
      <4> QED
        BY <2>2, <2>5, <2>6, <4>1, <4>2, InsertArms
    <3>2. CASE th # OwnThread
      <4>1. UNCHANGED <<pTimers, fd, pc>>
        BY <2>1, <2>2, <3>2
      <4> QED
        BY <1>1, <2>6, <4>1 DEF TimerInv, Armed
    <3> QED
      BY <3>1, <3>2
  <2>8. Types'
    <3>1. pTimers' \subseteq Addresses
      BY <1>1, <2>3
    <3>2. round' <= Len(functors')
      <4>1. Len(functors') \in Nat
        BY <2>5
      <4> QED
        BY <1>1, <2>2, <2>5, <4>1
    <3> QED
      BY <1>1, <2>2, <2>5, <2>7, <3>1, <3>2 DEF Types
  <2> QED
    BY <2>5, <2>7, <2>8 DEF TimerInv
<1>4. ASSUME NEW m \in Seq(Entry), NEW id, cancelInLoop(id),
             NEW k \in {0, 1}, functors' = m, Len(m) = Len(functors) - k,
             UNCHANGED <<fd, added, pc, polled, batch, todo, ids>>, round' = round - k, k <= round,
             \A i \in 1 .. Len(m) : i + k \in 1 .. Len(functors) /\ m[i] = functors[i + k]
      PROVE  TimerInv'
  <2>1. /\ mem' \in [Addresses -> Cell] /\ pTimers' \subseteq pTimers
        /\ dropped' \subseteq 1 .. added
        /\ \A b \in Addresses : mem'[b].left = mem[b].left
        /\ Alive' /\ Known' /\ AddsWait'
    BY <1>4, Cancelled
  <2>2. Types'
    <3>1. round' \in Nat /\ round' <= Len(functors')
      BY <1>1, <1>4
    <3> QED
      BY <1>1, <1>4, <2>1, <3>1 DEF Types
  <2>3. Armed'
    BY <1>1, <1>4, <2>1 DEF TimerInv, Armed
  <2> QED
    BY <2>1, <2>2, <2>3 DEF TimerInv
<1>5. ASSUME NEW th \in TimerUsers, NEW id \in ids, cancelTimer(th, id)
      PROVE  TimerInv'
  <2>1. /\ UNCHANGED <<fd, added, pc, polled, batch, todo, round, timerRunning, ids, done>>
        /\ IF th = OwnThread
           THEN cancelInLoop(id) /\ UNCHANGED functors
           ELSE /\ functors' = Append(functors, [op |-> "cancel", id |-> id])
                /\ UNCHANGED <<mem, pTimers, dropped>>
    BY <1>5 DEF cancelTimer, timerLoop
  <2>2. CASE th = OwnThread
    <3>1. cancelInLoop(id) /\ functors' = functors
      BY <2>1, <2>2
    <3>2. \A i \in 1 .. Len(functors) : i + 0 = i
      OBVIOUS
    <3>3. PICK k \in {0, 1} : k = 0
      OBVIOUS
    <3>4. PICK m \in Seq(Entry) : m = functors
      BY <1>1
    <3>5. /\ functors' = m /\ Len(m) = Len(functors) - k /\ round' = round - k /\ k <= round
          /\ \A i \in 1 .. Len(m) : i + k \in 1 .. Len(functors) /\ m[i] = functors[i + k]
      BY <1>1, <2>1, <3>1, <3>2, <3>3, <3>4
    <3>6. UNCHANGED <<fd, added, pc, polled, batch, todo, ids>>
      BY <2>1
    <3> QED
      BY <1>4, <3>1, <3>5, <3>6
  <2>3. CASE th # OwnThread
    <3>1. PICK e \in Entry : e = [op |-> "cancel", id |-> id]
      BY <1>1 DEF Entry
    <3>2. e.op = "cancel" /\ e.id = id
      BY <3>1
    <3>5. /\ functors' \in Seq(Entry) /\ Len(functors') = Len(functors) + 1
          /\ functors'[Len(functors) + 1] = e
          /\ \A j \in 1 .. Len(functors) : functors'[j] = functors[j]
          /\ \A j \in 1 .. Len(functors') : j \in 1 .. Len(functors) \/ j = Len(functors) + 1
      <4>1. functors' = Append(functors, e)
        BY <2>1, <2>3, <3>1
      <4>2. /\ Append(functors, e) \in Seq(Entry)
            /\ Len(Append(functors, e)) = Len(functors) + 1
            /\ Append(functors, e)[Len(functors) + 1] = e
            /\ \A j \in 1 .. Len(functors) : Append(functors, e)[j] = functors[j]
            /\ \A j \in 1 .. Len(Append(functors, e)) :
                  j \in 1 .. Len(functors) \/ j = Len(functors) + 1
        <5>1. functors \in Seq(Entry) /\ e \in Entry
          BY <1>1
        <5> QED
          BY ONLY <5>1, Enqueued
      <4> QED
        BY <4>1, <4>2, Zenon
    <3>6. UNCHANGED <<mem, pTimers, dropped, batch, ids, added, fd, pc, round, todo>>
      BY <2>1, <2>3
    <3>7. Types' /\ Alive' /\ Known' /\ Armed'
      <4>1. round' <= Len(functors')
        BY <1>1, <3>5, <3>6
      <4> QED
        BY <1>1, <3>5, <3>6, <4>1 DEF TimerInv, Types, Alive, Known, Armed
    <3>8. AddsWait'
      BY <3>2, <3>5, <3>6 DEF TimerInv, AddsWait
    <3> QED
      BY <3>7, <3>8 DEF TimerInv
  <2> QED
    BY <2>2, <2>3
<1>6. CASE runQueued
  <2>1. /\ pc = "functors" /\ round > 0 /\ functors' = Tail(functors) /\ round' = round - 1
        /\ UNCHANGED <<added, pc, polled, batch, todo, timerRunning, ids, cancels, done>>
    BY <1>6 DEF runQueued
  <2>2. batch = {} /\ Len(functors) > 0
    BY <1>1, <2>1
  <2>3. /\ functors' \in Seq(Entry) /\ Len(functors') = Len(functors) - 1
        /\ Head(functors) = functors[1] /\ functors[1] \in Entry /\ 1 \in 1 .. Len(functors)
        /\ \A i \in 1 .. Len(functors') : i + 1 \in 1 .. Len(functors) /\ functors'[i] = functors[i + 1]
        /\ \A j \in 1 .. Len(functors) : j = 1 \/ (j - 1 \in 1 .. Len(functors') /\ (j - 1) + 1 = j)
    BY <1>1, <2>1, <2>2, Dequeued
  <2>4. CASE functors[1].op = "cancel"
    <3>1. PICK id : id = functors[1].id
      OBVIOUS
    <3>2. cancelInLoop(id) /\ fd' = fd
      BY <1>6, <2>3, <2>4, <3>1 DEF runQueued
    <3>6. PICK k \in {0, 1} : k = 1
      OBVIOUS
    <3>7. PICK m \in Seq(Entry) : m = functors'
      BY <2>3
    <3>8. /\ Len(m) = Len(functors) - k /\ round' = round - k /\ k <= round
          /\ \A i \in 1 .. Len(m) : i + k \in 1 .. Len(functors) /\ m[i] = functors[i + k]
      BY <1>1, <2>1, <2>3, <3>6, <3>7
    <3>10. UNCHANGED <<fd, added, pc, polled, batch, todo, ids>>
      BY <2>1, <3>2
    <3> QED
      BY <1>4, <3>2, <3>7, <3>8, <3>10
  <2>5. CASE functors[1].op = "add"
    <3>1. PICK a : a = functors[1].addr
      OBVIOUS
    <3>2. addTimerInLoop(mem, a) /\ UNCHANGED <<mem, dropped>>
      BY <1>6, <2>3, <2>5, <3>1 DEF runQueued
    <3>3. a \in Addresses
      BY <2>3, <2>5, <3>1 DEF Entry
    <3>4. /\ mem[a].live /\ a \notin pTimers \cup batch
          /\ \A j \in 1 .. Len(functors) : functors[j].op = "add" /\ functors[j].addr = a => 1 = j
      BY <2>3, <2>5, <3>1 DEF TimerInv, AddsWait
    <3>5. pTimers' = pTimers \cup {a} /\ batch' = {} /\ batch = {}
      BY <2>1, <2>2, <3>2 DEF addTimerInLoop
    <3>6. Armed' /\ fd' \in Nat \cup {-1}
      <4>1. PICK m : m = mem'
        OBVIOUS
      <4>2. addTimerInLoop(m, a)
        BY <3>2, <4>1
      <4>3. mem' \in [Addresses -> Cell] /\ \A b \in pTimers : mem'[b].left = mem[b].left
        BY <1>1, <3>2
      <4> QED
        BY <2>1, <3>3, <4>1, <4>2, <4>3, InsertArms
    <3>7. Alive' /\ Known'
      BY <2>1, <3>2, <3>4, <3>5 DEF TimerInv, Alive, Known
    <3>8. AddsWait'
      <4> SUFFICES ASSUME NEW i \in 1 .. Len(functors'), functors'[i].op = "add",
                          NEW b, b = functors'[i].addr
                   PROVE  /\ mem[b].live /\ b \notin pTimers' \cup batch'
                          /\ \A j \in 1 .. Len(functors') :
                                functors'[j].op = "add" /\ functors'[j].addr = b => i = j
        BY <3>2 DEF AddsWait
      <4>1. i + 1 \in 1 .. Len(functors) /\ functors'[i] = functors[i + 1] /\ 1 # i + 1
        BY <2>3
      <4>2. /\ mem[b].live /\ b \notin pTimers \cup batch
            /\ \A j \in 1 .. Len(functors) :
                  functors[j].op = "add" /\ functors[j].addr = b => i + 1 = j
        BY <4>1 DEF TimerInv, AddsWait
      <4>3. b # a
        BY <2>3, <2>5, <3>1, <4>1, <4>2
      <4>4. ASSUME NEW j \in 1 .. Len(functors'), functors'[j].op = "add", functors'[j].addr = b
            PROVE  i = j
        <5>1. j + 1 \in 1 .. Len(functors) /\ functors'[j] = functors[j + 1]
          BY <2>3
        <5>2. i + 1 = j + 1
          BY <4>2, <4>4, <5>1
        <5> QED
          BY <5>2
      <4> QED
        BY <3>5, <4>2, <4>3, <4>4
    <3>12. Types'
      <4>1. round' \in Nat /\ round' <= Len(functors')
        BY <1>1, <2>1, <2>3
      <4> QED
        BY <1>1, <2>1, <2>2, <2>3, <3>2, <3>3, <3>5, <3>6, <4>1 DEF Types
    <3> QED
      BY <3>6, <3>7, <3>8, <3>12 DEF TimerInv
  <2> QED
    BY <2>3, <2>4, <2>5 DEF Entry
<1>7. CASE handleRead
  <2>1. /\ pc = "dispatch" /\ fd' = (IF fd = 0 THEN -1 ELSE fd) /\ pc' = "timeouts"
        /\ batch' = Due /\ todo' = batch' /\ pTimers' = pTimers \ Due
        /\ UNCHANGED <<mem, functors, added, round, timerRunning, ids, cancels, dropped, done>>
    BY <1>7 DEF handleRead, timerHistory, Off
  <2>2. batch = {} /\ Due \subseteq pTimers
    BY <1>1, <2>1 DEF Due
  <2>3. pTimers' \cup batch' = pTimers \cup batch /\ pTimers' \cap batch' = {}
    BY <2>1, <2>2
  <2>4. Types'
    BY <1>1, <2>1, <2>2 DEF Types
  <2>5. Alive' /\ Known'
    BY <2>1, <2>3 DEF TimerInv, Alive, Known
  <2>7. AddsWait'
    BY <2>1, <2>3 DEF TimerInv, AddsWait
  <2>10. Armed'
    BY <2>1 DEF Armed
  <2> QED
    BY <2>4, <2>5, <2>7, <2>10 DEF TimerInv
<1>8. CASE reset
  <2>1. /\ pc = "timeouts" /\ todo = {} /\ batch' = {} /\ pc' = "dispatch"
        /\ pTimers' = pTimers \cup Repeating
        /\ fd' = (IF pTimers' = {} THEN fd
                  ELSE ArmedFor(Earliest(mem', pTimers')))
        /\ UNCHANGED <<functors, added, todo, round, ids, dropped>>
    BY <1>8 DEF reset, timerHistory
  <2>2. /\ Repeating \subseteq batch
        /\ \A a \in batch : mem[a].interval > 0 => a \in Repeating
    BY DEF Repeating
  <2>3. mem' = [a \in Addresses |->
                   IF a \in Repeating THEN [mem[a] EXCEPT !.left = mem[a].interval]
                   ELSE IF a \in batch THEN [mem[a] EXCEPT !.live = FALSE]
                   ELSE mem[a]]
    BY <1>8 DEF reset
  <2>4. /\ mem' \in [Addresses -> Cell]
        /\ \A a \in Addresses :
              /\ mem'[a].seq = mem[a].seq /\ mem'[a].interval = mem[a].interval
              /\ mem'[a].live => mem[a].live
              /\ a \notin batch => mem'[a] = mem[a]
              /\ a \in Repeating /\ mem[a].live => mem'[a].live
    BY <1>1, <2>2, <2>3 DEF Cell
  <2>5. Alive'
    BY <1>1, <2>1, <2>2, <2>4 DEF TimerInv, Alive
  <2>6. Known'
    BY <2>1, <2>4 DEF TimerInv, Known
  <2>7. AddsWait'
    <3> SUFFICES ASSUME NEW i \in 1 .. Len(functors), functors[i].op = "add"
                 PROVE  mem'[functors[i].addr].live /\ functors[i].addr \notin pTimers' \cup batch'
      BY <2>1 DEF TimerInv, AddsWait
    <3>1. functors[i].addr \in Addresses
      <4>1. functors[i] \in Entry
        BY <1>1
      <4> QED
        BY <4>1 DEF Entry
    <3>2. mem[functors[i].addr].live /\ functors[i].addr \notin pTimers \cup batch
      BY DEF TimerInv, AddsWait
    <3> QED
      BY <2>1, <2>2, <2>4, <3>1, <3>2
  <2>11. pTimers' \subseteq Addresses
    BY <1>1, <2>1, <2>2
  <2>12. /\ fd' \in Nat \cup {-1}
         /\ pTimers' # {} => fd' # -1 /\ \A a \in pTimers' : fd' <= ArmedFor(mem'[a].left)
    <3>1. CASE pTimers' = {}
      BY <1>1, <2>1, <3>1
    <3>2. CASE pTimers' # {}
      <4>1. PICK m, s : m = mem' /\ s = pTimers'
        OBVIOUS
      <4>2. s # {} /\ \A a \in s : m[a].left \in Nat
        BY <2>4, <2>11, <3>2, <4>1 DEF Cell
      <4>3. PICK n : n = Earliest(m, s)
        OBVIOUS
      <4>4. n \in Nat /\ \A a \in s : n <= m[a].left
        BY <4>2, <4>3, EarliestIs
      <4>5. fd' = ArmedFor(n)
        BY <2>1, <3>2, <4>1, <4>3
      <4>6. /\ fd' \in Nat /\ fd' # -1
            /\ \A a \in s : fd' <= ArmedFor(m[a].left)
        BY <4>2, <4>4, <4>5 DEF ArmedFor, MaxOf
      <4> QED
        BY <4>1, <4>6
    <3> QED
      BY <3>1, <3>2
  <2>13. Types' /\ Armed'
    BY <1>1, <2>1, <2>4, <2>11, <2>12 DEF Types, Armed
  <2> QED
    BY <2>5, <2>6, <2>7, <2>13 DEF TimerInv
<1>9. CASE tick
  <2>1. /\ mem' = [a \in Addresses |->
                      IF mem[a].live THEN [mem[a] EXCEPT !.left = Less(@)] ELSE mem[a]]
        /\ fd' = Less(fd)
        /\ UNCHANGED <<pTimers, functors, added, pc, batch, todo, round, ids, dropped>>
    BY <1>9 DEF tick, timerLoop, timerHistory
  <2>2. \A n \in Nat \cup {-1} : /\ Less(n) \in Nat \cup {-1}
                                 /\ n \in Nat => Less(n) \in Nat
                                 /\ Less(n) = IF n > 0 THEN n - 1 ELSE n
    BY DEF Less
  <2>3. /\ mem' \in [Addresses -> Cell]
        /\ \A a \in Addresses :
              /\ mem'[a].seq = mem[a].seq /\ mem'[a].interval = mem[a].interval
              /\ mem'[a].live = mem[a].live
              /\ mem[a].live => mem'[a].left = Less(mem[a].left)
    BY <1>1, <2>1, <2>2 DEF Cell
  <2>4. Types'
    BY <1>1, <2>1, <2>2, <2>3 DEF Types
  <2>5. Alive'
    BY <1>1, <2>1, <2>3 DEF TimerInv, Alive
  <2>6. Known'
    BY <2>1, <2>3 DEF TimerInv, Known
  <2>7. AddsWait'
    <3>1. \A i \in 1 .. Len(functors) : functors[i].op = "add" => functors[i].addr \in Addresses
      BY <1>1 DEF Entry
    <3> QED
      BY <2>1, <2>3, <3>1 DEF TimerInv, AddsWait
  <2>10. Armed'
    <3> SUFFICES ASSUME pc \notin {"timeouts", "callback"}, NEW a \in pTimers
                 PROVE  fd' # -1 /\ fd' <= ArmedFor(mem'[a].left)
      BY <2>1 DEF Armed
    <3>1. fd # -1 /\ fd <= ArmedFor(mem[a].left)
      BY DEF TimerInv, Armed
    <3>2. a \in Addresses /\ mem[a].live /\ mem[a].left \in Nat
      BY <1>1 DEF TimerInv, Alive, Cell
    <3>3. PICK n \in Nat : n = mem[a].left
      BY <3>2
    <3>4. fd \in Nat /\ fd <= (IF n < 1 THEN 1 ELSE n)
      BY <1>1, <3>1, <3>3 DEF ArmedFor, MaxOf
    <3>5. /\ mem'[a].left = (IF n > 0 THEN n - 1 ELSE n)
          /\ fd' = (IF fd > 0 THEN fd - 1 ELSE fd)
      BY <2>1, <2>2, <2>3, <3>2, <3>3, <3>4
    <3> QED
      BY <3>4, <3>5 DEF ArmedFor, MaxOf
  <2> QED
    BY <2>4, <2>5, <2>6, <2>7, <2>10 DEF TimerInv
<1>10. ASSUME NEW a \in Addresses, timeout(a)
       PROVE  TimerInv'
  <2>1. /\ pc = "timeouts" /\ todo' = todo \ {a} /\ pc' = "callback"
        /\ UNCHANGED <<mem, pTimers, fd, batch, functors, added, round, ids, dropped>>
    BY <1>10 DEF timeout, queueVars
  <2>2. Types' /\ Armed'
    BY <1>1, <2>1 DEF Types, Armed
  <2> QED
    BY <2>1, <2>2, Untouched DEF TimerInv
<1>11. CASE timeoutReturns
  <2>1. /\ pc = "callback" /\ pc' = "timeouts"
        /\ UNCHANGED <<mem, pTimers, fd, batch, todo, functors, added, round, ids, dropped>>
    BY <1>11 DEF timeoutReturns, queueVars, timerHistory
  <2>2. Types' /\ Armed'
    BY <1>1, <2>1 DEF Types, Armed
  <2> QED
    BY <2>1, <2>2, Untouched DEF TimerInv
<1>12. CASE endDispatch
  <2>1. /\ pc = "dispatch" /\ pc' = "functors" /\ round' = Len(functors)
        /\ UNCHANGED <<mem, pTimers, fd, batch, todo, functors, added, ids, dropped>>
    BY <1>12 DEF endDispatch, queueVars, timerHistory
  <2>2. Types' /\ Armed'
    BY <1>1, <2>1 DEF TimerInv, Types, Armed
  <2> QED
    BY <2>1, <2>2, Untouched DEF TimerInv
<1>13. CASE endQueued
  <2>1. /\ pc = "functors" /\ pc' = "poll"
        /\ UNCHANGED <<mem, pTimers, fd, batch, todo, functors, added, round, ids, dropped>>
    BY <1>13 DEF endQueued, queueVars, timerHistory
  <2>2. Types' /\ Armed'
    BY <1>1, <2>1 DEF TimerInv, Types, Armed
  <2> QED
    BY <2>1, <2>2, Untouched DEF TimerInv
<1>14. CASE pollReturns
  <2>1. /\ pc = "poll" /\ pc' = "dispatch"
        /\ UNCHANGED <<mem, pTimers, fd, batch, todo, functors, added, round, ids, dropped>>
    BY <1>14 DEF pollReturns, queueVars, timerHistory
  <2>2. Types' /\ Armed'
    BY <1>1, <2>1 DEF TimerInv, Types, Armed
  <2> QED
    BY <2>1, <2>2, Untouched DEF TimerInv
<1>15. CASE UNCHANGED timerVars
  <2>1. UNCHANGED <<mem, pTimers, fd, pc, batch, todo, functors, added, round, ids, dropped>>
    BY <1>15 DEF timerVars, queueVars, timerLoop, timerHistory
  <2>2. Types' /\ Armed'
    BY <1>1, <2>1 DEF TimerInv, Types, Armed
  <2> QED
    BY <2>1, <2>2, Untouched DEF TimerInv
<1> QED
  BY <1>3, <1>5, <1>6, <1>7, <1>8, <1>9, <1>10, <1>11, <1>12, <1>13, <1>14, <1>15
     DEF TimerNext, TimerLoopStep, polls

LEMMA TimerInvInit == TimerInit => TimerInv
<1> SUFFICES ASSUME TimerInit PROVE TimerInv
  OBVIOUS
<1>1. << >> \in Seq(Entry) /\ Len(<< >>) = 0
  BY EmptySeq
<1>2. Types
  BY <1>1 DEF TimerInit, Off, Types, Cell, Ids
<1>3. \A a \in Addresses : ~mem[a].live
  BY DEF TimerInit
<1> QED
  BY <1>1, <1>2, <1>3 DEF TimerInit, TimerInv, Alive, Known, AddsWait, Armed

LEMMA TimerInvariant == TimerSpec => []TimerInv
<1>1. TimerInv /\ [TimerNext]_timerVars => TimerInv'
  BY TimerInvStep
<1> QED
  BY <1>1, TimerInvInit, PTL DEF TimerSpec

(***************************************************************************)
(* However many timers are added, cancelled and fired, on whichever thread *)
(* and with whichever ids, stale ones and those of batch members included, *)
(* no Timer that waits, is of the batch or is about to be inserted has     *)
(* been deleted, and each is in one of these places only                   *)
(* (TimerQueue::addTimer, cancelInLoop, handleRead, reset).                *)
(***************************************************************************)
THEOREM TimersStayAlive == TimerSpec => []TimersAlive
<1>1. TimerInv => TimersAlive
  <2> SUFFICES ASSUME TimerInv PROVE TimersAlive
    OBVIOUS
  <2>1. DOMAIN functors = 1 .. Len(functors)
    BY DEF TimerInv, Types
  <2>2. \A a \in Queued : mem[a].live /\ a \notin pTimers \cup batch
    BY <2>1 DEF Queued, TimerInv, AddsWait
  <2> QED
    BY <2>2 DEF TimerInv, Alive, TimersAlive
<1> QED
  BY <1>1, TimerInvariant, PTL

(***************************************************************************)
(* The loop never polls with a timer waiting and the timerfd unset, or set *)
(* for later than the earliest (TimerQueue::insert, reset, resetTimerfd).  *)
(***************************************************************************)
THEOREM NeverPastATimer == TimerSpec => []TimerArmed
<1>1. TimerInv => TimerArmed
  <2> SUFFICES ASSUME TimerInv, pc = "poll", pTimers # {}
               PROVE  fd # -1 /\ fd <= ArmedFor(Earliest(mem, pTimers))
    BY DEF TimerArmed, Off
  <2>1. fd # -1 /\ \A a \in pTimers : fd <= ArmedFor(mem[a].left)
    BY DEF TimerInv, Armed
  <2>2. PICK a \in pTimers : Earliest(mem, pTimers) = mem[a].left
    <3>1. \A a \in pTimers : mem[a].left \in Nat
      BY DEF TimerInv, Types, Cell
    <3> QED
      BY <3>1, EarliestIs
  <2> QED
    BY <2>1, <2>2
<1> QED
  BY <1>1, TimerInvariant, PTL

(***************************************************************************)
(* Once a cancel came for a timer while it waited its callback is never    *)
(* started again, though a batch may be out and its address may have been  *)
(* used anew (TimerQueue::cancelInLoop, handleRead, reset).                *)
(***************************************************************************)
THEOREM CancelledNeverStarts ==
    TimerSpec => CancelledStaysDown
<1> DEFINE Starting == \A s \in Seqs : Starts(s) => s \notin dropped
<1>1. TimerInv /\ [TimerNext]_timerVars => [Starting]_timerVars
  <2> SUFFICES ASSUME TimerInv, TimerNext, NEW s \in Seqs, Starts(s)
               PROVE  s \notin dropped
    OBVIOUS
  <2>1. timerRunning # s /\ timerRunning' = s /\ s # 0
    BY DEF Starts, Seqs
  <2>2. PICK a \in Addresses : timeout(a)
    BY <2>1 DEF TimerNext, TimerLoopStep, addTimer, cancelTimer, polls,
       pollReturns, handleRead, timeoutReturns, reset,
       endDispatch, runQueued, endQueued, tick, timerLoop
  <2>3. a \in batch /\ s = mem[a].seq
    BY <2>1, <2>2 DEF timeout, TimerInv, Types
  <2> QED
    BY <2>3 DEF TimerInv, Types, Alive, Known
<1> QED
  BY <1>1, TimerInvariant, PTL DEF TimerSpec, CancelledStaysDown
=============================================================================
