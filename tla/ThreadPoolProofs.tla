-------------------------- MODULE ThreadPoolProofs ---------------------------
(***************************************************************************)
(* Theorems about ThreadPool, for any threads, callers and tasks.          *)
(*                                                                         *)
(* The argument: one thread at a time is between lock and unlock (Mutex),  *)
(* so the queue is what was pushed and not yet taken (Flow).  A task that  *)
(* somebody adds, that is queued or that a worker holds has not been run,  *)
(* and no other thread adds or holds it (Adds, Waits, Holds): nothing is   *)
(* run twice.  And a thread stops serving the queue only with the task it  *)
(* takes, or as it wakes another, so none sleeps over work (ServingStep).  *)
(***************************************************************************)
EXTENDS ThreadPool, FiniteSetTheorems, TLAPS

Critical == {"push", "notify", "check", "pop"}

\* _mutex belongs to the thread that is between lock and unlock.
Mutex == \A t \in Threads : pc[t] \in Critical <=> mutex = t

\* The task at the front is in the queue until its taker has popped it.
Popping == IF mutex \in Workers /\ pc[mutex] = "pop" THEN 1 ELSE 0

Flow ==
    /\ Len(taken) <= Len(pushed)
    /\ Len(queue) = Len(pushed) - Len(taken) + Popping
    /\ Popping <= Len(taken)
    /\ \A i \in 1 .. Len(queue) : queue[i] = pushed[Len(taken) - Popping + i]
    /\ \A i \in 1 .. Len(taken) : taken[i] = pushed[i]

\* Tasks are pushed once.
Pushed ==
    /\ \A i, j \in 1 .. Len(pushed) : pushed[i] = pushed[j] => i = j
    /\ \A i \in 1 .. Len(pushed) : pushed[i] \in added

\* Somebody is adding the task and has not pushed it.
Adding(t) == pc[t] \in {"put", "push"}
Adds ==
    \A t \in Threads : Adding(t) =>
        /\ adding[t] \in added
        /\ \A i \in 1 .. Len(pushed) : pushed[i] # adding[t]
        /\ \A i \in 1 .. Len(ran) : ran[i] # adding[t]
        /\ \A u \in Threads : Adding(u) /\ adding[u] = adding[t] => u = t

\* What was not taken was not run.
Waits == \A i \in Len(taken) + 1 .. Len(pushed) : \A j \in 1 .. Len(ran) : ran[j] # pushed[i]

\* A worker has taken the task and not begun it.
Holding(w) == pc[w] \in {"pop", "call"}
Holds ==
    \A w \in Workers : Holding(w) =>
        /\ \E i \in 1 .. Len(taken) : held[w] = pushed[i]
        /\ \A i \in 1 .. Len(ran) : ran[i] # held[w]
        /\ \A v \in Workers : Holding(v) /\ held[v] = held[w] => v = w

Ran == /\ \A i \in 1 .. Len(ran) : ran[i] \in added
       /\ \A i, j \in 1 .. Len(ran) : ran[i] = ran[j] => i = j

\* A thread that start() has not come to does nothing.
Unborn == \A w \in Workers \ threads : pc[w] = "none"

IInv == TypeOK /\ Unborn /\ Mutex /\ Flow /\ Pushed /\ Adds /\ Waits /\ Holds /\ Ran

LEMMA InitInv == Init => IInv
<1> SUFFICES ASSUME Init PROVE IInv
  OBVIOUS
<1>1. \A S : << >> \in Seq(S) /\ Len(<< >>) = 0
  OBVIOUS
<1>2. Nobody \notin Threads
  BY PoolAssumption DEF Nobody, Threads
<1>3. TypeOK
  BY <1>1, PoolAssumption DEF Init, TypeOK, Threads
<1>4. Unborn /\ Mutex /\ Popping = 0
  BY <1>2 DEF Init, Unborn, Mutex, Popping, Critical, Threads
<1>5. Adds /\ Holds
  BY DEF Init, Adds, Holds, Adding, Holding, Threads
<1>6. Flow /\ Pushed /\ Waits /\ Ran
  BY <1>1, <1>4 DEF Init, Flow, Pushed, Waits, Ran
<1> QED
  BY <1>3, <1>4, <1>5, <1>6 DEF IInv

\* Steps that change neither a sequence nor who adds or holds what.
LEMMA QuietStep ==
  ASSUME IInv, TypeOK', Unborn', Mutex', UNCHANGED <<queue, pushed, taken, ran, held, adding, added>>,
         Popping' = Popping,
         \A t \in Threads : (Adding(t)' => Adding(t)) /\ (Holding(t)' => Holding(t))
  PROVE  IInv'
<1>1. Flow' /\ Pushed' /\ Waits' /\ Ran'
  BY DEF IInv, Flow, Pushed, Waits, Ran
<1>2. Adds'
  BY DEF IInv, Adds
<1>3. Holds'
  BY DEF IInv, Holds, Threads
<1> QED
  BY <1>1, <1>2, <1>3 DEF IInv

-----------------------------------------------------------------------------
\* What is added, held, or at the front of the queue, is a task.
LEMMA AreTasks ==
  ASSUME IInv
  PROVE  /\ \A t \in Threads : Adding(t) => adding[t] \in Tasks
         /\ \A w \in Workers : Holding(w) => held[w] \in Tasks
         /\ queue # << >> => Head(queue) \in Tasks /\ Tail(queue) \in Seq(Tasks)
<1>1. \A t \in Threads : Adding(t) => adding[t] \in Tasks
  BY DEF IInv, TypeOK, Adds
<1>2. \A w \in Workers : Holding(w) => held[w] \in Tasks
  BY DEF IInv, TypeOK, Holds, Flow
<1>3. queue # << >> => Head(queue) \in Tasks /\ Tail(queue) \in Seq(Tasks)
  BY DEF IInv, TypeOK
<1> QED
  BY <1>1, <1>2, <1>3

LEMMA TypeStep ==
  ASSUME IInv, Next
  PROVE  TypeOK'
<1> USE AreTasks, PoolAssumption DEF TypeOK, Threads, Goes
<1>0. TypeOK
  BY DEF IInv
<1>1. CASE startReturns
  BY <1>0, <1>1 DEF startReturns
<1>2. ASSUME NEW w \in Workers, startThread(w) PROVE TypeOK'
  <2>1. pc' = pc \/ pc' = [pc EXCEPT ![w] = "take"]
    BY <1>2 DEF startThread
  <2>2. threads' \subseteq Workers /\ UNCHANGED <<phase, held, adding, mutex, queue, added, pushed,
                                              taken, ran, spurious>>
    BY <1>0, <1>2 DEF startThread
  <2> QED
    BY <1>0, <2>1, <2>2
<1>3. ASSUME NEW w \in Workers, wait(w) PROVE TypeOK'
  BY <1>0, <1>3 DEF wait
<1>4. ASSUME NEW w \in Workers, front(w) PROVE TypeOK'
  BY <1>0, <1>4 DEF front
<1>5. ASSUME NEW w \in Workers, pop_front(w) PROVE TypeOK'
  <2>1. queue # << >>
    BY <1>5 DEF IInv, Mutex, Flow, Popping, Critical, pop_front
  <2> QED
    BY <1>0, <1>5, <2>1 DEF pop_front
<1>6. ASSUME NEW w \in Workers, callTask(w) PROVE TypeOK'
  <2>1. held[w] \in Tasks
    BY <1>6 DEF callTask, Holding
  <2>2. ran' \in Seq(Tasks)
    <3>1. ran \in Seq(Tasks) /\ (ran' = ran \/ ran' = Append(ran, held[w]))
      BY <1>0, <1>6 DEF callTask
    <3> QED
      BY <2>1, <3>1
  <2>3. held' \in [Threads -> Tasks \cup {NoTask}]
    BY <1>0, <1>6 DEF callTask
  <2>4. pc' = [pc EXCEPT ![w] = "take"] \/ pc' = [pc EXCEPT ![w] = "running"]
    BY <1>6 DEF callTask
  <2> QED
    BY <1>0, <1>6, <2>2, <2>3, <2>4 DEF callTask
<1>7. ASSUME NEW w \in Workers, taskReturns(w) PROVE TypeOK'
  BY <1>0, <1>7 DEF taskReturns
<1>8. ASSUME NEW w \in Workers, wakesForNothing(w) PROVE TypeOK'
  BY <1>0, <1>8 DEF wakesForNothing
<1>9. ASSUME NEW t \in Threads, lock(t) PROVE TypeOK'
  BY <1>0, <1>9 DEF lock, Locked
<1>10. ASSUME NEW t \in Threads, push_back(t) PROVE TypeOK'
  BY <1>0, <1>10 DEF push_back, Adding
<1>11. ASSUME NEW t \in Threads, notify(t) PROVE TypeOK'
  <2>1. \A u \in Threads : pc'[u] \in {pc[u], "woken", After(t)}
                            /\ (u \in Callers => pc'[u] \in {pc[u], After(t)})
    BY <1>0, <1>11 DEF notify, Waiting
  <2>2. pc' = [u \in Threads |-> pc'[u]]
    BY <1>0, <1>11 DEF notify
  <2> QED
    BY <1>0, <1>11, <2>1, <2>2 DEF notify, After
<1>12. ASSUME NEW t \in Threads, NEW task \in Tasks, addTask(t, task) PROVE TypeOK'
  BY <1>0, <1>12 DEF addTask, MayAdd
<1>13. ASSUME NEW t \in Threads, NEW task \in Tasks, addTaskDirect(t, task) PROVE TypeOK'
  BY <1>0, <1>13 DEF addTaskDirect
<1> QED
  BY <1>1, <1>2, <1>3, <1>4, <1>5, <1>6, <1>7, <1>8, <1>9, <1>10, <1>11, <1>12, <1>13
  DEF Next, runInThread, take, put

LEMMA MutexStep ==
  ASSUME IInv, Next
  PROVE  Mutex'
<1> USE PoolAssumption DEF Threads, Goes, Mutex, Critical, Nobody
<1>0. TypeOK /\ Mutex
  BY DEF IInv
<1>1. CASE startReturns
  BY <1>0, <1>1 DEF startReturns
<1>2. ASSUME NEW w \in Workers, startThread(w) PROVE Mutex'
  BY <1>0, <1>2 DEF startThread, TypeOK, IInv, Unborn
<1>3. ASSUME NEW w \in Workers, wait(w) PROVE Mutex'
  BY <1>0, <1>3 DEF wait, TypeOK
<1>4. ASSUME NEW w \in Workers, front(w) PROVE Mutex'
  BY <1>0, <1>4 DEF front, TypeOK
<1>5. ASSUME NEW w \in Workers, pop_front(w) PROVE Mutex'
  BY <1>0, <1>5 DEF pop_front, TypeOK
<1>6. ASSUME NEW w \in Workers, callTask(w) PROVE Mutex'
  BY <1>0, <1>6 DEF callTask, TypeOK
<1>7. ASSUME NEW w \in Workers, taskReturns(w) PROVE Mutex'
  BY <1>0, <1>7 DEF taskReturns, TypeOK
<1>8. ASSUME NEW w \in Workers, wakesForNothing(w) PROVE Mutex'
  BY <1>0, <1>8 DEF wakesForNothing, TypeOK
<1>9. ASSUME NEW t \in Threads, lock(t) PROVE Mutex'
  BY <1>0, <1>9 DEF lock, Locked, TypeOK
<1>10. ASSUME NEW t \in Threads, push_back(t) PROVE Mutex'
  BY <1>0, <1>10 DEF push_back, TypeOK
<1>11. ASSUME NEW t \in Threads, notify(t) PROVE Mutex'
  <2>1. \A u \in Threads : u # t => pc'[u] = pc[u] \/ (pc[u] = "waiting" /\ pc'[u] = "woken")
    BY <1>0, <1>11 DEF notify, Waiting, TypeOK
  <2>2. pc'[t] = After(t) /\ mutex' = Nobody /\ pc[t] = "notify"
    BY <1>0, <1>11 DEF notify, Waiting, TypeOK
  <2> QED
    BY <1>0, <2>1, <2>2 DEF After
<1>12. ASSUME NEW t \in Threads, NEW task \in Tasks, addTask(t, task) PROVE Mutex'
  BY <1>0, <1>12 DEF addTask, MayAdd, TypeOK
<1>13. ASSUME NEW t \in Threads, NEW task \in Tasks, addTaskDirect(t, task) PROVE Mutex'
  BY <1>0, <1>13 DEF addTaskDirect
<1> QED
  BY <1>1, <1>2, <1>3, <1>4, <1>5, <1>6, <1>7, <1>8, <1>9, <1>10, <1>11, <1>12, <1>13
  DEF Next, runInThread, take, put

LEMMA UnbornStep ==
  ASSUME IInv, Next
  PROVE  Unborn'
<1> USE PoolAssumption DEF Threads, Goes, Unborn
<1>0. TypeOK /\ Unborn
  BY DEF IInv
<1>1. CASE startReturns
  BY <1>0, <1>1 DEF startReturns
<1>2. ASSUME NEW w \in Workers, startThread(w) PROVE Unborn'
  BY <1>0, <1>2 DEF startThread, TypeOK
<1>3. ASSUME NEW w \in Workers, runInThread(w) \/ wakesForNothing(w) PROVE Unborn'
  <2>1. threads' = threads /\ w \in threads
    BY <1>0, <1>3 DEF runInThread, take, wait, front, pop_front, callTask, taskReturns,
       wakesForNothing
  <2>2. \A v \in Workers : v # w => pc'[v] = pc[v]
    BY <1>0, <1>3 DEF runInThread, take, wait, front, pop_front, callTask, taskReturns,
       wakesForNothing, TypeOK
  <2> QED
    BY <1>0, <2>1, <2>2
<1>4. ASSUME NEW t \in Threads, lock(t) \/ push_back(t) \/ (\E task \in Tasks : addTask(t, task))
      PROVE Unborn'
  <2>1. threads' = threads /\ pc[t] # "none" /\ \A v \in Threads : v # t => pc'[v] = pc[v]
    BY <1>0, <1>4 DEF lock, Locked, push_back, addTask, MayAdd, TypeOK
  <2> QED
    BY <1>0, <2>1
<1>5. ASSUME NEW t \in Threads, notify(t) PROVE Unborn'
  <2>1. threads' = threads /\ pc[t] # "none"
    BY <1>5 DEF notify
  <2>2. \A v \in Workers : pc[v] = "none" => pc'[v] = "none"
    BY <1>0, <1>5 DEF notify, Waiting, TypeOK
  <2> QED
    BY <1>0, <2>1, <2>2
<1>6. ASSUME NEW t \in Threads, NEW task \in Tasks, addTaskDirect(t, task) PROVE Unborn'
  BY <1>0, <1>6 DEF addTaskDirect
<1> QED
  BY <1>1, <1>2, <1>3, <1>4, <1>5, <1>6 DEF Next, put

-----------------------------------------------------------------------------
\* The steps that move no task.
LEMMA QuietSteps ==
  ASSUME IInv, Next,
         \/ startReturns
         \/ \E w \in Workers : startThread(w) \/ wait(w) \/ wakesForNothing(w)
         \/ \E t \in Threads : lock(t)
  PROVE  IInv'
<1> USE PoolAssumption DEF Threads, Goes
<1>0. TypeOK /\ Mutex /\ Unborn /\ TypeOK' /\ Mutex' /\ Unborn'
  BY TypeStep, MutexStep, UnbornStep DEF IInv
<1>1. UNCHANGED <<queue, pushed, taken, ran, held, adding, added>>
  BY DEF startReturns, startThread, wait, wakesForNothing, lock
<1>2. \A t \in Threads : (Adding(t)' => Adding(t)) /\ (Holding(t)' => Holding(t))
  BY <1>0 DEF startReturns, startThread, wait, wakesForNothing, lock, Locked, Adding, Holding, TypeOK
<1>3. (\E w \in Workers : mutex' = w /\ pc'[w] = "pop") <=> (\E w \in Workers : mutex = w /\ pc[w] = "pop")
  BY <1>0 DEF startReturns, startThread, wait, wakesForNothing, lock, Locked, TypeOK, Mutex, Critical, Unborn
<1>4. Popping' = Popping
  BY <1>3 DEF Popping
<1> QED
  BY <1>0, <1>1, <1>2, <1>4, QuietStep

\* A thread goes somewhere, and no other does.
LEMMA OneGoes ==
  ASSUME TypeOK, NEW t \in Threads, NEW x, Goes(t, x)
  PROVE  pc'[t] = x /\ \A u \in Threads : u # t => pc'[u] = pc[u]
  BY DEF TypeOK, Goes

\* put(): push_back, at the end of the queue.
LEMMA PushStep ==
  ASSUME IInv, Next, NEW t \in Threads, push_back(t)
  PROVE  IInv'
<1> USE DEF Threads, Goes
<1>0. TypeOK' /\ Mutex' /\ Unborn'
  BY TypeStep, MutexStep, UnbornStep
<1>1. /\ Adding(t) /\ pc[t] = "push" /\ mutex = t
      /\ queue' = Append(queue, adding[t]) /\ pushed' = Append(pushed, adding[t])
      /\ UNCHANGED <<taken, ran, held, adding, added, mutex>>
      /\ pc'[t] = "notify" /\ \A u \in Threads : u # t => pc'[u] = pc[u]
  BY OneGoes DEF IInv, Mutex, Critical, Adding, push_back
<1>a. adding[t] \in Tasks
  BY <1>1, AreTasks
<1>2. Popping = 0 /\ Popping' = 0
  BY <1>1 DEF Popping
<1>3. /\ Len(queue') = Len(queue) + 1 /\ Len(pushed') = Len(pushed) + 1
      /\ \A i \in 1 .. Len(queue) : queue'[i] = queue[i]
      /\ \A i \in 1 .. Len(pushed) : pushed'[i] = pushed[i]
      /\ queue'[Len(queue) + 1] = adding[t] /\ pushed'[Len(pushed) + 1] = adding[t]
      /\ Len(pushed) \in Nat /\ Len(queue) \in Nat /\ Len(taken) \in Nat /\ Len(ran) \in Nat
  BY <1>1, <1>a DEF IInv, TypeOK
<1>4. Flow'
  <2>1. /\ Len(taken) <= Len(pushed) /\ Len(queue) = Len(pushed) - Len(taken)
        /\ \A i \in 1 .. Len(queue) : queue[i] = pushed[Len(taken) + i]
        /\ \A i \in 1 .. Len(taken) : taken[i] = pushed[i]
    BY <1>2, <1>3 DEF IInv, Flow
  <2>2. ASSUME NEW i \in 1 .. Len(queue') PROVE queue'[i] = pushed'[Len(taken) + i]
    <3>1. CASE i = Len(queue) + 1
      BY <1>3, <2>1, <3>1
    <3>2. CASE i \in 1 .. Len(queue)
      BY <1>3, <2>1, <3>2
    <3> QED
      BY <1>3, <3>1, <3>2
  <2>3. \A i \in 1 .. Len(taken) : taken[i] = pushed'[i]
    BY <1>3, <2>1
  <2>4. /\ Len(taken) <= Len(pushed') /\ Len(queue') = Len(pushed') - Len(taken) + 0
        /\ 0 <= Len(taken)
    BY <1>3, <2>1
  <2>5. \A i \in 1 .. Len(queue') : queue'[i] = pushed'[Len(taken) - 0 + i]
    BY <1>3, <2>2
  <2>6. taken' = taken
    BY <1>1
  <2> QED
    BY <1>2, <2>3, <2>4, <2>5, <2>6 DEF Flow
<1>5. Pushed'
  <2>1. adding[t] \in added /\ \A i \in 1 .. Len(pushed) : pushed[i] # adding[t]
    BY <1>1 DEF IInv, Adds
  <2>2. /\ \A i, j \in 1 .. Len(pushed) : pushed[i] = pushed[j] => i = j
        /\ \A i \in 1 .. Len(pushed) : pushed[i] \in added
    BY DEF IInv, Pushed
  <2>3. \A i \in 1 .. Len(pushed') : i \in 1 .. Len(pushed) \/ i = Len(pushed) + 1
    BY ONLY <1>3
  <2>4. ASSUME NEW i \in 1 .. Len(pushed'), NEW j \in 1 .. Len(pushed'),
               pushed'[i] = pushed'[j]
        PROVE  i = j
    <3>1. CASE i \in 1 .. Len(pushed) /\ j \in 1 .. Len(pushed)
      BY ONLY <1>3, <2>2, <2>4, <3>1
    <3>2. CASE i = Len(pushed) + 1 /\ j \in 1 .. Len(pushed)
      BY ONLY <1>3, <2>1, <2>4, <3>2
    <3>3. CASE i \in 1 .. Len(pushed) /\ j = Len(pushed) + 1
      BY ONLY <1>3, <2>1, <2>4, <3>3
    <3> QED
      BY ONLY <2>3, <3>1, <3>2, <3>3
  <2>5. ASSUME NEW i \in 1 .. Len(pushed') PROVE pushed'[i] \in added
    <3>1. CASE i \in 1 .. Len(pushed)
      BY ONLY <1>3, <2>2, <3>1
    <3>2. CASE i = Len(pushed) + 1
      BY ONLY <1>3, <2>1, <3>2
    <3> QED
      BY <2>3, <3>1, <3>2
  <2>6. added' = added
    BY <1>1
  <2> QED
    BY ONLY <2>4, <2>5, <2>6 DEF Pushed
<1>6. \A u \in Threads : Adding(u)' => Adding(u) /\ u # t
  BY <1>1 DEF Adding
<1>7. Adds'
  BY <1>1, <1>3, <1>6 DEF IInv, Adds
<1>8. Waits'
  <2>1. \A i \in 1 .. Len(ran) : ran[i] # adding[t]
    BY <1>1 DEF IInv, Adds
  <2>2. Len(taken) <= Len(pushed)
    BY DEF IInv, Flow
  <2> QED
    BY <1>1, <1>3, <2>1, <2>2 DEF IInv, Waits
<1>9. \A w \in Workers : Holding(w)' => Holding(w)
  BY <1>1 DEF Holding
<1>10. Holds'
  BY <1>1, <1>3, <1>9 DEF IInv, Holds, Flow
<1>11. Ran'
  BY <1>1 DEF IInv, Ran
<1> QED
  BY <1>0, <1>4, <1>5, <1>7, <1>8, <1>10, <1>11 DEF IInv

\* put(): notify, and unlock.
LEMMA NotifyStep ==
  ASSUME IInv, Next, NEW t \in Threads, notify(t)
  PROVE  IInv'
<1> USE DEF Threads, Goes
<1>0. TypeOK /\ TypeOK' /\ Mutex' /\ Unborn' /\ Nobody \notin Threads
  BY TypeStep, MutexStep, UnbornStep, PoolAssumption DEF IInv, Nobody
<1>1. /\ mutex = t /\ mutex' = Nobody /\ pc[t] = "notify"
      /\ adding' = [adding EXCEPT ![t] = NoTask]
      /\ UNCHANGED <<queue, pushed, taken, ran, held, added>>
  BY DEF IInv, Mutex, Critical, notify
<1>2. \A u \in Threads : (Adding(u)' => Adding(u) /\ u # t) /\ (Holding(u)' => Holding(u))
  BY <1>0, <1>1 DEF notify, After, Waiting, Adding, Holding, TypeOK
<1>3. Popping = 0 /\ Popping' = 0
  BY <1>0, <1>1 DEF Popping
<1>4. Flow' /\ Pushed' /\ Waits' /\ Ran'
  BY <1>1, <1>3 DEF IInv, Flow, Pushed, Waits, Ran
<1>5. \A u \in Threads : u # t => adding'[u] = adding[u]
  BY <1>0, <1>1 DEF TypeOK
<1>6. Adds'
  <2> SUFFICES ASSUME NEW u \in Threads, Adding(u)'
               PROVE  /\ adding'[u] \in added
                      /\ \A i \in 1 .. Len(pushed) : pushed[i] # adding'[u]
                      /\ \A i \in 1 .. Len(ran) : ran[i] # adding'[u]
                      /\ \A v \in Threads : Adding(v)' /\ adding'[v] = adding'[u] => v = u
    BY <1>1 DEF Adds
  <2>1. \A v \in Threads : Adding(v)' => Adding(v) /\ adding'[v] = adding[v]
    BY <1>2, <1>5
  <2> QED
    BY <2>1 DEF IInv, Adds
<1>7. Holds'
  <2>1. \A v \in Workers : Holding(v)' => Holding(v)
    BY <1>2
  <2> QED
    BY <1>1, <2>1 DEF IInv, Holds
<1> QED
  BY <1>0, <1>4, <1>6, <1>7 DEF IInv

\* take(): the front of the queue.
LEMMA FrontStep ==
  ASSUME IInv, Next, NEW w \in Workers, front(w)
  PROVE  IInv'
<1> USE DEF Threads, Goes
<1>0. TypeOK' /\ Mutex' /\ Unborn'
  BY TypeStep, MutexStep, UnbornStep
<1>1. /\ mutex = w /\ pc[w] = "check" /\ queue # << >>
      /\ taken' = Append(taken, Head(queue))
      /\ UNCHANGED <<queue, pushed, ran, adding, added, mutex>>
      /\ pc'[w] = "pop" /\ \A u \in Threads : u # w => pc'[u] = pc[u]
  BY OneGoes DEF IInv, Mutex, Critical, front
<1>a. held'[w] = Head(queue) /\ \A u \in Threads : u # w => held'[u] = held[u]
  BY DEF IInv, TypeOK, front
<1>2. Popping = 0 /\ Popping' = 1
  BY <1>1 DEF Popping
<1>3. /\ Len(taken') = Len(taken) + 1 /\ taken'[Len(taken) + 1] = Head(queue)
      /\ \A i \in 1 .. Len(taken) : taken'[i] = taken[i]
      /\ Len(pushed) \in Nat /\ Len(queue) \in Nat /\ Len(taken) \in Nat /\ Len(ran) \in Nat
      /\ Len(queue) > 0 /\ Head(queue) = queue[1]
  BY <1>1, AreTasks DEF IInv, TypeOK
<1>4. Len(taken) + 1 <= Len(pushed) /\ Head(queue) = pushed[Len(taken) + 1]
  BY <1>2, <1>3 DEF IInv, Flow
<1>5. Flow'
  <2>a. Len(taken) \in Nat /\ Len(pushed) \in Nat /\ Len(queue) \in Nat /\ Popping = 0
    BY <1>2, <1>3
  <2>1. /\ Len(taken) <= Len(pushed) /\ Len(queue) = Len(pushed) - Len(taken)
        /\ \A i \in 1 .. Len(queue) : queue[i] = pushed[Len(taken) + i]
        /\ \A i \in 1 .. Len(taken) : taken[i] = pushed[i]
    BY <2>a DEF IInv, Flow
  <2>2. ASSUME NEW i \in 1 .. Len(taken') PROVE taken'[i] = pushed[i]
    <3>1. CASE i = Len(taken) + 1
      BY <1>3, <1>4, <3>1
    <3>2. CASE i \in 1 .. Len(taken)
      BY <1>3, <2>1, <3>2
    <3> QED
      BY <1>3, <3>1, <3>2
  <2>3. Len(taken') - 1 = Len(taken)
    BY <1>3
  <2>4. /\ Len(taken') <= Len(pushed) /\ Len(queue) = Len(pushed) - Len(taken') + 1
        /\ 1 <= Len(taken')
    BY <1>3, <1>4, <2>1
  <2>5. \A i \in 1 .. Len(queue) : queue[i] = pushed[Len(taken') - 1 + i]
    BY <2>1, <2>3
  <2> QED
    BY <1>1, <1>2, <2>2, <2>4, <2>5 DEF Flow
<1>6. Pushed' /\ Ran'
  BY <1>1 DEF IInv, Pushed, Ran
<1>7. Adds'
  <2>1. \A u \in Threads : Adding(u)' <=> Adding(u)
    BY <1>1 DEF Adding
  <2> QED
    BY <1>1, <2>1 DEF IInv, Adds
<1>8. Waits'
  BY <1>1, <1>3 DEF IInv, Waits
<1>9. Holds'
  <2>1. \A v \in Workers : Holding(v)' <=> Holding(v) \/ v = w
    BY <1>1 DEF Holding
  <2>2. \A v \in Workers : v # w => held'[v] = held[v]
    BY <1>a
  <2>3. held'[w] = pushed[Len(taken) + 1]
    BY <1>a, <1>4
  <2>4. \A v \in Workers : Holding(v) => held[v] # pushed[Len(taken) + 1]
    BY <1>3, <1>4 DEF IInv, Holds, Pushed
  <2>5. \A i \in 1 .. Len(ran) : ran[i] # pushed[Len(taken) + 1]
    BY <1>3, <1>4 DEF IInv, Waits
  <2>6. ~Holding(w)
    BY <1>1 DEF Holding
  <2>7. ASSUME NEW v \in Workers, Holding(v)'
        PROVE  \E i \in 1 .. Len(taken') : held'[v] = pushed'[i]
    BY <1>1, <1>3, <2>1, <2>2, <2>3, <2>7 DEF IInv, Holds
  <2>8. ASSUME NEW v \in Workers, Holding(v)'
        PROVE  \A i \in 1 .. Len(ran') : ran'[i] # held'[v]
    BY <1>1, <2>1, <2>2, <2>3, <2>5, <2>8 DEF IInv, Holds
  <2>9. ASSUME NEW v \in Workers, NEW u \in Workers, Holding(v)', Holding(u)', held'[u] = held'[v]
        PROVE  u = v
    BY <2>1, <2>2, <2>3, <2>4, <2>9 DEF IInv, Holds
  <2> QED
    BY <2>7, <2>8, <2>9 DEF Holds
<1> QED
  BY <1>0, <1>5, <1>6, <1>7, <1>8, <1>9 DEF IInv

\* take(): pop_front, and unlock.
LEMMA PopStep ==
  ASSUME IInv, Next, NEW w \in Workers, pop_front(w)
  PROVE  IInv'
<1> USE DEF Threads, Goes
<1>0. TypeOK' /\ Mutex' /\ Unborn' /\ Nobody \notin Threads
  BY TypeStep, MutexStep, UnbornStep, PoolAssumption DEF Nobody
<1>1. /\ mutex = w /\ mutex' = Nobody /\ pc[w] = "pop"
      /\ UNCHANGED <<pushed, taken, ran, held, adding, added>>
      /\ pc'[w] = "call" /\ \A u \in Threads : u # w => pc'[u] = pc[u]
  BY OneGoes DEF IInv, Mutex, Critical, pop_front
<1>2. Popping = 1 /\ Popping' = 0
  BY <1>0, <1>1 DEF Popping
<1>3. /\ Len(pushed) \in Nat /\ Len(queue) \in Nat /\ Len(taken) \in Nat
  BY DEF IInv, TypeOK
<1>4. Len(queue) > 0
  BY <1>2, <1>3 DEF IInv, Flow
<1>5. Len(queue') = Len(queue) - 1 /\ \A i \in 1 .. Len(queue) - 1 : queue'[i] = queue[i + 1]
  BY <1>4 DEF pop_front, IInv, TypeOK
<1>6. Flow'
  BY <1>1, <1>2, <1>3, <1>5 DEF IInv, Flow
<1>7. \A u \in Threads : (Adding(u)' <=> Adding(u)) /\ (Holding(u)' <=> Holding(u))
  BY <1>1 DEF Adding, Holding
<1>8. Pushed' /\ Waits' /\ Ran'
  BY <1>1 DEF IInv, Pushed, Waits, Ran
<1>9. Adds' /\ Holds'
  BY <1>1, <1>7 DEF IInv, Adds, Holds
<1> QED
  BY <1>0, <1>6, <1>8, <1>9 DEF IInv

\* if (cb) cb(): the task is begun, if there is one to begin.
LEMMA CallStep ==
  ASSUME IInv, Next, NEW w \in Workers, callTask(w)
  PROVE  IInv'
<1> USE DEF Threads
<1>0. TypeOK /\ TypeOK' /\ Mutex /\ Mutex' /\ Unborn'
  BY TypeStep, MutexStep, UnbornStep DEF IInv
<1>1. /\ pc[w] = "call" /\ Holding(w) /\ UNCHANGED <<queue, pushed, taken, adding, added, mutex>>
      /\ pc'[w] \in {"take", "running"}
      /\ \A u \in Threads : u # w => pc'[u] = pc[u] /\ held'[u] = held[u]
  BY <1>0, OneGoes DEF callTask, Holding, Goes, TypeOK
<1>2. ran' = ran \/ ran' = Append(ran, held[w])
  BY DEF callTask
<1>3. held[w] \in Tasks
  BY <1>1, AreTasks
<1>4. /\ Len(ran) \in Nat /\ Len(ran') \in {Len(ran), Len(ran) + 1}
      /\ \A i \in 1 .. Len(ran) : ran'[i] = ran[i]
      /\ \A i \in 1 .. Len(ran') : i \in 1 .. Len(ran) \/ (i = Len(ran) + 1 /\ ran'[i] = held[w])
  <2>1. ran \in Seq(Tasks)
    BY <1>0 DEF TypeOK
  <2>2. CASE ran' = ran
    BY <2>1, <2>2
  <2>3. CASE ran' = Append(ran, held[w])
    BY <1>3, <2>1, <2>3
  <2> QED
    BY <1>2, <2>2, <2>3
<1>5. \A u \in Threads : /\ Adding(u)' => Adding(u)
                         /\ Holding(u)' => Holding(u) /\ u # w
  BY <1>1 DEF Adding, Holding
<1>6. PICK n \in 1 .. Len(taken) : held[w] = pushed[n]
  BY <1>1 DEF IInv, Holds
<1>7. Len(taken) \in Nat /\ Len(pushed) \in Nat /\ Len(taken) <= Len(pushed)
  BY DEF IInv, TypeOK, Flow
<1>8. Flow' /\ Pushed'
  <2>1. Popping' = Popping
    BY <1>0, <1>1 DEF Popping, Mutex, Critical
  <2> QED
    BY <1>1, <2>1 DEF IInv, Flow, Pushed
<1>9. Adds'
  <2> SUFFICES ASSUME NEW u \in Threads, Adding(u)'
               PROVE  /\ adding[u] \in added
                      /\ \A i \in 1 .. Len(pushed) : pushed[i] # adding[u]
                      /\ \A i \in 1 .. Len(ran') : ran'[i] # adding[u]
                      /\ \A v \in Threads : Adding(v)' /\ adding[v] = adding[u] => v = u
    BY <1>1 DEF Adds
  <2>1. held[w] # adding[u]
    BY <1>5, <1>6, <1>7 DEF IInv, Adds
  <2> QED
    BY <1>4, <1>5, <2>1 DEF IInv, Adds
<1>10. Waits'
  <2> SUFFICES ASSUME NEW i \in Len(taken) + 1 .. Len(pushed), NEW j \in 1 .. Len(ran')
               PROVE  ran'[j] # pushed[i]
    BY <1>1 DEF Waits
  <2>1. held[w] # pushed[i]
    BY <1>6, <1>7 DEF IInv, Pushed
  <2> QED
    BY <1>4, <2>1 DEF IInv, Waits
<1>11. Holds'
  <2> SUFFICES ASSUME NEW v \in Workers, Holding(v)'
               PROVE  /\ \E i \in 1 .. Len(taken) : held'[v] = pushed[i]
                      /\ \A i \in 1 .. Len(ran') : ran'[i] # held'[v]
                      /\ \A u \in Workers : Holding(u)' /\ held'[u] = held'[v] => u = v
    BY <1>1 DEF Holds
  <2>1. \A u \in Workers : Holding(u)' => Holding(u) /\ u # w /\ held'[u] = held[u]
    BY <1>1, <1>5
  <2>2. held[w] # held[v]
    BY <1>1, <2>1 DEF IInv, Holds
  <2> QED
    BY <1>4, <2>1, <2>2 DEF IInv, Holds
<1>12. Ran'
  <2>1. held[w] \in added /\ \A i \in 1 .. Len(ran) : ran[i] # held[w]
    BY <1>1, <1>6, <1>7 DEF IInv, Holds, Pushed
  <2>2. /\ \A i \in 1 .. Len(ran) : ran[i] \in added
        /\ \A i, j \in 1 .. Len(ran) : ran[i] = ran[j] => i = j
    BY DEF IInv, Ran
  <2>3. added' = added
    BY <1>1
  <2> QED
    BY ONLY <1>4, <2>1, <2>2, <2>3 DEF Ran
<1> QED
  BY <1>0, <1>8, <1>9, <1>10, <1>11, <1>12 DEF IInv

\* cb() returns.
LEMMA ReturnStep ==
  ASSUME IInv, Next, NEW w \in Workers, taskReturns(w)
  PROVE  IInv'
<1> USE DEF Threads
<1>0. TypeOK /\ TypeOK' /\ Mutex /\ Mutex' /\ Unborn'
  BY TypeStep, MutexStep, UnbornStep DEF IInv
<1>1. /\ pc[w] = "running" /\ UNCHANGED <<queue, pushed, taken, ran, adding, added, mutex>>
      /\ pc'[w] = "take"
      /\ \A u \in Threads : u # w => pc'[u] = pc[u] /\ held'[u] = held[u]
  BY <1>0, OneGoes DEF taskReturns, TypeOK
<1>2. Popping' = Popping
  BY <1>0, <1>1 DEF Popping, Mutex, Critical
<1>3. Flow' /\ Pushed' /\ Waits' /\ Ran'
  BY <1>1, <1>2 DEF IInv, Flow, Pushed, Waits, Ran
<1>4. \A u \in Threads : /\ Adding(u)' => Adding(u)
                         /\ Holding(u)' => Holding(u) /\ u # w
  BY <1>1 DEF Adding, Holding
<1>5. Adds'
  BY <1>1, <1>4 DEF IInv, Adds
<1>6. Holds'
  <2>1. \A u \in Workers : Holding(u)' => Holding(u) /\ held'[u] = held[u]
    BY <1>1, <1>4
  <2> QED
    BY <1>1, <2>1 DEF IInv, Holds
<1> QED
  BY <1>0, <1>3, <1>5, <1>6 DEF IInv

\* addTask, when there are threads.
LEMMA AddStep ==
  ASSUME IInv, Next, NEW t \in Threads, NEW task \in Tasks, addTask(t, task)
  PROVE  IInv'
<1> USE DEF Threads
<1>0. TypeOK /\ TypeOK' /\ Mutex /\ Mutex' /\ Unborn'
  BY TypeStep, MutexStep, UnbornStep DEF IInv
<1>1. /\ pc[t] \in {"idle", "running"} /\ task \notin added /\ added' = added \cup {task}
      /\ UNCHANGED <<queue, pushed, taken, ran, held, mutex>>
      /\ pc'[t] = "put" /\ adding'[t] = task
      /\ \A u \in Threads : u # t => pc'[u] = pc[u] /\ adding'[u] = adding[u]
  BY <1>0, OneGoes DEF addTask, MayAdd, TypeOK
<1>2. Popping' = Popping
  BY <1>0, <1>1 DEF Popping, Mutex, Critical
<1>3. Flow' /\ Pushed' /\ Waits' /\ Ran'
  BY <1>1, <1>2 DEF IInv, Flow, Pushed, Waits, Ran
<1>4. \A u \in Threads : /\ Adding(u)' => u = t \/ Adding(u)
                         /\ Holding(u)' => Holding(u)
  BY <1>1 DEF Adding, Holding
<1>5. Holds'
  BY <1>1, <1>4 DEF IInv, Holds
<1>6. Adds'
  <2> SUFFICES ASSUME NEW u \in Threads, Adding(u)'
               PROVE  /\ adding'[u] \in added'
                      /\ \A i \in 1 .. Len(pushed) : pushed[i] # adding'[u]
                      /\ \A i \in 1 .. Len(ran) : ran[i] # adding'[u]
                      /\ \A v \in Threads : Adding(v)' /\ adding'[v] = adding'[u] => v = u
    BY <1>1 DEF Adds
  <2>1. \A v \in Threads : Adding(v)' /\ v # t => Adding(v) /\ adding'[v] = adding[v] /\ adding[v] # task
    BY <1>1, <1>4 DEF IInv, Adds
  <2>2. CASE u = t
    BY <1>1, <2>1, <2>2 DEF IInv, Pushed, Ran
  <2>3. CASE u # t
    BY <1>1, <2>1, <2>3 DEF IInv, Adds
  <2> QED
    BY <2>2, <2>3
<1> QED
  BY <1>0, <1>3, <1>5, <1>6 DEF IInv

\* addTask, when there are none: the caller runs the task.
LEMMA DirectStep ==
  ASSUME IInv, Next, NEW t \in Threads, NEW task \in Tasks, addTaskDirect(t, task)
  PROVE  IInv'
<1> USE DEF Threads
<1>0. TypeOK /\ TypeOK' /\ Mutex' /\ Unborn'
  BY TypeStep, MutexStep, UnbornStep DEF IInv
<1>1. /\ task \notin added /\ added' = added \cup {task}
      /\ UNCHANGED <<pc, queue, pushed, taken, held, adding, mutex>>
      /\ ran' = ran \/ ran' = Append(ran, task)
  BY DEF addTaskDirect
<1>2. /\ Len(ran) \in Nat /\ \A i \in 1 .. Len(ran) : ran'[i] = ran[i]
      /\ \A i \in 1 .. Len(ran') : i \in 1 .. Len(ran) \/ (i = Len(ran) + 1 /\ ran'[i] = task)
  <2>1. ran \in Seq(Tasks)
    BY <1>0 DEF TypeOK
  <2>2. CASE ran' = ran
    BY <2>1, <2>2
  <2>3. CASE ran' = Append(ran, task)
    BY <2>1, <2>3
  <2> QED
    BY <1>1, <2>2, <2>3
<1>3. Popping' = Popping /\ \A u \in Threads : (Adding(u)' <=> Adding(u)) /\ (Holding(u)' <=> Holding(u))
  BY <1>1 DEF Popping, Adding, Holding
<1>4. Flow' /\ Pushed'
  BY <1>1, <1>3 DEF IInv, Flow, Pushed
<1>5. \A i \in 1 .. Len(pushed) : pushed[i] # task
  BY <1>1 DEF IInv, Pushed
<1>6. Waits'
  <2>1. Len(taken) \in Nat /\ Len(pushed) \in Nat
    BY <1>0 DEF TypeOK
  <2> SUFFICES ASSUME NEW i \in Len(taken) + 1 .. Len(pushed), NEW j \in 1 .. Len(ran')
               PROVE  ran'[j] # pushed[i]
    BY <1>1 DEF Waits
  <2> QED
    BY <1>2, <1>5, <2>1 DEF IInv, Waits
<1>7. Adds'
  <2>1. \A u \in Threads : Adding(u) => adding[u] # task
    BY <1>1 DEF IInv, Adds
  <2> QED
    BY <1>1, <1>2, <1>3, <2>1 DEF IInv, Adds
<1>8. Holds'
  <2>1. Len(taken) \in Nat /\ Len(pushed) \in Nat /\ Len(taken) <= Len(pushed)
    BY <1>0 DEF TypeOK, IInv, Flow
  <2>2. \A w \in Workers : Holding(w) => held[w] # task
    BY <1>5, <2>1 DEF IInv, Holds
  <2> QED
    BY <1>1, <1>2, <1>3, <2>2 DEF IInv, Holds
<1>9. Ran'
  BY <1>1, <1>2 DEF IInv, Ran
<1> QED
  BY <1>0, <1>4, <1>6, <1>7, <1>8, <1>9 DEF IInv

LEMMA StepInv == IInv /\ [Next]_vars => IInv'
<1> SUFFICES ASSUME IInv, [Next]_vars PROVE IInv'
  OBVIOUS
<1>1. CASE UNCHANGED vars
  BY <1>1 DEF vars, IInv, TypeOK, Unborn, Mutex, Flow, Popping, Pushed, Adds, Adding, Waits, Holds,
     Holding, Ran
<1>2. CASE Next
  BY <1>2, QuietSteps, PushStep, NotifyStep, FrontStep, PopStep, CallStep, ReturnStep, AddStep,
     DirectStep DEF Next, runInThread, take, put
<1> QED
  BY <1>1, <1>2

-----------------------------------------------------------------------------
THEOREM Invariance == Spec => []IInv
  BY InitInv, StepInv, PTL DEF Spec

\* The pool keeps to its types; no worker pops an empty queue
\* (BlockingQueue.h:35).
THEOREM TypeCorrect == Spec => []TypeOK
<1>1. IInv => TypeOK
  BY DEF IInv
<1> QED
  BY <1>1, Invariance, PTL

\* Tasks are taken in the order in which they were put, by however many
\* workers (BlockingQueue.h:39).
THEOREM InOrder == Spec => []TakenInOrder
<1>1. IInv => TakenInOrder
  <2> SUFFICES ASSUME IInv PROVE TakenInOrder
    OBVIOUS
  <2>1. DOMAIN taken = 1 .. Len(taken) /\ DOMAIN pushed = 1 .. Len(pushed)
    BY DEF IInv, TypeOK
  <2>2. Len(taken) \in Nat /\ Len(pushed) \in Nat /\ Len(taken) <= Len(pushed)
    BY DEF IInv, TypeOK, Flow
  <2>3. \A i \in 1 .. Len(taken) : taken[i] = pushed[i]
    BY DEF IInv, Flow
  <2> QED
    BY <2>1, <2>2, <2>3 DEF TakenInOrder
<1> QED
  BY <1>1, Invariance, PTL

\* No task is run twice, and none that was not added (ThreadPool.h:49).
THEOREM Once == Spec => []RunOnce
<1>1. IInv => RunOnce
  BY DEF IInv, TypeOK, Ran, RunOnce
<1> QED
  BY <1>1, Invariance, PTL

\* The queue of the pool skips, repeats and reorders no task, for any number
\* of workers, callers and tasks and however the threads interleave.
THEOREM QueueIsFaithful == Spec => []OnceInOrder
BY InOrder, Once, PTL DEF OnceInOrder

-----------------------------------------------------------------------------
(***************************************************************************)
(* No worker sleeps while there is work.  Each step that takes a thread    *)
(* out of those that serve the queue is matched by a task that goes or by  *)
(* a thread that comes: notify wakes a waiting worker as its own thread    *)
(* leaves, front makes a server a popper, pop_front takes a task with the  *)
(* popper, and a worker goes to sleep only on an empty queue.              *)
(***************************************************************************)
Poppers == {w \in Workers : pc[w] = "pop"}

\* A thread joins or leaves a finite set of threads.
LEMMA Counting ==
  ASSUME NEW S, S \subseteq Threads, NEW t
  PROVE  /\ IsFiniteSet(S) /\ Cardinality(S) \in Nat
         /\ t \notin S => Cardinality(S \cup {t}) = Cardinality(S) + 1
         /\ t \in S => Cardinality(S \ {t}) = Cardinality(S) - 1
<1>1. IsFiniteSet(S)
  BY PoolAssumption, FS_Subset DEF Threads
<1> QED
  BY <1>1, FS_CardinalityType, FS_AddElement, FS_RemoveElement

LEMMA ServingStep ==
  ASSUME IInv, NoneSleepsOverWork, [Next]_vars
  PROVE  NoneSleepsOverWork'
<1> DEFINE S == Cardinality(Serving)
           P == Cardinality(Poppers)
           Busy == {"take", "woken", "check", "notify"}
<1>0. /\ TypeOK /\ Serving \subseteq Threads /\ Poppers \subseteq Threads
      /\ S \in Nat /\ P \in Nat /\ Len(queue) \in Nat
  <2>1. TypeOK /\ Len(queue) \in Nat
    BY DEF IInv, TypeOK
  <2>2. Serving \subseteq Threads /\ Poppers \subseteq Threads
    BY DEF Serving, Poppers, Threads
  <2> QED
    BY <2>1, <2>2, Counting
<1>a. NoneSleepsOverWork <=> (Waiting # {} => Len(queue) <= S + P)
  BY DEF NoneSleepsOverWork, Poppers
<1>b. NoneSleepsOverWork' <=> (Waiting' # {} => Len(queue') <= S' + P')
  BY DEF NoneSleepsOverWork, Poppers
\* A thread moves, and no other: what that does to the counts.
<1>m. ASSUME NEW t \in Threads, NEW x, Goes(t, x)
      PROVE  /\ S' = S + (IF x \in Busy THEN 1 ELSE 0) - (IF pc[t] \in Busy THEN 1 ELSE 0)
             /\ t \in Workers =>
                   P' = P + (IF x = "pop" THEN 1 ELSE 0) - (IF pc[t] = "pop" THEN 1 ELSE 0)
             /\ t \notin Workers \/ (x # "pop" /\ pc[t] # "pop") => P' = P
             /\ x # "waiting" => Waiting' \subseteq Waiting
  <2>1. pc'[t] = x /\ \A u \in Threads : u # t => pc'[u] = pc[u]
    BY <1>0, <1>m, OneGoes
  <2>2. S' = S + (IF x \in Busy THEN 1 ELSE 0) - (IF pc[t] \in Busy THEN 1 ELSE 0)
    <3>1. CASE (x \in Busy) <=> (pc[t] \in Busy)
      <4>1. Serving' = Serving
        BY <2>1, <3>1 DEF Serving
      <4> QED
        BY <1>0, <3>1, <4>1
    <3>2. CASE x \in Busy /\ pc[t] \notin Busy
      <4>1. Serving' = Serving \cup {t} /\ t \notin Serving
        BY <2>1, <3>2 DEF Serving
      <4> QED
        BY <1>0, <3>2, <4>1, Counting
    <3>3. CASE x \notin Busy /\ pc[t] \in Busy
      <4>1. Serving' = Serving \ {t} /\ t \in Serving
        BY <2>1, <3>3 DEF Serving
      <4> QED
        BY <1>0, <3>3, <4>1, Counting
    <3> QED
      BY <3>1, <3>2, <3>3
  <2>3. ASSUME t \notin Workers \/ (x # "pop" /\ pc[t] # "pop")
        PROVE  P' = P
    <3>1. Poppers' = Poppers
      BY <2>1, <2>3 DEF Poppers, Threads
    <3> QED
      BY <3>1
  <2>4. ASSUME t \in Workers
        PROVE  P' = P + (IF x = "pop" THEN 1 ELSE 0) - (IF pc[t] = "pop" THEN 1 ELSE 0)
    <3>1. CASE (x = "pop") <=> (pc[t] = "pop")
      <4>1. Poppers' = Poppers
        BY <2>1, <3>1 DEF Poppers, Threads
      <4> QED
        BY <1>0, <3>1, <4>1
    <3>2. CASE x = "pop" /\ pc[t] # "pop"
      <4>1. Poppers' = Poppers \cup {t} /\ t \notin Poppers
        BY <2>1, <2>4, <3>2 DEF Poppers, Threads
      <4> QED
        BY <1>0, <3>2, <4>1, Counting
    <3>3. CASE x # "pop" /\ pc[t] = "pop"
      <4>1. Poppers' = Poppers \ {t} /\ t \in Poppers
        BY <2>1, <2>4, <3>3 DEF Poppers, Threads
      <4> QED
        BY <1>0, <3>3, <4>1, Counting
    <3> QED
      BY <3>1, <3>2, <3>3
  <2>5. x # "waiting" => Waiting' \subseteq Waiting
    BY <2>1 DEF Waiting, Threads
  <2> QED
    BY <2>2, <2>3, <2>4, <2>5
<1> HIDE DEF S, P
\* The steps that leave the threads and the queue where they are.
<1>1. ASSUME UNCHANGED <<pc, queue>> PROVE NoneSleepsOverWork'
  BY <1>1 DEF NoneSleepsOverWork, Waiting, Serving
\* A thread comes to serve the queue, or neither comes nor leaves.
<1>2. ASSUME NEW t \in Threads, NEW x, Goes(t, x), UNCHANGED queue,
             x \notin {"waiting", "pop"}, pc[t] # "pop", pc[t] \in Busy => x \in Busy
      PROVE  NoneSleepsOverWork'
  BY <1>0, <1>2, <1>a, <1>b, <1>m
<1>3. ASSUME NEW w \in Workers, startThread(w) PROVE NoneSleepsOverWork'
  <2>1. UNCHANGED queue /\ (Goes(w, "take") \/ UNCHANGED pc) /\ pc[w] # "pop"
    BY <1>3 DEF startThread, IInv, Unborn
  <2> QED
    BY <1>1, <1>2, <2>1 DEF Threads
<1>4. ASSUME NEW t \in Threads, NEW task \in Tasks, addTask(t, task)
      PROVE  NoneSleepsOverWork'
  <2>1. Goes(t, "put") /\ pc[t] \in {"idle", "running"} /\ UNCHANGED queue
    BY <1>4 DEF addTask, MayAdd
  <2> QED
    BY <1>2, <2>1
<1>5. ASSUME NEW t \in Threads, lock(t) PROVE NoneSleepsOverWork'
  <2>1. /\ pc[t] \in {"put", "take", "woken"} /\ UNCHANGED queue
        /\ Goes(t, IF pc[t] = "put" THEN "push" ELSE "check")
    BY <1>5 DEF lock, Locked
  <2> QED
    BY <1>2, <2>1
<1>6. ASSUME NEW t \in Threads, push_back(t) PROVE NoneSleepsOverWork'
  <2>1. /\ Goes(t, "notify") /\ pc[t] = "push" /\ queue' = Append(queue, adding[t])
    BY <1>6 DEF push_back
  <2>2. Len(queue') = Len(queue) + 1
    BY <1>0, <2>1, AreTasks DEF TypeOK, Adding
  <2>3. S' = S + 1 /\ P' = P /\ Waiting' \subseteq Waiting
    BY <1>0, <1>m, <2>1
  <2> QED
    BY <1>0, <1>a, <1>b, <2>2, <2>3
<1>7. ASSUME NEW t \in Threads, notify(t) PROVE NoneSleepsOverWork'
  <2>0. pc[t] = "notify" /\ UNCHANGED queue
    BY <1>7 DEF notify
  <2>1. CASE Waiting = {}
    <3>1. Goes(t, After(t))
      BY <1>7, <2>1 DEF notify
    <3>2. Waiting' = {}
      BY <1>m, <2>1, <3>1 DEF After
    <3> QED
      BY <1>b, <3>2
  <2>2. CASE Waiting # {}
    <3>1. PICK w \in Waiting : pc' = [pc EXCEPT ![w] = "woken", ![t] = After(t)]
      BY <1>7, <2>2 DEF notify
    <3>2. w \in Threads /\ w # t /\ pc[w] = "waiting" /\ t \in Serving /\ w \notin Serving
      BY <2>0 DEF Waiting, Serving, Threads
    <3>3. /\ pc'[w] = "woken" /\ pc'[t] = After(t)
          /\ \A u \in Threads : u # w /\ u # t => pc'[u] = pc[u]
      BY <1>0, <3>1, <3>2 DEF TypeOK
    <3>4. Serving' = (Serving \ {t}) \cup {w}
      BY <3>2, <3>3 DEF Serving, After
    <3>5. S' = S
      <4> DEFINE Rest == Serving \ {t}
      <4>1. Rest \subseteq Threads /\ w \notin Rest
        BY <1>0, <3>2
      <4>2. Cardinality(Rest) = S - 1
        BY <1>0, <3>2, Counting DEF S
      <4>3. Cardinality(Rest \cup {w}) = Cardinality(Rest) + 1
        BY <4>1, Counting
      <4>4. Cardinality(Rest \cup {w}) = S
        BY <1>0, <4>2, <4>3
      <4> QED
        BY <3>4, <4>4 DEF S
    <3>6. Poppers' = Poppers
      BY <2>0, <3>2, <3>3 DEF Poppers, Threads, After
    <3> QED
      BY <1>a, <1>b, <2>0, <2>2, <3>5, <3>6 DEF P
  <2> QED
    BY <2>1, <2>2
<1>8. ASSUME NEW w \in Workers, wait(w) PROVE NoneSleepsOverWork'
  <2>1. Len(queue') = 0
    <3>1. queue' = << >>
      BY <1>8 DEF wait
    <3> QED
      BY <3>1
  <2>2. S' \in Nat /\ P' \in Nat
    <3>1. Serving' \subseteq Threads /\ Poppers' \subseteq Threads
      BY DEF Serving, Poppers, Threads
    <3> QED
      BY <3>1, Counting DEF S, P
  <2>3. Len(queue') <= S' + P'
    <3>1. \A a, b \in Nat : 0 <= a + b
      OBVIOUS
    <3> QED
      BY <2>1, <2>2, <3>1, Zenon
  <2> QED
    BY <1>b, <2>3
<1>9. ASSUME NEW w \in Workers, wakesForNothing(w) PROVE NoneSleepsOverWork'
  BY <1>2, <1>9 DEF wakesForNothing, Threads
<1>10. ASSUME NEW w \in Workers, front(w) PROVE NoneSleepsOverWork'
  <2>1. Goes(w, "pop") /\ pc[w] = "check" /\ UNCHANGED queue /\ w \in Threads
    BY <1>10 DEF front, Threads
  <2>2. S' = S - 1 /\ P' = P + 1 /\ Waiting' \subseteq Waiting
    BY <1>0, <1>m, <2>1
  <2> QED
    BY <1>0, <1>a, <1>b, <2>1, <2>2
<1>11. ASSUME NEW w \in Workers, pop_front(w) PROVE NoneSleepsOverWork'
  <2>1. Goes(w, "call") /\ pc[w] = "pop" /\ queue' = Tail(queue) /\ w \in Threads
    BY <1>11 DEF pop_front, Threads
  <2>2. S' = S /\ P' = P - 1 /\ Waiting' \subseteq Waiting
    BY <1>0, <1>m, <2>1
  <2>3. Len(queue') = Len(queue) - 1
    <3>1. queue # << >>
      BY <1>11 DEF IInv, Mutex, Flow, Popping, Critical, pop_front, TypeOK, Threads
    <3> QED
      BY <1>0, <2>1, <3>1 DEF TypeOK
  <2> QED
    BY <1>0, <1>a, <1>b, <2>2, <2>3
<1>12. ASSUME NEW w \in Workers, callTask(w) \/ taskReturns(w) PROVE NoneSleepsOverWork'
  <2>1. UNCHANGED queue /\ pc[w] \in {"call", "running"} /\ (Goes(w, "take") \/ Goes(w, "running"))
    BY <1>12 DEF callTask, taskReturns
  <2> QED
    BY <1>2, <2>1 DEF Threads
<1> QED
  BY <1>1, <1>3, <1>4, <1>5, <1>6, <1>7, <1>8, <1>9, <1>10, <1>11, <1>12
  DEF Next, runInThread, take, put, startReturns, addTaskDirect, vars

\* No worker waits while there are more tasks than threads about to take
\* one, for any number of workers and callers, spurious wakeups included
\* (BlockingQueue.h:21, 35).
THEOREM NoneSleeps == Spec => []NoneSleepsOverWork
<1>1. Init => NoneSleepsOverWork
  BY DEF Init, NoneSleepsOverWork, Waiting, Threads
<1> QED
  BY <1>1, ServingStep, Invariance, PTL DEF Spec
=============================================================================
