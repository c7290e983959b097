----------------------------- MODULE ThreadPool -----------------------------
(***************************************************************************)
(* ThreadPool: threads that take tasks from a BlockingQueue, which one     *)
(* MutexLock and one Condition guard.  Anybody adds tasks, a task that is  *)
(* being run too.  A thread of the pool may fail to be created: it is in   *)
(* _threads all the same.                                                  *)
(*                                                                         *)
(* pthread_cond_wait gives up the mutex and waits in one step, may return  *)
(* for no reason, and takes the mutex again before it returns.             *)
(***************************************************************************)
EXTENDS Integers, Sequences, FiniteSets

CONSTANTS Workers,      \* the threads of the pool
          Callers,      \* other threads of the program
          Tasks,        \* the functions they add
          Empty,        \* those that are empty std::functions
          NoTask,       \* no task
          CreateFails,  \* pthread_create may fail
          MaxSpurious   \* bound: waits that return for no reason

ASSUME PoolAssumption ==
    /\ Workers \cap Callers = {} /\ IsFiniteSet(Workers \cup Callers)
    /\ "nobody" \notin Workers \cup Callers
    /\ Empty \subseteq Tasks /\ NoTask \notin Tasks
    /\ CreateFails \in BOOLEAN /\ MaxSpurious \in Nat

VARIABLES phase,        \* "new", and "ready" when start() has returned
          threads,      \* _threads
          pc,           \* where each thread is
          held,         \* the task each thread has in its hand
          adding,       \* the task each thread is adding
          mutex,        \* who holds _mutex
          queue,        \* _queue
          added,        \* tasks somebody has started to add
          pushed,       \* history: tasks in the order they were pushed
          taken,        \* history: tasks in the order they were taken
          ran,          \* history: tasks in the order they were begun
          spurious      \* waits that have returned for no reason

vars == <<phase, threads, pc, held, adding, mutex, queue, added, pushed, taken, ran, spurious>>

Threads == Workers \cup Callers
Nobody == "nobody"

Init ==
    /\ phase = "new" /\ threads = {}
    /\ pc = [t \in Threads |-> IF t \in Workers THEN "none" ELSE "idle"]
    /\ held = [t \in Threads |-> NoTask] /\ adding = [t \in Threads |-> NoTask]
    /\ mutex = Nobody /\ queue = << >> /\ added = {}
    /\ pushed = << >> /\ taken = << >> /\ ran = << >> /\ spurious = 0

Goes(t, to) == pc' = [pc EXCEPT ![t] = to]

-----------------------------------------------------------------------------
(* start(), on the thread that owns the pool. *)

\* new Thread and Thread::start; when pthread_create fails nothing runs.
startThread(w) ==
    /\ phase = "new" /\ w \notin threads
    /\ threads' = threads \cup {w}
    /\ Goes(w, "take") \/ (CreateFails /\ UNCHANGED pc)
    /\ UNCHANGED <<phase, held, adding, mutex, queue, added, pushed, taken, ran, spurious>>

startReturns ==
    /\ phase = "new" /\ phase' = "ready"
    /\ UNCHANGED <<threads, pc, held, adding, mutex, queue, added, pushed, taken, ran, spurious>>

-----------------------------------------------------------------------------
(* addTask and BlockingQueue::put. *)

\* A thread outside calls addTask, or a task that a worker runs does.
MayAdd(t) == pc[t] \in {"idle", "running"}
After(t) == IF t \in Workers THEN "running" ELSE "idle"

\* There are no threads: the caller runs the task.  (If the function is
\* empty, it gets an exception.)
addTaskDirect(t, task) ==
    /\ MayAdd(t) /\ task \notin added /\ phase = "ready" /\ threads = {}
    /\ added' = added \cup {task}
    /\ ran' = IF task \in Empty THEN ran ELSE Append(ran, task)
    /\ UNCHANGED <<phase, threads, pc, held, adding, mutex, queue, pushed, taken, spurious>>

addTask(t, task) ==
    /\ MayAdd(t) /\ task \notin added /\ phase = "ready" /\ threads # {}
    /\ added' = added \cup {task} /\ adding' = [adding EXCEPT ![t] = task]
    /\ Goes(t, "put")
    /\ UNCHANGED <<phase, threads, held, mutex, queue, pushed, taken, ran, spurious>>

\* MutexLockGuard in put() and take(), and the end of pthread_cond_wait.
Locked == [put |-> "push", take |-> "check", woken |-> "check"]
Bug_lock(t) ==
    /\ pc[t] \in DOMAIN Locked
    /\ mutex = Nobody \/ pc[t] = "woken"
    /\ mutex' = t /\ Goes(t, Locked[pc[t]])
    /\ UNCHANGED <<phase, threads, held, adding, queue, added, pushed, taken, ran, spurious>>

lock(t) ==
    /\ pc[t] \in DOMAIN Locked /\ mutex = Nobody
    /\ mutex' = t /\ Goes(t, Locked[pc[t]])
    /\ UNCHANGED <<phase, threads, held, adding, queue, added, pushed, taken, ran, spurious>>

push_back(t) ==
    /\ pc[t] = "push" /\ Goes(t, "notify")
    /\ queue' = Append(queue, adding[t]) /\ pushed' = Append(pushed, adding[t])
    /\ UNCHANGED <<phase, threads, held, adding, mutex, added, taken, ran, spurious>>

Waiting == {w \in Workers : pc[w] = "waiting"}

Bug_notify(t) ==
    /\ pc[t] = "notify" /\ mutex' = Nobody
    /\ IF Waiting # {} /\ Len(queue) = 1
       THEN \E w \in Waiting : pc' = [pc EXCEPT ![w] = "woken", ![t] = After(t)]
       ELSE Goes(t, After(t))
    /\ adding' = [adding EXCEPT ![t] = NoTask]
    /\ UNCHANGED <<phase, threads, held, queue, added, pushed, taken, ran, spurious>>

\* notify() wakes one thread that waits, if one does; put() unlocks.
notify(t) ==
    /\ pc[t] = "notify" /\ mutex' = Nobody
    /\ IF Waiting # {}
       THEN \E w \in Waiting : pc' = [pc EXCEPT ![w] = "woken", ![t] = After(t)]
       ELSE Goes(t, After(t))
    /\ adding' = [adding EXCEPT ![t] = NoTask]
    /\ UNCHANGED <<phase, threads, held, queue, added, pushed, taken, ran, spurious>>

-----------------------------------------------------------------------------
(* runInThread and BlockingQueue::take. *)

wait(w) ==
    /\ pc[w] = "check" /\ queue = << >>
    /\ mutex' = Nobody /\ Goes(w, "waiting")
    /\ UNCHANGED <<phase, threads, held, adding, queue, added, pushed, taken, ran, spurious>>

wakesForNothing(w) ==
    /\ pc[w] = "waiting" /\ spurious < MaxSpurious
    /\ spurious' = spurious + 1 /\ Goes(w, "woken")
    /\ UNCHANGED <<phase, threads, held, adding, mutex, queue, added, pushed, taken, ran>>

front(w) ==
    /\ pc[w] = "check" /\ queue # << >> /\ Goes(w, "pop")
    /\ held' = [held EXCEPT ![w] = Head(queue)] /\ taken' = Append(taken, Head(queue))
    /\ UNCHANGED <<phase, threads, adding, mutex, queue, added, pushed, ran, spurious>>

Bug_pop_front(w) ==
    /\ pc[w] = "pop" /\ Goes(w, "call")
    /\ queue' = Tail(queue)
    /\ UNCHANGED <<phase, threads, held, adding, mutex, added, pushed, taken, ran, spurious>>

pop_front(w) ==
    /\ pc[w] = "pop" /\ Goes(w, "call")
    /\ queue' = Tail(queue) /\ mutex' = Nobody
    /\ UNCHANGED <<phase, threads, held, adding, added, pushed, taken, ran, spurious>>

\* if (cb) cb();
callTask(w) ==
    /\ pc[w] = "call"
    /\ IF held[w] \in Empty
       THEN Goes(w, "take") /\ held' = [held EXCEPT ![w] = NoTask] /\ UNCHANGED ran
       ELSE Goes(w, "running") /\ ran' = Append(ran, held[w]) /\ UNCHANGED held
    /\ UNCHANGED <<phase, threads, adding, mutex, queue, added, pushed, taken, spurious>>

taskReturns(w) ==
    /\ pc[w] = "running"
    /\ Goes(w, "take") /\ held' = [held EXCEPT ![w] = NoTask]
    /\ UNCHANGED <<phase, threads, adding, mutex, queue, added, pushed, taken, ran, spurious>>

-----------------------------------------------------------------------------
put(t) == push_back(t) \/ notify(t)
take(w) == wait(w) \/ front(w) \/ pop_front(w)
runInThread(w) == take(w) \/ callTask(w) \/ taskReturns(w)

Next == \/ startReturns
        \/ \E w \in Workers : startThread(w) \/ runInThread(w) \/ wakesForNothing(w)
        \/ \E t \in Threads : \/ lock(t) \/ put(t)
                              \/ \E task \in Tasks : addTask(t, task) \/ addTaskDirect(t, task)

\* The threads run, get the mutex in the end, and tasks return.  Nobody has
\* to add a task.
Fairness == /\ \A t \in Threads : WF_vars(lock(t)) /\ WF_vars(put(t))
            /\ \A w \in Workers : WF_vars(runInThread(w))

Spec == Init /\ [][Next]_vars /\ Fairness

-----------------------------------------------------------------------------
(***************************************************************************)
(* Properties.                                                             *)
(***************************************************************************)
TypeOK ==
    /\ phase \in {"new", "ready"} /\ threads \subseteq Workers
    /\ pc \in [Threads -> {"none", "idle", "put", "push", "notify", "take", "check", "waiting",
                           "woken", "pop", "call", "running"}]
    /\ \A c \in Callers : pc[c] \in {"idle", "put", "push", "notify"}
    /\ held \in [Threads -> Tasks \cup {NoTask}] /\ adding \in [Threads -> Tasks \cup {NoTask}]
    /\ mutex \in Threads \cup {Nobody}
    /\ queue \in Seq(Tasks) /\ pushed \in Seq(Tasks) /\ taken \in Seq(Tasks)
    /\ added \subseteq Tasks /\ ran \in Seq(Tasks) /\ spurious \in Nat

\* put() wakes one thread for each task, and take() looks again: no thread
\* waits while there are more tasks than threads about to take one (or to be
\* woken by a put() that is not done).
Serving == {t \in Threads : pc[t] \in {"take", "woken", "check", "notify"}}
NoneSleepsOverWork ==
    Waiting # {} => Len(queue) <= Cardinality(Serving)
                                   + Cardinality({w \in Workers : pc[w] = "pop"})

\* No task is run twice, and none that was not added.
RunOnce ==
    \A i, j \in DOMAIN ran : /\ ran[i] \in added
                             /\ ran[i] = ran[j] => i = j

\* Tasks are taken in the order in which they were put.
TakenInOrder == \A i \in DOMAIN taken : i \in DOMAIN pushed /\ taken[i] = pushed[i]

\* The queue skips, repeats and reorders nothing, however put() and take()
\* of any threads overlap.
OnceInOrder == TakenInOrder /\ RunOnce

\* A task that was pushed is run, if a single thread of the pool was created.
Created == {w \in Workers : pc[w] # "none"}
TaskRuns ==
    \A task \in Tasks \ Empty :
        (\E i \in DOMAIN pushed : pushed[i] = task) /\ Created # {}
            ~> (\E i \in DOMAIN ran : ran[i] = task)
=============================================================================
