----------------------------- MODULE TimerQueue -----------------------------
(***************************************************************************)
(* The timers of one event loop.  A Timer is an object on the heap, known  *)
(* by its address; _pTimers holds the waiting ones in order of expiry, and *)
(* the timerfd is armed for the first.  When it fires, the due timers      *)
(* leave _pTimers as a batch, their callbacks run, and reset restarts the  *)
(* repeating ones and deletes the others.                                  *)
(*                                                                         *)
(* Times are counted from now, so that a Timer's _stamp is the time it has *)
(* left and never less than 0 once it is due.  A _stamp changes only while *)
(* its Timer is out of _pTimers (restart), so a set's entry is its         *)
(* address.  Of two timers both due, which comes first is left open.       *)
(***************************************************************************)
EXTENDS Integers, Sequences, FiniteSets

CONSTANTS OwnThread, Others,   \* the loop's thread, and the others that call
          Addresses,           \* where a Timer may be allocated
          Delays,              \* a first expiry, from the time of the call
          Intervals,           \* 0 is a timer that does not repeat
          MaxTimers,           \* bound: timers ever added
          MaxCancels           \* bound: calls of cancelTimer

ASSUME TimerAssumption ==
    /\ OwnThread \notin Others
    /\ Delays \subseteq Nat /\ Intervals \subseteq Nat
    /\ MaxTimers \in Nat /\ MaxCancels \in Nat

VARIABLES mem,       \* the Timer at each address, or what is left of one
          pTimers,   \* _pTimers
          fd,        \* the timerfd: time left, 0 when readable, or Off
          pc,        \* where loop() is
          polled,    \* the timerfd's channel is among the active ones
          batch,     \* handleRead's expired
          todo,      \* those of the batch whose callbacks have not run
          round,     \* how many functors doPendingFunctors swapped out
          functors,  \* _pendingFunctors that concern the timers
          added,     \* sequeue: the last _sequence given out
          ids,       \* history: the TimerIds returned
          cancels,   \* calls of cancelTimer so far
          dropped,   \* history: sequences of the Timers waiting where a cancel looked
          timerRunning, \* history: sequence of the timer whose callback runs
          done       \* history: sequences of timers that ran and do not repeat

queueVars    == <<mem, pTimers, fd, functors, added>>
timerLoop    == <<pc, polled, batch, todo, round, timerRunning>>
timerHistory == <<ids, cancels, dropped, done>>
timerVars    == <<queueVars, timerLoop, timerHistory>>

Off == -1
TimerUsers == Others \cup {OwnThread}
Seqs == 1 .. MaxTimers

TimerInit ==
    /\ mem = [a \in Addresses |-> [live |-> FALSE, seq |-> 0, left |-> 0, interval |-> 0]]
    /\ pTimers = {} /\ fd = Off
    /\ pc = "poll" /\ polled = FALSE /\ batch = {} /\ todo = {} /\ round = 0
    /\ timerRunning = 0
    /\ functors = << >> /\ added = 0
    /\ ids = {} /\ cancels = 0 /\ dropped = {} /\ done = {}

MayCall(th) == th \in Others \/ pc \in {"dispatch", "callback"}
Due == {a \in pTimers : mem[a].left = 0}
Earliest(m, s) == CHOOSE n \in {m[a].left : a \in s} : \A a \in s : n <= m[a].left

\* howMuchTimeFromNow: at least a little, even for a time already past.
MaxOf(m, n) == IF m < n THEN n ELSE m
ArmedFor(left) == MaxOf(left, 1)

-----------------------------------------------------------------------------
(***************************************************************************)
(* addTimerInLoop and cancelInLoop, run at once on the loop's thread and   *)
(* as a functor for the others; m is the memory they see.                  *)
(***************************************************************************)
BecomesEarliest(m, a) == \A b \in pTimers : m[a].left < m[b].left \/ m[a].left = 0

\* insert() says whether a is now the earliest, and the timerfd is set if so.
addTimerInLoop(m, a) ==
    /\ pTimers' = pTimers \cup {a}
    /\ \/ /\ BecomesEarliest(m, a)
          /\ fd' = ArmedFor(m[a].left)
       \/ /\ \E b \in pTimers : m[b].left <= m[a].left
          /\ UNCHANGED fd

\* What a TimerId leads to: the Timer that waits at its address, or none.  The
\* id's sequence is not read.  The entry looked up is the address with the
\* _stamp found there (TimerQueue.cc:37), in freed memory if the Timer is gone;
\* whatever is read, only the entry of a Timer that waits at that very address
\* can match.  So an id finds nothing when its Timer is in the batch, not yet
\* inserted or gone, and it finds another's if that one now waits there.
Found(id) == {id.addr} \cap pTimers

Bug_deletesUnfound(id) ==
    /\ pTimers' = pTimers \ Found(id)
    /\ mem' = [mem EXCEPT ![id.addr].live = FALSE]
    /\ dropped' = dropped \cup {mem[id.addr].seq}

Bug_neverFinds(id) ==
    /\ dropped' = dropped \cup {mem[a].seq : a \in Found(id)}
    /\ UNCHANGED <<pTimers, mem>>

\* The code deletes it->second after _pTimers.erase(it), through an iterator
\* to a freed node (TimerQueue.cc:41-42), which the language leaves undefined.
\* Modelled is what the build does: the allocator overwrites the first two
\* words of a freed node and the pair comes after four, so what is deleted is
\* the Timer that was found.
cancelInLoop(id) ==
    /\ pTimers' = pTimers \ Found(id)
    /\ mem' = [a \in Addresses |-> IF a \in Found(id) THEN [mem[a] EXCEPT !.live = FALSE]
                                   ELSE mem[a]]
    /\ dropped' = dropped \cup {mem[a].seq : a \in Found(id)}

-----------------------------------------------------------------------------
(* The calls: runAt, runAfter, runEvery and cancelTimer. *)

addTimer(th, delay, interval) ==
    /\ MayCall(th) /\ added < MaxTimers
    /\ added' = added + 1
    /\ \E a \in Addresses :
          /\ ~mem[a].live
          /\ mem' = [mem EXCEPT ![a] = [live |-> TRUE, seq |-> added + 1,
                                        left |-> delay, interval |-> interval]]
          /\ ids' = ids \cup {[addr |-> a, seq |-> added + 1]}
          /\ IF th = OwnThread
             THEN addTimerInLoop(mem', a) /\ UNCHANGED functors
             ELSE /\ functors' = Append(functors, [op |-> "add", addr |-> a])
                  /\ UNCHANGED <<pTimers, fd>>
    /\ UNCHANGED <<timerLoop, cancels, dropped, done>>

\* Any id, at any time: from the timer's own callback or one of the same batch,
\* twice, or when the timer is gone (TimeQueueTest.cc:51).
cancelTimer(th, id) ==
    /\ MayCall(th) /\ cancels < MaxCancels
    /\ cancels' = cancels + 1
    /\ IF th = OwnThread
       THEN cancelInLoop(id) /\ UNCHANGED functors
       ELSE /\ functors' = Append(functors, [op |-> "cancel", id |-> id])
            /\ UNCHANGED <<mem, pTimers, dropped>>
    /\ UNCHANGED <<fd, added, timerLoop, ids, done>>

-----------------------------------------------------------------------------
(* The loop. *)

\* ::epoll_wait returns for the timerfd or for the wakeup descriptor of a
\* queued functor, or for a descriptor that has nothing to do with timers.
pollReturns ==
    /\ pc = "poll"
    /\ polled' = (fd = 0)
    /\ pc' = "dispatch"
    /\ UNCHANGED <<queueVars, batch, todo, round, timerRunning, timerHistory>>

polls == (fd = 0 \/ functors # << >>) /\ pollReturns

\* handleRead: read the timerfd (which may find nothing, if a callback of
\* this round has set it again) and take the due timers out.
handleRead ==
    /\ pc = "dispatch" /\ polled
    /\ fd' = IF fd = 0 THEN Off ELSE fd
    /\ batch' = Due /\ todo' = Due /\ pTimers' = pTimers \ Due
    /\ polled' = FALSE /\ pc' = "timeouts"
    /\ UNCHANGED <<mem, functors, added, round, timerRunning, timerHistory>>

timeout(a) ==
    /\ pc = "timeouts" /\ a \in todo
    /\ todo' = todo \ {a}
    /\ timerRunning' = mem[a].seq
    /\ done' = IF mem[a].interval = 0 THEN done \cup {mem[a].seq} ELSE done
    /\ pc' = "callback"
    /\ UNCHANGED <<queueVars, polled, batch, round, ids, cancels, dropped>>

timeoutReturns ==
    /\ pc = "callback"
    /\ timerRunning' = 0
    /\ pc' = "timeouts"
    /\ UNCHANGED <<queueVars, polled, batch, todo, round, timerHistory>>

\* reset: restart the repeating timers of the batch, delete the others, and
\* set the timerfd for the earliest that now waits.
Repeating == {a \in batch : mem[a].interval > 0}

Bug_armsOnlyIfRestarted ==
    /\ pc = "timeouts" /\ todo = {}
    /\ mem' = [a \in Addresses |->
                  IF a \in Repeating THEN [mem[a] EXCEPT !.left = mem[a].interval]
                  ELSE IF a \in batch THEN [mem[a] EXCEPT !.live = FALSE]
                  ELSE mem[a]]
    /\ pTimers' = pTimers \cup Repeating
    /\ fd' = IF Repeating = {} THEN fd ELSE ArmedFor(Earliest(mem', pTimers'))
    /\ batch' = {} /\ pc' = "dispatch"
    /\ UNCHANGED <<functors, added, polled, todo, round, timerRunning, timerHistory>>

Bug_forgetsToRestart ==
    /\ pc = "timeouts" /\ todo = {}
    /\ mem' = [a \in Addresses |->
                  IF a \in batch \ Repeating THEN [mem[a] EXCEPT !.live = FALSE]
                  ELSE mem[a]]
    /\ fd' = IF pTimers = {} THEN fd ELSE ArmedFor(Earliest(mem', pTimers))
    /\ batch' = {} /\ pc' = "dispatch"
    /\ UNCHANGED <<pTimers, functors, added, polled, todo, round, timerRunning, timerHistory>>

reset ==
    /\ pc = "timeouts" /\ todo = {}
    /\ mem' = [a \in Addresses |->
                  IF a \in Repeating THEN [mem[a] EXCEPT !.left = mem[a].interval]
                  ELSE IF a \in batch THEN [mem[a] EXCEPT !.live = FALSE]
                  ELSE mem[a]]
    /\ pTimers' = pTimers \cup Repeating
    /\ fd' = IF pTimers' = {} THEN fd ELSE ArmedFor(Earliest(mem', pTimers'))
    /\ batch' = {} /\ pc' = "dispatch"
    /\ UNCHANGED <<functors, added, polled, todo, round, timerRunning, timerHistory>>

\* doPendingFunctors: what is queued while it runs waits for the next round.
endDispatch ==
    /\ pc = "dispatch" /\ ~polled
    /\ pc' = "functors" /\ round' = Len(functors)
    /\ UNCHANGED <<queueVars, polled, batch, todo, timerRunning, timerHistory>>

runQueued ==
    /\ pc = "functors" /\ round > 0
    /\ functors' = Tail(functors) /\ round' = round - 1
    /\ LET f == Head(functors)
       IN  \/ /\ f.op = "add" /\ addTimerInLoop(mem, f.addr)
              /\ UNCHANGED <<mem, dropped>>
           \/ f.op = "cancel" /\ cancelInLoop(f.id) /\ UNCHANGED fd
    /\ UNCHANGED <<added, pc, polled, batch, todo, timerRunning, ids, cancels, done>>

endQueued ==
    /\ pc = "functors" /\ round = 0
    /\ pc' = "poll"
    /\ UNCHANGED <<queueVars, polled, batch, todo, round, timerRunning, timerHistory>>

\* Time passes, for the timers and the timerfd alike.
Less(n) == IF n > 0 THEN n - 1 ELSE n
tick ==
    /\ mem' = [a \in Addresses |-> IF mem[a].live THEN [mem[a] EXCEPT !.left = Less(@)]
                                   ELSE mem[a]]
    /\ fd' = Less(fd)
    /\ mem' # mem \/ fd' # fd
    /\ UNCHANGED <<pTimers, functors, added, timerLoop, timerHistory>>

-----------------------------------------------------------------------------
TimerLoopStep == \/ polls \/ handleRead \/ timeoutReturns \/ reset
                 \/ endDispatch \/ runQueued \/ endQueued
                 \/ \E a \in Addresses : timeout(a)

TimerNext ==
    \/ \E th \in TimerUsers :
          \/ \E d \in Delays, i \in Intervals : addTimer(th, d, i)
          \/ \E id \in ids : cancelTimer(th, id)
    \/ TimerLoopStep
    \/ pollReturns
    \/ tick

\* The loop goes round, callbacks return and time passes; that some other
\* descriptor wakes the loop is not assumed.
TimerFairness == WF_timerVars(TimerLoopStep) /\ WF_timerVars(tick)

TimerSpec == TimerInit /\ [][TimerNext]_timerVars /\ TimerFairness

-----------------------------------------------------------------------------
(***************************************************************************)
(* Properties.                                                             *)
(***************************************************************************)
\* Timers a queued addTimerInLoop will insert.
Queued == {functors[i].addr : i \in {j \in DOMAIN functors : functors[j].op = "add"}}

\* No Timer that will still be used is freed, whatever ids are cancelled and
\* when: those that wait, those of the batch and those whose insertion is
\* queued.  And each is in one place only, so that none is freed twice.
TimersAlive ==
    /\ \A a \in pTimers \cup batch \cup Queued : mem[a].live
    /\ pTimers \cap batch = {} /\ pTimers \cap Queued = {} /\ batch \cap Queued = {}

\* The loop never sleeps past a timer: with one waiting, the timerfd is
\* readable or will be when the first is due.
TimerArmed ==
    pc = "poll" /\ pTimers # {} => fd # Off /\ fd <= ArmedFor(Earliest(mem, pTimers))

Starts(s) == timerRunning # s /\ timerRunning' = s

\* A timer whose entry a cancel removed is gone for good: its callback does not
\* start again, whatever callbacks, batches and queued calls were under way.
\* Nothing like it holds of a cancel that finds no entry: a repeating timer of
\* the batch is then restarted, although the comment at TimerQueue.cc:114 says
\* that reset restarts those that were not cancelled.
CancelledStaysDown ==
    [][\A s \in Seqs : Starts(s) => s \notin dropped]_timerVars

\* A timer that was added runs unless a cancel drops it; one that repeats runs
\* again and again.
TimersRun ==
    \A s \in Seqs :
        (\E id \in ids : id.seq = s)
            ~> \/ timerRunning = s \/ s \in dropped \/ s \in done
=============================================================================
