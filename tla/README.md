# A TLA+ model of rpc_muduo

`rpc_muduo` is a small RPC framework (`src/rpc`) on a network library in the
style of muduo (`src/simplifyMuduo`). This directory models its concurrent and
algorithmic core in TLA+, checks the models with TLC on small instances and
proves the most important facts with TLAPS for every instance.

`PROJECT.json` lists the runs, the source lines of every definition ("map"), the
hazards the properties are aimed at, and the theorems. In the modules an
operator named `Bug_...` is a plausible mistake in the definition it stands
before; no specification uses it, and each property of a passing run is known to
fail when some `Bug_` takes the place of its definition. One run is there to
fail: it checks what a comment of the code says and the code does not do.

## The system

| component | state | operations | talks to |
|---|---|---|---|
| `EventLoop`, `Epoll`, `Channel` | `_quit`, `_callingPendingFunctors`, `_pendingFunctors` (under `_mutex`), the eventfd, the epoll set | `loop`, `runInLoop`, `queueInLoop`, `quit`, `update` | every channel's callback; functors from any thread |
| `TimerQueue`, `Timer` | `_pTimers`, the timerfd, a sequence counter | `runAt/After/Every`, `cancelTimer`, `handleRead` | functors to its loop |
| `TcpConnection` | `_inBuf`, `_outBuf`, the channel's events, the context | `send` (any thread), `handleRead/Write/Close` | its loop, the user's `IMuduoUser`, the close callback |
| `Buffer` | a vector and two indices | append, prepend, retrieve, `readFd`, `makeSpace` | used by the two above and the codec |
| `ProtobufCodecLite` | none (the connection's `_inBuf`) | `send`, `onMessage` | `TcpConnection::send`, `RpcChannel::onRpcMessage` |
| `RpcChannel` | `_id`, `_outstandings` (under `_mutex`) | `CallMethod` (any thread), `onRpcMessage`, `doneCallback`, destructor | the codec, services, done closures |
| `Acceptor`, `TcpServer`, `EventLoopThreadPool`, `RpcServer` | `_connections`, `_next`, each connection's context | accept, `newConnection`, `removeConnection`, the user callbacks | base loop and IO loops |
| `Connector`, `TcpClient` | one socket, its channel, `_connection` | `connect`, `handleWrite`, `stop`, `removeConnection` | loop, `TcpConnection`, the user's `RpcChannel` |
| `EventLoopThread`, `EventLoopThreadPool`, `Thread` | `_loop` under `_mutex`/`_cond`, `_threads` | `startLoop`, destructors | a loop on another thread's stack |
| `BlockingQueue`, `ThreadPool` | a deque under a mutex and a condition, workers | `put`, `take`, `addTask` | user tasks |
| generated messages (`*.pb.h`, `*.pb.cc`) | `_has_bits_`, a value per field, unknown fields | set, clear, copy, merge, swap, size, serialize, parse | the codec, `RpcChannel`, the services |

What is hard here: threads hand work to a loop that may be asleep; timers are
cancelled while they fire, and are found by an address that is reused; a socket
takes part of a write; messages arrive in pieces, and a parse that fails leaves
a part behind; a connection is served by one thread while another is still
setting it up; calls from several threads meet answers in any order; a channel
is destroyed while epoll, or the very event that it handles, points to it. The
complete list, line by line, is "hazards" in `PROJECT.json`.

## The modules

| module | what it models |
|---|---|
| `Executor` | abstract: a serial first-in first-out executor |
| `EventLoop` | the loop, its queue, its wakeups and quit; refines `Executor` |
| `RpcService` | abstract: every call is served and answered at most once, with its own answer |
| `RpcChannel` | a client's and a server's `RpcChannel` joined by a connection; refines `RpcService` |
| `TcpConnection` | the sending half: `_outBuf`, EPOLLOUT, write-complete |
| `Buffer` | all of `Buffer`, with the bytes in it |
| `ProtobufCodecLite` | framing a stream cut anywhere, the limits of the length |
| `TimerQueue` | adding, firing, restarting and cancelling timers |
| `TcpServer` | accept, `newConnection`, reading and closing over one or several loops; `RpcServer` as user |
| `TcpClient` | `connect`, `stop`, the two channels of a socket, the user's callbacks |
| `EventLoopThread` | a pool of IO threads: start handshake, quit, join, destructors |
| `ThreadPool` | `BlockingQueue` over `MutexLock` and `Condition`, the workers and `addTask` |
| `FieldMap` | abstract: a message object is a partial function from fields to values |
| `GeneratedMessage` | the message classes protoc generated, from one template; refines `FieldMap` |
| `*Proofs` | the theorems about the module they are named for |
| `MC*` | with its `.cfg` files, the TLC instances |

Layers meet through promises. `EventLoop` is shown to implement `Executor`, and
the modules above it (`RpcChannel`, `TcpConnection`, `TcpServer`) use a queue
that behaves like `Executor`. `ProtobufCodecLite` is shown to hand up whole
messages in order, and `RpcChannel` uses streams of whole messages. `Buffer`
keeps content as a byte queue, which is what the codec and `TcpConnection` use.
`GeneratedMessage` is shown to survive the wire and to know its size, which is
what the codec takes for granted of a payload. `EventLoopThread` is shown to hand
out live loops, which `TcpServer` starts from.

### EventLoop

Variables have the names of the fields. A step ends at each access to shared
state: the store to `_quit`, the push under `_mutex`, the test that decides on
the wakeup, the write of the eventfd, the swap. While a callback runs the loop
thread may call every operation itself. `epoll_wait` may fail. With
`QueueBeforeLoop = TRUE` the loop thread may also queue before `loop()`: it then
writes no wakeup, so such a functor waits for whatever wakes the loop first. The run
has FALSE, and `NoLostWakeup` is about FALSE only; the other proofs cover both.

- `event_loop`: no wakeup is lost (`NoLostWakeup`), the queue is first-in
  first-out (`FifoExecution`), quit from anywhere stops the loop (`QuitReturns`),
  and `Executor` is implemented (`IsExecutor`), its promise that what is
  submitted is run included. Three functors and
  two other threads: two pushes can race each other and the loop's swap, and a
  third can come from inside a callback.

Fairness: threads that can run do, and callbacks return; no socket has to become
ready and no system call has to fail.

### RpcChannel

A request is numbered by an atomic increment, entered in `_outstandings` under
`_mutex`, then sent; off the loop thread the send goes through the queue. The
server refuses it or starts its service, whose closure runs later, on any
thread. Answers come back in any order. The connection may be lost, and the
channel destroyed. `done` may call again. Services and methods are sets of
requests that are registered, have the method and parse.

- `rpc_channel`: a done closure runs at most once and is never also deleted
  (`DoneAtMostOnce`), sees the answer to its own request (`AnswerMatches`) and
  runs if the connection lasts (`CallsComplete`), which needs that it is in the
  table before an answer can come; the channels implement `RpcService`
  (`IsRpcService`). Three calls by two threads, each for a method that exists or
  one that is refused for one of the three reasons. A refused call completes
  like any other, with an empty response (the code is not conveyed).

Assumed: `_conn` is set before a call, as the server and the examples' callbacks
do; and the socket takes what is written, so that delivery fails only with the
connection (`Deliver`). What `TcpConnection::sendInLoop` does when `write` fails is in
`TcpConnection`, and can end the process (`SendSurvives`). Fairness: threads run, streams deliver, services run their closures.

### TcpConnection

`sendInLoop` is one step with four outcomes (all written, some written, behind
earlier bytes, error), `handleWrite` writes any part of what waits, and the
peer's end may be shut or reset. A message is two bytes and the socket holds three, so
that a message is cut and bytes of two messages wait together.

- `connection_send`: `StreamIntact` (the bytes reach the peer whole and in order),
  `WriteInterest` (EPOLLOUT exactly while bytes wait), `SenderOrder` (a thread's
  messages are accepted once each, none left out, in the order it sent them,
  although the loop's own messages pass those that other threads have queued), `EverythingWritten` (what is accepted is written
  and then announced by onWriteComplate).
- `connection_send_full_socket`: violated. `write` returning -1 reaches
  `message.substr(-1, ...)`, which throws, although the comment says that what was not
  written is written later.

### Buffer

The functions of `Buffer.cc` over a vector of two values, with header room 2,
initial size 2 and chunks of up to 3, so that `makeSpace` both moves and grows
and `readFd` uses its extra buffer. `ensureWritableBytes` is an action of its own:
the codec asks for room before it knows what it will write. `buffer` checks the room
for a header (`HeaderFits`), how far the vector may grow beyond what it held or had
to make room for (`CapacityBound`), and that the readable bytes are those appended
and not yet retrieved (`ContentKept`). The doc's picture of the buffer is
`IndexOrder`, which is proved.

### ProtobufCodecLite

Bytes are known by frame and place; what a size read off a frame's start would
be is left open. `codec` sends four frames, some empty and some over the
maximum, in pieces of any size: frames are handed up in order and once
(`FramesInOrder`), and every one is handed up, the process ending only for a
message that is too long (`EveryMessageDelivered`). The payload's encoding and
adler32 are one fact here: a frame parses exactly when it is whole.

### GeneratedMessage

`RpcMetaMessage`, the sudoku messages and the echo messages come from one
template, so they are one module with a class, a set of fields, as state that is
chosen at the beginning. A field has its number, its kind and whether it is
required. An object is its `_has_bits_`, a value per field and the unknown
items. `_InternalParse` is a step per item: an enum's number is checked, a
fixed64's or bool's bit waits in the local `has_bits`, a string's bit is set
before it is read, and an item may be cut, of another wire type, of no field, or
the end of a group. The wire is a sequence of such items. Strings are short
sequences, since only their length and identity matter.

- `messages`: a field that is not set holds its default after everything, failed
  parses included (`UnsetIsDefault`: getters and `Clear` rely on it); a message
  parsed into a used object is the one that was serialized, with its unknown
  items, and the parse fails only for a missing required field (`RoundTrip`);
  `ByteSizeLong` is what `_InternalSerialize` writes (`SizeExact`); objects
  behave as maps (`IsFieldMap`). Every class is looked at, with two objects and
  every pair of its fields, and two items from a stranger: enough for an item
  after one that failed, was unknown or repeated it.

The program itself only sets fields, serializes and parses into new objects; used
targets, copies, merges and swaps are what the generated API offers beyond that. The
functions are modelled after those of `RpcMetaMessage`; those of the other four
classes are the same template with their fields, for which "map" names the lines of
their fields only.

The descriptor tables, their registration and the arena are data or plumbing
of the library; the dispatch of a service by method is in `RpcChannel`.

### TimerQueue

A `Timer` is at an address that may be reused after it is freed. Times are
relative to now and `tick` is the passing of time. The loop's phases, the batch
that `handleRead` takes out and the functors of other threads are modelled; of
`epoll_wait` only the timerfd and the wakeup are relied on. `cancelTimer` may be
called with any id there ever was, at any time: from the timer's own callback or
one of its batch, twice, before the timer is inserted, or when it is gone, as
`TimeQueueTest.cc:51` does. What it finds is the Timer that waits at the id's address
(`Found`), be it another one; `dropped` notes whose that was. A timer of the batch under
way is not found, and `reset` restarts it if it repeats.

Two things here C++ leaves undefined, and the model says what the build does.
`cancelInLoop` looks up freed memory if the timer is gone: it can match only what
waits at that address. And it deletes `it->second` after `erase(it)`, which reads a
freed tree node: the allocator overwrites the first two words of it, and the pair
lies behind four. That another thread is given this very node and fills it in between
is left out.

- `timers`: three timers at two addresses, two threads and two cancels. The timerfd
  is always armed in time (`TimerArmed`); no Timer that waits, is of the batch or is
  about to be inserted is freed (`TimersAlive`); a timer that a cancel found stays down
  (`CancelledStaysDown`); every other runs, again and again if it repeats
  (`TimersRun`). Three timers at two addresses reuse one, and two cancels are one
  that hits while another is stale, or two of the same id.

Fairness: the loop goes round, callbacks return, time passes.

### TcpServer

Loop 0 accepts; connections live on loop 0 or are dealt to loops 1..n. The steps
of `newConnection` are separate, because the channel is in the IO loop's epoll set
from the constructor on. Changing `_connections` takes two steps, and two loops
inside is a data race. What C++ leaves undefined is recorded in `undefined` and ends
the behaviour: nothing is claimed after it. A connection lives while a
`shared_ptr` to it exists (`Held`); `RpcServer` keeps one in the connection's own
context, so its connections are never freed.

Clients speak, leave and reset when they like: `RpcServer` greets nobody, so there
is nothing they could wait for. A reset may lose what was not read; the kernel reports
it with EPOLLIN, so that it ends in `handleRead` like an orderly close and not in the
EPOLLHUP branch of `Channel::handleEvent`. With IO threads an event may then find
`newConnection` at any of its steps, the copying of the close callback included: a
connection without a `shared_ptr`, a user, a callback or a context.

- `server`: an `RpcServer` with two clients and an accept that fails (socket -1
  then becomes a connection like any other), with no, one or two IO threads. On one
  loop nothing undefined is met (`NothingUndefined`), the user hears of a connection
  first, then its messages, and nothing after `onClose` (`GreetedFirst`), the map holds
  exactly the open connections (`MapIsOpen`), and leavers are served to the last message
  and forgotten (`LeaversForgotten`). With threads, for whatever the clients do and up
  to the first undefined thing: no channel is freed in its own event, `handleClose` runs
  once and no message comes after it, every open connection is in the map, and a client
  that leaves after its connection was set up is served and forgotten. Two clients
  on one loop share it, on two they race for `_connections`; the failed accept makes
  the round robin wrap.

Fairness: every loop goes round. Clients do as they like.

### TcpClient

One `TcpClient` and its `Connector` on a loop, with the RPC clients' way of using
them: `onConnection` gives the connection to an `RpcChannel`, and after `onClose`
the program connects again, from the loop's thread or another. The point is
lifetime: the Connector's channel and the connection's are registered for the
same socket one after the other, epoll and `activeChannels` hold plain pointers,
and the Connector's channel is released by a queued functor, not by its own
handler. `SO_ERROR` is read and not looked at, so a refused socket becomes a
connection that closes at once. `onConnection` and `onClose` run in the middle of
`newConnection` and `handleClose`, so each of these is two steps with the callback
between them. What a user sends in a callback is not modelled here. Using a destroyed channel sets `ub` and ends
the behaviour.

- `tcp_client`: epoll points to no destroyed channel (`RegisteredAlive`) and none
  is used (`SafeEvents`), except one that `stop()` orphaned in mid-attempt;
  once the callbacks have returned `connection()` is what the user was told, while it
  is null inside `onConnection` and still the closed one inside `onClose`
  (`ConnectionIsGreeted`; it is about the loop's thread, and reading it from another one
  is a data race); an attempt
  that got under way is reported, and its failure or loss too (`Reported`). Four
  attempts and two stops: a stop can come before, during and after an attempt,
  and another attempt follows each.

Fairness: the loop goes round and every handshake ends (TCP gives up in the end).

### EventLoopThread

The owner starts the threads of a pool one by one and waits for each to publish
its loop; then loops run until the program, a callback or the destructor quits
them. `quit()` is two steps, the flag and the wakeup. A loop is dead once
`threadFunc` has returned while `_loop` still points to it; the stack stays mapped
until the join, so a store there has no other effect than to be recorded (`deadUses`); the
rest of `quit()` reads the dead loop's `_threadId` and `_eventfd`, is recorded too, and may
wake any loop or none.

- `loop_thread`: three threads, any of which may fail to be created, one wait that
  returns for nothing. `startLoop` returns a loop that exists (`StartedLoop`);
  `start()` returns unless a thread could not be created (`StartReturns`); once
  the destructor has quit a loop its thread ends and is freed after the join
  (`Joins`); the destructor stores in a dead loop only if the program had quit it
  itself, and no part of a `quit()` finds a loop that is not made yet, dead without
  having been told to stop, or joined
  (`QuitsLiveLoop`).

Fairness: threads run, and the owner ends what it has begun.

### ThreadPool

`put` and `take` are steps between the mutex's lock and unlock; a wait gives the
mutex up and sleeps in one step, may return for nothing and takes the mutex
again. Workers, which may fail to be created, run tasks; a task may be empty, and
may add tasks itself; without threads `addTask` runs the task.

- `thread_pool`: two workers, two other callers, three tasks, one spurious wakeup.
  No worker sleeps while there are more tasks than threads about to take one
  (`NoneSleepsOverWork`), tasks are taken in order and run once (`OnceInOrder`),
  and each is run if one worker was created (`TaskRuns`). Two workers are the
  fewest for which a notify can go to the wrong one; three tasks outnumber them.

Fairness: threads run, tasks return, and whoever waits for the mutex gets it.

## What is proved

`tlapm` checks these for every value of the constants, from the `ASSUME`s of the
modules (thread names are distinct, sizes are natural numbers, protoc gives no
field number twice, and so on). The theorems of the codec, the timers and the server
are in the module of the component next to them, which extends both. That is why
the names these three would share with the neighbour say whose they are:
`CodecInit`, `TimerNext`, `ServerSpec`; `timerRunning` (the timer whose callback
runs), `timeoutReturns` and `OwnThread` (the loop's); `serverHandleClose` and
`serverRemoveConnection` for `TcpConnection::handleClose` and
`TcpServer::removeConnection`, `queued` for the functors of the loops, `peerAt` for
where a client is, `heardOf` and `heardGone` for what the user was told. The
theorems are about the specifications and formulas the runs check.

- `EventLoopProofs`: types; `NoLostWakeup`; `FifoExecution`; every step is a step of
  `Executor` or a stutter. `NoLostWakeup` is about `epoll_wait` only and is not
  inductive: `PendingIsSeen` says of *every* place of the loop why queued work will
  be seen (eventfd written, wakeup coming, or this round still to take it), and
  `QuitIsSeen` the same of `_quit`. The refinement maps the executor's backlog
  to what is left of the batch followed by the queue.
- `TimerQueue`, in `EventLoopProofs`: `TimersAlive`, `TimerArmed`,
  `CancelledStaysDown`, for any ids cancelled at any time. What `cancelInLoop` finds
  at an address depends on functors not yet run, so the invariant speaks of them: the
  Timer of a queued add is alive and nowhere else (`AddsWait`), and one that is alive is
  the only one with its sequence and was not dropped (`Known`). So whatever a cancel
  finds is a Timer nothing else refers to. `Armed` says the timerfd covers *every*
  waiting Timer, except while the batch is out, when `reset` is still to come; that the
  earliest exists is an induction on times.
- `RpcChannelProofs`: types; `DoneAtMostOnce`; `AnswerMatches`; the refinement of
  `RpcService`. `MatchInv` says that whatever carries an id, from the caller to the
  table, the streams and the services, carries that call's request or answer;
  `OnceInv` that an id about to be entered is new everywhere a closure can be. The
  refinement adds that a request is in one place on its way and once there
  (`TravelInv`), and that only a refusal can come before its service ran
  (`EarnedInv`).
- `TcpConnectionProofs`: types; `WriteInterest`; `StreamIntact`; `SenderOrder`. The
  first two are inductive with the types; the work is in cutting and joining
  sequences. `SenderOrder` holds because a queued message waits behind everything
  its thread sent before (`Lined`), however often the loop's messages pass it.
- `ProtobufCodecLite`, in `TcpConnectionProofs`: `FramesInOrder`. `_inBuf` followed by
  the stream is one `Chain`, each byte the successor of the one before, from the
  start of the first frame not yet handed up to the end of the last one sent; so
  what the loop of `onMessage` cuts off is always that frame.
- `BufferProofs`: `IndexOrder`, `HeaderFits`, `CapacityBound`, from their conjunction
  and the fact that the vector never shrinks; and `ContentKept`, byte by byte
  (`Holds`, `Joined`) through the moves, the growth and the extra buffer.
- `GeneratedMessageProofs`: enum fields hold numbers of their enum; `UnsetIsDefault`;
  `RoundTrip`; `SizeExact`; the refinement of `FieldMap`. One lemma per function says that it
  keeps a record `Sound` (every field without a bit, written or noted in
  `has_bits`, is the default), and one each for the program's calls and the parser's
  steps lifts that to the objects. For `RoundTrip` the items of a serialization
  are followed through the parser: those parsed so far have made of the object what
  they are, and those left are what is missing. For `SizeExact` the object is summed
  over its fields and the wire along its items, so the lemmas before it are about
  sums: a sum is unique and does not depend on the order (`SumUnique`, `TakeOut`),
  on what the elements are called (`Renamed`) or on how they are split
  (`TwoParts`). Each is an induction over the subsets of a finite set, done as the
  contradiction of a smallest counterexample (`SetInduction`).
- `ThreadPoolProofs`: types; `OnceInOrder`; `NoneSleepsOverWork`. `Mutex` says who is
  between lock and unlock, `Flow` that the queue is what was pushed and not taken
  (with the front counted twice until it is popped), and `Adds`, `Waits`, `Holds`,
  `Ran` where a task can be before it is run: in exactly one place.
  `NoneSleepsOverWork` compares the queue with the number of threads that serve it:
  one stops serving only with the task it takes, or as it wakes another, or when
  nothing is queued.
- `EventLoopThreadProofs`: types; `StartedLoop`; `QuitsLiveLoop`; an EventLoopThread
  outlives its thread (`OutlivesItsThread`). `Stage` ties a thread's place to what
  there is of its loop, `QuitBy` says who can have set `_quit`, `FreedInOrder` that what
  was joined is over and is not quit again, `StartsInOrder` that a loop is made before
  anybody can quit it.
- `TcpClientProofs`: types; `RegisteredAlive`; `SafeEvents`; `ConnectionIsGreeted`.
  `Registered` says which channels of which attempt epoll may hold, `Resets` that
  the release of the Connector's channel is queued in the round that made the
  connection and so runs before the next attempt, `Connects` that a queued
  connect finds no channel, `Conn` what `_connection` and the local reference of the
  handler are in and between the callbacks.
- `TcpServer`, in `TcpClientProofs`: `NothingUndefined` for an `RpcServer`
  (`KeepsChannel`, as in the run: another user's connections are freed in their last
  event), `MapIsOpen` and `GreetedFirst`, for any number of threads and clients that do
  as they like. `Accepted` says who is in anybody's hands, `SetUp` how far newConnection
  has got with a connection epoll already has, `Kept` that an open connection is in the
  map from its insertion on, `Holders` who keeps a connection alive from accept on
  (newConnection, the queued greeting, then the context, for one that closed before it
  was greeted too), and `OneLoop` what a server without IO threads gains from running
  newConnection in one piece.

Only model-checked: liveness (every `~>`, and the fairness of `Executor`), which the
prover does not do.

## What the code does not promise

Met while modelling; each is a "hazard" of `PROJECT.json`, and the models stay on
the side of it that the code keeps, or end a behaviour there, or follow it and promise less.

- A repeating timer cancelled by its own callback, or by another of its batch, is
  restarted, against the comment at `TimerQueue.cc:114`: the model does so too, and
  `CancelledStaysDown` speaks only of cancels that found their timer waiting. A `TimerId` used after its timer has gone reads freed
  memory (`TimeQueueTest.cc:51` does), and may drop another timer at the same address:
  the sequence number is never compared. A cancel on the loop's thread of a timer that
  another thread added may come before the add, and then does nothing.
- A write that fails with nothing buffered ends the process (`connection_send_full_socket`).
- With IO threads a client that speaks or leaves before it is greeted may meet an
  empty context, no user or no close callback, half of one, or a connection that has
  no `shared_ptr` yet; one that leaves before the close callback is set is never
  removed, against the comment at `TcpServer.h:26`; and `_connections` is changed by several threads
  without a lock. A user that keeps no reference to its
  connection has the channel freed inside its own `handleEvent`; functors queued
  with a raw `this` have the same need. `RpcServer` holds a reference in the
  connection's own context instead, and never frees it; no descriptor of a
  connection is closed.
- `stop()` during an attempt destroys a channel epoll points to. A failed `connect`
  is neither retried nor reported.
- A call that is outstanding when the connection is lost is never completed, an
  error answer looks like an empty one, and a call before `_conn` is set uses a
  null pointer.
- `startLoop` waits for ever if the thread could not be created; a pool whose
  program quits its loops has its destructor write to a dead loop
  (`EventLoopThreadTest.cc`), and even the first `quit()` of a loop may go on with it after it
  has died: the loop may see the store and `threadFunc` return before `isInLoopThread` and
  `wakeup` (`EventLoop.cc:42`), although the comment at `EventLoopThread.cc:35` says that nobody
  needs it then; the threads of a `ThreadPool` are not stopped or
  joined before its queue goes.
- Functors pending when a loop quits, and those its thread queues before `loop()`,
  have no promise.

## The bounds

Named in the modules where they cut something off: `MaxIo`, `MaxCalls`, `MaxLen`,
`MaxReadable`, `MaxFrames`, `MaxTimers`, `MaxCancels`, `MaxMessages`,
`MaxTouched`, `MaxStrange`, `MaxUnknown`, `MaxAttempts`, `MaxStops`, `MaxSpurious`.
Each is enough for the shortest interference of every pair of operations plus
one more round (a second functor behind a first, a reused address, a vector that
has grown and then moves, a wrapped round robin, an attempt after a stopped one).
The history variables grow only with the bounded operations. In
`GeneratedMessage` a stranger's message is parsed while the other objects are new,
which leaves out nothing a parse could see.

## Not modelled

`Timestamp`, `EndianCode`, `CurrentThread`, `Common` and addresses keep no state of
their own. `MutexLock` and `Condition` are steps of their own in `ThreadPool`; elsewhere
a critical section is one step, or two where its length matters. Of the generated
code, the descriptor tables and their registration are data. Of `TimerQueue` the
destructor, and of `RpcServer` `registerService` (a fixed set of services), are
left out. The examples are programs: how they use the library is the environment
of the modules. File descriptors are not reused, since a connection never closes
its own. Wall-clock changes, memory exhaustion and failing system calls that
only log are left out.

## The plan

Done: `EventLoop`/`Executor`, `RpcChannel`/`RpcService`, `TcpConnection`, `Buffer`,
`ProtobufCodecLite`, `TimerQueue`, `TcpServer`, `GeneratedMessage`/`FieldMap`,
`ThreadPool`, `EventLoopThread`, `TcpClient`.

Left:

1. The lifetime of a connection under queued functors (raw `this`), joining
   `TcpServer` with the sends of `TcpConnection`.
2. Proofs: of the connections' lifetimes, whatever item 1 finds to hold. Liveness
   stays with the model checker.
