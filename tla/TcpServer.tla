----------------------------- MODULE TcpServer ------------------------------
(***************************************************************************)
(* A TcpServer and its user: the Acceptor, the connections in _connections *)
(* and the loops that serve them.  Loop 0 is the base loop, which accepts; *)
(* loops 1 .. numThreads are those of the EventLoopThreadPool, and loop 0  *)
(* serves the connections when there are none.                             *)
(*                                                                         *)
(* The loops run their handlers one after the other and their functors in  *)
(* order (module Executor); newConnection runs on loop 0 while the loop of *)
(* the new connection already listens to it.  Clients send and leave when  *)
(* they like: RpcServer greets nobody, so that they have nothing to wait   *)
(* for.  What C++ leaves undefined ends a behaviour, and undefined says    *)
(* why.                                                                    *)
(***************************************************************************)
EXTENDS Integers, Sequences, FiniteSets

CONSTANTS Clients,      \* their sockets, as accept returns them
          NoFd,         \* what accept returns when it fails
          PoolSizes,    \* what setThreadNum may be called with
          MaxMessages,  \* bound: messages a client sends
          KeepsChannel, \* the user is RpcServer, which keeps an RpcChannel
                        \* (and it the connection) in the context
          AcceptFails   \* accept may fail, once

Nothing == "nothing"

ASSUME ServerAssumption ==
    /\ NoFd \notin Clients /\ Nothing \notin Clients \cup {NoFd}
    /\ PoolSizes \subseteq Nat
    /\ MaxMessages \in Nat /\ {KeepsChannel, AcceptFails} \subseteq BOOLEAN

VARIABLES numThreads,   \* _numThreads, set before start()
          peerAt,       \* where each client is
          inbox,        \* its messages that were not read
          left,         \* clients that have closed their end or reset it
          at, cur,      \* where newConnection is, and for which socket
          next,         \* EventLoopThreadPool's _next
          loopOf,       \* _pLoop of each connection
          watched,      \* connections with their channel in the epoll set
          hasUser, hasCloseCallback, hasContext,   \* what was set on each
          connections,  \* _connections
          mapUsers,     \* loops in the middle of changing _connections
          queued,       \* connectEstablished functors of each loop
          handling,     \* the connection whose event a loop handles, or NoFd
          got,          \* history: messages given to onMessage
          heardOf,      \* history: connections onConnection was called for
          heardGone,    \* history: connections onClose was called for
          closed,       \* history: connections that ran handleClose
          undefined     \* undefined behaviour that was run into

peers     == <<numThreads, peerAt, inbox, left>>
accepting == <<at, cur, next>>
settings  == <<hasUser, hasCloseCallback, hasContext>>
history   == <<got, heardOf, heardGone, closed>>
serverVars == <<peers, accepting, loopOf, watched, settings, connections, mapUsers,
                queued, handling, history, undefined>>

Fds == Clients \cup {NoFd}
Loops == UNION {0 .. n : n \in PoolSizes}

\* setThreadNum has been called or not, and start() has returned.
ServerInit ==
    /\ numThreads \in PoolSizes
    /\ peerAt = [c \in Clients |-> "away"] /\ inbox = [c \in Fds |-> 0] /\ left = {}
    /\ at = "idle" /\ cur = Nothing /\ next = 0
    /\ loopOf = [c \in Fds |-> -1]
    /\ watched = {} /\ hasUser = {} /\ hasCloseCallback = {} /\ hasContext = {}
    /\ connections = {} /\ mapUsers = {}
    /\ queued = [l \in Loops |-> << >>]
    /\ handling = [l \in Loops |-> Nothing]
    /\ got = [c \in Fds |-> 0] /\ heardOf = {} /\ heardGone = {} /\ closed = {}
    /\ undefined = "none"

\* A loop takes up an event or a functor when it is not inside another.
Free(l) == handling[l] = Nothing /\ (l = 0 => at = "idle")

\* A connection lives while someone holds a shared_ptr to it: _connections, a
\* functor, newConnection's local, or the channel in its own context.
Held(c) == \/ c \in connections \/ c \in hasContext \/ cur = c
           \/ \E l \in Loops : \E i \in DOMAIN queued[l] : queued[l][i] = c

-----------------------------------------------------------------------------
(* The clients. *)

Speaks(c) == peerAt[c] # "away" /\ c \notin left

arrives(c) ==
    /\ peerAt[c] = "away"
    /\ peerAt' = [peerAt EXCEPT ![c] = "waiting"]
    /\ UNCHANGED <<numThreads, inbox, left, accepting, loopOf, watched, settings, connections,
                   mapUsers, queued, handling, history, undefined>>

sends(c) ==
    /\ Speaks(c) /\ got[c] + inbox[c] < MaxMessages
    /\ inbox' = [inbox EXCEPT ![c] = @ + 1]
    /\ UNCHANGED <<numThreads, peerAt, left, accepting, loopOf, watched, settings, connections,
                   mapUsers, queued, handling, history, undefined>>

leaves(c) ==
    /\ Speaks(c)
    /\ left' = left \cup {c}
    /\ UNCHANGED <<numThreads, peerAt, inbox, accepting, loopOf, watched, settings, connections,
                   mapUsers, queued, handling, history, undefined>>

\* A reset, before or after an orderly end: what has not arrived is lost.
resets(c) ==
    /\ peerAt[c] # "away"
    /\ left' = left \cup {c}
    /\ \E n \in 0 .. inbox[c] : inbox' = [inbox EXCEPT ![c] = n]
    /\ UNCHANGED <<numThreads, peerAt, accepting, loopOf, watched, settings, connections,
                   mapUsers, queued, handling, history, undefined>>

-----------------------------------------------------------------------------
(***************************************************************************)
(* newConnection, on loop 0.                                               *)
(***************************************************************************)
\* getNextLoop: loop 0 when there are no threads, or each in turn.
NextLoop == IF numThreads = 0 THEN 0 ELSE next + 1
Rotated == IF numThreads = 0 THEN next ELSE (next + 1) % numThreads

\* Acceptor::handleRead, and new TcpConnection: its channel is put in the
\* epoll set of its loop at once (which fails for NoFd).
handleAccept(c) ==
    /\ Free(0)
    /\ \/ /\ c \in Clients /\ peerAt[c] = "waiting"
          /\ peerAt' = [peerAt EXCEPT ![c] = "accepted"]
          /\ watched' = watched \cup {c}
       \/ /\ AcceptFails /\ c = NoFd /\ loopOf[c] = -1
          /\ \E d \in Clients : peerAt[d] = "waiting"
          /\ UNCHANGED <<peerAt, watched>>
    /\ loopOf' = [loopOf EXCEPT ![c] = NextLoop]
    /\ next' = Rotated
    /\ at' = "constructing" /\ cur' = c
    /\ UNCHANGED <<numThreads, inbox, left, settings, connections, mapUsers, queued, handling,
                   history, undefined>>

\* _connections is changed in two steps, and by one loop at a time or else.
StartsOnMap(l) ==
    /\ mapUsers' = mapUsers \cup {l}
    /\ undefined' = IF mapUsers = {} THEN undefined ELSE "data race"

insertStarts ==
    /\ at = "constructing"
    /\ StartsOnMap(0)
    /\ at' = "inserting"
    /\ UNCHANGED <<peers, cur, next, loopOf, watched, settings, connections, queued,
                   handling, history>>

insertEnds ==
    /\ at = "inserting"
    /\ connections' = connections \cup {cur} /\ mapUsers' = mapUsers \ {0}
    /\ at' = "setUser"
    /\ UNCHANGED <<peers, cur, next, loopOf, watched, settings, queued, handling,
                   history, undefined>>

setUser ==
    /\ at = "setUser" /\ at' = "setCallback"
    /\ hasUser' = hasUser \cup {cur}
    /\ UNCHANGED <<peers, cur, next, loopOf, watched, hasCloseCallback, hasContext,
                   connections, mapUsers, queued, handling, history, undefined>>

setUpLayerCloseCallback ==
    /\ at = "setCallback" /\ at' = "establishing"
    /\ hasCloseCallback' = hasCloseCallback \cup {cur}
    /\ UNCHANGED <<peers, cur, next, loopOf, watched, hasUser, hasContext, connections,
                   mapUsers, queued, handling, history, undefined>>

\* connectEstablished calls onConnection, where RpcServer sets the context.
Bug_forgetsContext(c) ==
    /\ heardOf' = IF c \in hasUser THEN heardOf \cup {c} ELSE heardOf
    /\ UNCHANGED <<hasContext, got, heardGone, closed>>

connectEstablished(c) ==
    /\ IF c \in hasUser
       THEN /\ heardOf' = heardOf \cup {c}
            /\ hasContext' = IF KeepsChannel THEN hasContext \cup {c} ELSE hasContext
       ELSE UNCHANGED <<heardOf, hasContext>>
    /\ UNCHANGED <<got, heardGone, closed>>

\* runInLoop, and newConnection returns.
establish ==
    /\ at = "establishing" /\ at' = "idle" /\ cur' = Nothing
    /\ IF loopOf[cur] = 0
       THEN connectEstablished(cur) /\ UNCHANGED queued
       ELSE /\ queued' = [queued EXCEPT ![loopOf[cur]] = Append(@, cur)]
            /\ UNCHANGED <<history, hasContext>>
    /\ UNCHANGED <<peers, next, loopOf, watched, hasUser, hasCloseCallback, connections,
                   mapUsers, handling, undefined>>

-----------------------------------------------------------------------------
(***************************************************************************)
(* The events of a connection, on its loop.                                *)
(***************************************************************************)
\* What handleRead finds when it hands a message to the user.
Unready(c) ==
    CASE at = "constructing" /\ cur = c          -> "no shared_ptr yet"
      [] c \notin hasUser                        -> "no user"
      [] KeepsChannel /\ c \notin hasContext     -> "no channel in the context"
      [] OTHER                                   -> "none"

handleRead(l, c) ==
    /\ Free(l) /\ loopOf[c] = l /\ c \in watched /\ inbox[c] > 0
    /\ \E n \in 1 .. inbox[c] :
          inbox' = [inbox EXCEPT ![c] = @ - n] /\ got' = [got EXCEPT ![c] = @ + n]
    /\ undefined' = Unready(c)
    /\ UNCHANGED <<numThreads, peerAt, left, accepting, loopOf, watched, settings, connections,
                   mapUsers, queued, handling, heardOf, heardGone, closed>>

Bug_closesAtOnce(l, c) ==
    /\ Free(l) /\ loopOf[c] = l /\ c \in watched /\ c \in left
    /\ watched' = watched \ {c} /\ closed' = closed \cup {c}
    /\ heardGone' = IF c \in hasUser THEN heardGone \cup {c} ELSE heardGone
    /\ handling' = [handling EXCEPT ![l] = c]
    /\ IF c \in hasCloseCallback THEN StartsOnMap(l) ELSE UNCHANGED <<undefined, mapUsers>>
    /\ UNCHANGED <<peers, accepting, loopOf, settings, connections, queued, got, heardOf>>

Bug_halfCloses(l, c) ==
    /\ Free(l) /\ loopOf[c] = l /\ c \in watched \ closed /\ c \in left
    /\ closed' = closed \cup {c}
    /\ heardGone' = IF c \in hasUser THEN heardGone \cup {c} ELSE heardGone
    /\ handling' = [handling EXCEPT ![l] = c]
    /\ IF c \in hasCloseCallback THEN StartsOnMap(l) ELSE UNCHANGED <<undefined, mapUsers>>
    /\ UNCHANGED <<peers, accepting, loopOf, watched, settings, connections, queued,
                   got, heardOf>>

\* handleRead reads 0 or fails with ECONNRESET (of other errors it takes no
\* notice): handleClose, up to the upper layer's callback.  newConnection may
\* be anywhere, copying that callback included.
serverHandleClose(l, c) ==
    /\ Free(l) /\ loopOf[c] = l /\ c \in watched /\ inbox[c] = 0 /\ c \in left
    /\ watched' = watched \ {c} /\ closed' = closed \cup {c}
    /\ heardGone' = IF c \in hasUser THEN heardGone \cup {c} ELSE heardGone
    /\ handling' = [handling EXCEPT ![l] = c]
    /\ \/ /\ at = "constructing" /\ cur = c
          /\ undefined' = "no shared_ptr yet" /\ UNCHANGED mapUsers
       \/ /\ at = "setCallback" /\ cur = c
          /\ undefined' = "close callback half set" /\ UNCHANGED mapUsers
       \/ /\ ~(at = "constructing" /\ cur = c)
          /\ IF c \in hasCloseCallback THEN StartsOnMap(l) ELSE UNCHANGED <<undefined, mapUsers>>
    /\ UNCHANGED <<peers, accepting, loopOf, settings, connections, queued, got, heardOf>>

\* TcpServer::removeConnection
Bug_removesNothing(l) ==
    /\ l \in mapUsers /\ handling[l] # Nothing
    /\ mapUsers' = mapUsers \ {l}
    /\ UNCHANGED <<peers, accepting, loopOf, watched, settings, connections, queued,
                   handling, history, undefined>>

serverRemoveConnection(l) ==
    /\ l \in mapUsers /\ handling[l] # Nothing
    /\ connections' = connections \ {handling[l]} /\ mapUsers' = mapUsers \ {l}
    /\ UNCHANGED <<peers, accepting, loopOf, watched, settings, queued, handling,
                   history, undefined>>

\* handleClose has dropped its guardThis; Channel::handleEvent, a member of
\* the connection's channel, goes on and reads _revents.
eventEnds(l) ==
    /\ handling[l] # Nothing /\ l \notin mapUsers
    /\ undefined' = IF Held(handling[l]) THEN undefined ELSE "channel freed in its event"
    /\ handling' = [handling EXCEPT ![l] = Nothing]
    /\ UNCHANGED <<peers, accepting, loopOf, watched, settings, connections, mapUsers,
                   queued, history>>

runFunctor(l) ==
    /\ Free(l) /\ queued[l] # << >>
    /\ connectEstablished(Head(queued[l]))
    /\ queued' = [queued EXCEPT ![l] = Tail(@)]
    /\ UNCHANGED <<peers, accepting, loopOf, watched, hasUser, hasCloseCallback,
                   connections, mapUsers, handling, undefined>>

-----------------------------------------------------------------------------
serverNewConnection == \/ insertStarts \/ insertEnds \/ setUser
                       \/ setUpLayerCloseCallback \/ establish
LoopStep(l) == \/ serverRemoveConnection(l) \/ eventEnds(l) \/ runFunctor(l)
               \/ \E c \in Clients : handleRead(l, c) \/ serverHandleClose(l, c)
BaseStep == serverNewConnection \/ (\E c \in Fds : handleAccept(c)) \/ LoopStep(0)
Step(l) == undefined = "none" /\ IF l = 0 THEN BaseStep ELSE LoopStep(l)

ServerNext == \/ \E l \in Loops : Step(l)
              \/ \E c \in Clients : undefined = "none" /\ (arrives(c) \/ sends(c) \/ leaves(c) \/ resets(c))

\* Every loop goes round; clients do as they like.
ServerFairness == \A l \in Loops : WF_serverVars(Step(l))

ServerSpec == ServerInit /\ [][ServerNext]_serverVars /\ ServerFairness

-----------------------------------------------------------------------------
(***************************************************************************)
(* Properties.                                                             *)
(***************************************************************************)
\* An RpcServer on one loop meets no undefined behaviour, whatever its clients
\* do and when, a failed accept included.  With IO threads events may find
\* their connection half set up and two loops may be in _connections, but no
\* connection is freed in its own event.
NothingUndefined ==
    /\ numThreads = 0 => undefined = "none"
    /\ undefined # "channel freed in its event"

\* The user hears of a connection in order.  handleClose runs once and no
\* message comes after it; on one loop, moreover, onConnection comes before
\* the messages and onClose, and never after handleClose.
GreetedFirst ==
    [][\A c \in Fds :
          /\ got[c] # got'[c] => c \notin closed
          /\ (\E l \in Loops : handling[l] # c /\ handling'[l] = c) => c \notin closed
          /\ numThreads = 0 =>
                /\ got[c] # got'[c] \/ c \in heardGone' \ heardGone => c \in heardOf
                /\ c \in heardOf' \ heardOf => c \notin closed]_serverVars

\* _connections keeps every open connection of a client; on one loop it holds
\* no other, so that each one that closed has been removed.
Settled(c) == cur # c /\ \A l \in Loops : handling[l] # c
MapIsOpen ==
    \A c \in Clients : Settled(c) =>
        /\ peerAt[c] = "accepted" /\ c \notin closed => c \in connections
        /\ numThreads = 0 /\ c \in connections => peerAt[c] = "accepted" /\ c \notin closed

\* A client that leaves is served to the last message and then forgotten; with
\* IO threads, if it leaves after its connection was set up.  Who leaves before
\* there is a close callback stays in the map, although the comment at
\* TcpServer.h:26 says that removeConnection removes a client that disconnects.
SetUpAndOpen(c) == c \in heardOf /\ c \in watched
LeaversForgotten ==
    \A c \in Clients :
        c \in left /\ peerAt[c] # "away" /\ (numThreads = 0 \/ SetUpAndOpen(c))
            ~> undefined # "none" \/ (inbox[c] = 0 /\ c \in heardGone /\ c \notin connections)
=============================================================================
