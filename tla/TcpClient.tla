------------------------------ MODULE TcpClient ------------------------------
(***************************************************************************)
(* A TcpClient, its Connector and the loop they run on, for a user like    *)
(* the RPC clients of the examples: onConnection gives the connection to   *)
(* an RpcChannel, which holds it until it gets the next one, and onClose,  *)
(* or something later, may call connect() again.  The user calls it at the *)
(* beginning and from onClose on, on the loop's thread or on another.      *)
(*                                                                         *)
(* Attempt a is the socket of the a-th connect().  Epoll keeps a pointer   *)
(* to the Channel of every socket in its set, and poll() copies those      *)
(* pointers to activeChannels: <<"connector", a>> is Connector's channel   *)
(* and <<"connection", a>> that of the TcpConnection.  What is done with a *)
(* destroyed channel is undefined and ends a behaviour.                    *)
(***************************************************************************)
EXTENDS Integers, Sequences

CONSTANTS MaxAttempts,  \* bound: calls of connect()
          MaxStops      \* bound: calls of Connector::stop()

ASSUME ClientAssumption == MaxAttempts \in Nat /\ MaxStops \in Nat

VARIABLES user,         \* "idle", "trying" or "connected", as the user knows
          net,          \* each attempt's socket in the kernel
          sockFd,       \* _sockFd (0: none)
          sockChan,     \* the attempt _pSockChan belongs to, or 0
          epoll,        \* the channels registered with epoll
          active,       \* activeChannels not yet handled
          loopPc,       \* where the loop is: also in one of the user's callbacks
          functors,     \* _pendingFunctors
          batch,        \* what is left of tempRuns
          connection,   \* _connection (0: null)
          local,        \* newConnection's conn, or handleClose's guardThis (0: none)
          closeCallback,\* the connections whose _closeCallback is set
          rpcConn,      \* RpcChannel's _conn (0: null)
          stops,        \* calls of stop()
          orphaned,     \* history: attempts whose channel stop() destroyed
                        \* while epoll pointed to it
          greeted,      \* history: attempts onConnection was called for
          told,         \* history: attempts onClose was called for
          ub            \* has a destroyed channel been used?

kernel == <<net, epoll>>
loopVars == <<active, loopPc, functors, batch>>
conns == <<connection, local, closeCallback>>
client == <<sockFd, sockChan, conns>>
userVars == <<user, rpcConn, stops, greeted, told>>
vars == <<kernel, loopVars, client, userVars, orphaned, ub>>

Attempts == 1 .. MaxAttempts
Channels == {"connector", "connection"} \X Attempts

Init ==
    /\ user = "idle" /\ net = [a \in Attempts |-> "none"] /\ sockFd = 0 /\ sockChan = 0
    /\ epoll = {} /\ active = {} /\ loopPc = "start" /\ functors = << >> /\ batch = << >>
    /\ connection = 0 /\ local = 0 /\ closeCallback = {} /\ rpcConn = 0 /\ stops = 0 /\ orphaned = {}
    /\ greeted = {} /\ told = {} /\ ub = FALSE

\* Somebody still holds the object that owns the channel.
Alive(ch) == IF ch[1] = "connector" THEN sockChan = ch[2]
                                      ELSE ch[2] \in {connection, local, rpcConn}

-----------------------------------------------------------------------------
(* The network and the server. *)

\* The handshake ends, in the end by a timeout.
resolves(a) ==
    /\ net[a] = "connecting"
    /\ \E s \in {"up", "refused"} : net' = [net EXCEPT ![a] = s]
    /\ UNCHANGED <<epoll, loopVars, client, userVars, orphaned, ub>>

serverCloses(a) ==
    /\ net[a] = "up"
    /\ net' = [net EXCEPT ![a] = "gone"]
    /\ UNCHANGED <<epoll, loopVars, client, userVars, orphaned, ub>>

-----------------------------------------------------------------------------
(* connect(), and stop(). *)

Bug_connect ==
    /\ sockFd < MaxAttempts
    /\ LET a == sockFd + 1 IN
       /\ sockFd' = a
       /\ \/ /\ net' = [net EXCEPT ![a] = "connecting"]
             /\ sockChan' = a /\ UNCHANGED epoll
          \/ /\ \E s \in {"failed", "closed"} : net' = [net EXCEPT ![a] = s]
             /\ UNCHANGED <<sockChan, epoll>>

\* Connector::connect.  The kernel says that the attempt is under way; that
\* it failed and might be tried again (nothing is done); or that it failed
\* (the socket is closed).
connect ==
    /\ sockFd < MaxAttempts
    /\ LET a == sockFd + 1 IN
       /\ sockFd' = a
       /\ \/ /\ net' = [net EXCEPT ![a] = "connecting"]
             /\ sockChan' = a /\ epoll' = epoll \cup {<<"connector", a>>}
          \/ /\ \E s \in {"failed", "closed"} : net' = [net EXCEPT ![a] = s]
             /\ UNCHANGED <<sockChan, epoll>>

\* TcpClient::connect on the loop's thread: before loop(), or in a callback.
connectHere ==
    /\ user = "idle" /\ loopPc \in {"start", "dispatch", "onClose"}
    /\ connect /\ user' = "trying"
    /\ UNCHANGED <<loopVars, conns, rpcConn, stops, greeted, told, orphaned, ub>>

\* On another thread, runInLoop queues it.
connectElsewhere ==
    /\ user = "idle" /\ sockFd < MaxAttempts
    /\ functors' = Append(functors, "connect") /\ user' = "trying"
    /\ UNCHANGED <<kernel, active, loopPc, batch, client, rpcConn, stops, greeted, told,
                   orphaned, ub>>

\* Connector::stop, which no program of the repository calls.
stop ==
    /\ stops < MaxStops /\ stops' = stops + 1
    /\ functors' = Append(functors, "stop")
    /\ UNCHANGED <<kernel, active, loopPc, batch, client, user, rpcConn, greeted, told,
                   orphaned, ub>>

-----------------------------------------------------------------------------
(* The loop: poll, handle what is active, run what was queued. *)

startLoop ==
    /\ loopPc = "start" /\ loopPc' = "poll"
    /\ UNCHANGED <<kernel, active, functors, batch, client, userVars, orphaned, ub>>

\* A Connector's socket is ready when it can be written, and that of a
\* connection when a read would return 0.
Ready(ch) ==
    /\ ch \in epoll
    /\ net[ch[2]] \in IF ch[1] = "connector" THEN {"up", "refused", "gone"}
                                             ELSE {"refused", "gone"}

\* epoll_wait returns: for these, for the eventfd, or for a timer.
poll ==
    /\ loopPc = "poll" /\ loopPc' = "dispatch"
    /\ active' = {ch \in Channels : Ready(ch)}
    /\ UNCHANGED <<kernel, functors, batch, client, userVars, orphaned, ub>>

Bug_newConnection(a) ==
    /\ epoll' = (epoll \ {<<"connector", a>>}) \cup {<<"connection", a>>}
    /\ local' = a /\ loopPc' = "onConnection"
    /\ greeted' = greeted \cup {a} /\ user' = "connected" /\ rpcConn' = rpcConn

\* TcpClient::newConnection up to onConnection: the TcpConnection is made and
\* watched, and the user gives it to its RpcChannel; connection() is null yet.
newConnection(a) ==
    /\ epoll' = (epoll \ {<<"connector", a>>}) \cup {<<"connection", a>>}
    /\ local' = a /\ loopPc' = "onConnection"
    /\ greeted' = greeted \cup {a} /\ user' = "connected" /\ rpcConn' = a

\* Connector::handleWrite.  It reads SO_ERROR and does not look at it.
Bug_handleWrite(a) ==
    /\ loopPc = "dispatch" /\ <<"connector", a>> \in active /\ Alive(<<"connector", a>>)
    /\ active' = active \ {<<"connector", a>>}
    /\ functors' = Append(functors, "reset")
    /\ epoll' = epoll \cup {<<"connection", a>>}
    /\ local' = a /\ loopPc' = "onConnection"
    /\ greeted' = greeted \cup {a} /\ user' = "connected" /\ rpcConn' = a
    /\ UNCHANGED <<net, batch, sockFd, sockChan, connection, closeCallback, stops, told,
                   orphaned, ub>>

handleWrite(a) ==
    /\ loopPc = "dispatch" /\ <<"connector", a>> \in active /\ Alive(<<"connector", a>>)
    /\ active' = active \ {<<"connector", a>>}
    /\ functors' = Append(functors, "reset")
    /\ newConnection(sockFd)
    /\ UNCHANGED <<net, batch, sockFd, sockChan, connection, closeCallback, stops, told,
                   orphaned, ub>>

\* onConnection has returned: the rest of newConnection.
Bug_remembersOnly ==
    /\ loopPc = "onConnection" /\ loopPc' = "dispatch"
    /\ closeCallback' = closeCallback
    /\ connection' = local /\ local' = 0
    /\ UNCHANGED <<kernel, active, functors, batch, sockFd, sockChan, userVars, orphaned, ub>>

rememberConnection ==
    /\ loopPc = "onConnection" /\ loopPc' = "dispatch"
    /\ closeCallback' = closeCallback \cup {local}
    /\ connection' = local /\ local' = 0
    /\ UNCHANGED <<kernel, active, functors, batch, sockFd, sockChan, userVars, orphaned, ub>>

\* handleRead reads 0 or ECONNRESET: TcpConnection::handleClose up to the
\* user's onClose, which still finds the connection in connection().
handleClose(a) ==
    /\ loopPc = "dispatch" /\ <<"connection", a>> \in active /\ Alive(<<"connection", a>>)
    /\ active' = active \ {<<"connection", a>>}
    /\ epoll' = epoll \ {<<"connection", a>>}
    /\ local' = a /\ loopPc' = "onClose"
    /\ told' = told \cup {a} /\ user' = "idle"
    /\ UNCHANGED <<net, functors, batch, sockFd, sockChan, connection, closeCallback, rpcConn,
                   stops, greeted, orphaned, ub>>

\* onClose has returned: TcpClient::removeConnection, guardThis is dropped,
\* and Channel::handleEvent looks at _revents once more.
removeConnection ==
    /\ loopPc = "onClose" /\ loopPc' = "dispatch"
    /\ connection' = IF local \in closeCallback /\ connection = local THEN 0 ELSE connection
    /\ local' = 0 /\ ub' = (rpcConn # local)
    /\ UNCHANGED <<kernel, active, functors, batch, sockFd, sockChan, closeCallback, userVars,
                   orphaned>>

\* handleEvent of a channel that was destroyed.
handleFreed(ch) ==
    /\ loopPc = "dispatch" /\ ch \in active /\ ~Alive(ch)
    /\ ub' = TRUE
    /\ UNCHANGED <<kernel, loopVars, client, userVars, orphaned>>

takeFunctors ==
    /\ loopPc = "dispatch" /\ active = {} /\ loopPc' = "functors"
    /\ batch' = functors /\ functors' = << >>
    /\ UNCHANGED <<kernel, active, client, userVars, orphaned, ub>>

runConnect ==
    /\ loopPc = "functors" /\ batch # << >> /\ Head(batch) = "connect"
    /\ batch' = Tail(batch) /\ connect
    /\ UNCHANGED <<active, loopPc, functors, conns, userVars, orphaned, ub>>

\* resetChannel, for handleWrite or for stop(): the channel is destroyed, and
\* taken from epoll by nobody.
resetChannel ==
    /\ loopPc = "functors" /\ batch # << >> /\ Head(batch) \in {"reset", "stop"}
    /\ batch' = Tail(batch) /\ sockChan' = 0
    /\ orphaned' = IF Head(batch) = "stop" /\ <<"connector", sockChan>> \in epoll
                   THEN orphaned \cup {sockChan} ELSE orphaned
    /\ UNCHANGED <<kernel, active, loopPc, functors, sockFd, conns, userVars, ub>>

endFunctors ==
    /\ loopPc = "functors" /\ batch = << >> /\ loopPc' = "poll"
    /\ UNCHANGED <<kernel, active, functors, batch, client, userVars, orphaned, ub>>

-----------------------------------------------------------------------------
handleEvent == \/ rememberConnection \/ removeConnection
               \/ \E a \in Attempts : handleWrite(a) \/ handleClose(a)
               \/ \E ch \in Channels : handleFreed(ch)
loop == startLoop \/ poll \/ handleEvent \/ takeFunctors \/ runConnect \/ resetChannel \/ endFunctors

Next == /\ ~ub
        /\ \/ loop \/ connectHere \/ connectElsewhere \/ stop
           \/ \E a \in Attempts : resolves(a) \/ serverCloses(a)

\* The loop goes round, and every handshake ends.
Fairness == /\ WF_vars(~ub /\ loop)
            /\ \A a \in Attempts : WF_vars(~ub /\ resolves(a))

Spec == Init /\ [][Next]_vars /\ Fairness

-----------------------------------------------------------------------------
(***************************************************************************)
(* Properties.                                                             *)
(***************************************************************************)
TypeOK ==
    /\ user \in {"idle", "trying", "connected"}
    /\ net \in [Attempts -> {"none", "connecting", "up", "refused", "gone", "failed", "closed"}]
    /\ {sockFd, sockChan, connection, local, rpcConn} \subseteq 0 .. MaxAttempts
    /\ closeCallback \subseteq Attempts
    /\ epoll \subseteq Channels /\ active \subseteq Channels
    /\ loopPc \in {"start", "poll", "dispatch", "onConnection", "onClose", "functors"}
    /\ functors \in Seq({"connect", "reset", "stop"}) /\ batch \in Seq({"connect", "reset", "stop"})
    /\ stops \in Nat /\ orphaned \subseteq Attempts /\ greeted \subseteq Attempts
    /\ told \subseteq Attempts /\ ub \in BOOLEAN

\* Epoll points to no destroyed channel, but for what stop() leaves behind
\* when it comes in the middle of an attempt.
RegisteredAlive == \A ch \in epoll : Alive(ch) \/ ch[2] \in orphaned

\* No destroyed channel is used, but for that one.
SafeEvents == ub => orphaned # {}

\* connection() tells another handler of the loop what the user was told:
\* the connection that is greeted and not closed, or null.  In the callbacks
\* themselves it is behind: null in onConnection, and in onClose, which may
\* call connect() again, the connection that has just closed.
ConnectionIsGreeted ==
    ~ub =>
        /\ loopPc \notin {"onConnection", "onClose"} => greeted \ told = {connection} \ {0}
        /\ loopPc = "onConnection" => connection = 0 /\ greeted \ told = {local}
        /\ loopPc = "onClose" => connection = local /\ local \in told /\ greeted = told

\* An attempt that gets under way is reported to the user; if it was refused,
\* or is lost later, so is that.
Reported ==
    \A a \in Attempts :
        /\ net[a] = "connecting" ~> a \in greeted \/ orphaned # {}
        /\ net[a] \in {"refused", "gone"} ~> a \in told \/ orphaned # {}
=============================================================================
