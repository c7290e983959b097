--------------------------- MODULE TcpClientProofs ---------------------------
(***************************************************************************)
(* Theorems about TcpClient, for any number of attempts and stops.         *)
(*                                                                         *)
(* The argument: what the user knows, what is queued and what epoll points *)
(* to go together.  A connector's channel is registered, or was orphaned   *)
(* by stop(), only while the user is trying and _pSockChan owns it         *)
(* (Registered); a resetChannel is queued only between handleWrite and the *)
(* functors of the same round, when the user is connected and no event of  *)
(* the new connection can be active (Resets); and a queued connect() finds *)
(* no channel (Connects).                                                  *)
(*                                                                         *)
(* And, of the other end, that a TcpServer knows its connections and tells *)
(* its user of them in order, and that an RpcServer on one loop is safe.   *)
(***************************************************************************)
EXTENDS TcpClient, TcpServer, TLAPS

Elems(s) == {s[i] : i \in 1 .. Len(s)}
Pending(f) == f \in Elems(functors) \cup Elems(batch)

\* connect() is queued once at most.
OneConnect(s) == \A i, j \in 1 .. Len(s) : s[i] = "connect" /\ s[j] = "connect" => i = j

\* The loop handles events, or is in a callback that one of them made.
Handling == {"dispatch", "onConnection", "onClose"}

Rounds ==
    /\ loopPc \notin Handling => active = {}
    /\ loopPc # "functors" => batch = << >>
    /\ active \subseteq epoll

Resets ==
    /\ "reset" \in Elems(functors) =>
           loopPc \in Handling /\ \A a \in Attempts : <<"connection", a>> \notin active
    /\ Pending("reset") => user = "connected"

Connects ==
    /\ Pending("connect") => user = "trying" /\ sockChan = 0
    /\ OneConnect(functors) /\ OneConnect(batch)
    /\ "connect" \notin Elems(functors) \/ "connect" \notin Elems(batch)

Registered ==
    \A a \in Attempts :
        /\ <<"connector", a>> \in epoll => a \in orphaned \/ (user = "trying" /\ a = sockChan)
        /\ <<"connector", a>> \in epoll => a <= sockFd /\ a \notin greeted
        /\ <<"connection", a>> \in epoll => user = "connected" /\ a = sockFd

Owned ==
    /\ sockChan \in {0, sockFd} /\ sockChan \notin orphaned
    /\ user = "idle" => sockChan = 0
    /\ user = "connected" => sockChan = 0 \/ Pending("reset")
    /\ \A a \in orphaned : a <= sockFd

\* Where the loop is tells what connection() and the callback's local are.
Conn ==
    /\ user = "connected" => rpcConn = sockFd /\ sockFd # 0 /\ loopPc # "onClose"
    /\ loopPc = "onConnection" => user = "connected" /\ connection = 0 /\ local = sockFd
    /\ loopPc = "onClose" => connection = local /\ local # 0 /\ local = rpcConn /\ local \in told
    /\ loopPc \notin {"onConnection", "onClose"} =>
          local = 0 /\ connection = IF user = "connected" THEN sockFd ELSE 0
    /\ connection # 0 => connection \in closeCallback

Heard ==
    /\ told \subseteq greeted
    /\ \A a \in greeted : a <= sockFd
    /\ \A a \in Attempts : a \in greeted /\ a \notin told <=> user = "connected" /\ a = sockFd

IInv == TypeOK /\ Rounds /\ Resets /\ Connects /\ Registered /\ Owned /\ Conn /\ Heard /\ SafeEvents

Jobs == {"connect", "reset", "stop"}

-----------------------------------------------------------------------------
(* The queues. *)

\* What is in a queue, after Append and Tail.
LEMMA ElemsEmpty == Elems(<< >>) = {} /\ OneConnect(<< >>)
BY DEF Elems, OneConnect

LEMMA ElemsAppend ==
    ASSUME NEW s \in Seq(Jobs), NEW e \in Jobs
    PROVE  Append(s, e) \in Seq(Jobs) /\ Elems(Append(s, e)) = Elems(s) \cup {e}
<1> DEFINE t == Append(s, e)
<1>1. /\ t \in Seq(Jobs) /\ Len(t) = Len(s) + 1 /\ t[Len(s) + 1] = e
      /\ Len(s) \in Nat /\ \A i \in 1 .. Len(s) : t[i] = s[i]
  OBVIOUS
<1> HIDE DEF t
<1>2. Elems(t) \subseteq Elems(s) \cup {e}
  BY <1>1 DEF Elems
<1>3. Elems(s) \subseteq Elems(t)
  BY <1>1 DEF Elems
<1>4. e \in Elems(t)
  BY <1>1 DEF Elems
<1> QED BY <1>1, <1>2, <1>3, <1>4 DEF t

\* The queue keeps its one connect() at most.
LEMMA OneAppend ==
    ASSUME NEW s \in Seq(Jobs), NEW e \in Jobs, OneConnect(s),
           e = "connect" => "connect" \notin Elems(s)
    PROVE  OneConnect(Append(s, e))
<1> DEFINE t == Append(s, e)
<1>1. /\ Len(t) = Len(s) + 1 /\ t[Len(s) + 1] = e
      /\ Len(s) \in Nat /\ \A i \in 1 .. Len(s) : t[i] = s[i]
  OBVIOUS
<1> HIDE DEF t
<1> SUFFICES ASSUME NEW i \in 1 .. Len(t), NEW j \in 1 .. Len(t),
                    t[i] = "connect", t[j] = "connect"
             PROVE  i = j
  BY DEF OneConnect, t
<1>2. CASE i \in 1 .. Len(s) /\ j \in 1 .. Len(s)
  BY <1>1, <1>2 DEF OneConnect
<1>3. CASE i = Len(s) + 1 /\ j \in 1 .. Len(s)
  BY <1>1, <1>3 DEF Elems
<1>4. CASE j = Len(s) + 1 /\ i \in 1 .. Len(s)
  BY <1>1, <1>4 DEF Elems
<1> QED BY <1>1, <1>2, <1>3, <1>4

LEMMA ElemsTail ==
    ASSUME NEW s \in Seq(Jobs), s # << >>
    PROVE  /\ Tail(s) \in Seq(Jobs) /\ Head(s) \in Jobs
           /\ Elems(s) = Elems(Tail(s)) \cup {Head(s)}
           /\ OneConnect(s) =>
                 OneConnect(Tail(s)) /\ (Head(s) = "connect" => "connect" \notin Elems(Tail(s)))
<1> DEFINE t == Tail(s)
           h == Head(s)
<1>1. /\ t \in Seq(Jobs) /\ h \in Jobs /\ Len(t) = Len(s) - 1 /\ Len(s) \in Nat /\ Len(s) > 0
      /\ h = s[1] /\ \A i \in 1 .. Len(t) : t[i] = s[i + 1]
  OBVIOUS
<1> HIDE DEF t, h
<1>2. Elems(t) \subseteq Elems(s) /\ h \in Elems(s)
  BY <1>1 DEF Elems
<1>3. ASSUME NEW i \in 1 .. Len(s) PROVE s[i] \in Elems(t) \cup {h}
  <2>1. CASE i = 1
    BY <1>1, <2>1
  <2>2. CASE i # 1
    <3>1. i - 1 \in 1 .. Len(t) /\ t[i - 1] = s[i]
      BY <1>1, <2>2
    <3> QED BY <3>1 DEF Elems
  <2> QED BY <2>1, <2>2
<1>4. Elems(s) \subseteq Elems(t) \cup {h}
  BY <1>3 DEF Elems
<1>5. OneConnect(s) => OneConnect(t)
  BY <1>1 DEF OneConnect
<1>6. ASSUME OneConnect(s), h = "connect", "connect" \in Elems(t) PROVE FALSE
  <2>1. PICK i \in 1 .. Len(t) : t[i] = "connect"
    BY <1>6 DEF Elems
  <2>2. i + 1 \in 1 .. Len(s) /\ 1 \in 1 .. Len(s) /\ s[i + 1] = "connect" /\ s[1] = "connect"
    BY <1>1, <1>6, <2>1
  <2> QED BY <1>6, <2>2 DEF OneConnect
<1> QED BY <1>1, <1>2, <1>4, <1>5, <1>6 DEF t, h

-----------------------------------------------------------------------------
(* The invariant. *)

LEMMA InitInv == Init => IInv
<1> SUFFICES ASSUME Init PROVE IInv
  OBVIOUS
<1>1. \A S : << >> \in Seq(S)
  OBVIOUS
<1>2. 0 \notin Attempts /\ 0 \in 0 .. MaxAttempts
  BY ClientAssumption DEF Attempts
<1>3. TypeOK
  BY <1>1, <1>2 DEF Init, TypeOK
<1>4. Rounds /\ Resets /\ Connects /\ SafeEvents
  BY ElemsEmpty DEF Init, Rounds, Resets, Connects, Pending, SafeEvents
<1>5. Registered /\ Owned /\ Conn /\ Heard
  BY <1>2 DEF Init, Registered, Owned, Conn, Heard
<1> QED BY <1>3, <1>4, <1>5 DEF IInv

\* What connect() does to everything but the queues.
LEMMA ConnectInv ==
    ASSUME IInv, connect, sockChan = 0, user' = "trying", user # "connected",
           UNCHANGED <<connection, local, closeCallback, loopPc, rpcConn, greeted, told, orphaned>>
    PROVE  /\ sockFd' \in 0 .. MaxAttempts /\ sockChan' \in {0, sockFd'}
           /\ net' \in [Attempts -> {"none", "connecting", "up", "refused", "gone", "failed",
                                     "closed"}]
           /\ epoll \subseteq epoll' /\ epoll' \subseteq Channels
           /\ Registered' /\ Owned' /\ Conn' /\ Heard'
<1> DEFINE a == sockFd + 1
<1>1. /\ a \in Attempts /\ sockFd' = a /\ sockFd \in Nat /\ a > sockFd
      /\ sockFd' \in 0 .. MaxAttempts /\ \A b \in Attempts : b \in Nat /\ b # 0
  BY ClientAssumption DEF IInv, TypeOK, connect, Attempts
<1>2. \/ sockChan' = 0 /\ epoll' = epoll
      \/ sockChan' = a /\ epoll' = epoll \cup {<<"connector", a>>}
  BY DEF connect
<1>3. net' \in [Attempts -> {"none", "connecting", "up", "refused", "gone", "failed", "closed"}]
  BY <1>1 DEF connect, IInv, TypeOK
<1>4. epoll \subseteq epoll' /\ epoll' \subseteq Channels
  BY <1>1, <1>2 DEF IInv, TypeOK, Channels
<1> HIDE DEF a
<1>5. a \notin greeted /\ a \notin orphaned
  BY <1>1 DEF IInv, Heard, Owned, TypeOK
<1>6. Registered'
  <2> SUFFICES ASSUME NEW b \in Attempts
               PROVE  /\ <<"connector", b>> \in epoll' =>
                             b \in orphaned' \/ (user' = "trying" /\ b = sockChan')
                      /\ <<"connector", b>> \in epoll' => b <= sockFd' /\ b \notin greeted'
                      /\ <<"connection", b>> \in epoll' => user' = "connected" /\ b = sockFd'
    BY DEF Registered
  <2>1. <<"connection", b>> \in epoll' => <<"connection", b>> \in epoll
    BY <1>2
  <2>2. <<"connector", b>> \in epoll' => <<"connector", b>> \in epoll \/ (b = a /\ sockChan' = a)
    BY <1>2
  <2>3. CASE <<"connector", b>> \in epoll
    BY <2>1, <2>3, <1>1 DEF IInv, Registered
  <2>4. CASE b = a /\ sockChan' = a
    BY <2>1, <2>4, <1>1, <1>5 DEF IInv, Registered
  <2> QED BY <2>1, <2>2, <2>3, <2>4 DEF IInv, Registered
<1>7. Owned'
  BY <1>1, <1>2, <1>5 DEF IInv, Owned, TypeOK
<1>8. Conn' /\ Heard'
  BY <1>1 DEF IInv, Conn, Heard, TypeOK
<1> QED BY <1>1, <1>2, <1>3, <1>4, <1>6, <1>7, <1>8

LEMMA NetInv ==
    ASSUME IInv, NEW a \in Attempts, resolves(a) \/ serverCloses(a) PROVE IInv'
<1>1. /\ UNCHANGED <<epoll, active, loopPc, functors, batch, sockFd, sockChan, connection, local, closeCallback>>
      /\ UNCHANGED <<user, rpcConn, stops, greeted, told, orphaned, ub>>
  BY DEF resolves, serverCloses, loopVars, client, conns, userVars
<1>2. net' \in [Attempts -> {"none", "connecting", "up", "refused", "gone", "failed", "closed"}]
  BY DEF resolves, serverCloses, IInv, TypeOK
<1> QED BY <1>1, <1>2 DEF IInv, TypeOK, Rounds, Resets, Connects, Pending, Registered, Owned, Conn,
             Heard, SafeEvents

LEMMA ConnectHereInv == ASSUME IInv, connectHere PROVE IInv'
<1>1. /\ user = "idle" /\ user' = "trying" /\ connect /\ sockChan = 0
      /\ UNCHANGED <<active, loopPc, functors, batch>>
      /\ UNCHANGED <<connection, local, closeCallback, rpcConn, stops, greeted, told, orphaned, ub>>
  BY DEF connectHere, loopVars, conns, IInv, Owned
<1>2. /\ sockFd' \in 0 .. MaxAttempts /\ sockChan' \in {0, sockFd'}
      /\ net' \in [Attempts -> {"none", "connecting", "up", "refused", "gone", "failed", "closed"}]
      /\ epoll \subseteq epoll' /\ epoll' \subseteq Channels
      /\ Registered' /\ Owned' /\ Conn' /\ Heard'
  BY <1>1, ConnectInv
<1>3. sockChan' \in 0 .. MaxAttempts
  BY <1>2, ClientAssumption
<1>4. TypeOK'
  BY <1>1, <1>2, <1>3 DEF IInv, TypeOK
<1>5. Rounds' /\ Resets' /\ SafeEvents'
  BY <1>1, <1>2 DEF IInv, Rounds, Resets, Pending, SafeEvents
<1>6. Connects'
  BY <1>1 DEF IInv, Connects, Pending
<1> QED BY <1>2, <1>4, <1>5, <1>6 DEF IInv

LEMMA ConnectElsewhereInv == ASSUME IInv, connectElsewhere PROVE IInv'
<1>1. /\ user = "idle" /\ user' = "trying" /\ functors' = Append(functors, "connect")
      /\ UNCHANGED <<net, epoll, active, loopPc, batch, sockFd, sockChan, connection, local, closeCallback>>
      /\ UNCHANGED <<rpcConn, stops, greeted, told, orphaned, ub>>
  BY DEF connectElsewhere, kernel, client, conns
<1>2. functors \in Seq(Jobs) /\ "connect" \in Jobs /\ ~Pending("connect") /\ OneConnect(functors)
  BY <1>1 DEF IInv, TypeOK, Jobs, Connects
<1>3. functors' \in Seq(Jobs) /\ Elems(functors') = Elems(functors) \cup {"connect"}
  BY <1>1, <1>2, ElemsAppend
<1>4. OneConnect(functors')
  BY <1>1, <1>2, OneAppend DEF Pending
<1>5. TypeOK'
  BY <1>1, <1>3 DEF IInv, TypeOK, Jobs
<1>6. Rounds' /\ Resets' /\ SafeEvents'
  BY <1>1, <1>3 DEF IInv, Rounds, Resets, Pending, SafeEvents
<1>7. Connects'
  BY <1>1, <1>2, <1>3, <1>4 DEF IInv, Connects, Pending, Owned
<1>8. Registered' /\ Owned' /\ Conn' /\ Heard'
  BY <1>1 DEF IInv, Registered, Owned, Conn, Heard
<1> QED BY <1>5, <1>6, <1>7, <1>8 DEF IInv

LEMMA StopInv == ASSUME IInv, stop PROVE IInv'
<1>1. /\ functors' = Append(functors, "stop") /\ stops' = stops + 1
      /\ UNCHANGED <<net, epoll, active, loopPc, batch, sockFd, sockChan, connection, local, closeCallback>>
      /\ UNCHANGED <<user, rpcConn, greeted, told, orphaned, ub>>
  BY DEF stop, kernel, client, conns
<1>2. functors \in Seq(Jobs) /\ "stop" \in Jobs /\ OneConnect(functors)
  BY <1>1 DEF IInv, TypeOK, Jobs, Connects
<1>3. functors' \in Seq(Jobs) /\ Elems(functors') = Elems(functors) \cup {"stop"}
  BY <1>1, <1>2, ElemsAppend
<1>4. OneConnect(functors')
  BY <1>1, <1>2, OneAppend
<1>5. TypeOK'
  BY <1>1, <1>3 DEF IInv, TypeOK, Jobs
<1>6. Rounds' /\ Resets' /\ Connects' /\ SafeEvents'
  BY <1>1, <1>3, <1>4 DEF IInv, Rounds, Resets, Connects, Pending, SafeEvents
<1>7. Registered' /\ Owned' /\ Conn' /\ Heard'
  BY <1>1, <1>3 DEF IInv, Registered, Owned, Conn, Heard, Pending
<1> QED BY <1>5, <1>6, <1>7 DEF IInv

\* The steps of the loop that only move functors or ask epoll.
LEMMA RoundInv ==
    ASSUME IInv, startLoop \/ poll \/ takeFunctors \/ endFunctors PROVE IInv'
<1>1. /\ UNCHANGED <<net, epoll, sockFd, sockChan, connection, local, closeCallback>>
      /\ UNCHANGED <<user, rpcConn, stops, greeted, told, orphaned, ub>>
      /\ loopPc \notin {"onConnection", "onClose"}
      /\ loopPc' \in {"start", "poll", "dispatch", "functors"}
      /\ active' \subseteq Channels /\ active' \subseteq epoll
      /\ loopPc' # "dispatch" => active' = {}
  BY DEF startLoop, poll, takeFunctors, endFunctors, kernel, client, conns, userVars, IInv, Rounds,
         TypeOK, Ready, Handling
<1>2. \/ UNCHANGED <<functors, batch>> /\ (batch = << >> \/ loopPc' = "functors")
      \/ functors' = << >> /\ batch' = functors /\ batch = << >> /\ loopPc' = "functors"
  BY DEF startLoop, poll, takeFunctors, endFunctors, IInv, Rounds
<1>3. /\ functors' \in Seq(Jobs) /\ batch' \in Seq(Jobs)
      /\ Elems(functors') \cup Elems(batch') = Elems(functors) \cup Elems(batch)
      /\ Elems(functors') = {} \/ (Elems(functors') = Elems(functors) /\ Elems(batch') = Elems(batch))
      /\ OneConnect(functors') /\ OneConnect(batch')
  BY <1>2, ElemsEmpty DEF IInv, TypeOK, Jobs, Connects
<1>4. TypeOK'
  BY <1>1, <1>3 DEF IInv, TypeOK, Jobs
<1>5. Rounds' /\ Connects' /\ SafeEvents'
  BY <1>1, <1>2, <1>3 DEF IInv, Rounds, Connects, Pending, SafeEvents, Handling
<1>6. "reset" \notin Elems(functors')
  BY <1>2, <1>3, ElemsEmpty DEF startLoop, poll, takeFunctors, endFunctors, IInv, Resets, Handling
<1>7. Resets'
  BY <1>1, <1>3, <1>6 DEF IInv, Resets, Pending
<1>8. Registered' /\ Owned' /\ Conn' /\ Heard'
  BY <1>1, <1>3 DEF IInv, Registered, Owned, Conn, Heard, Pending
<1> QED BY <1>4, <1>5, <1>7, <1>8 DEF IInv

\* The connector's socket can be written: the user was trying, and nothing is
\* queued that could touch the new connection.
LEMMA HandleWriteInv == ASSUME IInv, NEW a \in Attempts, handleWrite(a) PROVE IInv'
<1>1. /\ <<"connector", a>> \in active /\ sockChan = a /\ active' = active \ {<<"connector", a>>}
      /\ functors' = Append(functors, "reset")
      /\ loopPc = "dispatch"
      /\ UNCHANGED <<net, batch, sockFd, sockChan, connection, closeCallback, stops, told>>
      /\ UNCHANGED <<orphaned, ub>>
  BY DEF handleWrite, Alive
<1>2. /\ <<"connector", a>> \in epoll /\ a \notin orphaned /\ user = "trying" /\ a \notin greeted
      /\ a # 0 /\ sockFd = a /\ loopPc = "dispatch" /\ connection = 0 /\ local = 0
      /\ \A b \in Attempts : <<"connection", b>> \notin epoll
  <2>1. a # 0
    BY DEF Attempts
  <2>2. <<"connector", a>> \in epoll
    BY <1>1 DEF IInv, Rounds
  <2>3. a \notin orphaned /\ sockFd = a
    BY <1>1, <2>1 DEF IInv, Owned
  <2>4. user = "trying" /\ a \notin greeted
    BY <2>2, <2>3 DEF IInv, Registered
  <2> QED BY <1>1, <2>1, <2>2, <2>3, <2>4 DEF IInv, Registered, Conn
<1>3. /\ epoll' = (epoll \ {<<"connector", a>>}) \cup {<<"connection", a>>}
      /\ greeted' = greeted \cup {a} /\ user' = "connected" /\ rpcConn' = a
      /\ local' = a /\ loopPc' = "onConnection"
  BY <1>2 DEF handleWrite, newConnection
<1>4. functors \in Seq(Jobs) /\ "reset" \in Jobs /\ OneConnect(functors) /\ ~Pending("connect")
  BY <1>1, <1>2 DEF IInv, TypeOK, Jobs, Connects
<1>5. functors' \in Seq(Jobs) /\ Elems(functors') = Elems(functors) \cup {"reset"}
  BY <1>1, <1>4, ElemsAppend
<1>6. OneConnect(functors')
  BY <1>1, <1>4, OneAppend
<1>7. TypeOK'
  <2>1. a \in 0 .. MaxAttempts /\ <<"connection", a>> \in Channels
    BY ClientAssumption DEF Attempts, Channels
  <2> QED BY <1>1, <1>3, <1>5, <2>1 DEF IInv, TypeOK, Jobs
<1>8. Rounds'
  BY <1>1, <1>2, <1>3 DEF IInv, Rounds, Handling
<1>9. Resets'
  BY <1>1, <1>2, <1>3, <1>5 DEF IInv, Rounds, Resets, Pending, Handling
<1>10. Connects'
  BY <1>1, <1>4, <1>5, <1>6 DEF IInv, Connects, Pending
<1>11. Registered'
  <2> SUFFICES ASSUME NEW b \in Attempts
               PROVE  /\ <<"connector", b>> \in epoll' =>
                             b \in orphaned' \/ (user' = "trying" /\ b = sockChan')
                      /\ <<"connector", b>> \in epoll' => b <= sockFd' /\ b \notin greeted'
                      /\ <<"connection", b>> \in epoll' => user' = "connected" /\ b = sockFd'
    BY DEF Registered
  <2>1. <<"connector", b>> \in epoll' => <<"connector", b>> \in epoll /\ b # a
    BY <1>3
  <2>2. <<"connection", b>> \in epoll' => b = a
    BY <1>2, <1>3
  <2> QED BY <1>1, <1>2, <1>3, <2>1, <2>2 DEF IInv, Registered
<1>12. Owned'
  BY <1>1, <1>2, <1>3, <1>5 DEF IInv, Owned, Pending
<1>13. Conn' /\ SafeEvents'
  BY <1>1, <1>2, <1>3 DEF IInv, Conn, SafeEvents
<1>14. Heard'
  BY <1>1, <1>2, <1>3 DEF IInv, Heard, TypeOK, Attempts
<1> QED BY <1>7, <1>8, <1>9, <1>10, <1>11, <1>12, <1>13, <1>14 DEF IInv

\* onConnection returns: the connection that was greeted is remembered.
LEMMA RememberInv == ASSUME IInv, rememberConnection PROVE IInv'
<1>1. /\ loopPc = "onConnection" /\ loopPc' = "dispatch" /\ connection' = local /\ local' = 0
      /\ closeCallback' = closeCallback \cup {local}
      /\ UNCHANGED <<net, epoll, active, functors, batch, sockFd, sockChan>>
      /\ UNCHANGED <<user, rpcConn, stops, greeted, told, orphaned, ub>>
  BY DEF rememberConnection, kernel, userVars
<1>2. user = "connected" /\ local = sockFd /\ sockFd # 0 /\ local \in Attempts
  BY <1>1, ClientAssumption DEF IInv, Conn, TypeOK, Attempts
<1>3. TypeOK'
  <2>1. 0 \in 0 .. MaxAttempts
    BY ClientAssumption
  <2> QED BY <1>1, <1>2, <2>1 DEF IInv, TypeOK
<1>4. Rounds' /\ Resets' /\ Connects' /\ SafeEvents'
  BY <1>1 DEF IInv, Rounds, Resets, Connects, Pending, SafeEvents, Handling
<1>5. Registered' /\ Owned'
  BY <1>1 DEF IInv, Registered, Owned, Pending
<1>6. Conn'
  BY <1>1, <1>2 DEF IInv, Conn
<1>7. Heard'
  BY <1>1 DEF IInv, Heard
<1> QED BY <1>3, <1>4, <1>5, <1>6, <1>7 DEF IInv

\* A connection closes: no resetChannel can be queued.
LEMMA HandleCloseInv == ASSUME IInv, NEW a \in Attempts, handleClose(a) PROVE IInv'
<1>1. /\ <<"connection", a>> \in active /\ active' = active \ {<<"connection", a>>}
      /\ epoll' = epoll \ {<<"connection", a>>} /\ told' = told \cup {a} /\ user' = "idle"
      /\ loopPc = "dispatch" /\ loopPc' = "onClose" /\ local' = a
      /\ UNCHANGED <<net, functors, batch, sockFd, sockChan, connection, closeCallback, rpcConn>>
      /\ UNCHANGED <<stops, greeted, orphaned, ub>>
  BY DEF handleClose
<1>2. /\ <<"connection", a>> \in epoll /\ user = "connected" /\ a = sockFd /\ a # 0
      /\ batch = << >>
  <2>1. a # 0
    BY DEF Attempts
  <2>2. <<"connection", a>> \in epoll /\ batch = << >>
    BY <1>1 DEF IInv, Rounds
  <2> QED BY <2>1, <2>2 DEF IInv, Registered
<1>3. rpcConn = a /\ connection = a
  BY <1>1, <1>2 DEF IInv, Conn
<1>4. ~Pending("reset") /\ sockChan = 0 /\ ~Pending("connect")
  BY <1>1, <1>2, ElemsEmpty DEF IInv, Resets, Connects, Owned, Pending
<1>5. TypeOK'
  <2>1. a \in 0 .. MaxAttempts
    BY ClientAssumption DEF Attempts
  <2> QED BY <1>1, <1>3, <2>1 DEF IInv, TypeOK
<1>6. Rounds' /\ Resets' /\ Connects' /\ SafeEvents'
  BY <1>1, <1>3, <1>4 DEF IInv, Rounds, Resets, Connects, Pending, SafeEvents, Handling
<1>7. Registered'
  <2> SUFFICES ASSUME NEW b \in Attempts
               PROVE  /\ <<"connector", b>> \in epoll' =>
                             b \in orphaned' \/ (user' = "trying" /\ b = sockChan')
                      /\ <<"connector", b>> \in epoll' => b <= sockFd' /\ b \notin greeted'
                      /\ <<"connection", b>> \notin epoll'
    BY DEF Registered
  <2> QED BY <1>1, <1>2 DEF IInv, Registered
<1>8. Owned' /\ Conn'
  BY <1>1, <1>2, <1>3, <1>4 DEF IInv, Owned, Conn, Pending
<1>9. Heard'
  BY <1>1, <1>2, <1>3 DEF IInv, Heard, Attempts
<1> QED BY <1>5, <1>6, <1>7, <1>8, <1>9 DEF IInv

\* onClose returns: the connection is forgotten, and the RpcChannel still
\* holds it for the rest of its event.
LEMMA RemoveInv == ASSUME IInv, removeConnection PROVE IInv' /\ ~ub'
<1>1. /\ loopPc = "onClose" /\ loopPc' = "dispatch" /\ local' = 0 /\ ub' = (rpcConn # local)
      /\ connection' = IF local \in closeCallback /\ connection = local THEN 0 ELSE connection
      /\ UNCHANGED <<net, epoll, active, functors, batch, sockFd, sockChan, closeCallback>>
      /\ UNCHANGED <<user, rpcConn, stops, greeted, told, orphaned>>
  BY DEF removeConnection, kernel, userVars
<1>2. connection' = 0 /\ ub' = FALSE /\ user # "connected"
  BY <1>1 DEF IInv, Conn
<1>3. TypeOK'
  <2>1. 0 \in 0 .. MaxAttempts
    BY ClientAssumption
  <2> QED BY <1>1, <1>2, <2>1 DEF IInv, TypeOK
<1>4. Rounds' /\ Resets' /\ Connects' /\ SafeEvents'
  BY <1>1, <1>2 DEF IInv, Rounds, Resets, Connects, Pending, SafeEvents, Handling
<1>5. Registered' /\ Owned'
  BY <1>1 DEF IInv, Registered, Owned, Pending
<1>6. Conn' /\ Heard'
  BY <1>1, <1>2 DEF IInv, Conn, Heard
<1> QED BY <1>2, <1>3, <1>4, <1>5, <1>6 DEF IInv

\* Only a channel that stop() orphaned can be dead when its event comes.
LEMMA HandleFreedInv == ASSUME IInv, NEW ch \in Channels, handleFreed(ch) PROVE IInv'
<1>1. /\ ch \in active /\ ~Alive(ch) /\ ub' = TRUE
      /\ UNCHANGED <<net, epoll, active, loopPc, functors, batch, sockFd, sockChan, connection, local, closeCallback>>
      /\ UNCHANGED <<user, rpcConn, stops, greeted, told, orphaned>>
  BY DEF handleFreed, kernel, loopVars, client, conns, userVars
<1>2. PICK k \in {"connector", "connection"}, a \in Attempts : ch = <<k, a>>
  BY DEF Channels
<1>3. orphaned # {}
  BY <1>1, <1>2 DEF IInv, Rounds, Registered, Conn, Alive
<1> QED BY <1>1, <1>3 DEF IInv, TypeOK, Rounds, Resets, Connects, Pending, Registered, Owned, Conn,
             Heard, SafeEvents

LEMMA RunConnectInv == ASSUME IInv, runConnect PROVE IInv'
<1>1. /\ batch # << >> /\ Head(batch) = "connect" /\ batch' = Tail(batch) /\ connect
      /\ loopPc = "functors"
      /\ UNCHANGED <<active, loopPc, functors, connection, local, closeCallback, user, rpcConn>>
      /\ UNCHANGED <<stops, greeted, told>>
      /\ UNCHANGED <<orphaned, ub>>
  BY DEF runConnect, userVars, conns
<1>2. batch \in Seq(Jobs) /\ OneConnect(batch)
  BY DEF IInv, TypeOK, Jobs, Connects
<1>3. /\ batch' \in Seq(Jobs) /\ Elems(batch) = Elems(batch') \cup {"connect"}
      /\ OneConnect(batch') /\ "connect" \notin Elems(batch')
  BY <1>1, <1>2, ElemsTail
<1>4. user = "trying" /\ sockChan = 0 /\ "connect" \notin Elems(functors)
  BY <1>3 DEF IInv, Connects, Pending
<1>5. /\ sockFd' \in 0 .. MaxAttempts /\ sockChan' \in {0, sockFd'}
      /\ net' \in [Attempts -> {"none", "connecting", "up", "refused", "gone", "failed", "closed"}]
      /\ epoll \subseteq epoll' /\ epoll' \subseteq Channels
      /\ Registered' /\ Owned' /\ Conn' /\ Heard'
  BY <1>1, <1>4, ConnectInv
<1>6. sockChan' \in 0 .. MaxAttempts
  BY <1>5, ClientAssumption
<1>7. TypeOK'
  BY <1>1, <1>3, <1>5, <1>6 DEF IInv, TypeOK, Jobs
<1>8. Rounds' /\ Resets' /\ SafeEvents'
  BY <1>1, <1>3, <1>5 DEF IInv, Rounds, Resets, Pending, SafeEvents
<1>9. Connects'
  BY <1>1, <1>3, <1>4 DEF IInv, Connects, Pending
<1> QED BY <1>5, <1>7, <1>8, <1>9 DEF IInv

\* A channel that is reset was taken from epoll, or is orphaned.
LEMMA ResetInv == ASSUME IInv, resetChannel PROVE IInv'
<1>1. /\ batch # << >> /\ batch' = Tail(batch) /\ sockChan' = 0 /\ loopPc = "functors"
      /\ Head(batch) \in {"reset", "stop"}
      /\ UNCHANGED <<net, epoll, active, loopPc, functors, sockFd, connection, local, closeCallback>>
      /\ UNCHANGED <<user, rpcConn, stops, greeted, told, ub>>
  BY DEF resetChannel, kernel, userVars, conns
<1>2. batch \in Seq(Jobs) /\ OneConnect(batch)
  BY DEF IInv, TypeOK, Jobs, Connects
<1>3. /\ batch' \in Seq(Jobs) /\ Elems(batch) = Elems(batch') \cup {Head(batch)}
      /\ OneConnect(batch')
  BY <1>1, <1>2, ElemsTail
<1>4. /\ orphaned \subseteq orphaned' /\ orphaned' \subseteq Attempts /\ 0 \notin orphaned'
      /\ \A b \in orphaned' : b \in orphaned \/ b = sockChan
      /\ Head(batch) = "stop" /\ <<"connector", sockChan>> \in epoll => sockChan \in orphaned'
  <2>1. <<"connector", sockChan>> \in epoll => sockChan \in Attempts
    BY DEF IInv, TypeOK, Channels
  <2>2. orphaned' = orphaned \/ (orphaned' = orphaned \cup {sockChan} /\ sockChan \in Attempts)
    BY <2>1 DEF resetChannel
  <2>3. Head(batch) = "stop" /\ <<"connector", sockChan>> \in epoll => sockChan \in orphaned'
    BY DEF resetChannel
  <2>4. orphaned \subseteq Attempts /\ 0 \notin Attempts
    BY DEF IInv, TypeOK, Attempts
  <2> QED BY <2>2, <2>3, <2>4
<1>5. Head(batch) = "reset" => user = "connected"
  BY <1>3 DEF IInv, Resets, Pending
<1>6. TypeOK'
  <2>1. 0 \in 0 .. MaxAttempts
    BY ClientAssumption
  <2> QED BY <1>1, <1>3, <1>4, <2>1 DEF IInv, TypeOK, Jobs
<1>7. Rounds' /\ Resets' /\ SafeEvents'
  BY <1>1, <1>3, <1>4 DEF IInv, Rounds, Resets, Pending, SafeEvents
<1>8. Connects'
  BY <1>1, <1>3 DEF IInv, Connects, Pending
<1>9. Registered'
  BY <1>1, <1>4, <1>5 DEF IInv, Registered
<1>10. Owned'
  BY <1>1, <1>4 DEF IInv, Owned, TypeOK
<1>11. Conn' /\ Heard'
  BY <1>1 DEF IInv, Conn, Heard
<1> QED BY <1>6, <1>7, <1>8, <1>9, <1>10, <1>11 DEF IInv

LEMMA StepInv == IInv /\ [Next]_vars => IInv'
<1> SUFFICES ASSUME IInv, [Next]_vars PROVE IInv'
  OBVIOUS
<1>1. CASE UNCHANGED vars
  BY <1>1 DEF vars, kernel, loopVars, client, conns, userVars, IInv, TypeOK, Rounds, Resets, Connects,
     Pending, Registered, Owned, Conn, Heard, SafeEvents
<1>2. CASE loop
  BY <1>2, RoundInv, HandleWriteInv, RememberInv, HandleCloseInv, RemoveInv, HandleFreedInv,
     RunConnectInv, ResetInv DEF loop, handleEvent
<1>3. CASE connectHere \/ connectElsewhere \/ stop
  BY <1>3, ConnectHereInv, ConnectElsewhereInv, StopInv
<1>4. CASE \E a \in Attempts : resolves(a) \/ serverCloses(a)
  BY <1>4, NetInv
<1> QED BY <1>1, <1>2, <1>3, <1>4 DEF Next

-----------------------------------------------------------------------------
(* The theorems. *)

\* What the user knows, what is queued and what epoll points to always go
\* together.
THEOREM Invariance == Spec => []IInv
BY InitInv, StepInv, PTL DEF Spec

\* Every variable keeps its type, however many attempts and stops there are.
THEOREM TypeCorrect == Spec => []TypeOK
<1>1. IInv => TypeOK
  BY DEF IInv
<1> QED BY Invariance, <1>1, PTL

\* Connector and TcpConnection leave no pointer in epoll to a channel they
\* destroy, but for what stop() does in the middle of an attempt.
THEOREM NoDanglingChannel == Spec => []RegisteredAlive
<1>1. ASSUME IInv PROVE RegisteredAlive
  <2> SUFFICES ASSUME NEW ch \in epoll PROVE Alive(ch) \/ ch[2] \in orphaned
    BY DEF RegisteredAlive
  <2>1. PICK k \in {"connector", "connection"}, a \in Attempts : ch = <<k, a>>
    BY <1>1 DEF Channels, IInv, TypeOK
  <2> QED BY <1>1, <2>1 DEF IInv, Registered, Conn, Alive
<1> QED BY Invariance, <1>1, PTL

\* No event is handled by a destroyed channel unless stop() orphaned one.
THEOREM EventsAreSafe == Spec => []SafeEvents
<1>1. IInv => SafeEvents
  BY DEF IInv
<1> QED BY Invariance, <1>1, PTL

\* Outside of the user's callbacks connection() is what the user was told,
\* whatever was called, and from which thread; in onConnection it is still
\* null and in onClose still what has closed (TcpClient::newConnection,
\* removeConnection, TcpConnection::handleClose).
THEOREM ConnectionKnown == Spec => []ConnectionIsGreeted
<1>1. ASSUME IInv PROVE ConnectionIsGreeted
  <2>1. greeted \subseteq Attempts /\ told \subseteq greeted /\ 0 \notin Attempts
    BY <1>1 DEF IInv, TypeOK, Heard, Attempts
  <2>2. sockFd = 0 \/ sockFd \in Attempts
    BY <1>1, ClientAssumption DEF IInv, TypeOK, Attempts
  <2>3. greeted \ told = IF user = "connected" THEN {sockFd} ELSE {}
    BY <1>1, <2>1, <2>2 DEF IInv, Heard, Conn
  <2> QED BY <1>1, <2>1, <2>2, <2>3 DEF IInv, Conn, Heard, ConnectionIsGreeted
<1> QED BY Invariance, <1>1, PTL

-----------------------------------------------------------------------------
(***************************************************************************)
(* The server, TcpServer: accepting, the set-up of a connection on the     *)
(* base loop and its end on its own.  Whatever the loops are in the middle *)
(* of, who holds which socket follows from where newConnection is (SetUp)  *)
(* and from what each loop handles (Accepted); an open connection stays in *)
(* the map (Kept), and what keeps a client's connection alive is           *)
(* newConnection, then the queued greeting, then the channel in its        *)
(* context (Holders).  With one loop a handler finds newConnection over    *)
(* (OneLoop).                                                              *)
(***************************************************************************)
USE ServerAssumption

Places == {"idle", "constructing", "inserting", "setUser", "setCallback", "establishing"}

ServerTypes ==
    /\ numThreads \in PoolSizes /\ next \in Nat /\ (numThreads # 0 => next < numThreads)
    /\ loopOf \in [Fds -> Loops \cup {-1}]
    /\ peerAt \in [Clients -> {"away", "waiting", "accepted"}]
    /\ inbox \in [Fds -> Nat] /\ got \in [Fds -> Nat]
    /\ at \in Places /\ cur \in Fds \cup {Nothing} /\ (at = "idle" <=> cur = Nothing)
    /\ queued \in [Loops -> Seq(Fds)] /\ handling \in [Loops -> Clients \cup {Nothing}]
    /\ watched \subseteq Clients /\ mapUsers \subseteq Loops /\ heardOf \subseteq Fds
    /\ connections \subseteq Fds /\ closed \subseteq Fds

\* Each socket in anybody's hands was accepted, and newConnection's own has
\* got no further than newConnection.
Come(c) == loopOf[c] # -1
Accepted ==
    /\ \A c \in Clients : Come(c) <=> peerAt[c] = "accepted"
    /\ \A c \in Fds : c \in watched \cup closed \cup heardOf \cup connections => Come(c)
    /\ cur # Nothing => Come(cur) /\ cur \notin heardOf
    /\ \A l \in Loops : \A c \in Elems(queued[l]) : Come(c) /\ c # cur
    /\ \A l \in Loops : handling[l] # Nothing =>
          handling[l] \in closed /\ loopOf[handling[l]] = l /\ (l = 0 => at = "idle")
    /\ heardGone \subseteq closed /\ watched \cap closed = {}

SetUp ==
    /\ at \in {"setCallback", "establishing"} => cur \in hasUser
    /\ at = "establishing" => cur \in hasCloseCallback
    /\ \A c \in watched : c # cur => c \in hasUser /\ c \in hasCloseCallback
    /\ \A l \in Loops : Elems(queued[l]) \subseteq hasUser

OneLoop ==
    numThreads = 0 =>
        /\ \A c \in Fds : loopOf[c] \in {-1, 0}
        /\ \A c \in watched : c # cur => c \in heardOf /\ (KeepsChannel => c \in hasContext)
        /\ mapUsers \subseteq {0} /\ (0 \in mapUsers => at = "inserting" \/ handling[0] # Nothing)
        /\ KeepsChannel => undefined = "none" /\ (handling[0] # Nothing => handling[0] \in hasContext)
        /\ cur \notin closed /\ \A l \in Loops : queued[l] = << >>
        /\ \A c \in Clients : c \in connections /\ c \in closed => handling[0] = c /\ 0 \in mapUsers

Kept ==
    \A c \in Clients :
        /\ Come(c) /\ c \notin closed
        /\ c = cur => at \in {"setUser", "setCallback", "establishing"}
        => c \in connections

Holders ==
    KeepsChannel =>
        /\ undefined # "channel freed in its event"
        /\ \A c \in Clients : Come(c) =>
              c = cur \/ c \in hasContext \/ \E l \in Loops : c \in Elems(queued[l])

ServerInv == ServerTypes /\ Accepted /\ SetUp /\ OneLoop /\ Kept /\ Holders

USE DEF peers, accepting, settings, history

LEMMA QueueAppend ==
    ASSUME NEW S, NEW s \in Seq(S), NEW e \in S
    PROVE  Append(s, e) \in Seq(S) /\ Elems(Append(s, e)) = Elems(s) \cup {e}
<1>1. PICK t : t = Append(s, e)
  OBVIOUS
<1>2. /\ t \in Seq(S) /\ Len(t) = Len(s) + 1 /\ t[Len(s) + 1] = e
      /\ Len(s) \in Nat /\ \A i \in 1 .. Len(s) : t[i] = s[i]
  BY <1>1
<1>3. Elems(t) \subseteq Elems(s) \cup {e}
  BY <1>2 DEF Elems
<1>4. Elems(s) \subseteq Elems(t) /\ e \in Elems(t)
  BY <1>2 DEF Elems
<1> QED BY <1>1, <1>2, <1>3, <1>4

LEMMA QueueTail ==
    ASSUME NEW S, NEW s \in Seq(S), s # << >>
    PROVE  /\ Tail(s) \in Seq(S) /\ Head(s) \in S
           /\ Elems(s) = Elems(Tail(s)) \cup {Head(s)}
<1>1. PICK t, h : t = Tail(s) /\ h = Head(s)
  OBVIOUS
<1>2. /\ t \in Seq(S) /\ h \in S /\ Len(t) = Len(s) - 1 /\ Len(s) \in Nat /\ Len(s) > 0
      /\ h = s[1] /\ \A i \in 1 .. Len(t) : t[i] = s[i + 1]
  BY <1>1
<1>3. Elems(t) \subseteq Elems(s) /\ h \in Elems(s)
  BY <1>2 DEF Elems
<1>4. \A i \in 1 .. Len(s) : i = 1 \/ (i - 1 \in 1 .. Len(t) /\ (i - 1) + 1 = i)
  BY ONLY <1>2
<1>5. ASSUME NEW x \in Elems(s) PROVE x \in Elems(t) \cup {h}
  <2>1. PICK i \in 1 .. Len(s) : x = s[i]
    BY <1>5, <1>2 DEF Elems
  <2>2. CASE i = 1
    BY <1>2, <2>1, <2>2
  <2>3. CASE i - 1 \in 1 .. Len(t) /\ (i - 1) + 1 = i
    <3>1. t[i - 1] = x
      BY <1>2, <2>1, <2>3
    <3> QED
      BY <1>2, <2>3, <3>1 DEF Elems
  <2> QED
    BY <1>4, <2>1, <2>2, <2>3
<1> QED BY <1>1, <1>2, <1>3, <1>5

LEMMA ServerNames ==
    ASSUME ServerTypes
    PROVE  /\ Clients \subseteq Fds /\ NoFd \in Fds /\ NoFd \notin Clients /\ Nothing \notin Fds
           /\ Nothing \notin Clients /\ Loops \subseteq Nat /\ 0 \in Loops /\ numThreads \in Nat
           /\ NextLoop \in Loops /\ Rotated \in Nat
           /\ numThreads # 0 => Rotated < numThreads
           /\ numThreads = 0 => NextLoop = 0
           /\ \A c \in Fds : loopOf[c] \in Loops \cup {-1}
<1>1. /\ Clients \subseteq Fds /\ NoFd \in Fds /\ NoFd \notin Clients /\ Nothing \notin Fds
      /\ Nothing \notin Clients /\ PoolSizes \subseteq Nat
  BY ServerAssumption DEF Fds, Nothing
<1>2. numThreads \in PoolSizes /\ numThreads \in Nat /\ next \in Nat /\ (numThreads # 0 => next < numThreads)
  BY <1>1 DEF ServerTypes
<1>3. Loops \subseteq Nat
  BY <1>1 DEF Loops
<1>4. 0 .. numThreads \subseteq Loops
  BY <1>2 DEF Loops
<1>5. 0 \in Loops
  BY <1>2, <1>4
<1>6. NextLoop \in 0 .. numThreads /\ (numThreads = 0 => NextLoop = 0)
  BY <1>2 DEF NextLoop
<1>7. Rotated \in Nat /\ (numThreads # 0 => Rotated < numThreads)
  <2>1. CASE numThreads = 0
    BY <1>2, <2>1 DEF Rotated
  <2>2. CASE numThreads # 0
    <3>1. numThreads > 0 /\ next + 1 \in Nat
      BY <1>2, <2>2
    <3>2. (next + 1) % numThreads \in 0 .. numThreads - 1
      BY ONLY <1>2, <3>1
    <3> QED
      BY <1>2, <2>2, <3>2 DEF Rotated
  <2> QED
    BY <2>1, <2>2
<1> QED
  BY <1>1, <1>2, <1>3, <1>4, <1>5, <1>6, <1>7 DEF ServerTypes

\* Steps of the clients, which move no connection.
LEMMA ClientStep ==
    ASSUME ServerInv, NEW c \in Clients,
           arrives(c) \/ sends(c) \/ leaves(c) \/ resets(c)
    PROVE  ServerInv'
<1>1. /\ UNCHANGED <<numThreads, at, cur, next, loopOf, watched, hasUser, hasCloseCallback,
                     hasContext, connections, mapUsers, queued, handling, got, heardOf,
                     heardGone, closed, undefined>>
      /\ \/ /\ peerAt[c] = "away" /\ peerAt' = [peerAt EXCEPT ![c] = "waiting"]
            /\ UNCHANGED <<inbox, left>>
         \/ peerAt' = peerAt /\ inbox' = [inbox EXCEPT ![c] = @ + 1]
         \/ UNCHANGED <<peerAt, inbox>>
         \/ peerAt' = peerAt /\ \E n \in 0 .. inbox[c] : inbox' = [inbox EXCEPT ![c] = n]
  BY DEF arrives, sends, leaves, resets
<1>2. c \in Fds /\ Clients \subseteq Fds /\ numThreads \in PoolSizes
  BY ServerNames DEF ServerInv, ServerTypes
<1>3. /\ peerAt \in [Clients -> {"away", "waiting", "accepted"}] /\ inbox \in [Fds -> Nat]
  BY DEF ServerInv, ServerTypes
<1>4. /\ peerAt' \in [Clients -> {"away", "waiting", "accepted"}] /\ inbox' \in [Fds -> Nat]
      /\ \A d \in Clients : peerAt'[d] = "accepted" <=> peerAt[d] = "accepted"
  BY <1>1, <1>2, <1>3
<1>5. ServerTypes'
  BY <1>1, <1>4 DEF ServerInv, ServerTypes
<1>6. Accepted'
  BY <1>1, <1>4 DEF ServerInv, Accepted, Come
<1>7. SetUp' /\ OneLoop' /\ Kept' /\ Holders'
  BY <1>1 DEF ServerInv, SetUp, OneLoop, Kept, Holders, Come
<1> QED
  BY <1>5, <1>6, <1>7 DEF ServerInv

LEMMA AcceptStep ==
    ASSUME ServerInv, NEW c \in Fds, handleAccept(c)
    PROVE  ServerInv'
<1>0. /\ Clients \subseteq Fds /\ NoFd \in Fds /\ NoFd \notin Clients /\ Nothing \notin Fds
      /\ Nothing \notin Clients /\ Loops \subseteq Nat /\ 0 \in Loops /\ numThreads \in Nat
      /\ NextLoop \in Loops /\ Rotated \in Nat
      /\ numThreads # 0 => Rotated < numThreads
      /\ numThreads = 0 => NextLoop = 0
      /\ \A d \in Fds : loopOf[d] \in Loops \cup {-1}
  BY ServerNames DEF ServerInv
<1>1. /\ handling[0] = Nothing /\ at = "idle" /\ next' = Rotated
      /\ loopOf' = [loopOf EXCEPT ![c] = NextLoop]
      /\ at' = "constructing" /\ cur' = c
      /\ UNCHANGED <<numThreads, inbox, left, hasUser, hasCloseCallback, hasContext, connections,
                     mapUsers, queued, handling, got, heardOf, heardGone, closed, undefined>>
      /\ \/ /\ c \in Clients /\ peerAt[c] = "waiting" /\ watched' = watched \cup {c}
            /\ peerAt' = [peerAt EXCEPT ![c] = "accepted"]
         \/ c \notin Clients /\ loopOf[c] = -1 /\ UNCHANGED <<peerAt, watched>>
  BY <1>0 DEF handleAccept, Free
<1>2. cur = Nothing /\ Nothing # c
  BY <1>0, <1>1 DEF ServerInv, ServerTypes
<1>3. ~Come(c)
  BY <1>1 DEF ServerInv, Accepted, Come
<1>4. /\ c \notin watched \cup closed \cup heardOf \cup connections
      /\ \A l \in Loops : c \notin Elems(queued[l]) /\ handling[l] # c
  BY <1>2, <1>3 DEF ServerInv, Accepted, Come
<1>5. /\ loopOf' \in [Fds -> Loops \cup {-1}] /\ loopOf'[c] = NextLoop /\ loopOf'[c] # -1
      /\ \A d \in Fds : d # c => loopOf'[d] = loopOf[d]
  BY <1>0, <1>1 DEF ServerInv, ServerTypes
<1>6. ServerTypes'
  <2>1. /\ peerAt' \in [Clients -> {"away", "waiting", "accepted"}]
        /\ watched' \subseteq Clients
    BY <1>0, <1>1 DEF ServerInv, ServerTypes
  <2>2. /\ numThreads' \in PoolSizes /\ next' \in Nat /\ (numThreads' # 0 => next' < numThreads')
        /\ at' \in Places /\ cur' \in Fds \cup {Nothing} /\ (at' = "idle" <=> cur' = Nothing)
    BY <1>0, <1>1, <1>2 DEF ServerInv, ServerTypes, Places
  <2> QED
    BY <1>1, <1>5, <2>1, <2>2 DEF ServerInv, ServerTypes
<1>7. Accepted'
  <2>1. \A d \in Fds : Come(d)' <=> Come(d) \/ d = c
    BY <1>5 DEF Come
  <2>2. \A d \in Clients : Come(d)' <=> peerAt'[d] = "accepted"
    BY <1>0, <1>1, <2>1 DEF ServerInv, ServerTypes, Accepted
  <2>3. \A d \in Fds : d \in watched' \cup closed' \cup heardOf' \cup connections' => Come(d)'
    BY <1>1, <2>1 DEF ServerInv, Accepted
  <2>4. \A l \in Loops : \A d \in Elems(queued[l]) : Come(d)' /\ d # cur'
    <3>1. \A l \in Loops : Elems(queued[l]) \subseteq Fds
      BY DEF ServerInv, ServerTypes, Elems
    <3> QED
      BY <1>1, <1>4, <2>1, <3>1 DEF ServerInv, Accepted
  <2>5. \A l \in Loops : handling'[l] # Nothing =>
           handling'[l] \in closed' /\ loopOf'[handling'[l]] = l /\ (l = 0 => at' = "idle")
    <3>1. \A l \in Loops : handling[l] \in Clients \cup {Nothing}
      BY DEF ServerInv, ServerTypes
    <3> QED
      BY <1>0, <1>1, <1>4, <1>5, <3>1 DEF ServerInv, Accepted
  <2>6. heardGone' \subseteq closed' /\ watched' \cap closed' = {}
    BY <1>1, <1>4 DEF ServerInv, Accepted
  <2>7. Come(cur)' /\ cur' \notin heardOf'
    BY <1>1, <1>4, <1>5 DEF Come
  <2> QED
    BY <1>1, <2>2, <2>3, <2>4, <2>5, <2>6, <2>7 DEF Accepted, Come
<1>8. SetUp'
  BY <1>1, <1>2, <1>0 DEF ServerInv, ServerTypes, SetUp
<1>9. OneLoop'
  <2> SUFFICES ASSUME numThreads = 0 PROVE OneLoop'
    BY <1>1 DEF OneLoop
  <2>1. \A d \in Fds : loopOf'[d] \in {-1, 0}
    BY <1>0, <1>5 DEF ServerInv, OneLoop
  <2>2. \A d \in Clients : d \in connections' /\ d \in closed' => handling'[0] = d /\ 0 \in mapUsers'
    BY <1>1 DEF ServerInv, OneLoop
  <2> QED
    BY <1>0, <1>1, <1>2, <1>4, <2>1, <2>2 DEF ServerInv, ServerTypes, OneLoop
<1>10. Kept'
  <2> SUFFICES ASSUME NEW d \in Clients, Come(d)', d \notin closed, d # c
               PROVE  d \in connections
    BY <1>1 DEF Kept
  <2>1. Come(d) /\ d # cur
    BY <1>0, <1>2, <1>5 DEF Come
  <2> QED
    BY <2>1 DEF ServerInv, Kept
<1>11. Holders'
  <2> SUFFICES ASSUME KeepsChannel, NEW d \in Clients, Come(d)', d # c
               PROVE  d \in hasContext \/ \E l \in Loops : d \in Elems(queued[l])
    BY <1>1 DEF ServerInv, Holders
  <2>1. Come(d) /\ d # cur
    BY <1>0, <1>2, <1>5 DEF Come
  <2> QED
    BY <2>1 DEF ServerInv, Holders
<1> QED
  BY <1>6, <1>7, <1>8, <1>9, <1>10, <1>11 DEF ServerInv

\* What the steps below take from the types.
LEMMA ServerFacts ==
    ASSUME ServerInv
    PROVE  /\ Clients \subseteq Fds /\ NoFd \notin Clients /\ Nothing \notin Fds
           /\ Nothing \notin Clients /\ Loops \subseteq Nat /\ 0 \in Loops
           /\ cur \in Fds \cup {Nothing} /\ (at = "idle" <=> cur = Nothing) /\ at \in Places
           /\ handling \in [Loops -> Clients \cup {Nothing}] /\ watched \subseteq Clients
           /\ mapUsers \subseteq Loops /\ connections \subseteq Fds
           /\ queued \in [Loops -> Seq(Fds)] /\ heardOf \subseteq Fds /\ closed \subseteq Fds
BY ServerNames DEF ServerInv, ServerTypes

\* newConnection before runInLoop.
LEMMA SetUpStep ==
    ASSUME ServerInv, undefined = "none",
           \/ insertStarts \/ insertEnds \/ setUser
           \/ setUpLayerCloseCallback
    PROVE  ServerInv'
<1>1. /\ Clients \subseteq Fds /\ Nothing \notin Fds /\ Nothing \notin Clients /\ 0 \in Loops
      /\ cur \in Fds \cup {Nothing} /\ (at = "idle" <=> cur = Nothing)
      /\ mapUsers \subseteq Loops /\ connections \subseteq Fds
  BY ServerFacts
<1>2. /\ UNCHANGED <<numThreads, peerAt, inbox, left, cur, next, loopOf, watched, hasContext,
                     queued, handling, got, heardOf, heardGone, closed>>
      /\ at # "idle" /\ at' # "idle" /\ at' \in Places
  BY DEF insertStarts, insertEnds, setUser, setUpLayerCloseCallback,
         StartsOnMap, Places
<1>3. /\ mapUsers' \subseteq mapUsers \cup {0} /\ \A l \in Loops : l \in mapUsers => l \in mapUsers' \/ l = 0
      /\ connections' \subseteq connections \cup {cur} /\ connections \subseteq connections'
      /\ hasUser \subseteq hasUser' /\ hasCloseCallback \subseteq hasCloseCallback'
      /\ at' = "setUser" => cur \in connections'
      /\ at' = "setCallback" => cur \in hasUser' /\ at = "setUser"
      /\ at' = "establishing" => cur \in hasCloseCallback' /\ at = "setCallback"
      /\ at' \in {"inserting", "setUser", "setCallback", "establishing"}
  BY DEF insertStarts, insertEnds, setUser, setUpLayerCloseCallback,
         StartsOnMap
<1>4. cur \in Fds /\ Come(cur) /\ handling[0] = Nothing
  BY <1>1, <1>2 DEF ServerInv, Accepted
<1>5. ServerTypes'
  BY <1>1, <1>2, <1>3, <1>4 DEF ServerInv, ServerTypes
<1>6. Accepted'
  BY <1>2, <1>3, <1>4 DEF ServerInv, Accepted, Come
<1>7. SetUp'
  BY <1>2, <1>3 DEF ServerInv, SetUp
<1>8. OneLoop'
  <2> SUFFICES ASSUME numThreads = 0 PROVE OneLoop'
    BY <1>2 DEF OneLoop
  <2>1. at = "constructing" => mapUsers = {}
    BY <1>4 DEF ServerInv, OneLoop
  <2>2. KeepsChannel => undefined' = "none"
    BY <2>1 DEF insertStarts, insertEnds, setUser,
       setUpLayerCloseCallback, StartsOnMap
  <2>3. mapUsers' \subseteq {0} /\ (0 \in mapUsers' => at' = "inserting")
    BY <1>4, <2>1 DEF ServerInv, OneLoop, insertStarts, insertEnds, setUser,
       setUpLayerCloseCallback, StartsOnMap
  <2>4. \A c \in Clients : c \in connections' /\ c \in closed' => handling'[0] = c /\ 0 \in mapUsers'
    <3>1. \A c \in Clients : c \in connections /\ c \in closed => FALSE
      BY <1>1, <1>4, <2>1 DEF ServerInv, OneLoop
    <3> QED
      BY <1>2, <1>3, <2>1, <3>1 DEF ServerInv, OneLoop
  <2> QED
    BY <1>2, <1>4, <2>2, <2>3, <2>4 DEF ServerInv, OneLoop
<1>9. Kept' /\ Holders'
  <2>1. at' \in {"setUser", "setCallback", "establishing"}
           => cur \in connections' \/ cur \in closed \/ cur \notin Clients
    <3>1. at \in {"setUser", "setCallback"} => cur \in connections \/ cur \in closed \/ cur \notin Clients
      BY <1>4 DEF ServerInv, Kept
    <3>2. at' = "setUser" \/ at \in {"setUser", "setCallback"} \/ at' = "inserting"
      BY <1>3
    <3>3. at = "constructing" \/ at = "inserting" \/ at = "setUser" \/ at = "setCallback"
      BY DEF insertStarts, insertEnds, setUser, setUpLayerCloseCallback
    <3> QED
      BY <1>3, <3>1, <3>2
  <2>2. \A c \in Clients : c # cur => Come(c)' = Come(c)
    BY <1>2 DEF Come
  <2>3. Kept'
    BY <1>2, <1>3, <2>1, <2>2 DEF ServerInv, Kept
  <2>4. KeepsChannel => undefined' # "channel freed in its event"
    BY DEF ServerInv, Holders, insertStarts, insertEnds, setUser, setUpLayerCloseCallback, StartsOnMap
  <2>5. Holders'
    BY <1>2, <2>4 DEF ServerInv, Holders, Come
  <2> QED
    BY <2>3, <2>5
<1> QED
  BY <1>5, <1>6, <1>7, <1>8, <1>9 DEF ServerInv

\* The connection is established at once, on loop 0, or queued to its loop.
LEMMA EstablishStep ==
    ASSUME ServerInv, establish
    PROVE  ServerInv'
<1>1. /\ Clients \subseteq Fds /\ Nothing \notin Fds /\ Nothing \notin Clients /\ 0 \in Loops
      /\ cur \in Fds \cup {Nothing} /\ (at = "idle" <=> cur = Nothing)
      /\ queued \in [Loops -> Seq(Fds)] /\ heardOf \subseteq Fds /\ closed \subseteq Fds
  BY ServerFacts
<1>2. /\ at = "establishing" /\ at' = "idle" /\ cur' = Nothing
      /\ UNCHANGED <<numThreads, peerAt, inbox, left, next, loopOf, watched, hasUser,
                     hasCloseCallback, connections, mapUsers, handling, got, heardGone, closed,
                     undefined>>
  BY DEF establish, connectEstablished
<1>3. cur \in Fds /\ Come(cur) /\ cur \in hasUser /\ cur \in hasCloseCallback
  BY <1>1, <1>2 DEF ServerInv, Accepted, SetUp
<1>4. loopOf[cur] \in Loops
  BY <1>3, ServerNames DEF ServerInv, Come
<1>5. \/ /\ loopOf[cur] = 0 /\ queued' = queued /\ heardOf' = heardOf \cup {cur}
         /\ hasContext' = IF KeepsChannel THEN hasContext \cup {cur} ELSE hasContext
      \/ /\ loopOf[cur] # 0 /\ UNCHANGED <<heardOf, hasContext>>
         /\ queued' = [queued EXCEPT ![loopOf[cur]] = Append(@, cur)]
  BY <1>3 DEF establish, connectEstablished
<1>6. /\ queued' \in [Loops -> Seq(Fds)]
      /\ \A l \in Loops : Elems(queued'[l]) \subseteq Elems(queued[l]) \cup {cur}
      /\ heardOf \subseteq heardOf' /\ heardOf' \subseteq heardOf \cup {cur}
      /\ \A l \in Loops : Elems(queued[l]) \subseteq Elems(queued'[l])
      /\ hasContext \subseteq hasContext'
      /\ KeepsChannel => cur \in hasContext' \/ \E l \in Loops : cur \in Elems(queued'[l])
  <2>1. CASE loopOf[cur] = 0
    BY <1>1, <1>5, <2>1
  <2>2. CASE loopOf[cur] # 0
    <3>1. PICK k \in Loops : k = loopOf[cur]
      BY <1>4
    <3>2. /\ Append(queued[k], cur) \in Seq(Fds)
          /\ Elems(Append(queued[k], cur)) = Elems(queued[k]) \cup {cur}
      BY <1>1, <1>3, QueueAppend
    <3>3. queued' = [queued EXCEPT ![k] = Append(queued[k], cur)]
      BY <1>5, <2>2, <3>1
    <3> QED
      BY <1>1, <1>5, <2>2, <3>2, <3>3
  <2> QED
    BY <2>1, <2>2
<1>7. ServerTypes'
  BY <1>2, <1>3, <1>6 DEF ServerInv, ServerTypes, Places
<1>8. Accepted'
  <2>1. \A l \in Loops : \A c \in Elems(queued'[l]) : Come(c) /\ c # Nothing
    <3>1. \A l \in Loops : Elems(queued[l]) \subseteq Fds
      BY <1>1 DEF Elems
    <3> QED
      BY <1>1, <1>3, <1>6, <3>1 DEF ServerInv, Accepted
  <2> QED
    BY <1>2, <1>3, <1>6, <2>1 DEF ServerInv, Accepted, Come
<1>9. SetUp'
  BY <1>2, <1>3, <1>6 DEF ServerInv, SetUp
<1>10. OneLoop'
  <2> SUFFICES ASSUME numThreads = 0 PROVE OneLoop'
    BY <1>2 DEF OneLoop
  <2>1. loopOf[cur] = 0
    BY <1>3 DEF ServerInv, OneLoop, Come
  <2>2. heardOf' = heardOf \cup {cur} /\ (KeepsChannel => cur \in hasContext')
    BY <1>5, <2>1
  <2>3. queued' = queued /\ Nothing \notin closed
    BY <1>1, <1>5, <2>1
  <2> QED
    BY <1>2, <1>6, <2>2, <2>3 DEF ServerInv, OneLoop
<1>11. Kept'
  BY <1>1, <1>2 DEF ServerInv, Kept, Come
<1>12. Holders'
  <2> SUFFICES ASSUME KeepsChannel, NEW c \in Clients, Come(c)
               PROVE  c \in hasContext' \/ \E l \in Loops : c \in Elems(queued'[l])
    BY <1>2 DEF ServerInv, Holders, Come
  <2>1. c = cur \/ c \in hasContext \/ \E l \in Loops : c \in Elems(queued[l])
    BY DEF ServerInv, Holders
  <2> QED
    BY <1>6, <2>1
<1> QED
  BY <1>7, <1>8, <1>9, <1>10, <1>11, <1>12 DEF ServerInv

\* On one loop, a connection that has an event is not newConnection's, which
\* is over.
LEMMA NotInSetUp ==
    ASSUME ServerInv, numThreads = 0, NEW l \in Loops, NEW c \in Clients,
           Free(l), loopOf[c] = l, c \in watched
    PROVE  /\ c # cur /\ c \in hasUser /\ c \in hasCloseCallback /\ c \in heardOf
           /\ l = 0 /\ at = "idle" /\ (KeepsChannel => c \in hasContext)
<1>1. /\ Clients \subseteq Fds /\ Nothing \notin Clients /\ Loops \subseteq Nat
      /\ (at = "idle" <=> cur = Nothing)
  BY ServerFacts
<1>2. l = 0
  BY <1>1 DEF ServerInv, OneLoop
<1>3. c # cur /\ at = "idle"
  BY <1>1, <1>2 DEF Free
<1> QED
  BY <1>2, <1>3 DEF ServerInv, OneLoop, SetUp

LEMMA ReadStep ==
    ASSUME ServerInv, undefined = "none",
           NEW l \in Loops, NEW c \in Clients, handleRead(l, c)
    PROVE  ServerInv'
<1>1. PICK n \in 1 .. inbox[c] :
         inbox' = [inbox EXCEPT ![c] = @ - n] /\ got' = [got EXCEPT ![c] = @ + n]
  BY DEF handleRead
<1>2. /\ Free(l) /\ loopOf[c] = l /\ c \in watched /\ inbox[c] > 0
      /\ undefined' = Unready(c)
      /\ UNCHANGED <<numThreads, peerAt, left, at, cur, next, loopOf, watched, hasUser,
                     hasCloseCallback, hasContext, connections, mapUsers, queued, handling,
                     heardOf, heardGone, closed>>
  BY DEF handleRead
<1>3. c \in Fds /\ inbox \in [Fds -> Nat] /\ got \in [Fds -> Nat] /\ Clients \subseteq Fds
  BY ServerFacts DEF ServerInv, ServerTypes
<1>4. /\ inbox' \in [Fds -> Nat] /\ got' \in [Fds -> Nat]
      /\ \A d \in Clients : inbox'[d] > 0 => inbox[d] > 0
  BY <1>1, <1>3
<1>5. ServerTypes'
  BY <1>2, <1>4 DEF ServerInv, ServerTypes
<1>6. Accepted' /\ SetUp'
  BY <1>2 DEF ServerInv, Accepted, SetUp, Come
<1>7. OneLoop'
  <2> SUFFICES ASSUME numThreads = 0 PROVE OneLoop'
    BY <1>2 DEF OneLoop
  <2>1. c # cur /\ c \in hasUser /\ (KeepsChannel => c \in hasContext)
    BY <1>2, NotInSetUp
  <2>2. undefined' = "none"
    BY <1>2, <2>1 DEF Unready
  <2> QED
    BY <1>2, <2>2 DEF ServerInv, OneLoop
<1>8. Kept' /\ Holders'
  <2>1. undefined' # "channel freed in its event"
    BY <1>2 DEF Unready
  <2> QED
    BY <1>2, <2>1 DEF ServerInv, Kept, Holders, Come
<1> QED
  BY <1>5, <1>6, <1>7, <1>8 DEF ServerInv

LEMMA CloseStep ==
    ASSUME ServerInv, undefined = "none",
           NEW l \in Loops, NEW c \in Clients, serverHandleClose(l, c)
    PROVE  ServerInv'
<1>1. /\ Clients \subseteq Fds /\ Nothing \notin Fds /\ Nothing \notin Clients
      /\ handling \in [Loops -> Clients \cup {Nothing}] /\ watched \subseteq Clients
      /\ mapUsers \subseteq Loops /\ closed \subseteq Fds /\ (at = "idle" <=> cur = Nothing)
  BY ServerFacts
<1>2. /\ Free(l) /\ loopOf[c] = l /\ c \in watched /\ c \in left
      /\ watched' = watched \ {c} /\ closed' = closed \cup {c}
      /\ heardGone' = (IF c \in hasUser THEN heardGone \cup {c} ELSE heardGone)
      /\ handling' = [handling EXCEPT ![l] = c]
      /\ UNCHANGED <<numThreads, peerAt, inbox, left, at, cur, next, loopOf, hasUser,
                     hasCloseCallback, hasContext, connections, queued, got, heardOf>>
  BY DEF serverHandleClose
<1>3. /\ mapUsers \subseteq mapUsers' /\ mapUsers' \subseteq mapUsers \cup {l}
      /\ c # cur /\ c \in hasCloseCallback =>
            mapUsers' = mapUsers \cup {l} /\ (mapUsers = {} => undefined' = undefined)
  BY DEF serverHandleClose, StartsOnMap
<1>4. /\ handling' \in [Loops -> Clients \cup {Nothing}] /\ handling'[l] = c
      /\ \A k \in Loops : k # l => handling'[k] = handling[k]
  BY <1>1, <1>2
<1>5. ServerTypes'
  BY <1>1, <1>2, <1>3, <1>4 DEF ServerInv, ServerTypes
<1>6. Accepted'
  <2>1. Come(c)
    BY <1>1, <1>2 DEF ServerInv, Accepted
  <2>2. \A k \in Loops : handling'[k] # Nothing =>
           handling'[k] \in closed' /\ loopOf[handling'[k]] = k /\ (k = 0 => at = "idle")
    BY <1>2, <1>4 DEF ServerInv, Accepted, Free
  <2>3. heardGone' \subseteq closed' /\ watched' \cap closed' = {}
    BY <1>2 DEF ServerInv, Accepted
  <2> QED
    BY <1>2, <2>1, <2>2, <2>3 DEF ServerInv, Accepted, Come
<1>7. SetUp'
  BY <1>2 DEF ServerInv, SetUp
<1>8. OneLoop'
  <2> SUFFICES ASSUME numThreads = 0 PROVE OneLoop'
    BY <1>2 DEF OneLoop
  <2>1. /\ c # cur /\ c \in hasCloseCallback /\ l = 0 /\ at = "idle"
        /\ KeepsChannel => c \in hasContext
    BY <1>2, NotInSetUp
  <2>2. mapUsers = {}
    BY <1>2, <2>1 DEF ServerInv, OneLoop, Free
  <2>3. \A d \in Clients : d \in connections /\ d \in closed' => handling'[0] = d /\ 0 \in mapUsers'
    <3>1. \A d \in Clients : d \in connections /\ d \in closed => FALSE
      BY <1>1, <1>2, <2>1 DEF ServerInv, OneLoop, Free
    <3> QED
      BY <1>2, <1>3, <1>4, <2>1, <3>1
  <2> QED
    BY <1>1, <1>2, <1>3, <1>4, <2>1, <2>2, <2>3 DEF ServerInv, OneLoop
<1>9. Kept'
  BY <1>2 DEF ServerInv, Kept, Come
<1>10. Holders'
  <2>1. KeepsChannel => undefined' # "channel freed in its event"
    BY DEF serverHandleClose, StartsOnMap, ServerInv, Holders
  <2> QED
    BY <1>2, <2>1 DEF ServerInv, Holders, Come
<1> QED
  BY <1>5, <1>6, <1>7, <1>8, <1>9, <1>10 DEF ServerInv

LEMMA RemoveStep ==
    ASSUME ServerInv, NEW l \in Loops, serverRemoveConnection(l)
    PROVE  ServerInv'
<1>1. /\ Nothing \notin Clients /\ handling \in [Loops -> Clients \cup {Nothing}]
      /\ Loops \subseteq Nat /\ Clients \subseteq Fds /\ connections \subseteq Fds
      /\ mapUsers \subseteq Loops
  BY ServerFacts
<1>2. /\ l \in mapUsers /\ handling[l] # Nothing
      /\ connections' = connections \ {handling[l]} /\ mapUsers' = mapUsers \ {l}
      /\ UNCHANGED <<numThreads, peerAt, inbox, left, at, cur, next, loopOf, watched, hasUser,
                     hasCloseCallback, hasContext, queued, handling, got, heardOf, heardGone,
                     closed, undefined>>
  BY DEF serverRemoveConnection
<1>3. ServerTypes'
  BY <1>1, <1>2 DEF ServerInv, ServerTypes
<1>4. Accepted' /\ SetUp' /\ Holders'
  BY <1>2 DEF ServerInv, Accepted, SetUp, Holders, Come
<1>5. OneLoop'
  <2> SUFFICES ASSUME numThreads = 0 PROVE OneLoop'
    BY <1>2 DEF OneLoop
  <2>1. l = 0
    <3>1. handling[l] \in Fds /\ loopOf[handling[l]] = l
      BY <1>1, <1>2 DEF ServerInv, Accepted
    <3> QED
      BY <1>1, <3>1 DEF ServerInv, OneLoop
  <2> QED
    BY <1>2, <2>1 DEF ServerInv, OneLoop
<1>6. Kept'
  BY <1>2 DEF ServerInv, Accepted, Kept, Come
<1> QED
  BY <1>3, <1>4, <1>5, <1>6 DEF ServerInv

LEMMA EventEndsStep ==
    ASSUME ServerInv, NEW l \in Loops, eventEnds(l)
    PROVE  ServerInv'
<1>1. /\ Nothing \notin Clients /\ handling \in [Loops -> Clients \cup {Nothing}]
      /\ Loops \subseteq Nat /\ 0 \in Loops
  BY ServerFacts
<1>2. /\ handling[l] # Nothing /\ l \notin mapUsers
      /\ undefined' = (IF Held(handling[l]) THEN undefined ELSE "channel freed in its event")
      /\ handling' = [handling EXCEPT ![l] = Nothing]
      /\ UNCHANGED <<numThreads, peerAt, inbox, left, at, cur, next, loopOf, watched, hasUser,
                     hasCloseCallback, hasContext, connections, mapUsers, queued, got, heardOf,
                     heardGone, closed>>
  BY DEF eventEnds
<1>3. /\ handling' \in [Loops -> Clients \cup {Nothing}] /\ handling'[l] = Nothing
      /\ \A k \in Loops : k # l => handling'[k] = handling[k]
  BY <1>1, <1>2
<1>4. ServerTypes'
  BY <1>2, <1>3 DEF ServerInv, ServerTypes
<1>5. Accepted' /\ SetUp'
  <2>1. \A k \in Loops : handling'[k] # Nothing =>
           handling'[k] \in closed' /\ loopOf'[handling'[k]] = k /\ (k = 0 => at' = "idle")
    <3> SUFFICES ASSUME NEW k \in Loops, handling'[k] # Nothing
                 PROVE  handling[k] \in closed /\ loopOf[handling[k]] = k /\ (k = 0 => at = "idle")
      BY <1>2, <1>3
    <3>1. handling[k] # Nothing
      BY <1>3
    <3> QED
      BY <3>1 DEF ServerInv, Accepted
  <2>2. Accepted'
    <3>1. /\ \A c \in Clients : Come(c)' <=> peerAt'[c] = "accepted"
          /\ \A c \in Fds : c \in watched' \cup closed' \cup heardOf' \cup connections' => Come(c)'
      BY <1>2 DEF ServerInv, Accepted, Come
    <3>2. /\ cur' # Nothing => Come(cur)' /\ cur' \notin heardOf'
          /\ \A k \in Loops : \A c \in Elems(queued'[k]) : Come(c)' /\ c # cur'
          /\ heardGone' \subseteq closed' /\ watched' \cap closed' = {}
      BY <1>2 DEF ServerInv, Accepted, Come
    <3> QED
      BY <2>1, <3>1, <3>2 DEF Accepted
  <2>3. SetUp'
    BY <1>2 DEF ServerInv, SetUp
  <2> QED
    BY <2>2, <2>3
<1>6. OneLoop'
  <2> SUFFICES ASSUME numThreads = 0 PROVE OneLoop'
    BY <1>2 DEF OneLoop
  <2>1. l = 0
    <3>1. handling[l] \in Fds /\ loopOf[handling[l]] = l
      BY <1>1, <1>2, ServerFacts DEF ServerInv, Accepted
    <3> QED
      BY <1>1, <3>1 DEF ServerInv, OneLoop
  <2>2. KeepsChannel => undefined' = "none"
    BY <1>2, <2>1 DEF ServerInv, OneLoop, Held
  <2>3. \A c \in Clients : c \in connections /\ c \in closed => FALSE
    BY <1>2, <2>1 DEF ServerInv, OneLoop
  <2> QED
    BY <1>2, <1>3, <2>1, <2>2, <2>3 DEF ServerInv, OneLoop
<1>7. Kept'
  BY <1>2 DEF ServerInv, Kept, Come
<1>8. Holders'
  <2>1. PICK c \in Clients : c = handling[l]
    BY <1>1, <1>2
  <2>2. Come(c)
    BY <1>2, <2>1, ServerFacts DEF ServerInv, Accepted
  <2>3. KeepsChannel => Held(c)
    <3>1. \A k \in Loops : c \in Elems(queued[k]) => \E i \in DOMAIN queued[k] : queued[k][i] = c
      <4>1. \A k \in Loops : DOMAIN queued[k] = 1 .. Len(queued[k])
        BY ServerFacts
      <4> QED
        BY <4>1 DEF Elems
    <3> QED
      BY <2>2, <3>1 DEF ServerInv, Holders, Held
  <2>4. KeepsChannel => undefined' = undefined
    BY <1>2, <2>1, <2>3
  <2> QED
    BY <1>2, <2>4 DEF ServerInv, Holders, Come
<1> QED
  BY <1>4, <1>5, <1>6, <1>7, <1>8 DEF ServerInv

LEMMA FunctorStep ==
    ASSUME ServerInv, NEW l \in Loops, runFunctor(l)
    PROVE  ServerInv'
<1>1. queued \in [Loops -> Seq(Fds)] /\ heardOf \subseteq Fds
  BY ServerFacts
<1>2. PICK c : c = Head(queued[l])
  OBVIOUS
<1>3. /\ queued[l] # << >> /\ queued' = [queued EXCEPT ![l] = Tail(queued[l])]
      /\ heardOf \subseteq heardOf' /\ heardOf' \subseteq heardOf \cup {c}
      /\ hasContext \subseteq hasContext'
      /\ UNCHANGED <<numThreads, peerAt, inbox, left, at, cur, next, loopOf, watched, hasUser,
                     hasCloseCallback, connections, mapUsers, handling, got, heardGone, closed,
                     undefined>>
  BY <1>2 DEF runFunctor, connectEstablished
<1>4. /\ Tail(queued[l]) \in Seq(Fds) /\ c \in Fds
      /\ Elems(queued[l]) = Elems(Tail(queued[l])) \cup {c}
  BY <1>1, <1>2, <1>3, QueueTail
<1>5. /\ queued' \in [Loops -> Seq(Fds)]
      /\ \A k \in Loops : Elems(queued'[k]) \subseteq Elems(queued[k])
      /\ \A k \in Loops : Elems(queued[k]) \subseteq Elems(queued'[k]) \cup {c}
  BY <1>1, <1>3, <1>4
<1>6. Come(c) /\ c # cur
  BY <1>4 DEF ServerInv, Accepted
<1>7. ServerTypes'
  BY <1>3, <1>4, <1>5 DEF ServerInv, ServerTypes
<1>8. Accepted'
  BY <1>3, <1>5, <1>6 DEF ServerInv, Accepted, Come
<1>9. SetUp' /\ Kept'
  BY <1>3, <1>5 DEF ServerInv, SetUp, Kept, Come
<1>10. OneLoop'
  BY <1>3 DEF ServerInv, OneLoop
<1>11. Holders'
  <2> SUFFICES ASSUME KeepsChannel, NEW d \in Clients, Come(d)
               PROVE  d = cur \/ d \in hasContext' \/ \E k \in Loops : d \in Elems(queued'[k])
    BY <1>3 DEF ServerInv, Holders, Come
  <2>1. c \in hasContext'
    <3>1. c \in hasUser
      BY <1>4 DEF ServerInv, SetUp
    <3> QED
      BY <1>2, <3>1 DEF runFunctor, connectEstablished
  <2>2. d = cur \/ d \in hasContext \/ \E k \in Loops : d \in Elems(queued[k])
    BY DEF ServerInv, Holders
  <2> QED
    BY <1>3, <1>5, <2>1, <2>2
<1> QED
  BY <1>7, <1>8, <1>9, <1>10, <1>11 DEF ServerInv

LEMMA ServerInvStep ==
    ASSUME ServerInv, [ServerNext]_serverVars
    PROVE  ServerInv'
<1>1. ASSUME NEW l \in Loops, undefined = "none", LoopStep(l) PROVE ServerInv'
  BY <1>1, ReadStep, CloseStep, RemoveStep, EventEndsStep, FunctorStep DEF LoopStep
<1>2. 0 \in Loops
  BY ServerFacts
<1>3. CASE undefined = "none" /\ BaseStep
  BY <1>1, <1>2, <1>3, AcceptStep, SetUpStep, EstablishStep DEF BaseStep, serverNewConnection
<1>4. CASE UNCHANGED serverVars
  <2>1. ServerTypes'
    BY <1>4 DEF serverVars, ServerInv, ServerTypes
  <2>2. Accepted' /\ SetUp'
    BY <1>4 DEF serverVars, ServerInv, Accepted, SetUp, Come
  <2>3. OneLoop'
    BY <1>4 DEF serverVars, ServerInv, OneLoop
  <2>4. Kept' /\ Holders'
    BY <1>4 DEF serverVars, ServerInv, Kept, Holders, Come
  <2> QED
    BY <2>1, <2>2, <2>3, <2>4 DEF ServerInv
<1> QED
  BY <1>1, <1>3, <1>4, ClientStep DEF ServerNext, Step

LEMMA ServerInvInit == ServerInit => ServerInv
<1> SUFFICES ASSUME ServerInit PROVE ServerInv
  OBVIOUS
<1>1. << >> \in Seq(Fds) /\ Elems(<< >>) = {}
  BY ElemsEmpty
<1>2. /\ NoFd \notin Clients /\ Nothing \notin Clients \cup {NoFd} /\ PoolSizes \subseteq Nat
  BY ServerAssumption
<1>3. ServerTypes
  BY <1>1, <1>2 DEF ServerInit, ServerTypes, Places, Fds
<1>4. Accepted
  BY <1>1, <1>2, <1>3 DEF ServerInit, Accepted, Come, Fds
<1>5. SetUp /\ OneLoop
  <2>1. 0 \in Loops
    BY <1>3, ServerNames
  <2> QED
    BY <1>1, <2>1 DEF ServerInit, SetUp, OneLoop
<1>6. Kept /\ Holders
  BY DEF ServerInit, Kept, Holders, Come, Fds
<1> QED
  BY <1>3, <1>4, <1>5, <1>6 DEF ServerInv

LEMMA ServerInvariant == ServerSpec => []ServerInv
<1>1. ServerInv /\ [ServerNext]_serverVars => ServerInv'
  BY ServerInvStep
<1>2. ServerInit => ServerInv
  BY ServerInvInit
<1> QED
  BY <1>1, <1>2, PTL DEF ServerSpec

(***************************************************************************)
(* With any number of IO threads, and clients that send, leave and reset   *)
(* when they like, _connections has every connection that is open, but for *)
(* one being set up; without IO threads it has no other, but for one being *)
(* taken down (TcpServer::newConnection, removeConnection).                *)
(***************************************************************************)
THEOREM ServesWhoIsThere == ServerSpec => []MapIsOpen
<1>1. ASSUME ServerInv PROVE MapIsOpen
  <2> SUFFICES ASSUME NEW c \in Clients, cur # c, \A l \in Loops : handling[l] # c
               PROVE  /\ peerAt[c] = "accepted" /\ c \notin closed => c \in connections
                      /\ numThreads = 0 /\ c \in connections =>
                            peerAt[c] = "accepted" /\ c \notin closed
    BY DEF MapIsOpen, Settled
  <2>1. c \in Fds /\ 0 \in Loops
    BY <1>1, ServerFacts
  <2>2. peerAt[c] = "accepted" <=> Come(c)
    BY <1>1 DEF ServerInv, Accepted
  <2>3. peerAt[c] = "accepted" /\ c \notin closed => c \in connections
    BY <1>1, <2>2 DEF ServerInv, Kept
  <2>4. c \in connections => Come(c)
    BY <1>1, <2>1 DEF ServerInv, Accepted
  <2>5. numThreads = 0 /\ c \in connections => c \notin closed
    BY <1>1, <2>1 DEF ServerInv, OneLoop
  <2> QED
    BY <2>2, <2>3, <2>4, <2>5
<1> QED
  BY <1>1, ServerInvariant, PTL

(***************************************************************************)
(* On any number of loops a connection is closed once and no message is    *)
(* given to the user after that; and on one loop the user hears of a       *)
(* connection first, then gets its messages, and nothing after onClose,    *)
(* whenever its client sends, leaves or resets                             *)
(* (TcpConnection::connectEstablished, handleRead, handleClose).           *)
(***************************************************************************)
THEOREM UserHearsInOrder == ServerSpec => GreetedFirst
<1> DEFINE InOrder ==
      \A c \in Fds :
         /\ got[c] # got'[c] => c \notin closed
         /\ (\E l \in Loops : handling[l] # c /\ handling'[l] = c) => c \notin closed
         /\ numThreads = 0 =>
               /\ got[c] # got'[c] \/ c \in heardGone' \ heardGone => c \in heardOf
               /\ c \in heardOf' \ heardOf => c \notin closed
<1>1. ServerInv /\ [ServerNext]_serverVars => [InOrder]_serverVars
  <2> SUFFICES ASSUME ServerInv, ServerNext PROVE InOrder
    OBVIOUS
  <2>1. /\ watched \cap closed = {} /\ got \in [Fds -> Nat] /\ Nothing \notin Fds
        /\ handling \in [Loops -> Clients \cup {Nothing}] /\ Clients \subseteq Fds
        /\ queued \in [Loops -> Seq(Fds)] /\ 0 \in Loops
    BY ServerFacts DEF ServerInv, Accepted, ServerTypes
  <2>2. ASSUME NEW l \in Loops, NEW c \in Clients, handleRead(l, c) PROVE InOrder
    <3>1. /\ Free(l) /\ loopOf[c] = l /\ c \in watched /\ c \notin closed
          /\ \E n \in 1 .. inbox[c] : got' = [got EXCEPT ![c] = @ + n]
          /\ UNCHANGED <<heardOf, heardGone, handling>>
      BY <2>1, <2>2 DEF handleRead
    <3>2. numThreads = 0 => c \in heardOf
      BY <3>1, NotInSetUp
    <3>3. \A d \in Fds : d # c => got'[d] = got[d]
      BY <2>1, <3>1
    <3> QED
      BY <3>1, <3>2, <3>3
  <2>3. ASSUME NEW l \in Loops, NEW c \in Clients, serverHandleClose(l, c) PROVE InOrder
    <3>1. /\ Free(l) /\ loopOf[c] = l /\ c \in watched /\ c \notin closed
          /\ handling' = [handling EXCEPT ![l] = c]
          /\ got' = got /\ heardOf' = heardOf /\ heardGone' \subseteq heardGone \cup {c}
      BY <2>1, <2>3 DEF serverHandleClose
    <3>2. numThreads = 0 => c \in heardOf
      BY <3>1, NotInSetUp
    <3>3. \A k \in Loops : handling'[k] = handling[k] \/ handling'[k] = c
      BY <2>1, <3>1
    <3> QED
      BY <3>1, <3>2, <3>3
  <2>4. ASSUME NEW l \in Loops, eventEnds(l) PROVE InOrder
    <3>1. /\ handling' = [handling EXCEPT ![l] = Nothing]
          /\ UNCHANGED <<got, heardOf, heardGone>>
      BY <2>4 DEF eventEnds
    <3>2. \A k \in Loops : handling'[k] = handling[k] \/ handling'[k] = Nothing
      BY <2>1, <3>1
    <3> QED
      BY <2>1, <3>1, <3>2
  <2>5. CASE establish
    <3>1. /\ UNCHANGED <<got, heardGone, handling>>
          /\ heardOf' \subseteq heardOf \cup {cur}
      BY <2>5 DEF establish, connectEstablished
    <3>2. numThreads = 0 => cur \notin closed
      BY DEF ServerInv, OneLoop
    <3> QED
      BY <3>1, <3>2
  <2>6. ASSUME NEW l \in Loops, runFunctor(l) PROVE InOrder
    <3>1. UNCHANGED <<got, heardGone, handling>> /\ queued[l] # << >>
      BY <2>6 DEF runFunctor, connectEstablished
    <3>2. numThreads # 0
      BY <3>1 DEF ServerInv, OneLoop
    <3> QED
      BY <3>1, <3>2
  <2>7. CASE UNCHANGED <<got, heardOf, heardGone, handling>>
    BY <2>7
  <2>8. ASSUME NEW l \in Loops, LoopStep(l) PROVE InOrder
    BY <2>2, <2>3, <2>4, <2>6, <2>7, <2>8 DEF LoopStep, serverRemoveConnection
  <2>9. ASSUME BaseStep PROVE InOrder
    <3>1. CASE serverNewConnection
      BY <2>5, <2>7, <3>1
         DEF serverNewConnection, insertStarts, insertEnds, setUser, setUpLayerCloseCallback
    <3>2. CASE \E c \in Fds : handleAccept(c)
      BY <2>7, <3>2 DEF handleAccept
    <3> QED
      BY <2>1, <2>8, <2>9, <3>1, <3>2 DEF BaseStep
  <2>10. CASE \E c \in Clients : arrives(c) \/ sends(c) \/ leaves(c) \/ resets(c)
    BY <2>7, <2>10 DEF arrives, sends, leaves, resets
  <2> QED
    BY <2>8, <2>9, <2>10 DEF ServerNext, Step
<1> QED
  BY <1>1, ServerInvariant, PTL DEF ServerSpec, GreetedFirst

(***************************************************************************)
(* An RpcServer without IO threads runs into nothing C++ leaves undefined, *)
(* whatever its clients send, when they leave or reset, and should accept  *)
(* fail: no handler finds a connection half set up, _connections is        *)
(* changed by one loop, and the RpcChannel in the context keeps the        *)
(* connection for the rest of its last event.  The last of these holds     *)
(* with any number of IO threads, for a connection that is closed before   *)
(* it was greeted too (TcpServer::newConnection, removeConnection,         *)
(* TcpConnection::handleRead, handleClose, RpcServer::onConnection).       *)
(***************************************************************************)
THEOREM OneLoopIsSafe ==
    ASSUME KeepsChannel
    PROVE  ServerSpec => []NothingUndefined
<1>1. ServerInv => NothingUndefined
  BY DEF ServerInv, OneLoop, Holders, NothingUndefined
<1> QED
  BY <1>1, ServerInvariant, PTL
=============================================================================
