------------------------ MODULE TcpConnectionProofs ------------------------
(***************************************************************************)
(* What holds of a connection's sending half for every set of senders and  *)
(* messages, every length of a message and every size of the socket's      *)
(* buffer: its type invariant, when EPOLLOUT is asked for, that the bytes  *)
(* on the wire are the accepted messages in order, and that each thread's  *)
(* messages are accepted in the order it sent them; and, of the codec on   *)
(* top of it (ProtobufCodecLite), that the frames are the messages sent.   *)
(***************************************************************************)
EXTENDS TcpConnection, ProtobufCodecLite, SequenceTheorems, TLAPS

USE DEF vars, sendVars, netVars, history

-----------------------------------------------------------------------------
(* Cutting a sequence, as each write cuts what it is given. *)

LEMMA Rest ==
    ASSUME NEW S, NEW s \in Seq(S), NEW n \in 0 .. Len(s)
    PROVE  /\ From(s, n) \in Seq(S) /\ Len(From(s, n)) = Len(s) - n
           /\ \A i \in 1 .. Len(s) - n : From(s, n)[i] = s[n + i]
<1>1. PICK l \in Nat : l = Len(s)
  OBVIOUS
<1>2. PICK m \in Nat : m = n + 1
  BY <1>1
<1>3. PICK g : g = SubSeq(s, m, l)
  OBVIOUS
<1>4. m \in Int /\ l \in Int /\ \A i \in m .. l : s[i] \in S
  <2>1. \A i \in m .. l : i \in 1 .. Len(s)
    BY <1>1, <1>2
  <2> QED
    BY <2>1, ElementOfSeq
<1>5. /\ SubSeq(s, m, l) \in Seq(S)
      /\ Len(SubSeq(s, m, l)) = IF m <= l THEN l - m + 1 ELSE 0
      /\ \A i \in 1 .. l - m + 1 : SubSeq(s, m, l)[i] = s[m + i - 1]
  BY ONLY <1>4, SubSeqProperties, SMTT(60)
<1>6. g \in Seq(S) /\ Len(g) = l - n /\ \A i \in 1 .. l - n : g[i] = s[n + i]
  <2>1. /\ m <= l => l - m + 1 = l - n
        /\ ~(m <= l) => l - n = 0
        /\ l - m + 1 = l - n /\ \A i \in 1 .. l - n : m + i - 1 = n + i
    BY ONLY <1>1, <1>2, n \in 0 .. Len(s)
  <2> QED
    BY ONLY <1>3, <1>5, <2>1
<1> QED
  BY <1>1, <1>2, <1>3, <1>6 DEF From

LEMMA Cut ==
    ASSUME NEW S, NEW s \in Seq(S), NEW n \in 1 .. Len(s)
    PROVE  /\ First(s, n) \in Seq(S)
           /\ From(s, n) \in Seq(S)
           /\ Len(First(s, n)) = n /\ Len(From(s, n)) = Len(s) - n
           /\ First(s, n) \o From(s, n) = s
<1> DEFINE f == SubSeq(s, 1, n)
<1> DEFINE g == SubSeq(s, n + 1, Len(s))
<1>1. f \in Seq(S) /\ Len(f) = n /\ \A i \in 1 .. n : f[i] = s[i]
  BY SubSeqProperties, ElementOfSeq
<1>2. /\ g \in Seq(S) /\ Len(g) = Len(s) - n
      /\ \A i \in 1 .. Len(s) - n : g[i] = s[n + i]
  <2>1. n \in 0 .. Len(s)
    OBVIOUS
  <2>2. g = From(s, n)
    BY DEF From
  <2> QED
    BY ONLY <2>1, <2>2, s \in Seq(S), Rest
<1> HIDE DEF f, g
<1>3. f \o g \in Seq(S) /\ Len(f \o g) = Len(s)
  <2>1. f \o g \in Seq(S) /\ Len(f \o g) = Len(f) + Len(g)
    BY <1>1, <1>2, ConcatProperties
  <2>2. Len(s) \in Nat
    OBVIOUS
  <2> QED
    BY ONLY <1>1, <1>2, <2>1, <2>2, n \in 1 .. Len(s)
<1>4. ASSUME NEW i \in 1 .. Len(f \o g)
      PROVE  (f \o g)[i] = s[i]
  <2>1. i \in 1 .. Len(f) + Len(g)
    BY <1>1, <1>2
  <2>2. (f \o g)[i] = IF i <= n THEN f[i] ELSE g[i - n]
    BY <1>1, <1>2, <2>1, ConcatProperties
  <2>3. CASE i <= n
    BY <1>1, <2>2, <2>3
  <2>4. CASE i > n
    BY <1>1, <1>2, <2>1, <2>2, <2>4
  <2> QED
    BY <2>3, <2>4, <1>1, <2>1
<1>5. f \o g = s
  BY <1>3, <1>4, SeqEqual
<1> QED
  BY <1>1, <1>2, <1>5 DEF f, g, First, From

LEMMA MessageBytes ==
    ASSUME NEW m \in Messages
    PROVE  Bytes(m) \in Seq(Byte) /\ Len(Bytes(m)) = MsgLen
<1>1. MsgLen \in Nat
  BY TcpAssumption
<1>2. \A k \in 1 .. MsgLen : [msg |-> m, byte |-> k] \in Byte
  BY DEF Byte
<1> DEFINE b == Bytes(m)
<1>3. b \in [1 .. MsgLen -> Byte]
  BY <1>2 DEF Bytes
<1>4. b \in Seq(Byte) /\ Len(b) = MsgLen
  <2> HIDE DEF b
  <2> QED
    BY <1>1, <1>3
<1> QED
  BY <1>4

-----------------------------------------------------------------------------
(* Type correctness. *)

LEMMA SendTypes ==
    ASSUME TypeOK, NEW th \in Threads, NEW m \in Messages,
           NEW q \in Seq(Sends \cup Completes),
           sendInLoop([by |-> th, msg |-> m], q)
    PROVE  /\ outBuf' \in Seq(Byte) /\ kernel' \in Seq(Byte)
           /\ received' \in Seq(Byte) /\ stream' \in Seq(Byte)
           /\ writing' \in BOOLEAN /\ registered' \in BOOLEAN
           /\ aborted' \in BOOLEAN /\ peer' \in {"open", "shut", "reset"}
           /\ backlog' \in Seq(Sends \cup Completes)
           /\ accepted' \in Seq([by : Threads, msg : Messages])
           /\ completed' \in Nat
<1> DEFINE s == [by |-> th, msg |-> m]
<1>1. s \in [by : Threads, msg : Messages] /\ s.msg = m
  OBVIOUS
<1> HIDE DEF s
<1>2. Bytes(m) \in Seq(Byte) /\ Len(Bytes(m)) = MsgLen /\ MsgLen \in Nat
  BY MessageBytes, TcpAssumption
<1>3. Written + MsgLen \in Nat
  BY <1>2 DEF Written, TypeOK
<1>4. UNCHANGED <<peer, received, completed>>
  BY DEF sendInLoop
<1>5. CASE writeWhole(s, q)
  <2>1. [kind |-> "complete", at |-> Written + MsgLen] \in Completes
    BY <1>3 DEF Completes
  <2> QED
    BY <1>1, <1>2, <1>3, <1>4, <1>5, <2>1 DEF writeWhole, Accept, TypeOK
<1>6. CASE writePart(s, q)
  <2>1. PICK n \in 1 .. MsgLen - 1 :
           /\ kernel' = kernel \o First(Bytes(m), n)
           /\ outBuf' = From(Bytes(m), n)
           /\ writing' = TRUE
           /\ backlog' = q
           /\ Accept(s)
           /\ UNCHANGED <<registered, aborted>>
    BY <1>1, <1>6 DEF writePart
  <2>2. First(Bytes(m), n) \in Seq(Byte) /\ From(Bytes(m), n) \in Seq(Byte)
    <3>1. n \in 1 .. Len(Bytes(m))
      BY <1>2
    <3> QED
      BY <1>2, <3>1, Cut
  <2> QED
    BY <1>1, <1>2, <1>4, <2>1, <2>2 DEF Accept, TypeOK
<1>7. CASE appendOnly(s, q)
  BY <1>1, <1>2, <1>4, <1>7 DEF appendOnly, Accept, TypeOK
<1>8. CASE writeError(q)
  BY <1>4, <1>8 DEF writeError, TypeOK
<1> QED
  BY <1>5, <1>6, <1>7, <1>8 DEF sendInLoop, s

\* The bytes, the queue and the counters of a connection keep their types
\* through every send, write and functor (TcpConnection).
THEOREM TypeCorrect == Spec => []TypeOK
<1>1. Init => TypeOK
  <2> SUFFICES ASSUME Init PROVE TypeOK
    OBVIOUS
  <2>1. \A S : << >> \in Seq(S)
    OBVIOUS
  <2> QED
    BY <2>1 DEF Init, TypeOK
<1>2. TypeOK /\ [Next]_vars => TypeOK'
  <2> SUFFICES ASSUME TypeOK, [Next]_vars PROVE TypeOK'
    OBVIOUS
  <2>1. ASSUME NEW m \in Messages, sendFromLoop(m) PROVE TypeOK'
    <3>1. /\ sendInLoop([by |-> LoopThread, msg |-> m], backlog)
          /\ submitted' = Append(submitted, [by |-> LoopThread, msg |-> m])
          /\ LoopThread \in Threads
      BY <2>1 DEF sendFromLoop, Threads
    <3>2. [by |-> LoopThread, msg |-> m] \in [by : Threads, msg : Messages]
      BY <3>1
    <3>3. submitted' \in Seq([by : Threads, msg : Messages])
      BY <3>1, <3>2 DEF TypeOK
    <3>4. backlog \in Seq(Sends \cup Completes)
      BY DEF TypeOK
    <3> QED
      BY <3>1, <3>3, <3>4, SendTypes DEF TypeOK
  <2>2. ASSUME NEW m \in Messages, NEW th \in Senders, sendFromThread(th, m)
        PROVE  TypeOK'
    <3>1. /\ [by |-> th, msg |-> m] \in [by : Threads, msg : Messages]
          /\ [kind |-> "send", by |-> th, msg |-> m] \in Sends \cup Completes
      BY DEF Threads, Sends
    <3>2. /\ submitted' \in Seq([by : Threads, msg : Messages])
          /\ backlog' \in Seq(Sends \cup Completes)
      BY <2>2, <3>1 DEF sendFromThread, TypeOK
    <3> QED
      BY <2>2, <3>2 DEF sendFromThread, TypeOK
  <2>3. CASE runSend
    <3>1. /\ Head(backlog) \in Sends \cup Completes
          /\ Tail(backlog) \in Seq(Sends \cup Completes)
      BY <2>3 DEF runSend, TypeOK
    <3>2. Head(backlog).by \in Threads /\ Head(backlog).msg \in Messages
      BY <2>3, <3>1 DEF runSend, Sends, Completes, Threads
    <3>3. sendInLoop([by |-> Head(backlog).by, msg |-> Head(backlog).msg], Tail(backlog))
      BY <2>3 DEF runSend
    <3>4. submitted' \in Seq([by : Threads, msg : Messages])
      BY <2>3 DEF runSend, TypeOK
    <3> QED
      BY <3>1, <3>2, <3>3, <3>4, SendTypes DEF TypeOK
  <2>4. CASE runComplete
    <3>1. Head(backlog) \in Sends \cup Completes /\ Head(backlog).kind = "complete"
      BY <2>4 DEF runComplete, TypeOK
    <3>2. Head(backlog).at \in Nat
      BY <3>1 DEF Sends, Completes
    <3>3. Tail(backlog) \in Seq(Sends \cup Completes)
      BY <2>4 DEF runComplete, TypeOK
    <3> QED
      BY <2>4, <3>2, <3>3 DEF runComplete, TypeOK
  <2>5. CASE handleWrite
    <3>1. PICK n \in 1 .. Len(outBuf) :
             /\ kernel' = kernel \o First(outBuf, n)
             /\ outBuf' = From(outBuf, n)
             /\ writing' = (n < Len(outBuf))
             /\ backlog' = IF n < Len(outBuf) THEN backlog
                           ELSE Append(backlog, [kind |-> "complete", at |-> Written + n])
      BY <2>5 DEF handleWrite
    <3>2. outBuf \in Seq(Byte)
      BY DEF TypeOK
    <3>3. kernel' \in Seq(Byte) /\ outBuf' \in Seq(Byte)
      BY <3>1, <3>2, Cut DEF TypeOK
    <3>4. Written + n \in Nat
      BY <3>2 DEF Written, TypeOK
    <3>5. [kind |-> "complete", at |-> Written + n] \in Sends \cup Completes
      BY <3>4 DEF Completes
    <3>6. backlog' \in Seq(Sends \cup Completes)
      <4>1. backlog \in Seq(Sends \cup Completes)
        BY DEF TypeOK
      <4>2. CASE n < Len(outBuf)
        BY <3>1, <4>1, <4>2
      <4>3. CASE ~(n < Len(outBuf))
        <5>1. backlog' = Append(backlog, [kind |-> "complete", at |-> Written + n])
          BY <3>1, <4>3
        <5> QED
          BY <3>5, <4>1, <5>1
      <4> QED
        BY <4>2, <4>3
    <3> QED
      BY <2>5, <3>1, <3>3, <3>6 DEF handleWrite, TypeOK
  <2>6. CASE brokenPipe
    BY <2>6 DEF brokenPipe, TypeOK
  <2>7. CASE handleClose
    BY <2>7 DEF handleClose, TypeOK
  <2>8. CASE peerReads
    <3>1. PICK n \in 1 .. Len(kernel) : /\ received' = received \o First(kernel, n)
                                        /\ kernel' = From(kernel, n)
      BY <2>8 DEF peerReads
    <3>2. kernel \in Seq(Byte)
      BY DEF TypeOK
    <3>3. received' \in Seq(Byte) /\ kernel' \in Seq(Byte)
      BY <3>1, <3>2, Cut DEF TypeOK
    <3> QED
      BY <2>8, <3>3 DEF peerReads, TypeOK
  <2>9. CASE peerShuts \/ peerResets
    BY <2>9 DEF peerShuts, peerResets, TypeOK
  <2>10. CASE UNCHANGED vars
    BY <2>10 DEF TypeOK
  <2> QED
    BY <2>1, <2>2, <2>3, <2>4, <2>5, <2>6, <2>7, <2>8, <2>9, <2>10
       DEF Next, RunFunctor
<1> QED
  BY <1>1, <1>2, PTL DEF Spec

-----------------------------------------------------------------------------
(* EPOLLOUT is asked for exactly while bytes wait. *)

LEMMA InterestStep == TypeOK /\ WriteInterest /\ [Next]_vars => WriteInterest'
<1> SUFFICES ASSUME TypeOK, WriteInterest, [Next]_vars PROVE WriteInterest'
  OBVIOUS
<1> USE DEF WriteInterest
<1>1. ASSUME NEW th \in Threads, NEW m \in Messages, NEW q,
             sendInLoop([by |-> th, msg |-> m], q)
      PROVE  WriteInterest'
  <2> DEFINE s == [by |-> th, msg |-> m]
  <2>1. s.msg = m
    OBVIOUS
  <2> HIDE DEF s
  <2>2. Bytes(m) \in Seq(Byte) /\ Len(Bytes(m)) = MsgLen /\ MsgLen \in Nat
    BY MessageBytes, TcpAssumption
  <2>3. CASE writeWhole(s, q)
    BY <2>3 DEF writeWhole
  <2>4. CASE writePart(s, q)
    <3>1. PICK n \in 1 .. MsgLen - 1 :
             /\ outBuf' = From(Bytes(m), n)
             /\ writing' = TRUE
      BY <2>1, <2>4 DEF writePart
    <3>2. From(Bytes(m), n) \in Seq(Byte) /\ Len(From(Bytes(m), n)) > 0
      <4>1. n \in 1 .. Len(Bytes(m)) /\ Len(Bytes(m)) - n > 0
        BY <2>2
      <4> QED
        BY <2>2, <4>1, Rest
    <3> QED
      BY <3>1, <3>2
  <2>5. CASE appendOnly(s, q)
    <3>1. outBuf \in Seq(Byte) /\ outBuf # << >>
      BY <2>5 DEF appendOnly, TypeOK
    <3>2. outBuf \o Bytes(m) # << >>
      BY <2>2, <3>1, ConcatEqualIffEmpty, ConcatProperties, EmptySeq
    <3> QED
      BY <2>1, <2>5, <3>2 DEF appendOnly
  <2>6. CASE writeError(q)
    BY <2>6 DEF writeError
  <2> QED
    BY <1>1, <2>3, <2>4, <2>5, <2>6 DEF sendInLoop, s
<1>2. ASSUME NEW m \in Messages, sendFromLoop(m) PROVE WriteInterest'
  BY <1>1, <1>2 DEF sendFromLoop, Threads
<1>3. ASSUME NEW m \in Messages, NEW th \in Senders, sendFromThread(th, m)
      PROVE  WriteInterest'
  BY <1>3 DEF sendFromThread
<1>4. CASE runSend
  <2>1. Head(backlog) \in Sends \cup Completes
    BY <1>4 DEF runSend, TypeOK
  <2>2. Head(backlog).by \in Threads /\ Head(backlog).msg \in Messages
    BY <1>4, <2>1 DEF runSend, Sends, Completes, Threads
  <2> QED
    BY <1>1, <1>4, <2>2 DEF runSend
<1>5. CASE handleWrite
  <2>1. PICK n \in 1 .. Len(outBuf) : /\ outBuf' = From(outBuf, n)
                                      /\ writing' = (n < Len(outBuf))
    BY <1>5 DEF handleWrite
  <2>2. outBuf \in Seq(Byte)
    BY DEF TypeOK
  <2>3. From(outBuf, n) \in Seq(Byte) /\ Len(From(outBuf, n)) = Len(outBuf) - n
    BY <2>2, Cut
  <2>4. outBuf' # << >> <=> n < Len(outBuf)
    BY <2>1, <2>2, <2>3
  <2> QED
    BY <2>1, <2>4
<1>6. CASE runComplete \/ brokenPipe \/ handleClose \/ peerReads \/ peerShuts \/ peerResets
  BY <1>6 DEF runComplete, brokenPipe, handleClose, peerReads, peerShuts, peerResets
<1>7. CASE UNCHANGED vars
  BY <1>7
<1> QED
  BY <1>2, <1>3, <1>4, <1>5, <1>6, <1>7 DEF Next, RunFunctor

\* While the channel is in epoll it asks for EPOLLOUT if and only if bytes
\* wait in _outBuf, whatever the sizes (sendInLoop, handleWrite).
THEOREM EpolloutWhileBytesWait == Spec => []WriteInterest
<1>1. Init => WriteInterest
  BY DEF Init, WriteInterest
<1> QED
  BY <1>1, InterestStep, TypeCorrect, PTL DEF Spec

-----------------------------------------------------------------------------
(* The bytes on the wire. *)

\* The same bytes, grouped as the socket, the buffer and the peer hold them.
LEMMA Associate == \A a, b, c \in Seq(Byte) : (a \o b) \o c = a \o (b \o c)
  OBVIOUS

\* The same, for a piece that moves from one to the next.
LEMMA Regroup ==
    \A a, b, c, d \in Seq(Byte) : (a \o (b \o c)) \o d = (a \o b) \o (c \o d)
  <1> SUFFICES ASSUME NEW a \in Seq(Byte), NEW b \in Seq(Byte), NEW c \in Seq(Byte),
                      NEW d \in Seq(Byte)
               PROVE  (a \o (b \o c)) \o d = (a \o b) \o (c \o d)
    OBVIOUS
  <1>1. a \o b \in Seq(Byte)
    OBVIOUS
  <1>2. ((a \o b) \o c) \o d = (a \o b) \o (c \o d)
    BY <1>1, Associate, ZenonT(30)
  <1>3. (a \o b) \o c = a \o (b \o c)
    BY Associate, ZenonT(30)
  <1> QED
    BY <1>2, <1>3, Zenon

LEMMA StreamStep == TypeOK /\ StreamIntact /\ [Next]_vars => StreamIntact'
<1> SUFFICES ASSUME TypeOK, StreamIntact, [Next]_vars PROVE StreamIntact'
  OBVIOUS
<1>0. /\ outBuf \in Seq(Byte) /\ kernel \in Seq(Byte) /\ received \in Seq(Byte)
      /\ (received \o kernel) \o outBuf = stream
  BY DEF TypeOK, StreamIntact
<1>1. ASSUME NEW th \in Threads, NEW m \in Messages, NEW q,
             sendInLoop([by |-> th, msg |-> m], q)
      PROVE  StreamIntact'
  <2> DEFINE s == [by |-> th, msg |-> m]
  <2>1. s.msg = m
    OBVIOUS
  <2> HIDE DEF s
  <2>2. Bytes(m) \in Seq(Byte) /\ Len(Bytes(m)) = MsgLen /\ MsgLen \in Nat
    BY MessageBytes, TcpAssumption
  <2>3. received' = received
    BY <1>1 DEF sendInLoop
  <2>4. CASE writeWhole(s, q)
    <3>1. /\ kernel' = kernel \o Bytes(m) /\ stream' = stream \o Bytes(m)
          /\ outBuf = << >> /\ outBuf' = << >>
      BY <2>1, <2>4 DEF writeWhole, Accept
    <3>2. (received \o (kernel \o Bytes(m))) \o << >> = (received \o kernel) \o Bytes(m)
      <4>1. << >> \in Seq(Byte) /\ Bytes(m) \o << >> = Bytes(m)
        BY <2>2, ConcatEmptySeq
      <4>a. received \in Seq(Byte) /\ kernel \in Seq(Byte) /\ Bytes(m) \in Seq(Byte)
        BY <1>0, <2>2
      <4>2. received \o (kernel \o Bytes(m)) = (received \o kernel) \o Bytes(m)
        BY ONLY <4>a, Associate, Zenon
      <4>3. (received \o kernel) \o Bytes(m) \in Seq(Byte)
        BY <1>0, <2>2
      <4> QED
        BY <4>2, <4>3, ConcatEmptySeq
    <3>3. stream = received \o kernel
      BY <1>0, <3>1, ConcatEmptySeq, ConcatProperties
    <3> QED
      BY <2>3, <3>1, <3>2, <3>3 DEF StreamIntact
  <2>5. CASE writePart(s, q)
    <3>1. PICK n \in 1 .. MsgLen - 1 :
             /\ outBuf = << >> /\ outBuf' = From(Bytes(m), n)
             /\ kernel' = kernel \o First(Bytes(m), n)
             /\ stream' = stream \o Bytes(m)
      BY <2>1, <2>5 DEF writePart, Accept
    <3> DEFINE f == First(Bytes(m), n)
               g == From(Bytes(m), n)
    <3>2. f \in Seq(Byte) /\ g \in Seq(Byte) /\ f \o g = Bytes(m)
      <4>1. n \in 1 .. Len(Bytes(m))
        BY <2>2
      <4> QED
        BY <2>2, <4>1, Cut
    <3> HIDE DEF f, g
    <3>3. (received \o (kernel \o f)) \o g = (received \o kernel) \o Bytes(m)
      <4>1. /\ received \in Seq(Byte) /\ kernel \in Seq(Byte)
            /\ f \in Seq(Byte) /\ g \in Seq(Byte)
        BY <1>0, <3>2
      <4>2. (received \o (kernel \o f)) \o g = (received \o kernel) \o (f \o g)
        <5>1. \A c, d \in Seq(Byte) :
                 (received \o (kernel \o c)) \o d = (received \o kernel) \o (c \o d)
          BY ONLY <4>1, Regroup, Zenon
        <5> QED
          BY ONLY <4>1, <5>1, Zenon
      <4> QED
        BY <3>2, <4>2
    <3>4. stream = received \o kernel
      BY <1>0, <3>1, ConcatEmptySeq, ConcatProperties
    <3> QED
      BY <2>3, <3>1, <3>3, <3>4 DEF StreamIntact, f, g
  <2>6. CASE appendOnly(s, q)
    <3>1. /\ outBuf' = outBuf \o Bytes(m) /\ kernel' = kernel
          /\ stream' = stream \o Bytes(m)
      BY <2>1, <2>6 DEF appendOnly, Accept
    <3>2. (received \o kernel) \o (outBuf \o Bytes(m))
            = ((received \o kernel) \o outBuf) \o Bytes(m)
      <4> DEFINE w == received \o kernel
      <4>1. w \in Seq(Byte)
        BY <1>0
      <4> HIDE DEF w
      <4>2. w \in Seq(Byte) /\ outBuf \in Seq(Byte) /\ Bytes(m) \in Seq(Byte)
        BY <1>0, <2>2, <4>1
      <4>3. w \o (outBuf \o Bytes(m)) = (w \o outBuf) \o Bytes(m)
        BY ONLY <4>2, Associate, Zenon
      <4> QED
        BY <4>3 DEF w
    <3> QED
      BY <1>0, <2>3, <3>1, <3>2 DEF StreamIntact
  <2>7. CASE writeError(q)
    BY <1>0, <2>3, <2>7 DEF writeError, StreamIntact
  <2> QED
    BY <1>1, <2>4, <2>5, <2>6, <2>7 DEF sendInLoop, s
<1>2. ASSUME NEW m \in Messages, sendFromLoop(m) PROVE StreamIntact'
  BY <1>1, <1>2 DEF sendFromLoop, Threads
<1>3. ASSUME NEW m \in Messages, NEW th \in Senders, sendFromThread(th, m)
      PROVE  StreamIntact'
  BY <1>0, <1>3 DEF sendFromThread, StreamIntact
<1>4. CASE runSend
  <2>1. Head(backlog) \in Sends \cup Completes
    BY <1>4 DEF runSend, TypeOK
  <2>2. Head(backlog).by \in Threads /\ Head(backlog).msg \in Messages
    BY <1>4, <2>1 DEF runSend, Sends, Completes, Threads
  <2> QED
    BY <1>1, <1>4, <2>2 DEF runSend
<1>5. CASE handleWrite
  <2>1. PICK n \in 1 .. Len(outBuf) : /\ kernel' = kernel \o First(outBuf, n)
                                      /\ outBuf' = From(outBuf, n)
    BY <1>5 DEF handleWrite
  <2>2. UNCHANGED <<received, stream>>
    BY <1>5 DEF handleWrite
  <2> DEFINE f == First(outBuf, n)
             g == From(outBuf, n)
  <2>3. f \in Seq(Byte) /\ g \in Seq(Byte) /\ f \o g = outBuf
    BY <1>0, Cut
  <2> HIDE DEF f, g
  <2>0. /\ received \in Seq(Byte) /\ kernel \in Seq(Byte)
        /\ f \in Seq(Byte) /\ g \in Seq(Byte)
    BY <1>0, <2>3
  <2>4. (received \o (kernel \o f)) \o g = (received \o kernel) \o (f \o g)
    <3>1. \A c, d \in Seq(Byte) :
             (received \o (kernel \o c)) \o d = (received \o kernel) \o (c \o d)
      BY ONLY <2>0, Regroup, Zenon
    <3> QED
      BY ONLY <2>0, <3>1, Zenon
  <2> QED
    BY <1>0, <2>1, <2>2, <2>3, <2>4 DEF StreamIntact, f, g
<1>6. CASE peerReads
  <2>1. PICK n \in 1 .. Len(kernel) : /\ received' = received \o First(kernel, n)
                                      /\ kernel' = From(kernel, n)
    BY <1>6 DEF peerReads
  <2>2. UNCHANGED <<outBuf, stream>>
    BY <1>6 DEF peerReads
  <2> DEFINE f == First(kernel, n)
             g == From(kernel, n)
  <2>3. f \in Seq(Byte) /\ g \in Seq(Byte) /\ f \o g = kernel
    BY <1>0, Cut
  <2> HIDE DEF f, g
  <2>0. received \in Seq(Byte) /\ f \in Seq(Byte) /\ g \in Seq(Byte)
    BY <1>0, <2>3
  <2>4. (received \o f) \o g = received \o (f \o g)
    BY ONLY <2>0, Associate, Zenon
  <2> QED
    BY <1>0, <2>1, <2>2, <2>3, <2>4 DEF StreamIntact, f, g
<1>7. CASE runComplete \/ brokenPipe \/ handleClose \/ peerShuts \/ peerResets
  BY <1>0, <1>7 DEF runComplete, brokenPipe, handleClose, peerShuts, peerResets, StreamIntact
<1>8. CASE UNCHANGED vars
  BY <1>0, <1>8 DEF StreamIntact
<1> QED
  BY <1>2, <1>3, <1>4, <1>5, <1>6, <1>7, <1>8 DEF Next, RunFunctor

\* What the peer has read, what the socket holds and what waits in _outBuf
\* are, one after the other, exactly the messages sendInLoop accepted, in
\* that order, for any number of senders and any sizes.
THEOREM BytesInOrder == Spec => []StreamIntact
<1>1. Init => StreamIntact
  <2>1. (<< >> \o << >>) \o << >> = << >>
    BY ConcatEmptySeq, EmptySeq
  <2> QED
    BY <2>1 DEF Init, StreamIntact
<1> QED
  BY <1>1, StreamStep, TypeCorrect, PTL DEF Spec

-----------------------------------------------------------------------------
(***************************************************************************)
(* The order of a thread's messages.  Between send() and sendInLoop() a    *)
(* message is in the loop's queue; what SenderOrder says of the accepted   *)
(* ones holds because the queue is lined up the same way: whatever its     *)
(* thread submitted before a message that waits was accepted, or waits     *)
(* before it.  Nothing is left out until the process ends.                 *)
(***************************************************************************)
Call(e) == [by |-> e.by, msg |-> e.msg]
In(e, s) == \E i \in 1 .. Len(s) : s[i] = e
Calls(q, i) == q[i].kind = "send"

Ordered(acc, sub) ==
    /\ \A i, j \in 1 .. Len(acc) : acc[i] = acc[j] => i = j
    /\ \A j \in 1 .. Len(acc) : \E n \in 1 .. Len(sub) :
          /\ sub[n] = acc[j]
          /\ \A k \in 1 .. n - 1 :
                sub[k].by = acc[j].by => \E i \in 1 .. j - 1 : acc[i] = sub[k]

Waits(q, i, acc, sub) ==
    /\ q[i].by \in Senders /\ ~In(Call(q[i]), acc)
    /\ \A j \in 1 .. Len(q) : Calls(q, j) /\ Call(q[i]) = Call(q[j]) => i = j
    /\ \E n \in 1 .. Len(sub) :
          /\ sub[n] = Call(q[i])
          /\ \A k \in 1 .. n - 1 : sub[k].by = q[i].by =>
                In(sub[k], acc) \/ \E j \in 1 .. i - 1 : Calls(q, j) /\ Call(q[j]) = sub[k]

Lined(q, acc, sub) ==
    /\ \A i \in 1 .. Len(q) : Calls(q, i) => Waits(q, i, acc, sub)
    /\ \A k \in 1 .. Len(sub) :
          In(sub[k], acc) \/ \E j \in 1 .. Len(q) : Calls(q, j) /\ Call(q[j]) = sub[k]

Sent == [by : Threads, msg : Messages]
Functors == Sends \cup Completes

LEMMA Appended ==
    ASSUME NEW S, NEW s \in Seq(S), NEW e \in S
    PROVE  /\ Append(s, e) \in Seq(S) /\ Len(Append(s, e)) = Len(s) + 1 /\ Len(s) \in Nat
           /\ Append(s, e)[Len(s) + 1] = e /\ \A i \in 1 .. Len(s) : Append(s, e)[i] = s[i]
           /\ \A i \in 1 .. Len(Append(s, e)) : i \in 1 .. Len(s) \/ i = Len(s) + 1
<1>1. Len(s) \in Nat
  OBVIOUS
<1>2. /\ Append(s, e) \in Seq(S) /\ Len(Append(s, e)) = Len(s) + 1
      /\ Append(s, e)[Len(s) + 1] = e /\ \A i \in 1 .. Len(s) : Append(s, e)[i] = s[i]
  BY AppendProperties
<1>3. \A i \in 1 .. Len(s) + 1 : i \in 1 .. Len(s) \/ i = Len(s) + 1
  BY <1>1
<1> QED
  BY <1>1, <1>2, <1>3

\* send() makes no difference to what was accepted.
LEMMA OrderedGrows ==
    ASSUME NEW acc \in Seq(Sent), NEW sub \in Seq(Sent), NEW s \in Sent, Ordered(acc, sub)
    PROVE  Ordered(acc, Append(sub, s))
<1> DEFINE t == Append(sub, s)
<1>1. /\ Len(t) = Len(sub) + 1 /\ Len(sub) \in Nat /\ \A i \in 1 .. Len(sub) : t[i] = sub[i]
  BY Appended
<1> HIDE DEF t
<1>2. ASSUME NEW j \in 1 .. Len(acc)
      PROVE  \E n \in 1 .. Len(t) :
                /\ t[n] = acc[j]
                /\ \A k \in 1 .. n - 1 :
                      t[k].by = acc[j].by => \E i \in 1 .. j - 1 : acc[i] = t[k]
  <2>1. PICK n \in 1 .. Len(sub) :
              /\ sub[n] = acc[j]
              /\ \A k \in 1 .. n - 1 :
                    sub[k].by = acc[j].by => \E i \in 1 .. j - 1 : acc[i] = sub[k]
    BY DEF Ordered
  <2>2. n \in 1 .. Len(t) /\ t[n] = sub[n] /\ \A k \in 1 .. n - 1 : t[k] = sub[k]
    BY <1>1
  <2> QED
    BY <2>1, <2>2
<1>3. Ordered(acc, t)
  BY <1>2 DEF Ordered
<1> QED
  BY <1>3 DEF t

\* send() on another thread queues the message at the end.
LEMMA LinedQueued ==
    ASSUME NEW acc \in Seq(Sent), NEW sub \in Seq(Sent), NEW q \in Seq(Functors),
           NEW e \in Functors, e.kind = "send", e.by \in Senders, Call(e) \in Sent,
           Lined(q, acc, sub), Ordered(acc, sub), ~In(Call(e), sub)
    PROVE  Lined(Append(q, e), acc, Append(sub, Call(e)))
<1> DEFINE s == Call(e)
           t == Append(sub, s)
           r == Append(q, e)
<1>1. /\ Len(t) = Len(sub) + 1 /\ Len(sub) \in Nat /\ t[Len(sub) + 1] = s
      /\ \A i \in 1 .. Len(sub) : t[i] = sub[i]
      /\ \A i \in 1 .. Len(t) : i \in 1 .. Len(sub) \/ i = Len(sub) + 1
  BY Appended
<1>2. /\ Len(r) = Len(q) + 1 /\ Len(q) \in Nat /\ r[Len(q) + 1] = e
      /\ \A i \in 1 .. Len(q) : r[i] = q[i]
      /\ \A i \in 1 .. Len(r) : i \in 1 .. Len(q) \/ i = Len(q) + 1
  BY Appended
<1>3. s.by = e.by
  BY DEF Call
<1> HIDE DEF t, r, s
<1>4. ~In(s, acc)
  BY DEF In, Ordered, s
<1>5. \A j \in 1 .. Len(q) : Calls(q, j) => Call(q[j]) # s
  BY DEF Lined, Waits, In, s
<1>6. \A k \in 1 .. Len(sub) :
         In(sub[k], acc) \/ \E j \in 1 .. Len(q) : Calls(q, j) /\ Call(q[j]) = sub[k]
  BY DEF Lined
<1>7. ASSUME NEW i \in 1 .. Len(q), Calls(r, i) PROVE Waits(r, i, acc, t)
  <2>1. Calls(q, i) /\ Waits(q, i, acc, sub) /\ r[i] = q[i]
    BY <1>2, <1>7 DEF Lined, Calls
  <2>2. PICK n \in 1 .. Len(sub) :
              /\ sub[n] = Call(q[i])
              /\ \A k \in 1 .. n - 1 : sub[k].by = q[i].by =>
                    In(sub[k], acc) \/ \E j \in 1 .. i - 1 : Calls(q, j) /\ Call(q[j]) = sub[k]
    BY <2>1 DEF Waits
  <2>3. /\ n \in 1 .. Len(t) /\ t[n] = sub[n] /\ \A k \in 1 .. n - 1 : t[k] = sub[k]
        /\ \A j \in 1 .. i - 1 : r[j] = q[j]
    BY <1>1, <1>2
  <2>4. /\ t[n] = Call(r[i])
        /\ \A k \in 1 .. n - 1 : t[k].by = r[i].by =>
              In(t[k], acc) \/ \E j \in 1 .. i - 1 : Calls(r, j) /\ Call(r[j]) = t[k]
    <3>1. \A j \in 1 .. i - 1 : r[j] = q[j] /\ (Calls(q, j) => Calls(r, j))
      BY ONLY <2>3 DEF Calls
    <3> QED
      BY ONLY <2>1, <2>2, <2>3, <3>1
  <2>5. \A j \in 1 .. Len(r) : Calls(r, j) /\ Call(r[i]) = Call(r[j]) => i = j
    <3> SUFFICES ASSUME NEW j \in 1 .. Len(r), Calls(r, j), Call(r[i]) = Call(r[j])
                 PROVE  i = j
      OBVIOUS
    <3>1. CASE j \in 1 .. Len(q)
      BY <1>2, <2>1, <3>1 DEF Waits, Calls
    <3>2. CASE j = Len(q) + 1
      BY <1>2, <1>5, <2>1, <3>2 DEF s
    <3> QED
      BY <1>2, <3>1, <3>2
  <2>6. r[i].by \in Senders /\ ~In(Call(r[i]), acc)
    BY <2>1 DEF Waits
  <2> QED
    BY <2>3, <2>4, <2>5, <2>6 DEF Waits
<1>8. Waits(r, Len(q) + 1, acc, t)
  <2> DEFINE i == Len(q) + 1
  <2>1. r[i] = e /\ Call(r[i]) = s /\ i - 1 = Len(q)
    BY <1>2 DEF s
  <2>2. \A j \in 1 .. Len(r) : Calls(r, j) /\ Call(r[i]) = Call(r[j]) => i = j
    BY <1>2, <1>5, <2>1 DEF Calls
  <2>3. \A k \in 1 .. Len(sub) :
           In(t[k], acc) \/ \E j \in 1 .. Len(q) : Calls(r, j) /\ Call(r[j]) = t[k]
    BY <1>1, <1>2, <1>6 DEF Calls
  <2>4. Len(sub) + 1 \in 1 .. Len(t) /\ (Len(sub) + 1) - 1 = Len(sub)
    BY <1>1
  <2> HIDE DEF i
  <2>5. \E n \in 1 .. Len(t) :
          /\ t[n] = Call(r[i])
          /\ \A k \in 1 .. n - 1 : t[k].by = r[i].by =>
                In(t[k], acc) \/ \E j \in 1 .. i - 1 : Calls(r, j) /\ Call(r[j]) = t[k]
    BY <1>1, <2>1, <2>3, <2>4
  <2>6. Waits(r, i, acc, t)
    BY <1>4, <2>1, <2>2, <2>5 DEF Waits
  <2> QED
    BY <2>6 DEF i
<1>9. ASSUME NEW k \in 1 .. Len(t)
      PROVE  In(t[k], acc) \/ \E j \in 1 .. Len(r) : Calls(r, j) /\ Call(r[j]) = t[k]
  <2>1. CASE k \in 1 .. Len(sub)
    <3>1. In(sub[k], acc) \/ \E j \in 1 .. Len(q) : Calls(q, j) /\ Call(q[j]) = sub[k]
      BY <1>6, <2>1
    <3>2. \A j \in 1 .. Len(q) : j \in 1 .. Len(r) /\ r[j] = q[j]
      BY <1>2
    <3> QED
      BY <1>1, <2>1, <3>1, <3>2 DEF Calls
  <2>2. CASE k = Len(sub) + 1
    BY <1>1, <1>2, <2>2 DEF Calls, s
  <2> QED
    BY <1>1, <2>1, <2>2
<1>10. Lined(r, acc, t)
  BY <1>2, <1>7, <1>8, <1>9 DEF Lined
<1> QED
  BY <1>10 DEF r, t, s

\* send() on the loop's thread passes what waits: none of that is its own.
LEMMA LinedDirect ==
    ASSUME NEW acc \in Seq(Sent), NEW sub \in Seq(Sent), NEW q \in Seq(Functors),
           NEW s \in Sent, s.by = LoopThread,
           Lined(q, acc, sub), Ordered(acc, sub), ~In(s, sub)
    PROVE  Lined(q, Append(acc, s), Append(sub, s)) /\ Ordered(Append(acc, s), Append(sub, s))
<1> DEFINE t == Append(sub, s)
           a == Append(acc, s)
<1>1. /\ Len(t) = Len(sub) + 1 /\ Len(sub) \in Nat /\ t[Len(sub) + 1] = s
      /\ \A i \in 1 .. Len(sub) : t[i] = sub[i]
      /\ \A i \in 1 .. Len(t) : i \in 1 .. Len(sub) \/ i = Len(sub) + 1
  BY Appended
<1>2. /\ Len(a) = Len(acc) + 1 /\ Len(acc) \in Nat /\ a[Len(acc) + 1] = s
      /\ \A i \in 1 .. Len(acc) : a[i] = acc[i]
      /\ \A i \in 1 .. Len(a) : i \in 1 .. Len(acc) \/ i = Len(acc) + 1
  BY Appended
<1> HIDE DEF t, a
<1>3. ~In(s, acc)
  BY DEF In, Ordered
<1>4. LoopThread \notin Senders
  BY TcpAssumption
<1>5. \A i \in 1 .. Len(q) : Calls(q, i) => Call(q[i]) # s
  BY <1>4 DEF Lined, Waits, Call
<1>6. \A x : In(x, a) <=> In(x, acc) \/ x = s
  <2>1. ASSUME NEW x, In(x, acc) \/ x = s PROVE In(x, a)
    <3>1. 1 .. Len(acc) \subseteq 1 .. Len(a) /\ Len(acc) + 1 \in 1 .. Len(a)
      BY <1>2
    <3> QED
      BY <1>2, <2>1, <3>1 DEF In
  <2>2. ASSUME NEW x, In(x, a) PROVE In(x, acc) \/ x = s
    BY <1>2, <2>2 DEF In
  <2> QED
    BY <2>1, <2>2
<1>7. ASSUME NEW i \in 1 .. Len(q), Calls(q, i) PROVE Waits(q, i, a, t)
  <2>1. Waits(q, i, acc, sub)
    BY <1>7 DEF Lined
  <2>2. PICK n \in 1 .. Len(sub) :
              /\ sub[n] = Call(q[i])
              /\ \A k \in 1 .. n - 1 : sub[k].by = q[i].by =>
                    In(sub[k], acc) \/ \E j \in 1 .. i - 1 : Calls(q, j) /\ Call(q[j]) = sub[k]
    BY <2>1 DEF Waits
  <2>3. n \in 1 .. Len(t) /\ t[n] = sub[n] /\ \A k \in 1 .. n - 1 : t[k] = sub[k]
    BY <1>1
  <2>4. /\ t[n] = Call(q[i])
        /\ \A k \in 1 .. n - 1 : t[k].by = q[i].by =>
              In(t[k], a) \/ \E j \in 1 .. i - 1 : Calls(q, j) /\ Call(q[j]) = t[k]
    BY <1>6, <2>2, <2>3
  <2>5. /\ q[i].by \in Senders /\ ~In(Call(q[i]), a)
        /\ \A j \in 1 .. Len(q) : Calls(q, j) /\ Call(q[i]) = Call(q[j]) => i = j
    BY <1>5, <1>6, <1>7, <2>1 DEF Waits
  <2> QED
    BY <2>3, <2>4, <2>5 DEF Waits
<1>8. ASSUME NEW k \in 1 .. Len(t)
      PROVE  In(t[k], a) \/ \E j \in 1 .. Len(q) : Calls(q, j) /\ Call(q[j]) = t[k]
  <2>1. CASE k \in 1 .. Len(sub)
    BY <1>1, <1>6, <2>1 DEF Lined
  <2>2. CASE k = Len(sub) + 1
    BY <1>1, <1>6, <2>2
  <2> QED
    BY <1>1, <2>1, <2>2
<1>9. Lined(q, a, t)
  BY <1>7, <1>8 DEF Lined
<1>10. \A k \in 1 .. Len(sub) : sub[k].by = LoopThread => In(sub[k], acc)
  <2> SUFFICES ASSUME NEW k \in 1 .. Len(sub), sub[k].by = LoopThread PROVE In(sub[k], acc)
    OBVIOUS
  <2>1. ASSUME NEW j \in 1 .. Len(q), Calls(q, j), Call(q[j]) = sub[k] PROVE FALSE
    BY <1>4, <2>1 DEF Lined, Waits, Call
  <2> QED
    BY <2>1 DEF Lined
<1>11. Ordered(a, t)
  <2>1. ASSUME NEW j \in 1 .. Len(acc)
        PROVE  \E n \in 1 .. Len(t) :
                  /\ t[n] = a[j]
                  /\ \A k \in 1 .. n - 1 :
                        t[k].by = a[j].by => \E i \in 1 .. j - 1 : a[i] = t[k]
    <3>1. PICK n \in 1 .. Len(sub) :
              /\ sub[n] = acc[j]
              /\ \A k \in 1 .. n - 1 :
                    sub[k].by = acc[j].by => \E i \in 1 .. j - 1 : acc[i] = sub[k]
      BY DEF Ordered
    <3>2. /\ n \in 1 .. Len(t) /\ t[n] = sub[n] /\ \A k \in 1 .. n - 1 : t[k] = sub[k]
          /\ a[j] = acc[j] /\ \A i \in 1 .. j - 1 : a[i] = acc[i]
      BY <1>1, <1>2
    <3> QED
      BY <3>1, <3>2
  <2>2. ASSUME NEW k \in 1 .. Len(sub), t[k].by = s.by
        PROVE  \E i \in 1 .. Len(acc) : a[i] = t[k]
    <3>1. PICK i \in 1 .. Len(acc) : acc[i] = sub[k]
      BY <1>1, <1>10, <2>2 DEF In
    <3> QED
      BY <1>1, <1>2, <3>1
  <2>3. \E n \in 1 .. Len(t) :
           /\ t[n] = a[Len(acc) + 1]
           /\ \A k \in 1 .. n - 1 : t[k].by = a[Len(acc) + 1].by =>
                 \E i \in 1 .. (Len(acc) + 1) - 1 : a[i] = t[k]
    <3>1. Len(sub) + 1 \in 1 .. Len(t) /\ (Len(sub) + 1) - 1 = Len(sub) /\ (Len(acc) + 1) - 1 = Len(acc)
      BY <1>1, <1>2
    <3> QED
      BY <1>1, <1>2, <2>2, <3>1
  <2>4. \A i, j \in 1 .. Len(a) : a[i] = a[j] => i = j
    <3>1. \A i \in 1 .. Len(acc) : a[i] # s
      BY <1>2, <1>3 DEF In
    <3>2. \A i, j \in 1 .. Len(acc) : a[i] = a[j] => i = j
      BY <1>2 DEF Ordered
    <3> QED
      BY <1>2, <3>1, <3>2
  <2> DEFINE Placed(j) ==
                \E n \in 1 .. Len(t) :
                  /\ t[n] = a[j]
                  /\ \A k \in 1 .. n - 1 :
                        t[k].by = a[j].by => \E i \in 1 .. j - 1 : a[i] = t[k]
  <2>5. (\A j \in 1 .. Len(acc) : Placed(j)) /\ Placed(Len(acc) + 1)
    BY ONLY <2>1, <2>3
  <2>6. \A j \in 1 .. Len(a) : Placed(j)
    <3> HIDE DEF Placed
    <3> QED
      BY ONLY <1>2, <2>5
  <2> QED
    BY ONLY <2>4, <2>6 DEF Ordered
<1> QED
  BY <1>9, <1>11 DEF t, a

\* onWriteComplate is queued behind them.
LEMMA LinedComplete ==
    ASSUME NEW acc \in Seq(Sent), NEW sub \in Seq(Sent), NEW q \in Seq(Functors),
           NEW e \in Functors, e.kind = "complete", Lined(q, acc, sub)
    PROVE  Lined(Append(q, e), acc, sub)
<1> DEFINE r == Append(q, e)
<1>1. /\ Len(r) = Len(q) + 1 /\ Len(q) \in Nat /\ r[Len(q) + 1] = e
      /\ \A i \in 1 .. Len(q) : r[i] = q[i]
      /\ \A i \in 1 .. Len(r) : i \in 1 .. Len(q) \/ i = Len(q) + 1
  BY Appended
<1> HIDE DEF r
<1>2. \A i \in 1 .. Len(r) : Calls(r, i) => i \in 1 .. Len(q) /\ Calls(q, i) /\ r[i] = q[i]
  BY <1>1 DEF Calls
<1>3. \A i \in 1 .. Len(q) : i \in 1 .. Len(r) /\ r[i] = q[i] /\ (Calls(q, i) => Calls(r, i))
  BY <1>1 DEF Calls
<1>4. ASSUME NEW i \in 1 .. Len(r), Calls(r, i) PROVE Waits(r, i, acc, sub)
  <2>1. i \in 1 .. Len(q) /\ r[i] = q[i] /\ Waits(q, i, acc, sub)
    BY <1>2, <1>4 DEF Lined
  <2>2. PICK n \in 1 .. Len(sub) :
              /\ sub[n] = Call(q[i])
              /\ \A k \in 1 .. n - 1 : sub[k].by = q[i].by =>
                    In(sub[k], acc) \/ \E j \in 1 .. i - 1 : Calls(q, j) /\ Call(q[j]) = sub[k]
    BY <2>1 DEF Waits
  <2>3. \A j \in 1 .. i - 1 : j \in 1 .. Len(q)
    BY <1>1, <2>1
  <2>4. \A k \in 1 .. n - 1 : sub[k].by = r[i].by =>
            In(sub[k], acc) \/ \E j \in 1 .. i - 1 : Calls(r, j) /\ Call(r[j]) = sub[k]
    BY <1>3, <2>1, <2>2, <2>3
  <2>5. /\ r[i].by \in Senders /\ ~In(Call(r[i]), acc)
        /\ \A j \in 1 .. Len(r) : Calls(r, j) /\ Call(r[i]) = Call(r[j]) => i = j
    BY <1>2, <2>1 DEF Waits
  <2> QED
    BY <2>1, <2>2, <2>4, <2>5 DEF Waits
<1>5. \A k \in 1 .. Len(sub) :
         In(sub[k], acc) \/ \E j \in 1 .. Len(r) : Calls(r, j) /\ Call(r[j]) = sub[k]
  BY <1>3 DEF Lined
<1>6. Lined(r, acc, sub)
  BY <1>4, <1>5 DEF Lined
<1> QED
  BY <1>6 DEF r

\* The loop takes its oldest functor: a message is accepted, and
\* onWriteComplate changes nothing.
LEMMA LinedTaken ==
    ASSUME NEW acc \in Seq(Sent), NEW sub \in Seq(Sent), NEW q \in Seq(Functors), q # << >>,
           Lined(q, acc, sub), Ordered(acc, sub), NEW a \in Seq(Sent),
           \/ Head(q).kind = "complete" /\ a = acc
           \/ /\ Head(q).kind = "send" /\ Call(Head(q)) \in Sent
              /\ a = Append(acc, Call(Head(q)))
    PROVE  Lined(Tail(q), a, sub) /\ Ordered(a, sub)
<1> DEFINE r == Tail(q)
           s == Call(Head(q))
<1>1. /\ Len(q) \in Nat /\ Len(q) > 0 /\ Len(r) = Len(q) - 1 /\ q[1] = Head(q)
      /\ \A i \in 1 .. Len(q) - 1 : r[i] = q[i + 1]
      /\ \A i \in 1 .. Len(r) : i + 1 \in 1 .. Len(q) /\ r[i] = q[i + 1]
  OBVIOUS
<1>2. Calls(q, 1) <=> Head(q).kind = "send"
  BY <1>1 DEF Calls
<1> HIDE DEF r
<1>3. \A i \in 1 .. Len(r) : Calls(r, i) <=> Calls(q, i + 1)
  BY <1>1 DEF Calls
<1>4. \A x : In(x, a) <=> In(x, acc) \/ (Calls(q, 1) /\ x = s)
  <2>1. CASE Head(q).kind = "complete"
    BY <1>2, <2>1
  <2>2. CASE Head(q).kind = "send"
    <3>1. s \in Sent /\ a = Append(acc, s)
      BY <2>2
    <3>2. /\ Len(a) = Len(acc) + 1 /\ a[Len(acc) + 1] = s /\ Len(acc) \in Nat
          /\ \A i \in 1 .. Len(acc) : a[i] = acc[i]
          /\ \A i \in 1 .. Len(a) : i \in 1 .. Len(acc) \/ i = Len(acc) + 1
      BY <3>1, Appended
    <3>3. \A x : In(x, a) <=> In(x, acc) \/ x = s
      BY ONLY <3>2, SMTT(20) DEF In
    <3> QED
      BY <1>2, <2>2, <3>3
  <2> QED
    BY <2>1, <2>2
<1>5. \A j \in 1 .. Len(q) : j = 1 \/ (j - 1 \in 1 .. Len(r) /\ (j - 1) + 1 = j)
  BY <1>1
<1>6. ASSUME NEW i \in 1 .. Len(r), Calls(r, i) PROVE Waits(r, i, a, sub)
  <2>1. i + 1 \in 1 .. Len(q) /\ r[i] = q[i + 1] /\ Calls(q, i + 1) /\ Waits(q, i + 1, acc, sub)
    BY <1>1, <1>3, <1>6 DEF Lined
  <2>2. PICK n \in 1 .. Len(sub) :
              /\ sub[n] = Call(q[i + 1])
              /\ \A k \in 1 .. n - 1 : sub[k].by = q[i + 1].by =>
                    In(sub[k], acc) \/ \E j \in 1 .. (i + 1) - 1 : Calls(q, j) /\ Call(q[j]) = sub[k]
    BY <2>1 DEF Waits
  <2>3. ASSUME NEW k \in 1 .. n - 1, sub[k].by = r[i].by
        PROVE  In(sub[k], a) \/ \E j \in 1 .. i - 1 : Calls(r, j) /\ Call(r[j]) = sub[k]
    <3>1. CASE In(sub[k], acc)
      BY <1>4, <3>1
    <3>2. ASSUME NEW j \in 1 .. (i + 1) - 1, Calls(q, j), Call(q[j]) = sub[k]
          PROVE  In(sub[k], a) \/ \E l \in 1 .. i - 1 : Calls(r, l) /\ Call(r[l]) = sub[k]
      <4>1. CASE j = 1
        BY <1>1, <1>4, <3>2, <4>1
      <4>2. CASE j # 1
        <5>1. j - 1 \in 1 .. i - 1 /\ j - 1 \in 1 .. Len(r) /\ (j - 1) + 1 = j
          BY <1>1, <2>1, <4>2
        <5> QED
          BY <1>1, <1>3, <3>2, <5>1
      <4> QED
        BY <4>1, <4>2
    <3> QED
      BY <2>1, <2>2, <2>3, <3>1, <3>2
  <2>4. /\ r[i].by \in Senders /\ ~In(Call(r[i]), acc)
        /\ \A j \in 1 .. Len(q) : Calls(q, j) /\ Call(r[i]) = Call(q[j]) => i + 1 = j
    BY <2>1 DEF Waits
  <2>5. ~In(Call(r[i]), a)
    <3>1. Calls(q, 1) => Call(r[i]) # s
      <4>1. 1 \in 1 .. Len(q) /\ i + 1 # 1
        BY <1>1
      <4> QED
        BY <1>1, <2>4, <4>1
    <3> QED
      BY <1>4, <2>4, <3>1
  <2>6. ASSUME NEW j \in 1 .. Len(r), Calls(r, j), Call(r[i]) = Call(r[j]) PROVE i = j
    <3>1. i + 1 = j + 1
      BY <1>1, <1>3, <2>4, <2>6
    <3> QED
      BY <3>1
  <2> QED
    BY <2>1, <2>2, <2>3, <2>4, <2>5, <2>6 DEF Waits
<1>7. ASSUME NEW k \in 1 .. Len(sub)
      PROVE  In(sub[k], a) \/ \E j \in 1 .. Len(r) : Calls(r, j) /\ Call(r[j]) = sub[k]
  <2>1. CASE In(sub[k], acc)
    BY <1>4, <2>1
  <2>2. ASSUME NEW j \in 1 .. Len(q), Calls(q, j), Call(q[j]) = sub[k]
        PROVE  In(sub[k], a) \/ \E l \in 1 .. Len(r) : Calls(r, l) /\ Call(r[l]) = sub[k]
    <3>1. CASE j = 1
      BY <1>1, <1>4, <2>2, <3>1
    <3>2. CASE j # 1
      <4>1. j - 1 \in 1 .. Len(r) /\ (j - 1) + 1 = j
        BY <1>5, <3>2
      <4>2. Calls(r, j - 1) /\ r[j - 1] = q[j]
        BY <1>1, <1>3, <2>2, <4>1
      <4> QED
        BY <2>2, <4>1, <4>2
    <3> QED
      BY <3>1, <3>2
  <2> QED
    BY <2>1, <2>2 DEF Lined
<1>8. Lined(r, a, sub)
  BY <1>6, <1>7 DEF Lined
<1>9. CASE Head(q).kind = "complete"
  BY <1>8, <1>9 DEF r
<1>10. CASE Head(q).kind = "send"
  <2>1. s \in Sent /\ a = Append(acc, s) /\ Waits(q, 1, acc, sub) /\ s.by = q[1].by /\ s = Call(q[1])
    BY <1>1, <1>2, <1>10 DEF Lined, Call
  <2> HIDE DEF s
  <2>2. /\ Len(a) = Len(acc) + 1 /\ Len(acc) \in Nat /\ a[Len(acc) + 1] = s
        /\ \A i \in 1 .. Len(acc) : a[i] = acc[i]
        /\ \A i \in 1 .. Len(a) : i \in 1 .. Len(acc) \/ i = Len(acc) + 1
    BY <2>1, Appended
  <2>3. PICK n \in 1 .. Len(sub) :
              /\ sub[n] = s
              /\ \A k \in 1 .. n - 1 : sub[k].by = s.by => In(sub[k], acc)
    <3>1. \A j \in 1 .. 1 - 1 : FALSE
      OBVIOUS
    <3> QED
      BY <2>1, <3>1 DEF Waits
  <2>4. ASSUME NEW k \in 1 .. n - 1, sub[k].by = s.by
        PROVE  \E i \in 1 .. Len(acc) : a[i] = sub[k]
    BY <2>2, <2>3, <2>4 DEF In
  <2>5. \E m \in 1 .. Len(sub) :
           /\ sub[m] = a[Len(acc) + 1]
           /\ \A k \in 1 .. m - 1 : sub[k].by = a[Len(acc) + 1].by =>
                 \E i \in 1 .. (Len(acc) + 1) - 1 : a[i] = sub[k]
    <3>1. (Len(acc) + 1) - 1 = Len(acc)
      BY <2>2
    <3> QED
      BY <2>2, <2>3, <2>4, <3>1
  <2>6. ASSUME NEW j \in 1 .. Len(acc)
        PROVE  \E m \in 1 .. Len(sub) :
                  /\ sub[m] = a[j]
                  /\ \A k \in 1 .. m - 1 :
                        sub[k].by = a[j].by => \E i \in 1 .. j - 1 : a[i] = sub[k]
    <3>1. PICK m \in 1 .. Len(sub) :
              /\ sub[m] = acc[j]
              /\ \A k \in 1 .. m - 1 :
                    sub[k].by = acc[j].by => \E i \in 1 .. j - 1 : acc[i] = sub[k]
      BY DEF Ordered
    <3>2. a[j] = acc[j] /\ \A i \in 1 .. j - 1 : a[i] = acc[i]
      BY <2>2
    <3> QED
      BY <3>1, <3>2
  <2>7. \A i, j \in 1 .. Len(a) : a[i] = a[j] => i = j
    <3>1. \A i \in 1 .. Len(acc) : a[i] # s
      BY <2>1, <2>2 DEF Waits, In
    <3>2. \A i, j \in 1 .. Len(acc) : a[i] = a[j] => i = j
      BY <2>2 DEF Ordered
    <3> QED
      BY <2>2, <3>1, <3>2
  <2> DEFINE Placed(j) ==
                \E m \in 1 .. Len(sub) :
                  /\ sub[m] = a[j]
                  /\ \A k \in 1 .. m - 1 :
                        sub[k].by = a[j].by => \E i \in 1 .. j - 1 : a[i] = sub[k]
  <2>8. (\A j \in 1 .. Len(acc) : Placed(j)) /\ Placed(Len(acc) + 1)
    BY ONLY <2>5, <2>6
  <2>9. \A j \in 1 .. Len(a) : Placed(j)
    <3> HIDE DEF Placed
    <3> QED
      BY ONLY <2>2, <2>8
  <2>10. Ordered(a, sub)
    BY ONLY <2>7, <2>9 DEF Ordered
  <2> QED
    BY <1>8, <2>10 DEF r
<1> QED
  BY <1>9, <1>10

\* What sendInLoop does to the queue and to what is accepted.
LEMMA InLoop ==
    ASSUME TypeOK, NEW s, NEW q, sendInLoop(s, q)
    PROVE  \/ aborted' /\ accepted' = accepted
           \/ /\ aborted' = aborted
              /\ accepted' = Append(accepted, s)
              /\ \/ backlog' = q
                 \/ \E e \in Functors : e.kind = "complete" /\ backlog' = Append(q, e)
<1>1. CASE writeWhole(s, q)
  <2> DEFINE e == [kind |-> "complete", at |-> Written + MsgLen]
  <2>1. Written + MsgLen \in Nat
    BY TcpAssumption DEF Written, TypeOK
  <2>2. e \in Functors /\ e.kind = "complete"
    BY <2>1 DEF Functors, Completes
  <2>3. backlog' = Append(q, e) /\ aborted' = aborted /\ accepted' = Append(accepted, s)
    BY <1>1 DEF writeWhole, Accept
  <2> HIDE DEF e
  <2> QED
    BY <2>2, <2>3
<1>2. CASE writePart(s, q)
  BY <1>2 DEF writePart, Accept
<1>3. CASE appendOnly(s, q)
  BY <1>3 DEF appendOnly, Accept
<1>4. CASE writeError(q)
  BY <1>4 DEF writeError
<1> QED
  BY <1>1, <1>2, <1>3, <1>4 DEF sendInLoop

Order ==
    /\ Ordered(accepted, submitted)
    /\ ~aborted => Lined(backlog, accepted, submitted)

LEMMA OrderTypes ==
    ASSUME TypeOK
    PROVE  accepted \in Seq(Sent) /\ submitted \in Seq(Sent) /\ backlog \in Seq(Functors)
BY DEF TypeOK, Sent, Functors

\* A message is sent once.
LEMMA Fresh ==
    ASSUME NEW m, Unsent(m), NEW e, e.msg = m
    PROVE  ~In(e, submitted)
BY DEF Unsent, Elements, In

LEMMA OrderStep == TypeOK /\ Order /\ [Next]_vars => Order'
<1> SUFFICES ASSUME TypeOK, Order, [Next]_vars PROVE Order'
  OBVIOUS
<1>0. accepted \in Seq(Sent) /\ submitted \in Seq(Sent) /\ backlog \in Seq(Functors)
  BY OrderTypes
<1>1. PICK acc \in Seq(Sent), sub \in Seq(Sent), q \in Seq(Functors) :
         acc = accepted /\ sub = submitted /\ q = backlog
  BY <1>0
<1>2. Ordered(acc, sub) /\ (~aborted => Lined(q, acc, sub))
  BY <1>1 DEF Order
\* A message accepted when the queue is lined up without it.
<1>3. ASSUME NEW s \in Sent, NEW r \in Seq(Functors), NEW sub2 \in Seq(Sent),
             sendInLoop(s, r), submitted' = sub2, Ordered(acc, sub2),
             Ordered(Append(acc, s), sub2), Lined(r, Append(acc, s), sub2)
      PROVE  Order'
  <2>1. Append(acc, s) \in Seq(Sent)
    OBVIOUS
  <2>2. CASE aborted' /\ accepted' = accepted
    BY <1>1, <1>3, <2>2 DEF Order
  <2>3. CASE accepted' = Append(accepted, s) /\ backlog' = r
    BY <1>1, <1>3, <2>3 DEF Order
  <2>4. ASSUME NEW e \in Functors, e.kind = "complete", backlog' = Append(r, e),
               accepted' = Append(accepted, s)
        PROVE  Order'
    <3>1. PICK a \in Seq(Sent) : a = Append(acc, s)
      BY <2>1
    <3>2. Lined(Append(r, e), a, sub2)
      BY <1>3, <2>4, <3>1, LinedComplete
    <3> QED
      BY <1>1, <1>3, <2>4, <3>1, <3>2 DEF Order
  <2> QED
    BY <1>3, <2>2, <2>3, <2>4, InLoop
<1>4. ASSUME NEW m \in Messages, sendFromLoop(m) PROVE Order'
  <2>1. PICK s \in Sent : s = [by |-> LoopThread, msg |-> m]
    BY DEF Sent, Threads
  <2>2. ~aborted /\ Unsent(m) /\ submitted' = Append(submitted, s) /\ sendInLoop(s, backlog)
    BY <1>4, <2>1 DEF sendFromLoop
  <2>3. s.by = LoopThread /\ s.msg = m
    BY <2>1
  <2>4. ~In(s, sub)
    BY <1>1, <2>2, <2>3, Fresh
  <2>5. Lined(q, Append(acc, s), Append(sub, s)) /\ Ordered(Append(acc, s), Append(sub, s))
    BY <1>2, <2>2, <2>3, <2>4, LinedDirect
  <2>6. Ordered(acc, Append(sub, s)) /\ Append(sub, s) \in Seq(Sent)
    BY <1>2, OrderedGrows
  <2>7. sendInLoop(s, q) /\ submitted' = Append(sub, s)
    BY <1>1, <2>2
  <2> QED
    BY <1>3, <2>5, <2>6, <2>7
<1>5. ASSUME NEW m \in Messages, NEW th \in Senders, sendFromThread(th, m) PROVE Order'
  <2>1. PICK e \in Functors : e = [kind |-> "send", by |-> th, msg |-> m]
    BY DEF Functors, Sends
  <2>2. e.kind = "send" /\ e.by \in Senders /\ Call(e) = [by |-> th, msg |-> m]
    BY <2>1 DEF Call
  <2>3. Call(e) \in Sent /\ Call(e).msg = m
    BY <2>2 DEF Sent, Threads
  <2>4. /\ ~aborted /\ Unsent(m) /\ submitted' = Append(submitted, Call(e))
        /\ backlog' = Append(backlog, e) /\ aborted' = aborted /\ accepted' = accepted
    BY <1>5, <2>1, <2>2 DEF sendFromThread
  <2>5. ~In(Call(e), sub)
    BY <1>1, <2>3, <2>4, Fresh
  <2>6. Lined(Append(q, e), acc, Append(sub, Call(e)))
    BY <1>2, <2>2, <2>3, <2>4, <2>5, LinedQueued
  <2>7. Ordered(acc, Append(sub, Call(e)))
    BY <1>2, <2>3, OrderedGrows
  <2> QED
    BY <1>1, <2>4, <2>6, <2>7 DEF Order
<1>6. CASE runSend
  <2>1. PICK s : s = [by |-> Head(q).by, msg |-> Head(q).msg]
    OBVIOUS
  <2>2. /\ ~aborted /\ q # << >> /\ Head(q).kind = "send" /\ submitted' = sub
        /\ sendInLoop(s, Tail(q))
    BY <1>1, <1>6, <2>1 DEF runSend
  <2>3. Head(q) \in Functors /\ Tail(q) \in Seq(Functors)
    BY <2>2
  <2>4. s = Call(Head(q)) /\ s \in Sent
    BY <2>1, <2>2, <2>3 DEF Call, Functors, Sends, Completes, Sent, Threads
  <2>5. PICK a \in Seq(Sent) : a = Append(acc, s)
    <3>1. Append(acc, s) \in Seq(Sent)
      BY <2>4
    <3> QED
      BY <3>1
  <2>6. Lined(Tail(q), a, sub) /\ Ordered(a, sub)
    BY <1>2, <2>2, <2>4, <2>5, LinedTaken
  <2> QED
    BY <1>2, <1>3, <2>2, <2>3, <2>4, <2>5, <2>6
<1>7. CASE runComplete
  <2>1. /\ ~aborted /\ q # << >> /\ Head(q).kind = "complete" /\ backlog' = Tail(q)
        /\ UNCHANGED <<aborted, submitted, accepted>>
    BY <1>1, <1>7 DEF runComplete
  <2>2. Lined(Tail(q), acc, sub)
    BY <1>2, <2>1, LinedTaken
  <2> QED
    BY <1>1, <1>2, <2>1, <2>2 DEF Order
<1>8. CASE handleWrite
  <2>1. PICK n \in 1 .. Len(outBuf) :
           backlog' = IF n < Len(outBuf) THEN backlog
                      ELSE Append(backlog, [kind |-> "complete", at |-> Written + n])
    BY <1>8 DEF handleWrite
  <2>2. UNCHANGED <<aborted, submitted, accepted>>
    BY <1>8 DEF handleWrite
  <2>3. Written + n \in Nat
    BY DEF Written, TypeOK
  <2>4. PICK e \in Functors : e = [kind |-> "complete", at |-> Written + n]
    BY <2>3 DEF Functors, Completes
  <2>5. e.kind = "complete" /\ (backlog' = q \/ backlog' = Append(q, e))
    BY <1>1, <2>1, <2>4
  <2>6. ~aborted => Lined(Append(q, e), acc, sub)
    BY <1>2, <2>5, LinedComplete
  <2> QED
    BY <1>1, <1>2, <2>2, <2>5, <2>6 DEF Order
<1>9. CASE brokenPipe
  BY <1>1, <1>2, <1>9 DEF brokenPipe, Order
<1>10. CASE UNCHANGED <<backlog, aborted, submitted, accepted>>
  BY <1>1, <1>2, <1>10 DEF Order
<1>11. handleClose \/ peerReads \/ peerShuts \/ peerResets \/ UNCHANGED vars
          => UNCHANGED <<backlog, aborted, submitted, accepted>>
  BY DEF handleClose, peerReads, peerShuts, peerResets
<1> QED
  BY <1>4, <1>5, <1>6, <1>7, <1>8, <1>9, <1>10, <1>11 DEF Next, RunFunctor

\* What a thread sends is accepted in the order it sent it, each message once
\* and none left out, for any number of threads, although the loop's own
\* messages pass those that wait (send, sendInLoop, runInLoop).
THEOREM InOrderOfSending == Spec => []SenderOrder
<1>1. Init => Order
  <2> SUFFICES ASSUME Init PROVE Order
    OBVIOUS
  <2>1. backlog = << >> /\ submitted = << >> /\ accepted = << >>
    BY DEF Init
  <2>2. Ordered(<< >>, << >>) /\ Lined(<< >>, << >>, << >>)
    <3>1. \A i \in 1 .. Len(<< >>) : FALSE
      OBVIOUS
    <3> QED
      BY <3>1 DEF Ordered, Lined
  <2> QED
    BY <2>1, <2>2 DEF Order
<1>2. TypeOK /\ Order => SenderOrder
  <2> SUFFICES ASSUME TypeOK, Order PROVE SenderOrder
    OBVIOUS
  <2>1. DOMAIN accepted = 1 .. Len(accepted) /\ DOMAIN submitted = 1 .. Len(submitted)
    BY OrderTypes
  <2>2. Ordered(accepted, submitted)
    BY DEF Order
  <2>3. \A i, j \in DOMAIN accepted : accepted[i] = accepted[j] => i = j
    BY ONLY <2>1, <2>2, Zenon DEF Ordered
  <2>4. ASSUME NEW j \in DOMAIN accepted
        PROVE  \E n \in DOMAIN submitted :
                  /\ submitted[n] = accepted[j]
                  /\ \A k \in 1 .. n - 1 :
                        submitted[k].by = accepted[j].by =>
                           \E i \in 1 .. j - 1 : accepted[i] = submitted[k]
    <3>1. j \in 1 .. Len(accepted)
      BY <2>1
    <3>2. PICK n \in 1 .. Len(submitted) :
              /\ submitted[n] = accepted[j]
              /\ \A k \in 1 .. n - 1 :
                    submitted[k].by = accepted[j].by =>
                       \E i \in 1 .. j - 1 : accepted[i] = submitted[k]
      BY ONLY <2>2, <3>1 DEF Ordered
    <3>3. n \in DOMAIN submitted
      BY <2>1
    <3> QED
      BY ONLY <3>2, <3>3, Zenon
  <2> QED
    BY ONLY <2>3, <2>4, Zenon DEF SenderOrder
<1> QED
  BY <1>1, <1>2, OrderStep, TypeCorrect, PTL DEF Spec

-----------------------------------------------------------------------------
(***************************************************************************)
(* The codec above the connection.  The bytes the receiver has not taken   *)
(* out, those on the way included, are a chain: each byte says what the    *)
(* next must be, the first begins the frame to be handed up next and the   *)
(* last ends the last frame sent.  So the bytes after a whole frame begin  *)
(* the one after it, wherever the reads cut.                               *)
(***************************************************************************)
USE CodecAssumption

Whole(t, f) == kHeaderLen + t[f]
At(f, k) == [frame |-> f, pos |-> k]

After(b, t) == IF b.pos < Whole(t, b.frame) THEN At(b.frame, b.pos + 1)
               ELSE At(b.frame + 1, 1)

Chain(s, f, t) ==
    /\ \A i \in 1 .. Len(s) :
          /\ s[i].frame \in 1 .. Len(t) /\ s[i].pos \in 1 .. Whole(t, s[i].frame)
    /\ s = << >> => f = Len(t) + 1
    /\ s # << >> => s[1] = At(f, 1) /\ s[Len(s)] = At(Len(t), Whole(t, Len(t)))
    /\ \A i \in 1 .. Len(s) - 1 : s[i + 1] = After(s[i], t)

\* The frame at the front of _inBuf, or that will be.
Front == IF pc = "callback" THEN Len(delivered) ELSE Len(delivered) + 1

CodecTypes ==
    /\ sent \in Seq(Nat) /\ Len(sent) <= MaxFrames
    /\ wire \in Seq(FrameByte) /\ inBuf \in Seq(FrameByte)
    /\ delivered \in Seq(Nat)

CodecInv ==
    /\ CodecTypes /\ FramesInOrder
    /\ Chain(inBuf \o wire, Front, sent)
    /\ pc = "callback" =>
          /\ Front \in 1 .. Len(sent) /\ Whole(sent, Front) <= Len(inBuf)
          /\ \A k \in 1 .. Whole(sent, Front) : inBuf[k] = At(Front, k)

\* A frame's bytes.
LEMMA FrameBytes ==
    ASSUME NEW i \in 1 .. MaxFrames, NEW len \in Nat
    PROVE  /\ Frame(i, len) \in Seq(FrameByte)
           /\ Len(Frame(i, len)) = kHeaderLen + len
           /\ \A k \in 1 .. kHeaderLen + len : Frame(i, len)[k] = At(i, k)
<1>1. kHeaderLen \in Nat
  BY CodecAssumption
<1>2. PICK n \in Nat : n = kHeaderLen + len
  BY <1>1
<1> DEFINE b == Frame(i, len)
<1>3. b = [k \in 1 .. n |-> At(i, k)]
  BY <1>2 DEF Frame, At
<1>4. \A k \in 1 .. n : At(i, k) \in FrameByte
  BY DEF FrameByte, At
<1> HIDE DEF b
<1>5. b \in [1 .. n -> FrameByte]
  BY <1>3, <1>4
<1>6. b \in Seq(FrameByte) /\ Len(b) = n
  BY <1>5
<1> QED
  BY <1>2, <1>3, <1>6 DEF b

\* A frame sent lengthens the chain at its end.
LEMMA ChainGrows ==
    ASSUME NEW t \in Seq(Nat), NEW s \in Seq(FrameByte), NEW f \in Nat,
           Chain(s, f, t), NEW len \in Nat, NEW e, e \in Seq(FrameByte),
           Len(e) = kHeaderLen + len,
           \A k \in 1 .. kHeaderLen + len : e[k] = At(Len(t) + 1, k)
    PROVE  Chain(s \o e, f, Append(t, len))
<1> DEFINE u == Append(t, len)
           r == s \o e
<1>1. /\ Len(u) = Len(t) + 1 /\ Len(t) \in Nat /\ u[Len(t) + 1] = len
      /\ \A i \in 1 .. Len(t) : u[i] = t[i]
  BY Appended
<1>2. kHeaderLen \in Nat /\ kHeaderLen > 0
  BY CodecAssumption
<1>3. /\ r \in Seq(FrameByte) /\ Len(r) = Len(s) + Len(e) /\ Len(s) \in Nat /\ Len(e) \in Nat
      /\ \A i \in 1 .. Len(s) + Len(e) : r[i] = IF i <= Len(s) THEN s[i] ELSE e[i - Len(s)]
  <2>1. /\ s \o e \in Seq(FrameByte) /\ Len(s \o e) = Len(s) + Len(e)
        /\ \A i \in 1 .. Len(s) + Len(e) :
              (s \o e)[i] = IF i <= Len(s) THEN s[i] ELSE e[i - Len(s)]
    BY ConcatProperties, Zenon
  <2>2. Len(s) \in Nat /\ Len(e) \in Nat
    OBVIOUS
  <2> QED
    BY <2>1, <2>2, Zenon
<1> HIDE DEF u, r
<1>4. PICK n \in Nat : n = Len(s)
  BY <1>3
<1>5. PICK g \in Nat : g = Len(t) + 1
  BY <1>1
<1>6. PICK w \in Nat : w = kHeaderLen + len /\ w > 0
  BY <1>2
<1>7. /\ Len(r) = n + w /\ Len(u) = g /\ Whole(u, g) = w
      /\ \A i \in 1 .. n : r[i] = s[i]
      /\ \A k \in 1 .. w : r[n + k] = At(g, k)
  <2>1. \A k \in 1 .. w : n + k \in 1 .. n + w /\ ~(n + k <= n) /\ n + k - n = k
    BY ONLY <1>4, <1>6
  <2>2. \A i \in 1 .. n + w : r[i] = IF i <= n THEN s[i] ELSE e[i - n]
    BY <1>3, <1>4, <1>6
  <2>3. \A k \in 1 .. w : r[n + k] = e[k]
    BY ONLY <2>1, <2>2, SMTT(20)
  <2> QED
    BY <1>1, <1>3, <1>4, <1>5, <1>6, <2>3 DEF Whole
<1>8. \A i \in 1 .. n + w : i \in 1 .. n \/ \E k \in 1 .. w : i = n + k
  <2> SUFFICES ASSUME NEW i \in 1 .. n + w, i \notin 1 .. n
               PROVE  \E k \in 1 .. w : i = n + k
    OBVIOUS
  <2>1. i - n \in 1 .. w /\ i = n + (i - n)
    BY ONLY <1>4, <1>6, i \in 1 .. n + w, i \notin 1 .. n
  <2> QED
    BY <2>1
<1>9. \A i \in 1 .. n : s[i].frame \in 1 .. g - 1 /\ s[i].pos \in 1 .. Whole(t, s[i].frame)
  BY <1>1, <1>4, <1>5 DEF Chain
<1>10. \A h \in 1 .. g - 1 : Whole(u, h) = Whole(t, h)
  BY <1>1, <1>5 DEF Whole
<1>11. ASSUME NEW i \in 1 .. Len(r)
       PROVE  r[i].frame \in 1 .. Len(u) /\ r[i].pos \in 1 .. Whole(u, r[i].frame)
  <2>1. CASE i \in 1 .. n
    <3>1. r[i] = s[i] /\ s[i].frame \in 1 .. g - 1 /\ s[i].pos \in 1 .. Whole(t, s[i].frame)
      BY <1>7, <1>9, <2>1
    <3>2. Whole(u, s[i].frame) = Whole(t, s[i].frame) /\ s[i].frame \in 1 .. g
      BY ONLY <1>10, <3>1, g \in Nat
    <3> QED
      BY <1>7, <3>1, <3>2
  <2>2. ASSUME NEW k \in 1 .. w, i = n + k
        PROVE  r[i].frame \in 1 .. Len(u) /\ r[i].pos \in 1 .. Whole(u, r[i].frame)
    <3>1. r[i] = At(g, k)
      BY <1>7, <2>2
    <3>2. r[i].frame = g /\ r[i].pos = k /\ g \in 1 .. g
      BY <1>1, <1>5, <3>1 DEF At
    <3> QED
      BY <1>7, <3>2
  <2> QED
    BY <1>7, <1>8, <2>1, <2>2
<1>12. r # << >> /\ r[1] = At(f, 1) /\ r[Len(r)] = At(Len(u), Whole(u, Len(u)))
  <2>1. r[n + w] = At(g, w) /\ n + w > 0 /\ n + w = Len(r)
    BY <1>6, <1>7
  <2>2. CASE n = 0
    <3>1. f = g
      <4>1. s = << >>
        BY <1>4, <2>2, EmptySeq
      <4> QED
        BY <1>5, <4>1 DEF Chain
    <3>2. 1 = n + 1 /\ 1 \in 1 .. w
      BY <1>6, <2>2
    <3>3. r[1] = At(g, 1)
      BY <1>7, <3>2
    <3> QED
      BY <1>7, <2>1, <3>1, <3>3
  <2>3. CASE n > 0
    <3>1. s # << >> /\ 1 \in 1 .. n
      BY <1>4, <2>3
    <3> QED
      BY <1>7, <2>1, <3>1 DEF Chain
  <2> QED
    BY <1>4, <2>2, <2>3
<1>13. ASSUME NEW i \in 1 .. Len(r) - 1 PROVE r[i + 1] = After(r[i], u)
  <2>1. CASE i \in 1 .. n - 1
    <3>1. i \in 1 .. n /\ i + 1 \in 1 .. n /\ i \in 1 .. Len(s) - 1
      BY <1>4, <2>1
    <3>2. s[i + 1] = After(s[i], t) /\ Whole(u, s[i].frame) = Whole(t, s[i].frame)
      BY <1>9, <1>10, <3>1 DEF Chain
    <3>3. r[i] = s[i] /\ r[i + 1] = s[i + 1]
      BY <1>7, <3>1
    <3> QED
      BY ONLY <3>2, <3>3 DEF After
  <2>2. CASE i = n
    <3>1. n \in 1 .. n /\ s # << >> /\ n + 1 = n + 1 /\ 1 \in 1 .. w
      BY <1>4, <1>6, <2>2
    <3>2. r[n] = At(g - 1, Whole(t, g - 1)) /\ g - 1 \in 1 .. g - 1
      BY <1>1, <1>4, <1>5, <1>7, <1>9, <3>1 DEF Chain, At
    <3>3. r[n].frame = g - 1 /\ r[n].pos = Whole(u, g - 1)
      BY <1>10, <3>2 DEF At
    <3>4. Whole(u, g - 1) \in Nat
      <4>1. t[g - 1] \in Nat
        BY <1>5, <3>2
      <4>2. Whole(u, g - 1) = kHeaderLen + t[g - 1]
        BY <1>10, <3>2 DEF Whole
      <4> QED
        BY ONLY <1>2, <4>1, <4>2
    <3>5. After(r[n], u) = At(g, 1)
      BY <1>5, <3>3, <3>4 DEF After
    <3> QED
      BY <1>7, <2>2, <3>1, <3>5
  <2>3. ASSUME NEW k \in 1 .. w - 1, i = n + k PROVE r[i + 1] = After(r[i], u)
    <3>1. k \in 1 .. w /\ k + 1 \in 1 .. w /\ i + 1 = n + (k + 1) /\ k < w
      BY <1>6, <2>3
    <3>2. r[i] = At(g, k) /\ r[i + 1] = At(g, k + 1)
      BY <1>7, <2>3, <3>1
    <3>3. r[i].frame = g /\ r[i].pos = k
      BY <3>2 DEF At
    <3> QED
      BY <1>7, <3>1, <3>2, <3>3 DEF After
  <2>4. i \in 1 .. n - 1 \/ i = n \/ \E k \in 1 .. w - 1 : i = n + k
    <3>1. i \in 1 .. n + w - 1
      BY <1>7
    <3>2. (i - n \in 1 .. w - 1 /\ i = n + (i - n)) \/ i \in 1 .. n - 1 \/ i = n
      BY ONLY <1>4, <1>6, <3>1
    <3> QED
      BY <3>2
  <2> QED
    BY <2>1, <2>2, <2>3, <2>4
<1>14. Chain(r, f, u)
  BY <1>11, <1>12, <1>13 DEF Chain
<1> QED
  BY <1>14 DEF r, u

\* A whole frame taken from the front leaves the chain of those after it.
LEMMA ChainTaken ==
    ASSUME NEW t \in Seq(Nat), NEW s \in Seq(FrameByte),
           NEW f \in 1 .. Len(t), Chain(s, f, t), NEW w \in Nat, w = Whole(t, f), w <= Len(s),
           \A k \in 1 .. w : s[k] = At(f, k)
    PROVE  Chain(From(s, w), f + 1, t)
<1>1. w > 0 /\ Len(t) \in Nat
  BY CodecAssumption DEF Whole
<1>2. PICK n \in Nat : n = Len(s)
  OBVIOUS
<1>3. PICK r : r = From(s, w)
  OBVIOUS
<1>4. w \in 1 .. Len(s)
  BY <1>1
<1>5. r \in Seq(FrameByte) /\ Len(r) = n - w /\ \A i \in 1 .. n - w : r[i] = s[w + i]
  <2>1. w \in 0 .. Len(s)
    BY ONLY <1>4
  <2> QED
    BY ONLY <1>2, <1>3, <2>1, s \in Seq(FrameByte), Rest
<1>6. \A i \in 1 .. n - w : w + i \in 1 .. n
  BY ONLY <1>2, w \in Nat
<1>7. s # << >> /\ s[n] = At(Len(t), Whole(t, Len(t)))
  BY <1>1, <1>2, EmptySeq DEF Chain
<1>8. s[w] = At(f, w) /\ w \in 1 .. n
  BY <1>2, <1>4
<1>9. ASSUME NEW i \in 1 .. Len(r)
      PROVE  r[i].frame \in 1 .. Len(t) /\ r[i].pos \in 1 .. Whole(t, r[i].frame)
  <2>1. r[i] = s[w + i] /\ w + i \in 1 .. Len(s)
    BY <1>2, <1>5, <1>6
  <2> QED
    BY <2>1 DEF Chain
<1>10. CASE r = << >>
  <2>1. w = n
    BY <1>5, <1>10, <1>8, <1>2, EmptySeq
  <2>2. f = Len(t)
    BY <1>7, <1>8, <2>1 DEF At
  <2>3. Len(r) = 0
    BY <1>10
  <2> QED
    BY <1>3, <1>10, <2>2, <2>3 DEF Chain
<1>11. CASE r # << >>
  <2>1. n - w \in Nat /\ n - w > 0 /\ w \in 1 .. Len(s) - 1
    BY <1>2, <1>5, <1>8, <1>11, EmptySeq
  <2>2. s[w + 1] = After(s[w], t)
    BY <2>1 DEF Chain
  <2>3. After(s[w], t) = At(f + 1, 1)
    BY <1>8 DEF After, At
  <2>4. r[1] = At(f + 1, 1)
    <3>1. 1 \in 1 .. n - w
      BY ONLY <2>1
    <3>2. r[1] = s[w + 1]
      BY <1>5, <3>1
    <3> QED
      BY ONLY <2>2, <2>3, <3>2
  <2>5. r[Len(r)] = At(Len(t), Whole(t, Len(t)))
    <3>1. Len(r) \in 1 .. n - w /\ w + Len(r) = n
      BY <1>5, <1>8, <2>1
    <3> QED
      BY <1>5, <1>7, <3>1
  <2>6. ASSUME NEW i \in 1 .. Len(r) - 1 PROVE r[i + 1] = After(r[i], t)
    <3>1. /\ i \in 1 .. n - w /\ i + 1 \in 1 .. n - w /\ w + i \in 1 .. Len(s) - 1
          /\ w + (i + 1) = (w + i) + 1
      <4>1. Len(r) = n - w /\ Len(s) = n
        BY <1>2, <1>5
      <4> QED
        BY ONLY <1>8, <2>1, <4>1, n \in Nat, w \in Nat, i \in 1 .. Len(r) - 1
    <3>2. s[(w + i) + 1] = After(s[w + i], t)
      BY <3>1 DEF Chain
    <3> QED
      BY <1>5, <3>1, <3>2
  <2> QED
    BY <1>3, <1>9, <1>11, <2>4, <2>5, <2>6 DEF Chain
<1> QED
  BY <1>10, <1>11

\* What is taken from the front of _inBuf is taken from all that is to come.
LEMMA FrontTaken ==
    ASSUME NEW S, NEW c \in Seq(S), NEW d \in Seq(S), NEW n \in 1 .. Len(c)
    PROVE  From(c \o d, n) = From(c, n) \o d
<1>1. PICK g \in Seq(S), h \in Seq(S) :
         g = First(c, n) /\ h = From(c, n) /\ g \o h = c /\ Len(g) = n
  BY Cut
<1>2. Len(g) = n
  BY <1>1
<1>3. PICK e \in Seq(S) : e = h \o d
  <2>1. h \o d \in Seq(S)
    BY ConcatProperties, Zenon
  <2> QED
    BY ONLY <2>1, Zenon
<1>4. c \o d = g \o e
  <2>1. (g \o h) \o d = g \o (h \o d)
    OBVIOUS
  <2> QED
    BY ONLY <1>1, <1>3, <2>1
<1>5. PICK a \in Seq(S) : a = g \o e
  <2>1. g \o e \in Seq(S)
    BY ConcatProperties, Zenon
  <2> QED
    BY ONLY <2>1, Zenon
<1>6. /\ Len(a) = n + Len(e) /\ Len(e) \in Nat
      /\ \A i \in 1 .. Len(e) : a[n + i] = e[i]
  <2>1. Len(g \o e) = Len(g) + Len(e)
        /\ \A i \in 1 .. Len(g) + Len(e) : (g \o e)[i] = IF i <= Len(g) THEN g[i] ELSE e[i - Len(g)]
    BY ConcatProperties, Zenon
  <2>2. Len(e) \in Nat
    OBVIOUS
  <2>3. \A i \in 1 .. Len(e) : n + i \in 1 .. n + Len(e) /\ ~(n + i <= n) /\ n + i - n = i
    BY ONLY <2>2, n \in 1 .. Len(c), Len(c) \in Nat
  <2> QED
    BY ONLY <1>2, <1>5, <2>1, <2>2, <2>3
<1>7. PICK r \in Seq(S) : /\ r = From(a, n) /\ Len(r) = Len(e)
                          /\ \A i \in 1 .. Len(e) : r[i] = a[n + i]
  <2>1. a \in Seq(S) /\ n \in 0 .. Len(a) /\ Len(a) - n = Len(e)
    BY <1>6
  <2>2. /\ From(a, n) \in Seq(S) /\ Len(From(a, n)) = Len(e)
        /\ \A i \in 1 .. Len(e) : From(a, n)[i] = a[n + i]
    BY ONLY <2>1, Rest
  <2> QED
    BY ONLY <2>2, Zenon
<1>8. r = e
  <2>1. \A i \in 1 .. Len(r) : r[i] = e[i]
    BY ONLY <1>6, <1>7
  <2> QED
    BY <1>7, <2>1, SeqEqual
<1> QED
  BY <1>1, <1>3, <1>4, <1>5, <1>7, <1>8

LEMMA CodecStep ==
    ASSUME CodecInv, [CodecNext]_codecVars
    PROVE  CodecInv'
<1> DEFINE B == FrameByte
<1>1. /\ sent \in Seq(Nat) /\ Len(sent) \in Nat /\ Len(sent) <= MaxFrames
      /\ wire \in Seq(B) /\ inBuf \in Seq(B) /\ delivered \in Seq(Nat)
      /\ Len(delivered) \in Nat /\ Front \in Nat /\ Len(inBuf) \in Nat
  BY DEF CodecInv, CodecTypes, Front
<1>2. PICK t \in Seq(Nat), x \in Seq(B), y \in Seq(B), f \in Nat :
         t = sent /\ x = inBuf /\ y = wire /\ f = Front
  BY <1>1
<1>3. Chain(x \o y, f, t)
  BY <1>2 DEF CodecInv
<1>4. \A a, b, c \in Seq(B) : (a \o b) \o c = a \o (b \o c)
  <2> SUFFICES ASSUME NEW a \in Seq(B), NEW b \in Seq(B), NEW c \in Seq(B)
               PROVE  (a \o b) \o c = a \o (b \o c)
    OBVIOUS
  <2> PICK S : S = B
    OBVIOUS
  <2> QED
    BY ONLY S = B, a \in Seq(B), b \in Seq(B), c \in Seq(B), ConcatAssociative, SMTT(20)
<1>5. x \o y \in Seq(B)
  BY ConcatProperties, Zenon
<1>6. x # << >> => x[1] = At(f, 1) /\ f \in 1 .. Len(t)
  <2> SUFFICES ASSUME x # << >> PROVE x[1] = At(f, 1) /\ f \in 1 .. Len(t)
    OBVIOUS
  <2>1. Len(x) \in Nat /\ Len(y) \in Nat /\ Len(x) > 0
    BY EmptySeq
  <2>2. /\ Len(x \o y) = Len(x) + Len(y)
        /\ \A i \in 1 .. Len(x) + Len(y) : (x \o y)[i] = IF i <= Len(x) THEN x[i] ELSE y[i - Len(x)]
    BY ConcatProperties, Zenon
  <2>3. 1 \in 1 .. Len(x) + Len(y) /\ 1 <= Len(x) /\ Len(x) + Len(y) # 0
    BY ONLY <2>1
  <2>4. (x \o y)[1] = x[1] /\ Len(x \o y) # 0
    BY ONLY <2>2, <2>3
  <2>5. x \o y # << >> /\ 1 \in 1 .. Len(x \o y)
    BY <2>2, <2>3, <2>4, EmptySeq
  <2>6. (x \o y)[1] = At(f, 1) /\ (x \o y)[1].frame \in 1 .. Len(t)
    BY ONLY <1>3, <2>5, Zenon DEF Chain
  <2> QED
    BY ONLY <2>4, <2>6 DEF At
<1>7. ASSUME NEW p \in Payloads, send(p) PROVE CodecInv'
  <2>0. PICK len \in Nat : len = TagLen + p + kChecksumLen
    <3>1. TagLen + p + kChecksumLen \in Nat
      BY CodecAssumption
    <3> QED
      BY <3>1
  <2>1. PICK e : e = Frame(Len(t) + 1, len)
    OBVIOUS
  <2>2. /\ Len(t) + 1 \in 1 .. MaxFrames /\ sent' = Append(t, len) /\ wire' = y \o e
        /\ UNCHANGED <<inBuf, pc, delivered>>
    <3>1. MaxFrames \in Nat
      BY CodecAssumption
    <3> QED
      BY <1>1, <1>2, <1>7, <2>0, <2>1, <3>1 DEF send
  <2>3. /\ e \in Seq(B) /\ Len(e) = kHeaderLen + len
        /\ \A k \in 1 .. kHeaderLen + len : e[k] = At(Len(t) + 1, k)
    BY <2>1, <2>2, FrameBytes
  <2>4. Chain((x \o y) \o e, f, Append(t, len))
    BY <1>3, <1>5, <2>3, ChainGrows
  <2>5. (x \o y) \o e = x \o (y \o e)
    BY <1>4, <2>3
  <2>6. /\ Append(t, len) \in Seq(Nat) /\ Len(Append(t, len)) = Len(t) + 1
        /\ \A i \in 1 .. Len(t) : Append(t, len)[i] = t[i]
    BY Appended
  <2>7. CodecTypes'
    <3>1. y \o e \in Seq(B)
      BY <2>3, ConcatProperties, Zenon
    <3>2. Len(sent') <= MaxFrames
      BY <2>2, <2>6
    <3> QED
      BY <1>1, <2>2, <2>6, <3>1, <3>2 DEF CodecTypes
  <2>8. Front' = Front /\ FramesInOrder'
    BY <2>2 DEF Front, CodecInv, FramesInOrder
  <2>9. Chain(inBuf \o wire, Front, sent)'
    BY <1>2, <2>2, <2>4, <2>5, <2>8
  <2>10. pc' = "callback" =>
           /\ Front \in 1 .. Len(sent') /\ Whole(sent', Front) <= Len(inBuf)
           /\ \A k \in 1 .. Whole(sent', Front) : inBuf[k] = At(Front, k)
    <3> SUFFICES ASSUME pc = "callback"
                 PROVE  /\ f \in 1 .. Len(sent') /\ Whole(sent', f) <= Len(x)
                        /\ \A k \in 1 .. Whole(sent', f) : x[k] = At(f, k)
      BY <1>2, <2>2
    <3>1. /\ f \in 1 .. Len(t) /\ Whole(t, f) <= Len(x)
          /\ \A k \in 1 .. Whole(t, f) : x[k] = At(f, k)
      BY <1>2 DEF CodecInv
    <3>2. Whole(sent', f) = Whole(t, f) /\ f \in 1 .. Len(sent')
      BY <1>1, <1>2, <2>2, <2>6, <3>1 DEF Whole
    <3> QED
      BY <3>1, <3>2
  <2> QED
    BY <2>2, <2>7, <2>8, <2>9, <2>10 DEF CodecInv
<1>8. CASE handleRead
  <2>1. PICK n \in 1 .. Len(y) :
           inBuf' = x \o SubSeq(y, 1, n) /\ wire' = From(y, n)
    BY <1>2, <1>8 DEF handleRead, retrieve, From
  <2>2. pc = "out" /\ pc' = "while" /\ UNCHANGED <<sent, delivered>>
    BY <1>8 DEF handleRead
  <2>3. PICK g \in Seq(B), h \in Seq(B) : g = First(y, n) /\ h = From(y, n) /\ g \o h = y
    BY Cut
  <2>4. inBuf' = x \o g /\ wire' = h
    BY <2>1, <2>3 DEF First
  <2>5. (x \o g) \o h = x \o y
    <3>1. (x \o g) \o h = x \o (g \o h)
      BY <1>4, ZenonT(30)
    <3> QED
      BY ONLY <2>3, <3>1
  <2>6. x \o g \in Seq(B)
    BY ConcatProperties, Zenon
  <2>7. Front' = Front /\ FramesInOrder'
    BY <2>2 DEF Front, CodecInv, FramesInOrder
  <2>8. CodecTypes'
    BY <1>1, <2>2, <2>3, <2>4, <2>6 DEF CodecTypes
  <2>9. Chain(inBuf \o wire, Front, sent)'
    BY <1>2, <1>3, <2>2, <2>4, <2>5, <2>7
  <2> QED
    BY <2>2, <2>7, <2>8, <2>9 DEF CodecInv
<1>9. CASE leaveLoop
  BY <1>9 DEF leaveLoop, CodecInv, CodecTypes, Front, FramesInOrder
<1>10. CASE deliver
  <2>1. /\ pc = "while" /\ pc' = "callback" /\ delivered' = Append(delivered, x[1].frame)
        /\ UNCHANGED <<sent, wire, inBuf>>
    BY <1>2, <1>10 DEF deliver
  <2>2. PICK len : Len(x) >= kHeaderLen + len /\ Parses(len)
    BY <1>2, <1>10 DEF deliver
  <2>3. /\ len = t[x[1].frame]
        /\ \A k \in 1 .. kHeaderLen + len : x[k].frame = x[1].frame /\ x[k].pos = k
    BY <1>2, <2>2 DEF Parses
  <2>4. x # << >>
    <3>1. Len(inBuf) >= kMinMessageLen + kHeaderLen
      BY <1>10 DEF deliver
    <3>2. Len(x) > 0
      BY <1>2, <3>1, CodecAssumption DEF kMinMessageLen
    <3> QED
      BY <3>2, EmptySeq
  <2>5. x[1] = At(f, 1) /\ x[1].frame = f
    BY <1>6, <2>4 DEF At
  <2>6. f = Len(delivered) + 1 /\ Len(delivered) \in Nat
    BY <1>1, <1>2, <2>1 DEF Front
  <2>7. /\ delivered' \in Seq(Nat) /\ Len(delivered') = f /\ delivered'[f] = f
        /\ \A i \in 1 .. f - 1 : delivered'[i] = delivered[i]
    BY <1>1, <2>1, <2>5, <2>6, Appended
  <2>8. Front' = f
    BY <2>1, <2>7 DEF Front
  <2>9. FramesInOrder'
    <3>1. DOMAIN delivered' = 1 .. f /\ DOMAIN delivered = 1 .. f - 1
      BY <1>1, <2>6, <2>7
    <3>2. \A i \in 1 .. f - 1 : delivered[i] = i
      BY <3>1 DEF CodecInv, FramesInOrder
    <3>3. \A i \in 1 .. f : i \in 1 .. f - 1 \/ i = f
      BY ONLY <2>6
    <3>4. \A i \in 1 .. f : delivered'[i] = i
      BY ONLY <2>7, <3>2, <3>3
    <3> QED
      BY <3>1, <3>4 DEF FramesInOrder
  <2>10. f \in 1 .. Len(t) /\ len \in Nat /\ Whole(t, f) = kHeaderLen + len
    BY <1>6, <2>3, <2>4, <2>5 DEF Whole
  <2>11. Whole(t, f) \in Nat /\ Whole(t, f) <= Len(x)
    BY <2>2, <2>10, CodecAssumption
  <2>12. \A k \in 1 .. Whole(t, f) : x[k] = At(f, k)
    <3> SUFFICES ASSUME NEW k \in 1 .. Whole(t, f) PROVE x[k] = At(f, k)
      OBVIOUS
    <3>1. k \in 1 .. Len(x)
      BY <2>11
    <3>2. k \in 1 .. kHeaderLen + len
      BY <2>10
    <3>3. x[k].frame = f /\ x[k].pos = k
      BY <2>3, <2>5, <3>2
    <3>4. x[k] \in B
      BY <3>1, ElementOfSeq
    <3> QED
      BY <3>3, <3>4 DEF FrameByte, At
  <2>13. CodecTypes' /\ Chain(inBuf \o wire, Front, sent)'
    BY <1>1, <1>2, <1>3, <2>1, <2>7, <2>8 DEF CodecTypes
  <2> QED
    BY <1>2, <2>1, <2>8, <2>9, <2>10, <2>11, <2>12, <2>13 DEF CodecInv
<1>11. CASE callbackReturns
  <2>1. /\ pc = "callback" /\ pc' = "while" /\ UNCHANGED <<sent, wire, delivered>>
        /\ inBuf' = From(x, kHeaderLen + t[x[1].frame])
    BY <1>2, <1>11 DEF callbackReturns, retrieve, From
  <2>2. PICK w \in Nat : w = Whole(t, f) /\ w > 0
    <3>1. f \in 1 .. Len(t)
      BY <1>2, <2>1 DEF CodecInv
    <3>2. t[f] \in Nat
      BY <3>1
    <3> QED
      BY <3>2, CodecAssumption DEF Whole
  <2>3. /\ f \in 1 .. Len(t) /\ w <= Len(x)
        /\ \A k \in 1 .. w : x[k] = At(f, k)
    BY <1>2, <2>1, <2>2 DEF CodecInv
  <2>4. x # << >>
    BY <2>2, <2>3, EmptySeq
  <2>5. inBuf' = From(x, w) /\ w \in 1 .. Len(x)
    <3>1. x[1].frame = f
      BY <1>6, <2>4 DEF At
    <3> QED
      BY <2>1, <2>2, <2>3, <3>1 DEF Whole
  <2>6. From(x \o y, w) = From(x, w) \o y
    BY <2>5, FrontTaken
  <2>7. Chain(From(x \o y, w), f + 1, t)
    <3>1. /\ Len(x \o y) = Len(x) + Len(y)
          /\ \A i \in 1 .. Len(x) + Len(y) :
                (x \o y)[i] = IF i <= Len(x) THEN x[i] ELSE y[i - Len(x)]
      BY ConcatProperties, Zenon
    <3>2. Len(x) \in Nat /\ Len(y) \in Nat
      OBVIOUS
    <3>3. \A k \in 1 .. w : k \in 1 .. Len(x) + Len(y) /\ k <= Len(x)
      BY ONLY <2>3, <3>2, w \in Nat
    <3>4. w <= Len(x \o y) /\ \A k \in 1 .. w : (x \o y)[k] = At(f, k)
      BY ONLY <2>3, <3>1, <3>2, <3>3
    <3> QED
      BY <1>3, <1>5, <2>2, <2>3, <3>4, ChainTaken
  <2>8. Front' = f + 1
    BY <1>1, <1>2, <2>1 DEF Front
  <2>9. CodecTypes'
    <3>1. From(x, w) \in Seq(B)
      BY <2>5, Cut
    <3> QED
      BY <1>1, <2>1, <2>5, <3>1 DEF CodecTypes
  <2>10. Chain(inBuf \o wire, Front, sent)'
    BY <1>2, <2>1, <2>5, <2>6, <2>7, <2>8
  <2>11. FramesInOrder'
    BY <2>1 DEF CodecInv, FramesInOrder
  <2> QED
    BY <2>1, <2>9, <2>10, <2>11 DEF CodecInv
<1>12. CASE defaultErrorCallback
  BY <1>12 DEF defaultErrorCallback, CodecInv, CodecTypes, Front, FramesInOrder
<1>13. CASE UNCHANGED codecVars
  BY <1>13 DEF codecVars, CodecInv, CodecTypes, Front, FramesInOrder
<1> QED
  BY <1>7, <1>8, <1>9, <1>10, <1>11, <1>12, <1>13 DEF CodecNext, onMessage

\* Messages are handed up once each and in the order they were sent, for
\* frames of any length, any number of them and reads that cut them anywhere
\* (ProtobufCodecLite::onMessage).
THEOREM MessagesInOrder == CodecSpec => []FramesInOrder
<1>1. CodecInit => CodecInv
  <2> SUFFICES ASSUME CodecInit PROVE CodecInv
    OBVIOUS
  <2>1. /\ sent = << >> /\ wire = << >> /\ inBuf = << >> /\ delivered = << >> /\ pc = "out"
    BY DEF CodecInit
  <2>2. \A S : << >> \in Seq(S)
    OBVIOUS
  <2>3. Front = 1 /\ Len(<< >>) = 0 /\ << >> \o << >> = << >>
    BY <2>1 DEF Front
  <2>4. \A i \in 1 .. 0 : FALSE
    OBVIOUS
  <2>5. \A i \in 1 .. 0 - 1 : FALSE
    OBVIOUS
  <2>6. Chain(<< >>, 1, << >>)
    BY <2>3, <2>4, <2>5 DEF Chain
  <2>7. CodecTypes
    BY <2>1, <2>2, <2>3, CodecAssumption DEF CodecTypes
  <2>8. FramesInOrder
    BY <2>1 DEF FramesInOrder
  <2> QED
    BY <2>1, <2>3, <2>6, <2>7, <2>8 DEF CodecInv
<1>2. CodecInv /\ [CodecNext]_codecVars => CodecInv'
  BY CodecStep
<1>3. CodecInv => FramesInOrder
  BY DEF CodecInv
<1> QED
  BY <1>1, <1>2, <1>3, PTL DEF CodecSpec
=============================================================================
