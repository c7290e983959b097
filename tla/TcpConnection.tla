--------------------------- MODULE TcpConnection ---------------------------
(***************************************************************************)
(* The sending half of a TcpConnection.  send() writes at once on the loop *)
(* thread and queues a functor on any other; what the socket does not take *)
(* waits in _outBuf, and EPOLLOUT is asked for exactly while it waits.     *)
(* The kernel takes as much as its send buffer has room for, and nothing   *)
(* (EAGAIN) when it has none.                                              *)
(*                                                                         *)
(* A message is MsgLen bytes, each known by its message and its place in   *)
(* it.  The loop's queue is EventLoop's promise (Executor): first in,      *)
(* first out, run between the loop's callbacks.                            *)
(***************************************************************************)
EXTENDS Naturals, Sequences, FiniteSets

CONSTANTS Senders,     \* threads other than the loop's
          LoopThread,
          Messages,    \* each is sent at most once
          MsgLen,      \* bytes of a message
          SocketRoom   \* bytes the kernel's send buffer holds

ASSUME TcpAssumption ==
    /\ LoopThread \notin Senders
    /\ MsgLen \in Nat \ {0}
    /\ IsFiniteSet(Messages)
    /\ SocketRoom \in Nat

VARIABLES outBuf,      \* _outBuf
          writing,     \* EPOLLOUT is among the channel's _events
          registered,  \* the channel is in epoll (its _index is not kDeleted)
          backlog,     \* the loop's _pendingFunctors that concern this connection
          aborted,     \* an exception or a signal nobody handles ended the process
          kernel,      \* the kernel's send buffer
          peer,        \* the peer's end: "open", "shut" (it sends no
                       \* more, and may read) or "reset"
          received,    \* what the peer has read
          submitted,   \* history: [by, msg] in the order of send()
          accepted,    \* history: [by, msg] in the order of sendInLoop()
          stream,      \* history: the bytes of the accepted messages
          completed    \* history: bytes written when the last onWriteComplate
                       \* that has run was queued

sendVars == <<outBuf, writing, registered, backlog, aborted>>
netVars  == <<kernel, peer, received>>
history  == <<submitted, accepted, stream, completed>>
vars     == <<sendVars, netVars, history>>

Threads == Senders \cup {LoopThread}
Elements(s) == {s[i] : i \in DOMAIN s}
Bytes(m) == [k \in 1 .. MsgLen |-> [msg |-> m, byte |-> k]]
Byte == [msg : Messages, byte : 1 .. MsgLen]

Sends == [kind : {"send"}, by : Senders, msg : Messages]
Completes == [kind : {"complete"}, at : Nat]

Init ==
    /\ outBuf = << >> /\ writing = FALSE /\ registered = TRUE
    /\ backlog = << >> /\ aborted = FALSE
    /\ kernel = << >> /\ peer = "open" /\ received = << >>
    /\ submitted = << >> /\ accepted = << >> /\ stream = << >>
    /\ completed = 0

Written == Len(received) + Len(kernel)
Unsent(m) == \A s \in Elements(submitted) : s.msg # m
First(s, n) == SubSeq(s, 1, n)
From(s, n) == SubSeq(s, n + 1, Len(s))

\* What ::write may return for len bytes: as much as fits, or -1.
CanWrite(n, len) ==
    /\ peer # "reset"
    /\ n \in 1 .. len
    /\ Len(kernel) + n <= SocketRoom
    /\ n < len => Len(kernel) + n = SocketRoom
WriteFails == Len(kernel) = SocketRoom \/ peer = "reset"

-----------------------------------------------------------------------------
(***************************************************************************)
(* sendInLoop with the message's bytes, whoever sent it; q is the loop's   *)
(* queue as the caller leaves it.                                          *)
(***************************************************************************)
Accept(s) ==
    /\ accepted' = Append(accepted, s)
    /\ stream' = stream \o Bytes(s.msg)

\* _outBuf is empty and the socket takes the whole message.
writeWhole(s, q) ==
    /\ outBuf = << >>
    /\ CanWrite(MsgLen, MsgLen)
    /\ kernel' = kernel \o Bytes(s.msg)
    /\ backlog' = Append(q, [kind |-> "complete", at |-> Written + MsgLen])
    /\ Accept(s)
    /\ UNCHANGED <<outBuf, writing, registered, aborted>>

\* _outBuf is empty and the socket takes the first n bytes: the rest waits.
Bug_noEpollout(s, q) ==
    \E n \in 1 .. MsgLen - 1 :
        /\ outBuf = << >>
        /\ CanWrite(n, MsgLen)
        /\ kernel' = kernel \o First(Bytes(s.msg), n)
        /\ outBuf' = From(Bytes(s.msg), n)
        /\ backlog' = q
        /\ Accept(s)
        /\ UNCHANGED <<writing, registered, aborted>>

writePart(s, q) ==
    \E n \in 1 .. MsgLen - 1 :
        /\ outBuf = << >>
        /\ CanWrite(n, MsgLen)
        /\ kernel' = kernel \o First(Bytes(s.msg), n)
        /\ outBuf' = From(Bytes(s.msg), n)
        /\ writing' = TRUE
        /\ backlog' = q
        /\ Accept(s)
        /\ UNCHANGED <<registered, aborted>>

\* _outBuf holds earlier bytes: nothing is written ahead of them.
Bug_writesAhead(s, q) ==
    /\ outBuf # << >>
    /\ CanWrite(MsgLen, MsgLen)
    /\ kernel' = kernel \o Bytes(s.msg)
    /\ backlog' = q
    /\ Accept(s)
    /\ UNCHANGED <<outBuf, writing, registered, aborted>>

appendOnly(s, q) ==
    /\ outBuf # << >>
    /\ outBuf' = outBuf \o Bytes(s.msg)
    /\ writing' = TRUE
    /\ backlog' = q
    /\ Accept(s)
    /\ UNCHANGED <<registered, aborted, kernel>>

\* _outBuf is empty and ::write returns -1 (the socket is full) or raises
\* SIGPIPE (the peer is gone).  Of -1, message.substr(-1, ...) throws
\* std::out_of_range, which nothing catches: either way the process ends.
writeError(q) ==
    /\ outBuf = << >>
    /\ WriteFails
    /\ aborted' = TRUE
    /\ backlog' = q
    /\ UNCHANGED <<outBuf, writing, registered, kernel, accepted, stream>>

sendInLoop(s, q) ==
    /\ \/ writeWhole(s, q)
       \/ writePart(s, q)
       \/ appendOnly(s, q)
       \/ writeError(q)
    /\ UNCHANGED <<peer, received, completed>>

-----------------------------------------------------------------------------
(* send(): on the loop thread, and on any other. *)

sendFromLoop(m) ==
    /\ ~aborted /\ Unsent(m)
    /\ LET s == [by |-> LoopThread, msg |-> m]
       IN  submitted' = Append(submitted, s) /\ sendInLoop(s, backlog)

Bug_queuesAtFront(th, m) ==
    /\ ~aborted /\ Unsent(m)
    /\ submitted' = Append(submitted, [by |-> th, msg |-> m])
    /\ backlog' = <<[kind |-> "send", by |-> th, msg |-> m]>> \o backlog
    /\ UNCHANGED <<outBuf, writing, registered, aborted, netVars, accepted,
                   stream, completed>>

sendFromThread(th, m) ==
    /\ ~aborted /\ Unsent(m)
    /\ submitted' = Append(submitted, [by |-> th, msg |-> m])
    /\ backlog' = Append(backlog, [kind |-> "send", by |-> th, msg |-> m])
    /\ UNCHANGED <<outBuf, writing, registered, aborted, netVars, accepted,
                   stream, completed>>

\* The loop runs the oldest functor: onMessageCB or onWriteComplateCB.
runSend ==
    /\ ~aborted /\ backlog # << >> /\ Head(backlog).kind = "send"
    /\ sendInLoop([by |-> Head(backlog).by, msg |-> Head(backlog).msg], Tail(backlog))
    /\ UNCHANGED submitted

runComplete ==
    /\ ~aborted /\ backlog # << >> /\ Head(backlog).kind = "complete"
    /\ completed' = Head(backlog).at
    /\ backlog' = Tail(backlog)
    /\ UNCHANGED <<outBuf, writing, registered, aborted, netVars, submitted,
                   accepted, stream>>

\* EPOLLOUT: write what waits.  When it is all written, stop asking for
\* EPOLLOUT and queue onWriteComplate.
Bug_keepsEpollout ==
    /\ ~aborted /\ registered /\ writing
    /\ \E n \in 1 .. Len(outBuf) :
          /\ CanWrite(n, Len(outBuf))
          /\ kernel' = kernel \o First(outBuf, n)
          /\ outBuf' = From(outBuf, n)
          /\ backlog' = IF n < Len(outBuf) THEN backlog
                        ELSE Append(backlog, [kind |-> "complete", at |-> Written + n])
    /\ UNCHANGED <<writing, registered, aborted, peer, received, submitted,
                   accepted, stream, completed>>

handleWrite ==
    /\ ~aborted /\ registered /\ writing
    /\ \E n \in 1 .. Len(outBuf) :
          /\ CanWrite(n, Len(outBuf))
          /\ kernel' = kernel \o First(outBuf, n)
          /\ outBuf' = From(outBuf, n)
          /\ writing' = (n < Len(outBuf))
          /\ backlog' = IF n < Len(outBuf) THEN backlog
                        ELSE Append(backlog, [kind |-> "complete", at |-> Written + n])
    /\ UNCHANGED <<registered, aborted, peer, received, submitted, accepted,
                   stream, completed>>

\* EPOLLOUT after the peer's reset: ::write raises SIGPIPE, which nothing
\* ignores and nothing handles.
brokenPipe ==
    /\ ~aborted /\ registered /\ writing /\ peer = "reset"
    /\ aborted' = TRUE
    /\ UNCHANGED <<outBuf, writing, registered, backlog, netVars, history>>

\* The peer's close is read (read returns 0, ECONNRESET or EPOLLHUP): the
\* channel leaves epoll for good.
handleClose ==
    /\ ~aborted /\ registered /\ peer # "open"
    /\ registered' = FALSE
    /\ writing' = FALSE
    /\ UNCHANGED <<outBuf, backlog, aborted, netVars, history>>

-----------------------------------------------------------------------------
(* The peer and the network. *)

peerReads ==
    /\ peer # "reset" /\ kernel # << >>
    /\ \E n \in 1 .. Len(kernel) :
          /\ received' = received \o First(kernel, n)
          /\ kernel' = From(kernel, n)
    /\ UNCHANGED <<sendVars, peer, history>>

peerShuts ==
    /\ peer = "open"
    /\ peer' = "shut"
    /\ UNCHANGED <<sendVars, kernel, received, history>>

peerResets ==
    /\ peer # "reset"
    /\ peer' = "reset"
    /\ UNCHANGED <<sendVars, kernel, received, history>>

-----------------------------------------------------------------------------
RunFunctor == runSend \/ runComplete

Next ==
    \/ \E m \in Messages :
          sendFromLoop(m) \/ \E th \in Senders : sendFromThread(th, m)
    \/ RunFunctor \/ handleWrite \/ brokenPipe \/ handleClose
    \/ peerReads \/ peerShuts \/ peerResets

\* The loop runs its functors and its callbacks, and a peer that stays reads.
Fairness == WF_vars(RunFunctor) /\ WF_vars(handleWrite) /\ WF_vars(peerReads)

Spec == Init /\ [][Next]_vars /\ Fairness

-----------------------------------------------------------------------------
(***************************************************************************)
(* Properties.                                                             *)
(***************************************************************************)
TypeOK ==
    /\ outBuf \in Seq(Byte)
    /\ kernel \in Seq(Byte)
    /\ received \in Seq(Byte)
    /\ stream \in Seq(Byte)
    /\ writing \in BOOLEAN
    /\ registered \in BOOLEAN
    /\ aborted \in BOOLEAN
    /\ peer \in {"open", "shut", "reset"}
    /\ backlog \in Seq(Sends \cup Completes)
    /\ submitted \in Seq([by : Threads, msg : Messages])
    /\ accepted \in Seq([by : Threads, msg : Messages])
    /\ completed \in Nat

\* The bytes on the wire, then those that wait, are the accepted messages
\* one after the other: none is split by another, lost, repeated or passed
\* by a later one, however the socket cuts the writes (sendInLoop,
\* handleWrite).
StreamIntact == (received \o kernel) \o outBuf = stream

\* EPOLLOUT is asked for exactly while bytes wait: asked for longer it makes
\* the loop spin, asked for less it strands them.
WriteInterest == registered => (writing <=> outBuf # << >>)

\* What one thread sends is accepted in the order it sent it, each message
\* once and none left out, although the loop thread's messages pass those
\* other threads have queued.
SenderOrder ==
    /\ \A i, j \in DOMAIN accepted : accepted[i] = accepted[j] => i = j
    /\ \A j \in DOMAIN accepted : \E n \in DOMAIN submitted :
          /\ submitted[n] = accepted[j]
          /\ \A k \in 1 .. n - 1 :
                submitted[k].by = accepted[j].by => \E i \in 1 .. j - 1 : accepted[i] = submitted[k]

TotalBytes == MsgLen * Cardinality(Messages)

\* An accepted byte reaches the kernel, and onWriteComplate runs for it, unless
\* the peer shuts its end: what sendInLoop leaves in _outBuf is written by
\* handleWrite.
EverythingWritten ==
    \A k \in 1 .. TotalBytes :
        Len(stream) >= k ~> \/ Written >= k /\ (completed >= k \/ aborted)
                            \/ peer # "open"

\* What sendInLoop's comment promises: what was not written is written
\* later.  So no send on a connection that lasts ends the process.
SendSurvives == peer = "open" => ~aborted
=============================================================================
