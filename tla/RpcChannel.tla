----------------------------- MODULE RpcChannel -----------------------------
(***************************************************************************)
(* Two RpcChannels joined by a connection: the client's, on which several  *)
(* threads and the callbacks of its loop thread call CallMethod, and the   *)
(* server's, whose services answer at once or later and in any order.      *)
(*                                                                         *)
(* A call is numbered, entered in _outstandings under _mutex and only then *)
(* sent.  Off the loop thread a message passes through the loop's queue    *)
(* (EventLoop's promise: Executor); on it, it goes straight to the socket. *)
(* The socket is a pair of first-in first-out streams of whole messages;   *)
(* framing is ProtobufCodecLite's subject.                                 *)
(*                                                                         *)
(* A request stands for its service, method and payload, and the response  *)
(* to a request for the request it answers.                                *)
(***************************************************************************)
EXTENDS Naturals, Sequences

CONSTANTS Callers,         \* client threads other than the loop's
          LoopThread,      \* the client's loop thread
          Requests,        \* what a call may ask for
          Registered,      \* requests whose service RpcServer registered ...
          HasMethod,       \* ... whose method that service has ...
          Parses,          \* ... whose payload parses as the method's request
          NoReply,         \* a response object nothing was parsed into
          MaxCalls         \* bound: calls

\* The ErrorCodes onRpcMessage answers with.
Errors == {"NO_SERVICE", "NO_METHOD", "INVALID_REQUEST"}

ASSUME RpcAssumption ==
    /\ LoopThread \notin Callers
    /\ "free" \notin Callers \cup {LoopThread}
    /\ MaxCalls \in Nat
    /\ NoReply \notin Requests
    /\ Requests \cap Errors = {}
    /\ NoReply \notin Errors

VARIABLES id,              \* _id of the client's channel
          mutex,           \* the thread holding the client's _mutex, or "free"
          outstandings,    \* _outstandings: id to the call's done closure
          call,            \* where each thread is in CallMethod
          recv,            \* where the loop thread is in onRpcMessage
          backlog,         \* sends queued in the client's loop
          requests,        \* the stream from client to server
          responses,       \* the stream from server to client
          executing,       \* requests whose service has not run its closure
          replies,         \* sends queued in the server's loop
          up,              \* the connection is established
          destroyed,       \* the client's channel is destroyed
          called,          \* history: the calls' requests, by id
          served,          \* history: ids in the order services were invoked
          returned,        \* history: done closures run, with their answers
          deleted          \* history: done closures ~RpcChannel deleted

clientVars == <<id, mutex, outstandings, call, recv, backlog, destroyed>>
serverVars == <<executing, replies>>
netVars    == <<requests, responses, up>>
history    == <<called, served, returned, deleted>>
vars       == <<clientVars, serverVars, netVars, history>>

Threads == Callers \cup {LoopThread}
Elements(s) == {s[i] : i \in DOMAIN s}

Idle == [pc |-> "idle", id |-> 0, req |-> NoReply]
NoMessage == [pc |-> "idle", id |-> 0, reply |-> NoReply, out |-> NoReply]
Empty == [i \in {} |-> NoReply]

Init ==
    /\ id = 0
    /\ mutex = "free"
    /\ outstandings = Empty
    /\ call = [th \in Threads |-> Idle]
    /\ recv = NoMessage
    /\ backlog = << >>
    /\ requests = << >>
    /\ responses = << >>
    /\ executing = {}
    /\ replies = << >>
    /\ up = TRUE
    /\ destroyed = FALSE
    /\ called = << >>
    /\ served = << >>
    /\ returned = << >>
    /\ deleted = {}

-----------------------------------------------------------------------------
(* The client: CallMethod. *)

\* The loop thread is in user code between messages (a timer, onConnection)
\* and inside done, which may call again.
InUserCode(th) == th = LoopThread => recv.pc \in {"idle", "inDone"}

\* incrementAndGet, an atomic fetch-and-add, and the message built from it.
Bug_reusesIds == 1 + Len(called) - Len(returned)
incrementAndGet == id + 1

CallMethod(th, r) ==
    /\ call[th] = Idle /\ InUserCode(th) /\ ~destroyed
    /\ id < MaxCalls
    /\ id' = incrementAndGet
    /\ call' = [call EXCEPT ![th] = [pc |-> "numbered", id |-> id', req |-> r]]
    /\ called' = Append(called, r)
    /\ UNCHANGED <<mutex, outstandings, recv, backlog, destroyed, serverVars,
                   netVars, served, returned, deleted>>

lockForInsert(th) ==
    /\ call[th].pc = "numbered" /\ mutex = "free"
    /\ mutex' = th
    /\ call' = [call EXCEPT ![th].pc = "locked"]
    /\ UNCHANGED <<id, outstandings, recv, backlog, destroyed, serverVars,
                   netVars, history>>

With(f, i, v) == [j \in DOMAIN f \cup {i} |-> IF j = i THEN v ELSE f[j]]
Without(f, i) == [j \in DOMAIN f \ {i} |-> f[j]]

insert(th) ==
    /\ call[th].pc = "locked"
    /\ outstandings' = With(outstandings, call[th].id, call[th].req)
    /\ mutex' = "free"
    /\ call' = [call EXCEPT ![th].pc = "registered"]
    /\ UNCHANGED <<id, recv, backlog, destroyed, serverVars, netVars, history>>

\* TcpConnection::send, for a socket that takes what is written: a failed write,
\* and what sendInLoop then does, is in TcpConnection.  What is sent on a lost
\* connection is gone.
Deliver(stream, m) == IF up THEN Append(stream, m) ELSE stream

send(th) ==
    /\ call[th].pc = "registered"
    /\ LET m == [id |-> call[th].id, req |-> call[th].req]
       IN  IF th = LoopThread
           THEN requests' = Deliver(requests, m) /\ UNCHANGED backlog
           ELSE backlog' = Append(backlog, m) /\ UNCHANGED requests
    /\ call' = [call EXCEPT ![th] = Idle]
    /\ UNCHANGED <<id, mutex, outstandings, recv, destroyed, serverVars,
                   responses, up, history>>

-----------------------------------------------------------------------------
(* The client's loop thread. *)

LoopIdle == call[LoopThread] = Idle /\ recv.pc = "idle"

\* A functor of the loop: sendInLoop for another thread's message.
flushBacklog ==
    /\ LoopIdle /\ backlog # << >>
    /\ requests' = Deliver(requests, Head(backlog))
    /\ backlog' = Tail(backlog)
    /\ UNCHANGED <<id, mutex, outstandings, call, recv, destroyed, serverVars,
                   responses, up, history>>

\* onRpcMessage with a RESPONSE.
onResponse ==
    /\ LoopIdle /\ responses # << >> /\ ~destroyed
    /\ recv' = [pc |-> "arrived", id |-> Head(responses).id,
                reply |-> Head(responses).reply, out |-> NoReply]
    /\ responses' = Tail(responses)
    /\ UNCHANGED <<id, mutex, outstandings, call, backlog, destroyed,
                   serverVars, requests, up, history>>

lockForFind ==
    /\ recv.pc = "arrived" /\ mutex = "free"
    /\ mutex' = LoopThread
    /\ recv' = [recv EXCEPT !.pc = "locked"]
    /\ UNCHANGED <<id, outstandings, call, backlog, destroyed, serverVars,
                   netVars, history>>

\* Find and erase under the lock, which is released before done runs.  An id
\* that is not there is ignored.
Bug_doneUnderLock ==
    /\ recv.pc = "locked"
    /\ IF recv.id \in DOMAIN outstandings
       THEN /\ recv' = [recv EXCEPT !.pc = "found", !.out = outstandings[recv.id]]
            /\ outstandings' = Without(outstandings, recv.id)
            /\ UNCHANGED mutex
       ELSE recv' = NoMessage /\ mutex' = "free" /\ UNCHANGED outstandings
    /\ UNCHANGED <<id, call, backlog, destroyed, serverVars, netVars, history>>

Bug_notErased ==
    /\ recv.pc = "locked"
    /\ mutex' = "free"
    /\ IF recv.id \in DOMAIN outstandings
       THEN recv' = [recv EXCEPT !.pc = "found", !.out = outstandings[recv.id]]
       ELSE recv' = NoMessage
    /\ UNCHANGED <<id, outstandings, call, backlog, destroyed, serverVars,
                   netVars, history>>

find ==
    /\ recv.pc = "locked"
    /\ mutex' = "free"
    /\ IF recv.id \in DOMAIN outstandings
       THEN /\ recv' = [recv EXCEPT !.pc = "found", !.out = outstandings[recv.id]]
            /\ outstandings' = Without(outstandings, recv.id)
       ELSE recv' = NoMessage /\ UNCHANGED outstandings
    /\ UNCHANGED <<id, call, backlog, destroyed, serverVars, netVars, history>>

\* Parse the response, if the message has one (an error reply has none, and
\* its code is not looked at), and run done.
Parsed(reply) == IF reply \in Requests THEN reply ELSE NoReply

runDone ==
    /\ recv.pc = "found"
    /\ returned' = Append(returned, [id |-> recv.id, asked |-> recv.out,
                                     value |-> Parsed(recv.reply)])
    /\ recv' = [recv EXCEPT !.pc = "inDone"]
    /\ UNCHANGED <<id, mutex, outstandings, call, backlog, destroyed,
                   serverVars, netVars, called, served, deleted>>

doneReturns ==
    /\ recv.pc = "inDone" /\ call[LoopThread] = Idle
    /\ recv' = NoMessage
    /\ UNCHANGED <<id, mutex, outstandings, call, backlog, destroyed,
                   serverVars, netVars, history>>

\* ~RpcChannel deletes the closures of the calls nobody answered.  Its owner
\* destroys it when no thread is inside it.
destroy ==
    /\ ~up /\ ~destroyed /\ recv.pc = "idle"
    /\ \A th \in Threads : call[th] = Idle
    /\ destroyed' = TRUE
    /\ deleted' = DOMAIN outstandings
    /\ outstandings' = Empty
    /\ UNCHANGED <<id, mutex, call, recv, backlog, serverVars, netVars,
                   called, served, returned>>

-----------------------------------------------------------------------------
(* The server. *)

\* The look-ups of onRpcMessage, in their order.
ErrorOf(r) ==
    IF r \notin Registered THEN "NO_SERVICE"
    ELSE IF r \notin HasMethod THEN "NO_METHOD"
    ELSE IF r \notin Parses THEN "INVALID_REQUEST"
    ELSE "NO_ERROR"

refuse(m) ==
    responses' = Deliver(responses, [id |-> m.id, reply |-> ErrorOf(m.req)])

\* onRpcMessage with a REQUEST: refuse it at once or invoke the service.
Bug_requestKept ==
    /\ requests # << >>
    /\ LET m == Head(requests)
       IN  \/ /\ ErrorOf(m.req) = "NO_ERROR"
              /\ executing' = executing \cup {m}
              /\ served' = Append(served, m.id)
              /\ UNCHANGED responses
           \/ /\ ErrorOf(m.req) # "NO_ERROR"
              /\ refuse(m)
              /\ UNCHANGED <<executing, served>>
    /\ UNCHANGED <<clientVars, replies, requests, up, called, returned, deleted>>

onRequest ==
    /\ requests # << >>
    /\ requests' = Tail(requests)
    /\ LET m == Head(requests)
       IN  \/ /\ ErrorOf(m.req) = "NO_ERROR"
              /\ executing' = executing \cup {m}
              /\ served' = Append(served, m.id)
              /\ UNCHANGED responses
           \/ /\ ErrorOf(m.req) # "NO_ERROR"
              /\ refuse(m)
              /\ UNCHANGED <<executing, served>>
    /\ UNCHANGED <<clientVars, replies, up, called, returned, deleted>>

\* doneCallback: the service runs its closure, on the connection's I/O thread
\* (the reply goes straight to the socket) or on another (it is queued).
doneCallback(m, onIoThread) ==
    /\ m \in executing
    /\ executing' = executing \ {m}
    /\ LET reply == [id |-> m.id, reply |-> m.req]
       IN  IF onIoThread
           THEN responses' = Deliver(responses, reply) /\ UNCHANGED replies
           ELSE replies' = Append(replies, reply) /\ UNCHANGED responses
    /\ UNCHANGED <<clientVars, requests, up, history>>

flushReply ==
    /\ replies # << >>
    /\ responses' = Deliver(responses, Head(replies))
    /\ replies' = Tail(replies)
    /\ UNCHANGED <<clientVars, executing, requests, up, history>>

\* The connection breaks with whatever is in flight.
connectionLost ==
    /\ up
    /\ up' = FALSE
    /\ requests' = << >>
    /\ responses' = << >>
    /\ UNCHANGED <<clientVars, serverVars, history>>

-----------------------------------------------------------------------------
CallStep(th) == lockForInsert(th) \/ insert(th) \/ send(th)
LoopStep ==
    flushBacklog \/ onResponse \/ lockForFind \/ find \/ runDone \/ doneReturns
ServerStep == onRequest \/ flushReply
Finish(i) ==
    \E m \in executing, onIoThread \in BOOLEAN :
        m.id = i /\ doneCallback(m, onIoThread)

Next ==
    \/ \E th \in Threads : CallStep(th) \/ \E r \in Requests : CallMethod(th, r)
    \/ LoopStep
    \/ ServerStep
    \/ \E m \in executing, onIoThread \in BOOLEAN : doneCallback(m, onIoThread)
    \/ connectionLost
    \/ destroy

\* Threads that can run do, the streams deliver, and every service runs the
\* closure it was given.  Nobody has to call, and done returns.
Fairness ==
    /\ \A th \in Threads : WF_vars(CallStep(th))
    /\ WF_vars(LoopStep)
    /\ WF_vars(ServerStep)
    /\ \A i \in 1 .. MaxCalls : WF_vars(Finish(i))

Spec == Init /\ [][Next]_vars /\ Fairness

-----------------------------------------------------------------------------
(***************************************************************************)
(* Properties.                                                             *)
(***************************************************************************)
Ids     == 0 .. MaxCalls            \* 0 before a thread has a call
Payload == Requests \cup {NoReply}
RequestMsg  == [id : Ids, req : Payload]
ResponseMsg == [id : Ids, reply : Payload \cup Errors]
CallState   == [pc : {"idle", "numbered", "locked", "registered"},
                id : Ids, req : Payload]
RecvState   == [pc : {"idle", "arrived", "locked", "found", "inDone"},
                id : Ids, reply : Payload \cup Errors, out : Payload]
Completion  == [id : Ids, asked : Payload, value : Payload]

\* Types; that what is in flight is a real call's is MatchInv.
TypeOK ==
    /\ id \in Ids
    /\ mutex \in Threads \cup {"free"}
    /\ outstandings \in [DOMAIN outstandings -> Payload]
    /\ DOMAIN outstandings \subseteq Ids
    /\ call \in [Threads -> CallState]
    /\ recv \in RecvState
    /\ backlog \in Seq(RequestMsg)
    /\ requests \in Seq(RequestMsg)
    /\ responses \in Seq(ResponseMsg)
    /\ replies \in Seq(ResponseMsg)
    /\ executing \subseteq RequestMsg
    /\ up \in BOOLEAN
    /\ destroyed \in BOOLEAN
    /\ called \in Seq(Requests)
    /\ Len(called) = id
    /\ served \in Seq(Ids)
    /\ returned \in Seq(Completion)
    /\ deleted \subseteq Ids

ReturnedIds == {a.id : a \in Elements(returned)}
Taken == IF recv.pc = "found" THEN {recv.id} ELSE {}

\* A call's done closure is owned once: it waits in _outstandings, is in
\* the hands of onRpcMessage, has run, or was deleted by ~RpcChannel, and
\* runs at most once (each deletes it, so any overlap is a double free).
DoneAtMostOnce ==
    /\ \A j, k \in DOMAIN returned : returned[j].id = returned[k].id => j = k
    /\ (DOMAIN outstandings \cup Taken) \cap ReturnedIds = {}
    /\ deleted \cap (ReturnedIds \cup Taken \cup DOMAIN outstandings) = {}
    /\ Taken \cap DOMAIN outstandings = {}

\* done sees the answer to its own request, whatever the order in which
\* threads call and services answer; a refused call's response stays empty.
AnswerMatches ==
    \A a \in Elements(returned) :
        a.value = IF ErrorOf(a.asked) = "NO_ERROR" THEN a.asked ELSE NoReply

(***************************************************************************)
(* Why they hold: whatever carries an identifier carries that call's       *)
(* request or the answer to it ...                                         *)
(***************************************************************************)
ReplyTo(r) == IF ErrorOf(r) = "NO_ERROR" THEN r ELSE ErrorOf(r)
Asks(m) == m.id \in DOMAIN called /\ m.req = called[m.id]
Answers(m) == m.id \in DOMAIN called /\ m.reply = ReplyTo(called[m.id])

MatchInv ==
    /\ \A th \in Threads : call[th].pc # "idle" => Asks(call[th])
    /\ \A i \in DOMAIN outstandings :
          i \in DOMAIN called /\ outstandings[i] = called[i]
    /\ \A k \in DOMAIN backlog : Asks(backlog[k])
    /\ \A k \in DOMAIN requests : Asks(requests[k])
    /\ \A m \in executing : Asks(m) /\ ErrorOf(m.req) = "NO_ERROR"
    /\ \A k \in DOMAIN replies : Answers(replies[k])
    /\ \A k \in DOMAIN responses : Answers(responses[k])
    /\ recv.pc # "idle" => Answers(recv)
    /\ recv.pc \in {"found", "inDone"} => recv.out = called[recv.id]

\* ... and an identifier that is still to be entered in _outstandings is new
\* there and everywhere a closure can be.
OnceInv ==
    /\ \A th \in Threads : call[th].pc \in {"numbered", "locked"} =>
          /\ call[th].id \notin DOMAIN outstandings \cup Taken \cup ReturnedIds
          /\ \A other \in Threads \ {th} :
                call[other].pc \in {"numbered", "locked"} =>
                    call[other].id # call[th].id
    /\ ReturnedIds \cup Taken \subseteq DOMAIN called
    /\ ~destroyed => deleted = {}
    /\ destroyed => /\ outstandings = Empty
                    /\ recv.pc = "idle"
                    /\ \A th \in Threads : call[th].pc = "idle"
    /\ DoneAtMostOnce

\* The channels implement the service their callers rely on.
Promise == INSTANCE RpcService
               WITH Executable <- {r \in Requests : ErrorOf(r) = "NO_ERROR"},
                    answered <- {[id |-> a.id, value |-> a.value]
                                    : a \in Elements(returned)},
                    lost <- ~up

IsRpcService == Promise!SafeSpec

\* Every call is answered unless the connection is lost: threads that
\* contend for _mutex and a done that calls again never block each other.
CallsComplete ==
    \A i \in 1 .. MaxCalls : (id >= i) ~> (i \in ReturnedIds \/ ~up)
=============================================================================
