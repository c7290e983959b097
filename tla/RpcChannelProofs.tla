-------------------------- MODULE RpcChannelProofs --------------------------
(***************************************************************************)
(* What holds of RpcChannel for every set of threads and requests and any  *)
(* number of calls: done runs at most once, with the answer to its own     *)
(* request, and the channel implements the abstract RpcService.            *)
(***************************************************************************)
EXTENDS RpcChannel, SequenceTheorems, TLAPS

USE DEF vars, clientVars, serverVars, netVars, history, Threads

\* A message sent, or lost with its connection, leaves a stream of messages.
LEMMA StreamType ==
    ASSUME NEW S, NEW s \in Seq(S), NEW m \in S
    PROVE  Append(s, m) \in Seq(S) /\ Deliver(s, m) \in Seq(S)
  BY DEF Deliver

(***************************************************************************)
(* Type correctness.                                                       *)
(***************************************************************************)
THEOREM TypeCorrect == Spec => []TypeOK
<1> USE DEF TypeOK
<1>1. 0 \in Ids /\ NoReply \in Payload
  BY RpcAssumption DEF Ids, Payload
<1>2. Idle \in CallState /\ NoMessage \in RecvState
  BY <1>1 DEF Idle, NoMessage, CallState, RecvState
<1>3. Init => TypeOK
  <2> SUFFICES ASSUME Init PROVE TypeOK
    OBVIOUS
  <2>1. \A S : << >> \in Seq(S)
    OBVIOUS
  <2>2. /\ outstandings \in [DOMAIN outstandings -> Payload]
        /\ DOMAIN outstandings \subseteq Ids
    BY DEF Init, Empty
  <2>3. call \in [Threads -> CallState] /\ recv \in RecvState
    BY <1>2 DEF Init
  <2> QED
    BY <1>1, <2>1, <2>2, <2>3 DEF Init
<1>4. TypeOK /\ [Next]_vars => TypeOK'
  <2> SUFFICES ASSUME TypeOK, [Next]_vars PROVE TypeOK'
    OBVIOUS
  <2>1. ASSUME NEW th \in Threads, NEW r \in Requests, CallMethod(th, r)
        PROVE  TypeOK'
    <3>1. id' = id + 1 /\ id' \in Ids
      BY <2>1, RpcAssumption DEF CallMethod, incrementAndGet, Ids
    <3>2. [pc |-> "numbered", id |-> id', req |-> r] \in CallState
      BY <3>1 DEF CallState, Payload
    <3>3. called' \in Seq(Requests) /\ Len(called') = id'
      BY <2>1, <3>1 DEF CallMethod
    <3> QED
      BY <2>1, <3>1, <3>2, <3>3 DEF CallMethod
  <2>2. ASSUME NEW th \in Threads, lockForInsert(th)
        PROVE  TypeOK'
    <3>1. [call[th] EXCEPT !.pc = "locked"] \in CallState
      BY DEF CallState
    <3> QED
      BY <2>2, <3>1 DEF lockForInsert
  <2>3. ASSUME NEW th \in Threads, insert(th)
        PROVE  TypeOK'
    <3>1. [call[th] EXCEPT !.pc = "registered"] \in CallState
      BY DEF CallState
    <3>2. call[th].id \in Ids /\ call[th].req \in Payload
      BY DEF CallState
    <3>3. /\ outstandings' \in [DOMAIN outstandings' -> Payload]
          /\ DOMAIN outstandings' \subseteq Ids
      BY <2>3, <3>2 DEF insert, With
    <3> QED
      BY <2>3, <3>1, <3>3 DEF insert
  <2>4. ASSUME NEW th \in Threads, send(th)
        PROVE  TypeOK'
    <3> DEFINE m == [id |-> call[th].id, req |-> call[th].req]
    <3>1. m \in RequestMsg
      BY DEF CallState, RequestMsg
    <3>0. /\ backlog' = backlog \/ backlog' = Append(backlog, m)
          /\ requests' = requests \/ requests' = Deliver(requests, m)
      BY <2>4 DEF send
    <3>2. backlog' \in Seq(RequestMsg) /\ requests' \in Seq(RequestMsg)
      <4> HIDE DEF m
      <4>1. Append(backlog, m) \in Seq(RequestMsg)
        BY <3>1, StreamType
      <4>2. Deliver(requests, m) \in Seq(RequestMsg)
        BY <3>1, StreamType
      <4> QED
        BY <3>0, <4>1, <4>2
    <3> QED
      BY <2>4, <1>2, <3>2 DEF send
  <2>5. CASE flushBacklog
    <3>1. Head(backlog) \in RequestMsg /\ Tail(backlog) \in Seq(RequestMsg)
      BY <2>5 DEF flushBacklog
    <3>2. requests' \in Seq(RequestMsg)
      BY <2>5, <3>1 DEF flushBacklog, Deliver
    <3> QED
      BY <2>5, <3>1, <3>2 DEF flushBacklog
  <2>6. CASE onResponse
    <3>1. Head(responses) \in ResponseMsg /\ Tail(responses) \in Seq(ResponseMsg)
      BY <2>6 DEF onResponse
    <3>2. recv' \in RecvState
      BY <2>6, <3>1, <1>1 DEF onResponse, ResponseMsg, RecvState
    <3> QED
      BY <2>6, <3>1, <3>2 DEF onResponse
  <2>7. CASE lockForFind
    <3>1. recv' \in RecvState
      BY <2>7 DEF lockForFind, RecvState
    <3> QED
      BY <2>7, <3>1 DEF lockForFind
  <2>8. CASE find
    <3>1. recv' \in RecvState
      BY <2>8, <1>2 DEF find, RecvState
    <3>2. /\ outstandings' \in [DOMAIN outstandings' -> Payload]
          /\ DOMAIN outstandings' \subseteq Ids
      BY <2>8 DEF find, Without
    <3> QED
      BY <2>8, <3>1, <3>2 DEF find
  <2>9. CASE runDone
    <3>1. [id |-> recv.id, asked |-> recv.out, value |-> Parsed(recv.reply)]
             \in Completion
      BY <1>1 DEF Parsed, RecvState, Completion, Payload
    <3>2. returned' \in Seq(Completion)
      BY <2>9, <3>1 DEF runDone
    <3>3. recv' \in RecvState
      BY <2>9 DEF runDone, RecvState
    <3> QED
      BY <2>9, <3>2, <3>3 DEF runDone
  <2>10. CASE doneReturns
    BY <2>10, <1>2 DEF doneReturns
  <2>11. CASE destroy
    BY <2>11 DEF destroy, Empty
  <2>12. CASE onRequest
    <3>1. Head(requests) \in RequestMsg /\ Tail(requests) \in Seq(RequestMsg)
      BY <2>12 DEF onRequest
    <3>2. CASE ErrorOf(Head(requests).req) = "NO_ERROR"
      <4>1. served' \in Seq(Ids)
        <5>1. Head(requests).id \in Ids
          BY <3>1 DEF RequestMsg
        <5>2. served' = Append(served, Head(requests).id)
          BY <2>12, <3>2 DEF onRequest
        <5> QED
          BY <5>1, <5>2
      <4> QED
        BY <2>12, <3>1, <3>2, <4>1 DEF onRequest
    <3>3. CASE ErrorOf(Head(requests).req) # "NO_ERROR"
      <4>1. [id |-> Head(requests).id, reply |-> ErrorOf(Head(requests).req)]
               \in ResponseMsg
        BY <3>1, <3>3 DEF ErrorOf, Errors, RequestMsg, ResponseMsg
      <4>2. responses' \in Seq(ResponseMsg)
        BY <2>12, <3>3, <4>1, StreamType DEF onRequest, refuse
      <4> QED
        BY <2>12, <3>1, <3>3, <4>2 DEF onRequest
    <3> QED
      BY <3>2, <3>3
  <2>13. ASSUME NEW m \in executing, NEW onIoThread \in BOOLEAN,
                doneCallback(m, onIoThread)
         PROVE  TypeOK'
    <3> DEFINE reply == [id |-> m.id, reply |-> m.req]
    <3>1. reply \in ResponseMsg
      BY DEF RequestMsg, ResponseMsg
    <3>0. /\ responses' = responses \/ responses' = Deliver(responses, reply)
          /\ replies' = replies \/ replies' = Append(replies, reply)
      BY <2>13 DEF doneCallback
    <3>2. responses' \in Seq(ResponseMsg) /\ replies' \in Seq(ResponseMsg)
      <4> HIDE DEF reply
      <4>1. Append(replies, reply) \in Seq(ResponseMsg)
        BY <3>1, StreamType
      <4>2. Deliver(responses, reply) \in Seq(ResponseMsg)
        BY <3>1, StreamType
      <4> QED
        BY <3>0, <4>1, <4>2
    <3> QED
      BY <2>13, <3>2 DEF doneCallback
  <2>14. CASE flushReply
    <3>1. Head(replies) \in ResponseMsg /\ Tail(replies) \in Seq(ResponseMsg)
      BY <2>14 DEF flushReply
    <3>2. responses' \in Seq(ResponseMsg)
      BY <2>14, <3>1 DEF flushReply, Deliver
    <3> QED
      BY <2>14, <3>1, <3>2 DEF flushReply
  <2>15. CASE connectionLost
    <3>1. \A S : << >> \in Seq(S)
      OBVIOUS
    <3> QED
      BY <2>15, <3>1 DEF connectionLost
  <2>16. CASE UNCHANGED vars
    BY <2>16
  <2> QED
    BY <2>1, <2>2, <2>3, <2>4, <2>5, <2>6, <2>7, <2>8, <2>9, <2>10, <2>11,
       <2>12, <2>13, <2>14, <2>15, <2>16
       DEF Next, CallStep, LoopStep, ServerStep
<1> QED
  BY <1>3, <1>4, PTL DEF Spec

(***************************************************************************)
(* The first and the other elements of a stream, and of a stream one       *)
(* message longer.                                                         *)
(***************************************************************************)
LEMMA FirstAndRest ==
    ASSUME NEW S, NEW s \in Seq(S), s # << >>
    PROVE  /\ 1 \in DOMAIN s /\ Head(s) = s[1] /\ Head(s) \in S
           /\ \A k \in DOMAIN Tail(s) : k + 1 \in DOMAIN s /\ Tail(s)[k] = s[k + 1]
  OBVIOUS

LEMMA AppendElements ==
    ASSUME NEW S, NEW s \in Seq(S), NEW m \in S
    PROVE  \A k \in DOMAIN Append(s, m) :
              Append(s, m)[k] = m \/ (k \in DOMAIN s /\ Append(s, m)[k] = s[k])
<1> TAKE k \in DOMAIN Append(s, m)
<1>1. k \in 1 .. Len(s) + 1
  BY AppendProperties
<1>2. CASE k = Len(s) + 1
  <2>1. Append(s, m)[Len(s) + 1] = m
    BY AppendProperties
  <2> QED
    BY <1>2, <2>1
<1>3. CASE k \in 1 .. Len(s)
  BY <1>3, AppendProperties
<1> QED
  BY <1>1, <1>2, <1>3

LEMMA DeliverElements ==
    ASSUME NEW S, NEW s \in Seq(S), NEW m \in S
    PROVE  \A k \in DOMAIN Deliver(s, m) :
              Deliver(s, m)[k] = m \/ (k \in DOMAIN s /\ Deliver(s, m)[k] = s[k])
  BY AppendElements DEF Deliver

(***************************************************************************)
(* Whatever carries an identifier carries that call's request or the       *)
(* answer to it.                                                           *)
(***************************************************************************)
LEMMA MatchStep == TypeOK /\ MatchInv /\ [Next]_vars => MatchInv'
<1> SUFFICES ASSUME TypeOK, MatchInv, [Next]_vars PROVE MatchInv'
  OBVIOUS
<1> USE DEF MatchInv
<1>1. ASSUME NEW th \in Threads, NEW r \in Requests, CallMethod(th, r)
      PROVE  MatchInv'
  <2>1. /\ DOMAIN called' = DOMAIN called \cup {id'}
        /\ \A i \in DOMAIN called : called'[i] = called[i]
        /\ called'[id'] = r
    <3>1. called' = Append(called, r) /\ id' = Len(called) + 1
      BY <1>1 DEF CallMethod, incrementAndGet, TypeOK
    <3>2. called \in Seq(Requests)
      BY DEF TypeOK
    <3> QED
      BY <3>1, <3>2
  <2>2. ASSUME NEW m PROVE (Asks(m) => m.id \in DOMAIN called' /\ m.req = called'[m.id])
                        /\ (Answers(m) => m.id \in DOMAIN called' /\ m.reply = ReplyTo(called'[m.id]))
    BY <2>1 DEF Asks, Answers
  <2>3. \A t \in Threads : call'[t].pc # "idle" =>
            call'[t].id \in DOMAIN called' /\ call'[t].req = called'[call'[t].id]
    BY <1>1, <2>1, <2>2 DEF CallMethod, TypeOK
  <2> QED
    BY <1>1, <2>1, <2>2, <2>3 DEF CallMethod, Asks, Answers, ReplyTo, ErrorOf
<1>2. ASSUME NEW th \in Threads, lockForInsert(th)
      PROVE  MatchInv'
  <2>1. \A t \in Threads :
          /\ call'[t].id = call[t].id /\ call'[t].req = call[t].req
          /\ call'[t].pc # "idle" => call[t].pc # "idle"
    BY <1>2 DEF lockForInsert, TypeOK, CallState
  <2> QED
    BY <1>2, <2>1 DEF lockForInsert, Asks, Answers
<1>3. ASSUME NEW th \in Threads, insert(th)
      PROVE  MatchInv'
  <2>1. \A t \in Threads :
          /\ call'[t].id = call[t].id /\ call'[t].req = call[t].req
          /\ call'[t].pc # "idle" => call[t].pc # "idle"
    BY <1>3 DEF insert, TypeOK, CallState
  <2>2. \A i \in DOMAIN outstandings' :
          i \in DOMAIN called /\ outstandings'[i] = called[i]
    BY <1>3 DEF insert, With, Asks
  <2> QED
    BY <1>3, <2>1, <2>2 DEF insert, Asks, Answers
<1>4. ASSUME NEW th \in Threads, send(th)
      PROVE  MatchInv'
  <2> DEFINE m == [id |-> call[th].id, req |-> call[th].req]
  <2>1. /\ Asks(m)
        /\ m \in RequestMsg
    BY <1>4 DEF send, Asks, TypeOK, CallState, RequestMsg
  <2>2. /\ backlog' = backlog \/ backlog' = Append(backlog, m)
        /\ requests' = requests \/ requests' = Deliver(requests, m)
    BY <1>4 DEF send
  <2>3. /\ \A k \in DOMAIN backlog' : Asks(backlog'[k])
        /\ \A k \in DOMAIN requests' : Asks(requests'[k])
    <3> HIDE DEF m
    <3>1. backlog \in Seq(RequestMsg) /\ requests \in Seq(RequestMsg)
      BY DEF TypeOK
    <3>2. \A k \in DOMAIN backlog' : Asks(backlog'[k])
      BY <2>1, <2>2, <3>1, AppendElements
    <3>3. \A k \in DOMAIN requests' : Asks(requests'[k])
      BY <2>1, <2>2, <3>1, DeliverElements
    <3> QED
      BY <3>2, <3>3
  <2> QED
    BY <1>4, <2>3 DEF send, Idle, Asks, Answers, TypeOK
<1>5. CASE flushBacklog
  <2>1. /\ Asks(Head(backlog)) /\ Head(backlog) \in RequestMsg
        /\ \A k \in DOMAIN Tail(backlog) : Asks(Tail(backlog)[k])
    BY <1>5, FirstAndRest DEF flushBacklog, TypeOK
  <2>2. \A k \in DOMAIN requests' : Asks(requests'[k])
    <3>1. requests' = Deliver(requests, Head(backlog))
      BY <1>5 DEF flushBacklog
    <3>2. requests \in Seq(RequestMsg)
      BY DEF TypeOK
    <3> QED
      BY <2>1, <3>1, <3>2, DeliverElements
  <2> QED
    BY <1>5, <2>1, <2>2 DEF flushBacklog, Asks, Answers
<1>6. CASE onResponse
  <2>1. /\ Answers(Head(responses))
        /\ \A k \in DOMAIN Tail(responses) : Answers(Tail(responses)[k])
    BY <1>6, FirstAndRest DEF onResponse, TypeOK
  <2> QED
    BY <1>6, <2>1 DEF onResponse, Asks, Answers
<1>7. CASE lockForFind
  BY <1>7 DEF lockForFind, Asks, Answers, TypeOK, RecvState
<1>8. CASE find
  <2>1. \A i \in DOMAIN outstandings' :
          i \in DOMAIN outstandings /\ outstandings'[i] = outstandings[i]
    BY <1>8 DEF find, Without
  <2>2. /\ recv'.pc # "idle" =>
              Answers(recv) /\ recv'.id = recv.id /\ recv'.reply = recv.reply
        /\ recv'.pc \in {"found", "inDone"} => recv'.out = called[recv'.id]
    <3>1. CASE recv.id \in DOMAIN outstandings
      <4>1. /\ recv'.pc = "found" /\ recv'.id = recv.id
            /\ recv'.reply = recv.reply /\ recv'.out = outstandings[recv.id]
        BY <1>8, <3>1 DEF find, TypeOK, RecvState
      <4> QED
        BY <1>8, <3>1, <4>1 DEF find
    <3>2. CASE recv.id \notin DOMAIN outstandings
      BY <1>8, <3>2 DEF find, NoMessage
    <3> QED
      BY <3>1, <3>2
  <2> QED
    BY <1>8, <2>1, <2>2 DEF find, Asks, Answers
<1>9. CASE runDone
  BY <1>9 DEF runDone, Asks, Answers, TypeOK, RecvState
<1>10. CASE doneReturns
  BY <1>10 DEF doneReturns, NoMessage, Asks, Answers
<1>11. CASE destroy
  BY <1>11 DEF destroy, Empty, Asks, Answers
<1>12. CASE onRequest
  <2>1. /\ Asks(Head(requests))
        /\ \A k \in DOMAIN Tail(requests) : Asks(Tail(requests)[k])
    BY <1>12, FirstAndRest DEF onRequest, TypeOK
  <2>2. CASE ErrorOf(Head(requests).req) = "NO_ERROR"
    <3>1. /\ executing' = executing \cup {Head(requests)}
          /\ requests' = Tail(requests)
          /\ UNCHANGED <<clientVars, replies, responses, called>>
      BY <1>12, <2>2 DEF onRequest
    <3> QED
      BY <2>1, <2>2, <3>1 DEF Asks, Answers
  <2>3. CASE ErrorOf(Head(requests).req) # "NO_ERROR"
    <3> DEFINE m == [id |-> Head(requests).id,
                     reply |-> ErrorOf(Head(requests).req)]
    <3>1. Answers(m)
      BY <2>1, <2>3 DEF Asks, Answers, ReplyTo
    <3>2. responses' = Deliver(responses, m)
      BY <1>12, <2>3 DEF onRequest, refuse
    <3>3. m \in ResponseMsg
      <4>1. Head(requests) \in RequestMsg
        BY <1>12, FirstAndRest DEF onRequest, TypeOK
      <4> QED
        BY <2>3, <4>1 DEF RequestMsg, ResponseMsg, ErrorOf, Errors
    <3>4. \A k \in DOMAIN responses' : Answers(responses'[k])
      <4>1. responses \in Seq(ResponseMsg)
        BY DEF TypeOK
      <4> HIDE DEF m
      <4> QED
        BY <3>1, <3>2, <3>3, <4>1, DeliverElements
    <3>5. UNCHANGED <<clientVars, replies, executing, called>>
          /\ requests' = Tail(requests)
      BY <1>12, <2>3 DEF onRequest
    <3> QED
      BY <2>1, <3>4, <3>5 DEF Asks, Answers
  <2> QED
    BY <2>2, <2>3
<1>13. ASSUME NEW m \in executing, NEW onIoThread \in BOOLEAN,
              doneCallback(m, onIoThread)
       PROVE  MatchInv'
  <2> DEFINE reply == [id |-> m.id, reply |-> m.req]
  <2>1. Answers(reply) /\ reply \in ResponseMsg
    BY DEF Asks, Answers, ReplyTo, TypeOK, RequestMsg, ResponseMsg
  <2>2. /\ responses' = responses \/ responses' = Deliver(responses, reply)
        /\ replies' = replies \/ replies' = Append(replies, reply)
    BY <1>13 DEF doneCallback
  <2>3. /\ \A k \in DOMAIN responses' : Answers(responses'[k])
        /\ \A k \in DOMAIN replies' : Answers(replies'[k])
    <3> HIDE DEF reply
    <3>1. responses \in Seq(ResponseMsg) /\ replies \in Seq(ResponseMsg)
      BY DEF TypeOK
    <3>2. \A k \in DOMAIN responses' : Answers(responses'[k])
      BY <2>1, <2>2, <3>1, DeliverElements
    <3>3. \A k \in DOMAIN replies' : Answers(replies'[k])
      BY <2>1, <2>2, <3>1, AppendElements
    <3> QED
      BY <3>2, <3>3
  <2> QED
    BY <1>13, <2>3 DEF doneCallback, Asks, Answers
<1>14. CASE flushReply
  <2>1. /\ Answers(Head(replies)) /\ Head(replies) \in ResponseMsg
        /\ \A k \in DOMAIN Tail(replies) : Answers(Tail(replies)[k])
    BY <1>14, FirstAndRest DEF flushReply, TypeOK
  <2>2. \A k \in DOMAIN responses' : Answers(responses'[k])
    <3>1. responses' = Deliver(responses, Head(replies))
      BY <1>14 DEF flushReply
    <3>2. responses \in Seq(ResponseMsg)
      BY DEF TypeOK
    <3> QED
      BY <2>1, <3>1, <3>2, DeliverElements
  <2> QED
    BY <1>14, <2>1, <2>2 DEF flushReply, Asks, Answers
<1>15. CASE connectionLost
  BY <1>15 DEF connectionLost, Asks, Answers
<1>16. CASE UNCHANGED vars
  BY <1>16 DEF Asks, Answers
<1> QED
  BY <1>1, <1>2, <1>3, <1>4, <1>5, <1>6, <1>7, <1>8, <1>9, <1>10, <1>11,
     <1>12, <1>13, <1>14, <1>15, <1>16
     DEF Next, CallStep, LoopStep, ServerStep

(***************************************************************************)
(* A call's done closure is owned once.                                    *)
(***************************************************************************)
LEMMA OnceStep == TypeOK /\ MatchInv /\ OnceInv /\ [Next]_vars => OnceInv'
<1> SUFFICES ASSUME TypeOK, MatchInv, OnceInv, [Next]_vars PROVE OnceInv'
  OBVIOUS
<1> USE DEF OnceInv, DoneAtMostOnce
\* The steps that leave the closures, the calls and the receiver alone.
<1>1. ASSUME UNCHANGED <<call, recv, outstandings, destroyed, called, returned,
                         deleted>>
      PROVE  OnceInv'
  BY <1>1 DEF Taken, ReturnedIds, Elements
<1>2. ASSUME NEW th \in Threads, NEW r \in Requests, CallMethod(th, r)
      PROVE  OnceInv'
  <2>1. /\ called' = Append(called, r) /\ id' = Len(called) + 1
        /\ called \in Seq(Requests)
    BY <1>2 DEF CallMethod, incrementAndGet, TypeOK
  <2>2. DOMAIN called' = DOMAIN called \cup {id'} /\ id' \notin DOMAIN called
    BY <2>1
  <2>3. \A t \in Threads : call[t].pc # "idle" => call[t].id # id'
    BY <2>2 DEF MatchInv, Asks
  <2>4. id' \notin DOMAIN outstandings \cup Taken \cup ReturnedIds
    BY <2>2 DEF MatchInv
  <2>5. call'[th].id = id' /\ \A t \in Threads \ {th} : call'[t] = call[t]
    BY <1>2 DEF CallMethod, TypeOK
  <2>6. UNCHANGED <<Taken, ReturnedIds, outstandings, recv, destroyed, deleted, returned>>
    BY <1>2 DEF CallMethod, Taken, ReturnedIds, Elements
  <2>7. ~destroyed
    BY <1>2 DEF CallMethod
  <2> QED
    BY <2>2, <2>3, <2>4, <2>5, <2>6, <2>7
<1>3. ASSUME NEW th \in Threads, lockForInsert(th)
      PROVE  OnceInv'
  <2>1. \A t \in Threads :
          /\ call'[t].id = call[t].id
          /\ call'[t].pc \in {"numbered", "locked"} =>
                call[t].pc \in {"numbered", "locked"}
          /\ call[t].pc = "idle" => call'[t].pc = "idle"
    BY <1>3 DEF lockForInsert, TypeOK, CallState
  <2> QED
    BY <1>3, <2>1 DEF lockForInsert, Taken, ReturnedIds, Elements
<1>4. ASSUME NEW th \in Threads, insert(th)
      PROVE  OnceInv'
  <2>1. /\ call'[th].pc = "registered"
        /\ \A t \in Threads \ {th} : call'[t] = call[t]
    BY <1>4 DEF insert, TypeOK, CallState
  <2>2. DOMAIN outstandings' = DOMAIN outstandings \cup {call[th].id}
    BY <1>4 DEF insert, With
  <2>3. call[th].id \notin Taken \cup ReturnedIds /\ ~destroyed
    BY <1>4 DEF insert
  <2>4. UNCHANGED <<Taken, ReturnedIds, recv, destroyed, deleted, called, returned>>
    BY <1>4 DEF insert, Taken, ReturnedIds, Elements
  <2>5. \A t \in Threads \ {th} : call[t].pc \in {"numbered", "locked"} =>
           call[t].id # call[th].id
    BY <1>4 DEF insert
  <2> QED
    BY <2>1, <2>2, <2>3, <2>4, <2>5
<1>5. ASSUME NEW th \in Threads, send(th)
      PROVE  OnceInv'
  <2>1. /\ call'[th].pc = "idle"
        /\ \A t \in Threads \ {th} : call'[t] = call[t]
    BY <1>5 DEF send, Idle, TypeOK
  <2> QED
    BY <1>5, <2>1 DEF send, Taken, ReturnedIds, Elements
<1>6. CASE onResponse \/ lockForFind \/ doneReturns
  <2>1. Taken' = {} /\ Taken = {} /\ ~destroyed
    <3>1. CASE onResponse
      BY <3>1 DEF onResponse, LoopIdle, Taken
    <3>2. CASE lockForFind
      BY <3>2 DEF lockForFind, Taken, TypeOK, RecvState
    <3>3. CASE doneReturns
      BY <3>3 DEF doneReturns, Taken, NoMessage
    <3> QED
      BY <1>6, <3>1, <3>2, <3>3
  <2>2. UNCHANGED <<call, outstandings, destroyed, called, returned, deleted>>
    BY <1>6 DEF onResponse, lockForFind, doneReturns
  <2> QED
    BY <2>1, <2>2 DEF ReturnedIds, Elements
<1>7. CASE find
  <2>1. UNCHANGED <<call, destroyed, called, returned, deleted, ReturnedIds>>
    BY <1>7 DEF find, ReturnedIds, Elements
  <2>2. Taken = {} /\ ~destroyed
    BY <1>7 DEF find, Taken
  <2>3. CASE recv.id \in DOMAIN outstandings
    <3>1. recv'.pc = "found" /\ recv'.id = recv.id
      <4>1. recv' = [recv EXCEPT !.pc = "found", !.out = outstandings[recv.id]]
        BY <1>7, <2>3 DEF find
      <4>2. recv \in RecvState
        BY DEF TypeOK
      <4> QED
        BY <4>1, <4>2 DEF RecvState
    <3>2. Taken' = {recv.id}
      BY <3>1 DEF Taken
    <3>3. DOMAIN outstandings' = DOMAIN outstandings \ {recv.id}
      BY <1>7, <2>3 DEF find, Without
    <3>4. recv.id \in DOMAIN called
      BY <1>7 DEF find, MatchInv, Answers
    <3> QED
      BY <2>1, <2>2, <2>3, <3>2, <3>3, <3>4
  <2>4. CASE recv.id \notin DOMAIN outstandings
    <3>1. Taken' = {} /\ UNCHANGED outstandings
      BY <1>7, <2>4 DEF find, Taken, NoMessage
    <3> QED
      BY <2>1, <2>2, <3>1
  <2> QED
    BY <2>3, <2>4
<1>8. CASE runDone
  <2> DEFINE a == [id |-> recv.id, asked |-> recv.out, value |-> Parsed(recv.reply)]
  <2>1. /\ returned' = Append(returned, a)
        /\ UNCHANGED <<call, outstandings, destroyed, called, deleted>>
        /\ a.id = recv.id
    BY <1>8 DEF runDone
  <2>2. Taken = {recv.id} /\ Taken' = {} /\ ~destroyed
    BY <1>8 DEF runDone, Taken, TypeOK, RecvState
  <2>3. returned \in Seq(Completion)
    BY DEF TypeOK
  <2>4. /\ DOMAIN returned' = DOMAIN returned \cup {Len(returned) + 1}
        /\ Len(returned) + 1 \notin DOMAIN returned
        /\ returned'[Len(returned) + 1] = a
        /\ \A k \in DOMAIN returned : returned'[k] = returned[k]
    <3> HIDE DEF a
    <3> QED
      BY <2>1, <2>3
  <2>5. ReturnedIds = {returned[k].id : k \in DOMAIN returned}
    BY DEF ReturnedIds, Elements
  <2>6. ReturnedIds' = ReturnedIds \cup {recv.id}
    <3> HIDE DEF a
    <3> QED
      BY <2>1, <2>4 DEF ReturnedIds, Elements
  <2>7. \A j, k \in DOMAIN returned' : returned'[j].id = returned'[k].id => j = k
    <3> HIDE DEF a
    <3>1. \A k \in DOMAIN returned : returned[k].id # recv.id
      BY <2>2, <2>5
    <3> QED
      BY <2>1, <2>4, <3>1
  <2> HIDE DEF a
  <2> QED
    BY <2>1, <2>2, <2>6, <2>7
<1>9. CASE destroy
  <2>1. UNCHANGED <<call, recv, called, returned, Taken, ReturnedIds>>
    BY <1>9 DEF destroy, Taken, ReturnedIds, Elements
  <2>2. /\ destroyed' /\ deleted' = DOMAIN outstandings
        /\ outstandings' = Empty /\ DOMAIN outstandings' = {}
        /\ Taken = {} /\ recv.pc = "idle"
    BY <1>9 DEF destroy, Empty, Taken
  <2>3. \A t \in Threads : call[t].pc = "idle"
    BY <1>9 DEF destroy, Idle
  <2> QED
    BY <2>1, <2>2, <2>3
<1> QED
  BY <1>1, <1>2, <1>3, <1>4, <1>5, <1>6, <1>7, <1>8, <1>9
     DEF Next, CallStep, LoopStep, ServerStep, flushBacklog, onRequest,
         doneCallback, flushReply, connectionLost

THEOREM DoneOnce == Spec => []DoneAtMostOnce
<1>1. Init => MatchInv
  BY DEF Init, MatchInv, Idle, NoMessage, Empty
<1>2. Init => OnceInv
  BY DEF Init, OnceInv, DoneAtMostOnce, Idle, NoMessage, Empty, Taken,
         ReturnedIds, Elements
<1>3. OnceInv => DoneAtMostOnce
  BY DEF OnceInv
<1> QED
  BY <1>1, <1>2, <1>3, TypeCorrect, MatchStep, OnceStep, PTL DEF Spec

(***************************************************************************)
(* done sees the answer to its own request.                                *)
(***************************************************************************)
THEOREM AnswersMatch == Spec => []AnswerMatches
<1>1. Init => MatchInv /\ AnswerMatches
  BY DEF Init, MatchInv, Idle, NoMessage, Empty, AnswerMatches, Elements
<1>2. TypeOK /\ MatchInv /\ AnswerMatches /\ [Next]_vars => AnswerMatches'
  <2> SUFFICES ASSUME TypeOK, MatchInv, AnswerMatches, [Next]_vars
               PROVE  AnswerMatches'
    OBVIOUS
  <2>1. CASE UNCHANGED returned
    BY <2>1 DEF AnswerMatches, Elements, ErrorOf
  <2>2. CASE runDone
    <3> DEFINE a == [id |-> recv.id, asked |-> recv.out, value |-> Parsed(recv.reply)]
    <3>1. a.asked \in Requests
      BY <2>2 DEF runDone, MatchInv, Answers, TypeOK
    <3>2. a.value = IF ErrorOf(a.asked) = "NO_ERROR" THEN a.asked ELSE NoReply
      BY <2>2, <3>1, RpcAssumption
         DEF runDone, MatchInv, Answers, ReplyTo, Parsed, ErrorOf, Errors
    <3>3. a \in Completion /\ returned \in Seq(Completion)
      BY DEF TypeOK, RecvState, Completion, Parsed, Payload
    <3>4. returned' = Append(returned, a)
      BY <2>2 DEF runDone
    <3>5. \A k \in DOMAIN returned' :
             returned'[k] = a \/ (k \in DOMAIN returned /\ returned'[k] = returned[k])
      <4> HIDE DEF a
      <4> QED
        BY <3>3, <3>4, AppendElements
    <3> HIDE DEF a
    <3> QED
      BY <3>2, <3>5 DEF AnswerMatches, Elements, ErrorOf
  <2> QED
    BY <2>1, <2>2
       DEF Next, CallStep, LoopStep, ServerStep, CallMethod, lockForInsert,
           insert, send, flushBacklog, onResponse, lockForFind, find,
           doneReturns, destroy, onRequest, doneCallback, flushReply,
           connectionLost
<1> QED
  BY <1>1, <1>2, TypeCorrect, MatchStep, PTL DEF Spec

(***************************************************************************)
(* A request is in one place at a time - with the thread that calls, in    *)
(* the loop's queue, in the stream to the server - and in none of them     *)
(* once its service was invoked; an answer other than a refusal is that of *)
(* a service invoked.                                                      *)
(***************************************************************************)
IdsIn(s) == {m.id : m \in Elements(s)}
Distinct(s) == \A j, k \in DOMAIN s : s[j].id = s[k].id => j = k
Calling == {call[th].id : th \in {t \in Threads : call[t].pc # "idle"}}

TravelInv ==
    /\ \A t, u \in Threads :
          call[t].pc # "idle" /\ call[u].pc # "idle" /\ call[t].id = call[u].id
             => t = u
    /\ Distinct(backlog) /\ Distinct(requests)
    /\ Calling \cap (IdsIn(backlog) \cup IdsIn(requests) \cup Elements(served)) = {}
    /\ IdsIn(backlog) \cap (IdsIn(requests) \cup Elements(served)) = {}
    /\ IdsIn(requests) \cap Elements(served) = {}
    /\ Elements(served) \subseteq DOMAIN called

\* No answer but a refusal precedes its service.
Earned(m) == m.reply \in Requests => m.id \in Elements(served)

EarnedInv ==
    /\ \A m \in executing : m.id \in Elements(served)
    /\ \A m \in Elements(replies) : Earned(m)
    /\ \A m \in Elements(responses) : Earned(m)
    /\ recv.pc # "idle" => Earned(recv)

\* The elements of the streams the steps make.
LEMMA ElementsAppend ==
    ASSUME NEW S, NEW s \in Seq(S), NEW m \in S
    PROVE  Elements(Append(s, m)) = Elements(s) \cup {m}
<1>1. /\ DOMAIN Append(s, m) = DOMAIN s \cup {Len(s) + 1}
      /\ Append(s, m)[Len(s) + 1] = m
      /\ \A k \in DOMAIN s : Append(s, m)[k] = s[k]
  BY AppendProperties
<1> QED
  BY <1>1 DEF Elements

LEMMA ElementsTail ==
    ASSUME NEW S, NEW s \in Seq(S), s # << >>
    PROVE  /\ Head(s) \in Elements(s) /\ Elements(Tail(s)) \subseteq Elements(s)
           /\ Distinct(s) => Distinct(Tail(s)) /\ Head(s).id \notin IdsIn(Tail(s))
<1>1. /\ 1 \in DOMAIN s /\ Head(s) = s[1]
      /\ \A k \in DOMAIN Tail(s) :
            k \in Nat /\ k > 0 /\ k + 1 \in DOMAIN s /\ Tail(s)[k] = s[k + 1]
  OBVIOUS
<1>2. Head(s) \in Elements(s) /\ Elements(Tail(s)) \subseteq Elements(s)
  BY <1>1 DEF Elements
<1>3. ASSUME Distinct(s)
      PROVE  Distinct(Tail(s)) /\ Head(s).id \notin IdsIn(Tail(s))
  <2>1. Distinct(Tail(s))
    BY <1>1, <1>3 DEF Distinct
  <2>2. \A k \in DOMAIN Tail(s) : Tail(s)[k].id # Head(s).id
    BY <1>1, <1>3 DEF Distinct
  <2> QED
    BY <2>1, <2>2 DEF IdsIn, Elements
<1> QED
  BY <1>2, <1>3

LEMMA SentOnce ==
    ASSUME NEW s \in Seq(RequestMsg), NEW m \in RequestMsg, Distinct(s),
           m.id \notin IdsIn(s)
    PROVE  /\ Distinct(Append(s, m)) /\ IdsIn(Append(s, m)) = IdsIn(s) \cup {m.id}
           /\ Distinct(Deliver(s, m))
           /\ IdsIn(Deliver(s, m)) \subseteq IdsIn(s) \cup {m.id}
<1>1. /\ DOMAIN Append(s, m) = DOMAIN s \cup {Len(s) + 1}
      /\ Append(s, m)[Len(s) + 1] = m
      /\ \A k \in DOMAIN s : Append(s, m)[k] = s[k]
  BY AppendProperties
<1>2. \A k \in DOMAIN s : s[k].id # m.id
  BY DEF IdsIn, Elements
<1>3. Distinct(Append(s, m))
  BY <1>1, <1>2 DEF Distinct
<1>4. IdsIn(Append(s, m)) = IdsIn(s) \cup {m.id}
  BY ElementsAppend DEF IdsIn
<1> QED
  BY <1>3, <1>4 DEF Deliver

LEMMA TravelStep == TypeOK /\ MatchInv /\ TravelInv /\ [Next]_vars => TravelInv'
<1> SUFFICES ASSUME TypeOK, MatchInv, TravelInv, [Next]_vars PROVE TravelInv'
  OBVIOUS
<1> USE DEF TravelInv
<1>0. /\ backlog \in Seq(RequestMsg) /\ requests \in Seq(RequestMsg)
      /\ served \in Seq(Ids)
  BY DEF TypeOK
\* The steps that leave the path of the requests alone.
<1>1. ASSUME UNCHANGED <<call, backlog, requests, served, called>>
      PROVE  TravelInv'
  <2>1. UNCHANGED <<Calling, IdsIn(backlog), IdsIn(requests), Elements(served),
                    Distinct(backlog), Distinct(requests)>>
    BY <1>1 DEF Calling, IdsIn, Elements, Distinct
  <2> QED
    BY <1>1, <2>1
\* The steps on the way to send.
<1>2. ASSUME NEW th \in Threads, lockForInsert(th) \/ insert(th)
      PROVE  TravelInv'
  <2>1. \A t \in Threads :
          call'[t].id = call[t].id /\ (call'[t].pc = "idle" <=> call[t].pc = "idle")
    <3>1. call[th].pc # "idle" /\ call[th] \in CallState
      BY <1>2 DEF lockForInsert, insert, TypeOK
    <3>2. PICK pc \in {"locked", "registered"} :
             call' = [call EXCEPT ![th].pc = pc]
      BY <1>2 DEF lockForInsert, insert
    <3> QED
      BY <3>1, <3>2 DEF TypeOK, CallState
  <2>2. Calling' = Calling
    BY <2>1 DEF Calling
  <2>3. UNCHANGED <<backlog, requests, served, called>>
    BY <1>2 DEF lockForInsert, insert
  <2>4. UNCHANGED <<IdsIn(backlog), IdsIn(requests), Elements(served),
                    Distinct(backlog), Distinct(requests)>>
    BY <2>3 DEF IdsIn, Elements, Distinct
  <2> QED
    BY <2>1, <2>2, <2>3, <2>4
\* The identifier is new: everything in flight is a call's.
<1>3. ASSUME NEW th \in Threads, NEW r \in Requests, CallMethod(th, r)
      PROVE  TravelInv'
  <2>1. id' \notin DOMAIN called /\ DOMAIN called \subseteq DOMAIN called'
    BY <1>3 DEF CallMethod, incrementAndGet, TypeOK
  <2>2. /\ call'[th].id = id' /\ \A t \in Threads \ {th} : call'[t] = call[t]
    BY <1>3 DEF CallMethod, TypeOK
  <2>3. UNCHANGED <<backlog, requests, served>>
    BY <1>3 DEF CallMethod
  <2>4. \A t \in Threads : call[t].pc # "idle" => call[t].id # id'
    BY <2>1 DEF MatchInv, Asks
  <2>5. id' \notin IdsIn(backlog) \cup IdsIn(requests) \cup Elements(served)
    BY <1>3, <2>1 DEF MatchInv, Asks, IdsIn, Elements
  <2>6. Calling' \subseteq Calling \cup {id'}
    BY <2>2 DEF Calling
  <2>7. UNCHANGED <<IdsIn(backlog), IdsIn(requests), Elements(served),
                    Distinct(backlog), Distinct(requests)>>
    BY <2>3 DEF IdsIn, Elements, Distinct
  <2> QED
    BY <2>1, <2>2, <2>4, <2>5, <2>6, <2>7
<1>4. ASSUME NEW th \in Threads, send(th)
      PROVE  TravelInv'
  <2> DEFINE m == [id |-> call[th].id, req |-> call[th].req]
  <2>1. m \in RequestMsg /\ m.id = call[th].id
    BY DEF TypeOK, CallState, RequestMsg
  <2>2. /\ call'[th].pc = "idle"
        /\ \A t \in Threads \ {th} : call'[t] = call[t]
        /\ call[th].pc # "idle"
    BY <1>4 DEF send, Idle, TypeOK
  <2>3. \/ backlog' = Append(backlog, m) /\ UNCHANGED requests
        \/ requests' = Deliver(requests, m) /\ UNCHANGED backlog
    BY <1>4 DEF send
  <2>4. m.id \in Calling /\ Calling' \subseteq Calling \ {m.id}
    BY <2>2 DEF Calling
  <2>5. UNCHANGED served
    BY <1>4 DEF send
  <2>9. UNCHANGED called
    BY <1>4 DEF send
  <2> HIDE DEF m
  <2>6. m.id \notin IdsIn(backlog) \cup IdsIn(requests) \cup Elements(served)
    BY <2>4
  <2>7. CASE backlog' = Append(backlog, m) /\ UNCHANGED requests
    <3>1. Distinct(backlog') /\ IdsIn(backlog') = IdsIn(backlog) \cup {m.id}
      BY <1>0, <2>1, <2>6, <2>7, SentOnce
    <3>2. UNCHANGED <<IdsIn(requests), Elements(served), Distinct(requests)>>
      BY <2>5, <2>7 DEF IdsIn, Elements, Distinct
    <3> QED
      BY <2>2, <2>4, <2>6, <2>9, <3>1, <3>2
  <2>8. CASE requests' = Deliver(requests, m) /\ UNCHANGED backlog
    <3>1. Distinct(requests') /\ IdsIn(requests') \subseteq IdsIn(requests) \cup {m.id}
      BY <1>0, <2>1, <2>6, <2>8, SentOnce
    <3>2. UNCHANGED <<IdsIn(backlog), Elements(served), Distinct(backlog)>>
      BY <2>5, <2>8 DEF IdsIn, Elements, Distinct
    <3> QED
      BY <2>2, <2>4, <2>6, <2>9, <3>1, <3>2
  <2> QED
    BY <2>3, <2>7, <2>8
<1>5. CASE flushBacklog
  <2> DEFINE m == Head(backlog)
  <2>1. /\ backlog # << >> /\ backlog' = Tail(backlog)
        /\ requests' = Deliver(requests, m) /\ UNCHANGED <<call, served, called>>
    BY <1>5 DEF flushBacklog
  <2>2. m \in RequestMsg /\ m.id \in IdsIn(backlog)
    BY <1>0, <2>1, FirstAndRest, ElementsTail DEF IdsIn
  <2>3. /\ Distinct(backlog') /\ m.id \notin IdsIn(backlog')
        /\ IdsIn(backlog') \subseteq IdsIn(backlog)
    BY <1>0, <2>1, ElementsTail DEF IdsIn
  <2> HIDE DEF m
  <2>4. m.id \notin IdsIn(requests)
    BY <2>2
  <2>5. Distinct(requests') /\ IdsIn(requests') \subseteq IdsIn(requests) \cup {m.id}
    BY <1>0, <2>1, <2>2, <2>4, SentOnce
  <2>6. UNCHANGED <<Calling, Elements(served)>>
    BY <2>1 DEF Calling, Elements
  <2> QED
    BY <2>1, <2>2, <2>3, <2>5, <2>6
<1>6. CASE onRequest
  <2> DEFINE m == Head(requests)
  <2>1. /\ requests # << >> /\ requests' = Tail(requests)
        /\ served' = Append(served, m.id) \/ UNCHANGED served
        /\ UNCHANGED <<call, backlog, called>>
    BY <1>6 DEF onRequest
  <2>2. /\ m \in RequestMsg /\ m.id \in IdsIn(requests)
        /\ m.id \in DOMAIN called
    BY <1>0, <2>1, FirstAndRest, ElementsTail DEF IdsIn, MatchInv, Asks
  <2>3. /\ Distinct(requests') /\ m.id \notin IdsIn(requests')
        /\ IdsIn(requests') \subseteq IdsIn(requests)
    BY <1>0, <2>1, ElementsTail DEF IdsIn
  <2> HIDE DEF m
  <2>4. Elements(served') \subseteq Elements(served) \cup {m.id}
    <3>1. m.id \in Ids
      BY <2>2 DEF RequestMsg
    <3>2. Elements(Append(served, m.id)) = Elements(served) \cup {m.id}
      BY <1>0, <3>1, ElementsAppend
    <3> QED
      BY <2>1, <3>2
  <2>5. UNCHANGED <<Calling, IdsIn(backlog), Distinct(backlog)>>
    BY <2>1 DEF Calling, IdsIn, Elements, Distinct
  <2>6. Elements(served)' = Elements(served')
    BY DEF Elements
  <2> QED
    BY <2>1, <2>2, <2>3, <2>4, <2>5, <2>6
<1>7. CASE connectionLost
  <2>1. requests' = << >> /\ UNCHANGED <<call, backlog, served, called>>
    BY <1>7 DEF connectionLost
  <2>2. IdsIn(requests)' = {} /\ Distinct(requests)'
    BY <2>1 DEF IdsIn, Elements, Distinct
  <2>3. UNCHANGED <<Calling, IdsIn(backlog), Elements(served), Distinct(backlog)>>
    BY <2>1 DEF Calling, IdsIn, Elements, Distinct
  <2> QED
    BY <2>1, <2>2, <2>3
<1> QED
  BY <1>1, <1>2, <1>3, <1>4, <1>5, <1>6, <1>7
     DEF Next, CallStep, LoopStep, ServerStep, onResponse, lockForFind, find,
         runDone, doneReturns, destroy, doneCallback, flushReply

LEMMA EarnedStep == TypeOK /\ MatchInv /\ EarnedInv /\ [Next]_vars => EarnedInv'
<1> SUFFICES ASSUME TypeOK, MatchInv, EarnedInv, [Next]_vars PROVE EarnedInv'
  OBVIOUS
<1> USE DEF EarnedInv
<1>0. /\ responses \in Seq(ResponseMsg) /\ replies \in Seq(ResponseMsg)
      /\ requests \in Seq(RequestMsg) /\ served \in Seq(Ids)
  BY DEF TypeOK
<1>1. ASSUME UNCHANGED <<recv, executing, replies, responses, served>>
      PROVE  EarnedInv'
  BY <1>1 DEF Earned, Elements
\* A message enters the stream to the client.
<1>2. ASSUME NEW m \in ResponseMsg, responses' = Deliver(responses, m),
             Earned(m), UNCHANGED served
      PROVE  \A x \in Elements(responses') : Earned(x)'
  <2>1. Elements(responses') \subseteq Elements(responses) \cup {m}
    <3>1. Elements(Append(responses, m)) = Elements(responses) \cup {m}
      BY <1>0, ElementsAppend
    <3> QED
      BY <1>2, <3>1 DEF Deliver
  <2>2. \A x \in Elements(responses) \cup {m} : Earned(x)'
    BY <1>2 DEF Earned, Elements
  <2> QED
    BY <2>1, <2>2
<1>3. CASE onResponse
  <2>1. /\ Head(responses) \in Elements(responses)
        /\ Elements(Tail(responses)) \subseteq Elements(responses)
    BY <1>0, <1>3, ElementsTail DEF onResponse
  <2>2. UNCHANGED <<executing, replies, served, Elements(replies), Elements(served)>>
    BY <1>3 DEF onResponse, Elements
  <2>3. responses' = Tail(responses) /\ recv'.id = Head(responses).id
        /\ recv'.reply = Head(responses).reply
    BY <1>3 DEF onResponse
  <2>4. Elements(responses)' \subseteq Elements(responses)
    BY <2>1, <2>3 DEF Elements
  <2> QED
    BY <2>1, <2>2, <2>3, <2>4 DEF Earned
<1>4. CASE lockForFind \/ find \/ runDone \/ doneReturns
  <2>1. recv'.pc # "idle" =>
            recv.pc # "idle" /\ recv'.id = recv.id /\ recv'.reply = recv.reply
    <3>1. CASE lockForFind
      BY <3>1 DEF lockForFind, TypeOK, RecvState
    <3>2. CASE find
      <4>1. \/ recv' = [recv EXCEPT !.pc = "found", !.out = outstandings[recv.id]]
            \/ recv'.pc = "idle"
        <5>1. CASE recv.id \in DOMAIN outstandings
          BY <3>2, <5>1 DEF find
        <5>2. CASE recv.id \notin DOMAIN outstandings
          BY <3>2, <5>2 DEF find, NoMessage
        <5> QED
          BY <5>1, <5>2
      <4>2. recv.pc # "idle" /\ recv \in RecvState
        BY <3>2 DEF find, TypeOK
      <4> QED
        BY <4>1, <4>2 DEF RecvState
    <3>3. CASE runDone
      BY <3>3 DEF runDone, TypeOK, RecvState
    <3>4. CASE doneReturns
      BY <3>4 DEF doneReturns, NoMessage
    <3> QED
      BY <1>4, <3>1, <3>2, <3>3, <3>4
  <2>2. UNCHANGED <<executing, replies, responses, served>>
    BY <1>4 DEF lockForFind, find, runDone, doneReturns
  <2>3. UNCHANGED <<Elements(replies), Elements(responses), Elements(served)>>
    BY <2>2 DEF Elements
  <2> QED
    BY <2>1, <2>2, <2>3 DEF Earned
<1>5. CASE onRequest
  <2> DEFINE m == Head(requests)
  <2>1. m \in RequestMsg /\ UNCHANGED <<recv, replies>>
    BY <1>0, <1>5, FirstAndRest DEF onRequest
  <2>2. CASE ErrorOf(m.req) = "NO_ERROR"
    <3>1. /\ executing' = executing \cup {m} /\ served' = Append(served, m.id)
          /\ UNCHANGED responses
      BY <1>5, <2>2 DEF onRequest
    <3>2. Elements(served') = Elements(served) \cup {m.id}
      <4>1. m.id \in Ids
        BY <2>1 DEF RequestMsg
      <4> HIDE DEF m
      <4> QED
        BY <1>0, <3>1, <4>1, ElementsAppend
    <3>3. UNCHANGED <<Elements(replies), Elements(responses)>>
          /\ Elements(served)' = Elements(served')
      BY <2>1, <3>1 DEF Elements
    <3> QED
      BY <2>1, <3>1, <3>2, <3>3 DEF Earned
  <2>3. CASE ErrorOf(m.req) # "NO_ERROR"
    <3> DEFINE no == [id |-> m.id, reply |-> ErrorOf(m.req)]
    <3>1. responses' = Deliver(responses, no) /\ UNCHANGED <<executing, served>>
      BY <1>5, <2>3 DEF onRequest, refuse
    <3>2. no \in ResponseMsg /\ Earned(no)
      BY <2>1, <2>3, RpcAssumption
         DEF RequestMsg, ResponseMsg, ErrorOf, Errors, Earned
    <3> HIDE DEF no
    <3>3. \A x \in Elements(responses') : Earned(x)'
      BY <1>2, <3>1, <3>2
    <3>4. UNCHANGED <<Elements(replies), Elements(served)>>
          /\ Elements(responses)' = Elements(responses')
      BY <2>1, <3>1 DEF Elements
    <3> QED
      BY <2>1, <3>1, <3>3, <3>4 DEF Earned
  <2> QED
    BY <2>2, <2>3
<1>6. ASSUME NEW m \in executing, NEW onIoThread \in BOOLEAN,
             doneCallback(m, onIoThread)
      PROVE  EarnedInv'
  <2> DEFINE reply == [id |-> m.id, reply |-> m.req]
  <2>1. reply \in ResponseMsg /\ Earned(reply)
    BY DEF TypeOK, RequestMsg, ResponseMsg, Earned
  <2>2. executing' \subseteq executing /\ UNCHANGED <<recv, served>>
    BY <1>6 DEF doneCallback
  <2>3. \/ responses' = Deliver(responses, reply) /\ UNCHANGED replies
        \/ replies' = Append(replies, reply) /\ UNCHANGED responses
    BY <1>6 DEF doneCallback
  <2> HIDE DEF reply
  <2>4. /\ Elements(responses)' = Elements(responses')
        /\ Elements(replies)' = Elements(replies') /\ UNCHANGED Elements(served)
    BY <2>2 DEF Elements
  <2>5. CASE responses' = Deliver(responses, reply) /\ UNCHANGED replies
    <3>1. \A x \in Elements(responses') : Earned(x)'
      BY <1>2, <2>1, <2>2, <2>5
    <3> QED
      BY <2>2, <2>4, <2>5, <3>1 DEF Earned
  <2>6. CASE replies' = Append(replies, reply) /\ UNCHANGED responses
    <3>1. Elements(replies') = Elements(replies) \cup {reply}
      BY <1>0, <2>1, <2>6, ElementsAppend
    <3> QED
      BY <2>1, <2>2, <2>4, <2>6, <3>1 DEF Earned
  <2> QED
    BY <2>3, <2>5, <2>6
<1>7. CASE flushReply
  <2> DEFINE m == Head(replies)
  <2>1. /\ replies # << >> /\ replies' = Tail(replies)
        /\ responses' = Deliver(responses, m)
        /\ UNCHANGED <<recv, executing, served>>
    BY <1>7 DEF flushReply
  <2>2. /\ m \in ResponseMsg /\ Earned(m)
        /\ Elements(replies') \subseteq Elements(replies)
    BY <1>0, <2>1, FirstAndRest, ElementsTail
  <2> HIDE DEF m
  <2>3. \A x \in Elements(responses') : Earned(x)'
    BY <1>2, <2>1, <2>2
  <2>4. /\ Elements(responses)' = Elements(responses')
        /\ Elements(replies)' = Elements(replies') /\ UNCHANGED Elements(served)
    BY <2>1 DEF Elements
  <2> QED
    BY <2>1, <2>2, <2>3, <2>4 DEF Earned
<1>8. CASE connectionLost
  <2>1. responses' = << >> /\ UNCHANGED <<recv, executing, replies, served>>
    BY <1>8 DEF connectionLost
  <2> QED
    BY <2>1 DEF Earned, Elements
<1> QED
  BY <1>1, <1>3, <1>4, <1>5, <1>6, <1>7, <1>8
     DEF Next, CallStep, LoopStep, ServerStep, CallMethod, lockForInsert,
         insert, send, flushBacklog, destroy

(***************************************************************************)
(* The two channels keep the promise their callers rely on: CallMethod is  *)
(* Call, the invocation of the service Serve, the run of done Answer, and  *)
(* the loss of the connection Lose; every other step is invisible.         *)
(***************************************************************************)
THEOREM ImplementsRpcService == Spec => IsRpcService
<1> DEFINE Inv == TypeOK /\ MatchInv /\ OnceInv /\ TravelInv /\ EarnedInv
           Given == {[id |-> a.id, value |-> a.value] : a \in Elements(returned)}
           Runs == {r \in Requests : ErrorOf(r) = "NO_ERROR"}
<1>1. Init => Promise!Init
  BY DEF Init, Promise!Init, Elements
<1>2. Init => MatchInv /\ OnceInv /\ TravelInv /\ EarnedInv
  <2> SUFFICES ASSUME Init PROVE MatchInv /\ OnceInv /\ TravelInv /\ EarnedInv
    OBVIOUS
  <2>1. MatchInv
    BY DEF Init, MatchInv, Idle, NoMessage, Empty
  <2>2. OnceInv
    BY DEF Init, OnceInv, DoneAtMostOnce, Idle, NoMessage, Empty, Taken,
           ReturnedIds, Elements
  <2>3. TravelInv
    BY DEF Init, TravelInv, Idle, Calling, IdsIn, Elements, Distinct
  <2>4. EarnedInv
    BY DEF Init, EarnedInv, NoMessage, Elements
  <2> QED
    BY <2>1, <2>2, <2>3, <2>4
<1>3. Inv /\ [Next]_vars => [Promise!Next]_(Promise!svVars)
  <2> SUFFICES ASSUME Inv, [Next]_vars
               PROVE  Promise!Next \/ UNCHANGED Promise!svVars
    OBVIOUS
  <2> USE DEF Promise!svVars, Promise!Next
  <2>1. ASSUME UNCHANGED <<called, served, returned, up>>
        PROVE  UNCHANGED Promise!svVars
    BY <2>1 DEF Elements
  <2>2. ASSUME NEW th \in Threads, NEW r \in Requests, CallMethod(th, r)
        PROVE  Promise!Call(r)
    BY <2>2 DEF CallMethod, Promise!Call, Elements
  <2>3. CASE onRequest
    <3> DEFINE m == Head(requests)
    <3>1. /\ requests # << >> /\ UNCHANGED <<called, returned, up>>
      BY <2>3 DEF onRequest
    <3>2. m \in Elements(requests) /\ Asks(m)
      BY <3>1, FirstAndRest, ElementsTail DEF TypeOK, MatchInv
    <3>3. CASE ErrorOf(m.req) = "NO_ERROR"
      <4>1. served' = Append(served, m.id)
        BY <2>3, <3>3 DEF onRequest
      <4>2. PICK i \in DOMAIN called : i = m.id /\ called[i] \in Runs
        BY <3>2, <3>3 DEF Asks, TypeOK
      <4>3. ~Promise!Served(i)
        BY <3>2, <4>2 DEF TravelInv, IdsIn, Elements, Promise!Served
      <4>4. Promise!Serve(i)
        BY <3>1, <4>1, <4>2, <4>3 DEF Promise!Serve, Elements
      <4> QED
        BY <4>4
    <3>4. CASE ErrorOf(m.req) # "NO_ERROR"
      <4>1. UNCHANGED served
        BY <2>3, <3>4 DEF onRequest
      <4> QED
        BY <2>1, <3>1, <4>1
    <3> QED
      BY <3>3, <3>4
  <2>4. CASE runDone
    <3> DEFINE a == [id |-> recv.id, asked |-> recv.out, value |-> Parsed(recv.reply)]
    <3>1. /\ recv.pc = "found" /\ returned' = Append(returned, a)
          /\ UNCHANGED <<called, served, up>>
      BY <2>4 DEF runDone
    <3>0. recv.id \in DOMAIN called /\ recv.reply = ReplyTo(called[recv.id])
      BY <3>1 DEF MatchInv, Answers
    <3> PICK i \in DOMAIN called : i = recv.id
      BY <3>0
    <3>2. recv.reply = ReplyTo(called[i]) /\ called[i] \in Requests
      BY <3>0 DEF TypeOK
    <3>3. ~Promise!Answered(i)
      <4>1. i \notin ReturnedIds
        BY <3>1 DEF OnceInv, DoneAtMostOnce, Taken
      <4> QED
        BY <4>1 DEF Promise!Answered, ReturnedIds
    <3>4. called[i] \in Runs => Promise!Served(i)
      BY <3>1, <3>2 DEF EarnedInv, Earned, ReplyTo, Elements, Promise!Served
    <3>5. a.value = Promise!Expected(called[i])
      <4>1. CASE ErrorOf(called[i]) = "NO_ERROR"
        BY <3>2, <4>1 DEF ReplyTo, Parsed, Promise!Expected
      <4>2. CASE ErrorOf(called[i]) # "NO_ERROR"
        <5>1. recv.reply \in Errors
          BY <3>2, <4>2 DEF ReplyTo, ErrorOf, Errors
        <5> QED
          BY <3>2, <4>2, <5>1, RpcAssumption DEF Parsed, Promise!Expected
      <4> QED
        BY <4>1, <4>2
    <3>6. Given' = Given \cup {[id |-> i, value |-> Promise!Expected(called[i])]}
      <4>1. a \in Completion /\ a.id = i
        BY DEF TypeOK, RecvState, Completion, Parsed, Payload
      <4>2. Elements(returned)' = Elements(returned) \cup {a}
        <5>1. returned \in Seq(Completion)
          BY DEF TypeOK
        <5> HIDE DEF a
        <5>2. Elements(Append(returned, a)) = Elements(returned) \cup {a}
          BY <4>1, <5>1, ElementsAppend
        <5> QED
          BY <3>1, <5>2 DEF Elements
      <4>3. Given' = Given \cup {[id |-> a.id, value |-> a.value]}
        <5> HIDE DEF a
        <5> QED
          BY <4>2
      <4> HIDE DEF a
      <4> QED
        BY <3>5, <4>1, <4>3
    <3>7. Promise!Answer(i)
      <4> HIDE DEF a
      <4> QED
        BY <3>1, <3>3, <3>4, <3>6 DEF Promise!Answer
    <3> QED
      BY <3>7
  <2>5. CASE connectionLost
    BY <2>5 DEF connectionLost, Promise!Lose, Elements
  <2> QED
    BY <2>1, <2>2, <2>3, <2>4, <2>5
       DEF Next, CallStep, LoopStep, ServerStep, lockForInsert, insert, send,
           flushBacklog, onResponse, lockForFind, find, doneReturns, destroy,
           doneCallback, flushReply, TypeOK
<1>4. Spec => []Inv
  BY <1>2, TypeCorrect, MatchStep, OnceStep, TravelStep, EarnedStep, PTL DEF Spec
<1> QED
  BY <1>1, <1>3, <1>4, PTL DEF Spec, IsRpcService, Promise!SafeSpec
=============================================================================
