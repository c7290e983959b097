----------------------------- MODULE RpcService -----------------------------
(***************************************************************************)
(* What an RpcChannel promises the code that calls through its stub: each  *)
(* call is answered at most once, with the answer to that call, and its    *)
(* service method is executed at most once.  Calls are answered in any     *)
(* order.  While the connection lasts every call is answered; once it is   *)
(* lost the promise is void, for nothing times out.                        *)
(***************************************************************************)
EXTENDS Naturals, Sequences

CONSTANTS Requests,      \* what a call may ask for
          Executable,    \* the requests a registered method accepts
          NoReply        \* the response object of a call that was refused

VARIABLES called,        \* the calls, in the order of their identifiers
          served,        \* calls whose service method was executed
          answered,      \* calls whose done closure has run, with its answer
          lost           \* the connection is lost

svVars == <<called, served, answered, lost>>

\* The answer to a request stands for the request it answers.
Expected(r) == IF r \in Executable THEN r ELSE NoReply
Served(i) == \E k \in DOMAIN served : served[k] = i
Answered(i) == \E a \in answered : a.id = i

Init == called = << >> /\ served = << >> /\ answered = {} /\ lost = FALSE

Call(r) ==
    /\ called' = Append(called, r)
    /\ UNCHANGED <<served, answered, lost>>

Serve(i) ==
    /\ called[i] \in Executable /\ ~Served(i)
    /\ served' = Append(served, i)
    /\ UNCHANGED <<called, answered, lost>>

Answer(i) ==
    /\ ~Answered(i)
    /\ called[i] \in Executable => Served(i)
    /\ answered' = answered \cup {[id |-> i, value |-> Expected(called[i])]}
    /\ UNCHANGED <<called, served, lost>>

Lose == lost' = TRUE /\ UNCHANGED <<called, served, answered>>

Next ==
    \/ \E r \in Requests : Call(r)
    \/ \E i \in DOMAIN called : Serve(i) \/ Answer(i)
    \/ Lose

SafeSpec == Init /\ [][Next]_svVars
=============================================================================
