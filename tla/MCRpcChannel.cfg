SPECIFICATION Spec
CONSTANTS
    Callers = {c1}
    LoopThread = loop
    Requests = {solve, noService, noMethod, garbled}
    Registered = {solve, noMethod, garbled}
    HasMethod = {solve, garbled}
    Parses = {solve, noService, noMethod}
    NoReply = NoReply
    MaxCalls = 3
INVARIANTS
    DoneAtMostOnce
    AnswerMatches
PROPERTIES
    IsRpcService
    CallsComplete
\* After MaxCalls calls everything may be answered.
CHECK_DEADLOCK FALSE
