SPECIFICATION Spec
CONSTANTS
    Senders = {s1}
    LoopThread = loop
    Messages = {m1, m2, m3}
    MsgLen = 2
    SocketRoom = 3
INVARIANTS
    SendSurvives
\* The connection may close, and every message may have been sent.
CHECK_DEADLOCK FALSE
