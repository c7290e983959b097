SPECIFICATION Spec
CONSTANTS
    Callers = {c1, c2}
    LoopThread = loop
    Tasks = {t1, t2, t3}
    MaxIo = 1
    QueueBeforeLoop = FALSE
INVARIANTS
    NoLostWakeup
    FifoExecution
PROPERTIES
    QuitReturns
    IsExecutor
\* loop() returns once quit, and every caller may have finished.
CHECK_DEADLOCK FALSE
