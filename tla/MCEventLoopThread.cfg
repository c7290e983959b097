SPECIFICATION Spec
CONSTANTS
    numThreads = 3
    MaxSpurious = 1
INVARIANTS StartedLoop QuitsLiveLoop
PROPERTIES StartReturns Joins
\* The pool is gone in the end, or startLoop waits for a thread that was never
\* created.
CHECK_DEADLOCK FALSE
