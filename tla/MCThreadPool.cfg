SPECIFICATION Spec
CONSTANTS
    Workers = {w1, w2}
    Callers = {c1, c2}
    Tasks = {t1, t2, t3}
    Empty = {t3}
    NoTask = NoTask
    CreateFails = TRUE
    MaxSpurious = 1
INVARIANTS NoneSleepsOverWork OnceInOrder
PROPERTY TaskRuns
\* Callers may have nothing more to add: every worker waits then.
CHECK_DEADLOCK FALSE
