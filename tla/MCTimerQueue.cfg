SPECIFICATION TimerSpec
CONSTANTS
    OwnThread = loop
    Others = {t1}
    Addresses = {a1, a2}
    Delays = {0, 1, 2}
    Intervals = {0, 2}
    MaxTimers = 3
    MaxCancels = 2
INVARIANTS
    TimersAlive
    TimerArmed
PROPERTIES
    CancelledStaysDown
    TimersRun
