SPECIFICATION Spec
CONSTANTS
    MaxAttempts = 4
    MaxStops = 2
INVARIANTS RegisteredAlive SafeEvents ConnectionIsGreeted
PROPERTY Reported
\* A destroyed channel ends a behaviour.
CHECK_DEADLOCK FALSE
