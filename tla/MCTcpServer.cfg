\* An RpcServer on one loop, or with one or two IO threads.
SPECIFICATION ServerSpec
CONSTANTS
    Clients = {c1, c2}
    NoFd = nofd
    PoolSizes = {0, 1, 2}
    MaxMessages = 2
    KeepsChannel = TRUE
    AcceptFails = TRUE
INVARIANTS
    NothingUndefined
    MapIsOpen
PROPERTIES
    GreetedFirst
    LeaversForgotten
\* The clients may all have gone.
CHECK_DEADLOCK FALSE
