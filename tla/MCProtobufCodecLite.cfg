SPECIFICATION CodecSpec
CONSTANTS
    Payloads = {0, 1, 2}
    TagLen = 1
    kHeaderLen = 2
    kChecksumLen = 1
    kMaxMessageLen = 3
    ReadMax = 7
    MaxFrames = 4
INVARIANTS
    FramesInOrder
PROPERTIES
    EveryMessageDelivered
\* Every message may have been handed up, or the process ended.
CHECK_DEADLOCK FALSE
