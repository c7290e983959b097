SPECIFICATION Spec
CONSTANTS
    Byte = {0, 1}
    Zero = 0
    kCheapPrepend = 2
    InitialSize = 2
    ExtraLen = 2
    MaxLen = 3
    MaxReadable = 5
INVARIANTS
    HeaderFits
    CapacityBound
    ContentKept
