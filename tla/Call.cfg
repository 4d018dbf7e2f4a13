SPECIFICATION Spec
CONSTANTS
    TOKEN_SIZE = 2
    FRAME_POS_MSG = 7
    MAX_FRAME_SIZE = 100
    MaxSize = 77
    RESPONSE_TIMEOUT_MS = 3
    UINT32 = 6
    UINT64 = 12
    Horizon = 14
CHECK_DEADLOCK FALSE
INVARIANTS
    RoundTrip
    SwapKeepsSize
    WaitAtMost
PROPERTIES
    EarlyOnlyAtWrap
