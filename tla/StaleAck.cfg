SPECIFICATION Spec
CONSTANTS
    a = a
    b = b
    c = c
    Node <- TwoNodes
    Sender = {a}
    Rebooter = {}
    QUEUE_LEN = 2
    RESPONSE_TIMEOUT = 1
    RecvInit = {0}
    Fault = {"lost"}
    Prompt = FALSE
    AirCap = 2
    MaxCalls = 2
    MaxReboots = 0
    TOKEN_MAX = 8
    TOKEN_TRESHOLD = 3
    UINT32 = 16
CHECK_DEADLOCK FALSE
INVARIANTS
    AckMeansAccepted
