SPECIFICATION FairSpec
CONSTANTS
    a = a
    b = b
    c = c
    Node <- ThreeNodes
    Sender = {a}
    Rebooter = {}
    QUEUE_LEN = 1
    RESPONSE_TIMEOUT = 2
    RecvInit = {3}
    Fault = {"lost", "corrupt"}
    Prompt = FALSE
    AirCap = 2
    MaxCalls = 2
    MaxReboots = 0
    TOKEN_MAX = 8
    TOKEN_TRESHOLD = 3
    UINT32 = 16
CHECK_DEADLOCK FALSE
INVARIANTS
    AckGenuine
PROPERTIES
    SendReturns
    WaitBounded
    KeepsPromises
