SPECIFICATION Spec
CONSTANTS
    a = a
    b = b
    c = c
    Node <- TwoNodes
    Sender = {a, b}
    Rebooter = {a}
    QUEUE_LEN = 1
    RESPONSE_TIMEOUT = 1
    RecvInit = {3}
    Fault = {}
    Prompt = TRUE
    AirCap = 19
    MaxCalls = 3
    MaxReboots = 1
    TOKEN_MAX = 6
    TOKEN_TRESHOLD = 3
    UINT32 = 16
CHECK_DEADLOCK FALSE
INVARIANTS
    TimelySuccess
    TimelyInv
    TimelyDelivery
    DeliveryInv
PROPERTIES
    LockedOut
