SPECIFICATION Spec
CONSTANTS
    a = a
    b = b
    c = c
    Node <- TwoNodes
    Sender = {a, b}
    Rebooter = {a}
    QUEUE_LEN = 1
    RESPONSE_TIMEOUT = 1
    RecvInit = {3}
    Fault = {"lost"}
    Prompt = FALSE
    AirCap = 1
    MaxCalls = 2
    MaxReboots = 1
    TOKEN_MAX = 8
    TOKEN_TRESHOLD = 3
    UINT32 = 16
CHECK_DEADLOCK FALSE
INVARIANTS
    AckGenuine
    TokensAgree
PROPERTIES
    ImplementsService
