SPECIFICATION Spec
CONSTANTS
    a = a
    b = b
    c = c
    Node <- TwoNodes
    Sender = {a}
    Rebooter = {}
    QUEUE_LEN = 2
    RESPONSE_TIMEOUT = 1
    RecvInit = {3}
    Fault = {"lost", "corrupt"}
    Prompt = FALSE
    AirCap = 2
    MaxCalls = 3
    MaxReboots = 0
    TOKEN_MAX = 8
    TOKEN_TRESHOLD = 3
    UINT32 = 16
CHECK_DEADLOCK FALSE
INVARIANTS
    TypeOK
    InOrder
    AcksConserved
    IInv
    AckInv
    FewFrames
    AgreeInv
PROPERTIES
    RecvTokenGrows
    ImplementsService
