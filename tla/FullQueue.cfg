SPECIFICATION Spec
CONSTANTS
    a = a
    b = b
    c = c
    Node <- TwoNodes
    Sender = {a}
    Rebooter = {}
    QUEUE_LEN = 1
    RESPONSE_TIMEOUT = 1
    RecvInit = {0}
    Fault = {}
    Prompt = TRUE
    AirCap = 6
    MaxCalls = 3
    MaxReboots = 0
    TOKEN_MAX = 8
    TOKEN_TRESHOLD = 3
    UINT32 = 16
CHECK_DEADLOCK FALSE
INVARIANTS
    AckMeansQueued
