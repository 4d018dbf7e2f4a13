SPECIFICATION FairSpec
CONSTANTS
    QUEUE_LEN = 2
    MaxStarts = 4
CHECK_DEADLOCK FALSE
INVARIANTS
    TypeOK
    OneListener
PROPERTIES
    StartListens
    StopStops
