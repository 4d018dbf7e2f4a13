SPECIFICATION Spec
CONSTANTS
    Ours = {m}
    Theirs = {x}
    Peers <- OnlyMessagesOrAnswers
    RecvInit = {0}
    None = None
    m = m
    x = x
    TOKEN_MAX = 3
    TOKEN_TRESHOLD = 3
    UINT32 = 16
INVARIANTS
    TypeOK
    VerdictRight
    SentAsGiven
    ChecksumRight
    ListensAlone
PROPERTIES
    ReceiveCounterGrows
