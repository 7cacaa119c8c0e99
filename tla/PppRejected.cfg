\* RADIUS may refuse, a reliable link.
CONSTANTS
    addr1 = addr1
    addr2 = addr2
    NoAddr = NoAddr
    NoEntry = NoEntry
    VppFails = FALSE
    AuthProto = "CHAP"
    Methods <- OnlyRadius
    Addresses <- OneAddress
    MaxEcho = 1
    MaxResend = 0
    MaxLoss = 0
    MaxDup = 0
SPECIFICATION Spec
\* a peer may be gone and its session closed
CHECK_DEADLOCK FALSE
INVARIANTS
    RejectedGetsNoAddress
