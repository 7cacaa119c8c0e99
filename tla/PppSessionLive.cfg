\* PAP and both methods over a reliable link; one request may be repeated.
CONSTANTS
    addr1 = addr1
    addr2 = addr2
    NoAddr = NoAddr
    NoEntry = NoEntry
    VppFails = FALSE
    AuthProto = "PAP"
    Methods <- NoneThenRadius
    Addresses <- TwoAddresses
    MaxEcho = 2
    MaxResend = 1
    MaxLoss = 0
    MaxDup = 0
SPECIFICATION FairSpec
\* a peer may be gone and its session closed
CHECK_DEADLOCK FALSE
PROPERTIES
    SessionComesUp
    DeadPeerIsStopped
