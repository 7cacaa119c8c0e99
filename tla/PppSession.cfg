\* CHAP and RADIUS over a link that loses one packet and repeats one.
CONSTANTS
    addr1 = addr1
    addr2 = addr2
    NoAddr = NoAddr
    NoEntry = NoEntry
    VppFails = TRUE
    AuthProto = "CHAP"
    Methods <- OnlyRadius
    Addresses <- TwoAddresses
    MaxEcho = 1
    MaxResend = 1
    MaxLoss = 1
    MaxDup = 1
SPECIFICATION Spec
\* a peer may be gone and its session closed
CHECK_DEADLOCK FALSE
INVARIANTS
    TypeOK
    NetworkPhaseNeedsLink
    AddressAgreement
    ProvisionedWithAddress
