\* Every packet of up to three tags, frame of up to three VLAN tags, and RADIUS
\* requests with fields left empty, too long or unknown to the dictionary.
CONSTANTS
    Values <- MCValues
    Size <- MCSize
    Byte = 8
    Vlans = 4
    Code <- MCCode
    Value <- MCValue
    VendorSpecific = 15
    Hide <- MCHide
    Octet = 16
    Block = 4
    Beyond <- MCBeyond
    Packets <- MCPackets
    Policies <- MCPolicies
    Cookie <- MCCookie
    Frames <- MCFrames
    Requests <- MCRequests
    None = None
SPECIFICATION Spec
CHECK_DEADLOCK FALSE
INVARIANTS
    AnswersEcho
    AnswerGoesBack
    RequestReadsBack
