\* Three requests share two ids; three datagrams arrive.
CONSTANTS
    Requests = 3
    IdSpace = 2
    MaxPackets = 3
SPECIFICATION FairSpec
\* all requests made and answered
CHECK_DEADLOCK FALSE
INVARIANTS
    TypeOK
    OnlyGenuineAnswers
    NothingAfterError
    EntryEndsOnce
PROPERTIES
    EveryRequestEnds
