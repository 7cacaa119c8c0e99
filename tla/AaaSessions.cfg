\* A pool of one address, one framed address, two objects at a time.
CONSTANTS
    PoolSize = 1
    Framed = {7}
    MaxObjects = 2
SPECIFICATION FairSpec
INVARIANTS
    TypeOK
    UniqueLease
    PoolMatchesLeases
    OneUpdateCycle
PROPERTIES
    NoAddressOnlyWhenFull
    StoppedSessionGoes
