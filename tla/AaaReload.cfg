\* The same sessions with SIGHUP.
CONSTANTS
    PoolSize = 2
    Framed = {7}
    MaxObjects = 3
SPECIFICATION Spec
INVARIANTS
    LeasesSurviveReload
