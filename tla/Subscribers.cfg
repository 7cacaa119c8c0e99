\* Two lines, two session ids, two places for objects: a late answer finds the
\* session of the other line in the place of its own.
CONSTANTS
    line1 = line1
    line2 = line2
    mac1 = mac1
    place1 = place1
    place2 = place2
    NoCookie = NoCookie
    Cookies = {}
    Encaps <- MCEncaps
    Mac <- MCMac
    Objects <- MCObjects
    MaxSid = 2
    MaxEcho = 1
    MaxRequests = 1
    MaxAaa = 2
SPECIFICATION Spec
SYMMETRY Alike
INVARIANTS
    TypeOK
    BoundToLiveAaa
    OwnAaa
    AaaAgrees
    DataplaneAgrees
    SettingsKept
PROPERTIES
    ZombieGoes
