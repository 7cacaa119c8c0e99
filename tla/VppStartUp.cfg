\* One device, two VRFs, three configurations, one failure in each start.
CONSTANTS
    G0 = G0
    G1 = G1
    u1 = u1
    u2 = u2
    u3 = u3
    RED = RED
    BLUE = BLUE
    addr1 = addr1
    addr2 = addr2
    default = default
    inner = inner
    Global = Global
    NoAddress = NoAddress
    Devices <- MCDevices
    Units <- MCUnits
    Device <- MCDevice
    Taps = {t1, t2}
    Vrfs <- MCVrfs
    Confs <- MCConfs
    MaxFailed = 1
SPECIFICATION Spec
INVARIANTS
    TypeOK
    RoutesHaveTables
    AsConfigured
