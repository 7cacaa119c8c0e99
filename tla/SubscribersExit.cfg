\* One subscriber that came up when the daemon is asked to stop.
CONSTANTS
    line1 = line1
    line2 = line2
    mac1 = mac1
    place1 = place1
    place2 = place2
    NoCookie = NoCookie
    Cookies = {}
    Encaps <- MCEncaps
    Mac <- MCMac
    Objects <- MCObjects
    MaxSid = 2
    MaxEcho = 1
    MaxRequests = 1
    MaxAaa = 2
SPECIFICATION Spec
INVARIANTS
    NoneOutlivesRuntime
