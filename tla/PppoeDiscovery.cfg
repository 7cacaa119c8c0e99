\* Two lines, one with and one without a cookie after a reload, three ids, two
\* timers at a time.
CONSTANTS
    line1 = line1
    line2 = line2
    cookie1 = cookie1
    NoCookie = NoCookie
    Encaps <- MCEncaps
    Cookies <- MCCookies
    Policies <- MCPolicies
    MaxSid = 3
    MaxTimers = 2
SPECIFICATION FairReuseSpec
INVARIANTS
    ReuseTypeOK
    TablesAgree
    PendingHasTimer
PROPERTIES
    EverySessionUsesUpAnOffer
    RefusedOnlyWhenFull
    ImplementsSessionTable
    ReusedLast
    EveryOfferEnds
