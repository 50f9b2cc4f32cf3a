\* Calls one at a time: is a cached friends list ever stale?
CONSTANTS
    Users <- MCUsers
    Slots <- OneSlot
    MaxRequests = 3
    MaxClock = 0
    MaxPerHour = 2
    RateWindow = 2
    NoCache = NoCache
    NoParam = NoParam
SPECIFICATION Spec
INVARIANT CacheCoherent
