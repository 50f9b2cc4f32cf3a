\* Calls one at a time: invariants over every sequence of calls.
CONSTANTS
    Users <- MCUsers
    Slots <- OneSlot
    MaxRequests = 3
    MaxClock = 2
    MaxPerHour = 2
    RateWindow = 2
    NoCache = NoCache
    NoParam = NoParam
SPECIFICATION Spec
INVARIANT TypeOK
INVARIANT AtMostOnePending
INVARIANT FriendRowUnique
INVARIANT FriendshipJustified
INVARIANT RateLimitRespected
PROPERTY StatusFinal
