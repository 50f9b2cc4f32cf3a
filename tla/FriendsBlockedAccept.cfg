\* Calls one at a time: can blocked users become friends?
CONSTANTS
    Users <- MCUsers
    Slots <- OneSlot
    MaxRequests = 3
    MaxClock = 0
    MaxPerHour = 2
    RateWindow = 2
    NoCache = NoCache
    NoParam = NoParam
SPECIFICATION Spec
INVARIANT NoFriendshipAcrossBlock
