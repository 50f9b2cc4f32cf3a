\* Two concurrent sends from one user to another both pass the pending checks.
CONSTANTS
    Users <- MCUsers
    Slots <- TwoSlots
    MaxRequests = 3
    MaxClock = 0
    MaxPerHour = 2
    RateWindow = 2
    NoCache = NoCache
    NoParam = NoParam
SPECIFICATION Spec
INVARIANT AtMostOnePending
