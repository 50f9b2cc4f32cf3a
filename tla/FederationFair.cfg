\* A remote sender pushing two events (one unauthorized) in transactions, joins through two
\* servers, backfills, one invite, two concurrent calls, one crash, one
\* lost answer and one failed store call; the event loop and the sender are fair.
SPECIFICATION FairSpec
CONSTANTS
    e1 = e1
    e2 = e2
    e3 = e3
    v1 = v1
    v2 = v2
    Events <- MCEvents
    Authorized <- MCAuthorized
    Pushed <- MCPushed
    JoinServers <- MCJoinServers
    RoomState <- MCRoomState
    History <- MCHistory
    Slots <- TwoSlots
    MaxInvites = 1
    MaxCrashes = 1
    MaxLost = 1
    MaxStoreFails = 1
INVARIANT
    TypeOK
    StoredAuthorized
    AckedStored
PROPERTY
    EventuallyStoredOrFailed
