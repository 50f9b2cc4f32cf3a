CONSTANTS
    Users <- MCUsers
    RoomIds <- OneRoom
    TxnIds <- MCTxnIds
    r1 = r1
    r2 = r2
    x1 = x1
    NoTxn = NoTxn
    Slots <- OneSlot
    MaxEvents = 4
    MaxCrashes = 0
    CreateExtras = {0}
SPECIFICATION Spec
INVARIANT
    JoinAllowed
