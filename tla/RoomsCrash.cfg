CONSTANTS
    Users <- MCUsers
    RoomIds <- OneRoom
    TxnIds <- MCTxnIds
    r1 = r1
    r2 = r2
    x1 = x1
    NoTxn = NoTxn
    Slots <- OneSlot
    MaxEvents = 5
    MaxCrashes = 1
    CreateExtras = {0, 1}
SPECIFICATION Spec
PROPERTY
    LogRefinement
