\* One handler call at a time: each call runs to its end.
SPECIFICATION Spec
CONSTANTS
    u1 = u1
    u2 = u2
    p1 = p1
    p2 = p2
    d1 = d1
    d2 = d2
    k1 = k1
    k2 = k2
    k3 = k3
    Users <- MCUsers
    Passwords <- MCPasswords
    DeviceIds <- MCDeviceIds
    TokenIds <- MCTokenIds
    Slots <- OneSlot
SYMMETRY SessionSymmetry
INVARIANT
    TypeOK
    TokensPostdatePassword
    TokenHasDevice
    KeysHaveDevice
