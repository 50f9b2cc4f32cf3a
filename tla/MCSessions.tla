----------------------------- MODULE MCSessions -----------------------------
EXTENDS Sessions, TLC

CONSTANTS u1, u2, p1, p2, d1, d2, k1, k2, k3

MCUsers == {u1, u2}
MCPasswords == {p1, p2}
MCDeviceIds == {d1, d2}
MCTokenIds == {k1, k2, k3}
OneSlot == {1}
TwoSlots == {1, 2}

\* Users, passwords, devices and tokens are opaque and interchangeable.
SessionSymmetry ==
    Permutations(MCUsers) \cup Permutations(MCPasswords) \cup Permutations(MCDeviceIds) \cup Permutations(MCTokenIds)
==============================================================================
