------------------------------- MODULE MCMedia -------------------------------
EXTENDS Media, TLC

CONSTANTS m1, m2, m3, c1, c2

MCMediaIds == {m1, m2, m3}
MCContents == {c1, c2}
OneSlot == {1}
TwoSlots == {1, 2}

\* Media ids and bodies are opaque and interchangeable.
MediaSymmetry == Permutations(MCMediaIds) \cup Permutations(MCContents)
==============================================================================
