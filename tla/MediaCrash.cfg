\* Two concurrent handler calls, three media ids, two bodies, one crash.
SPECIFICATION Spec
CONSTANTS
    m1 = m1
    m2 = m2
    m3 = m3
    c1 = c1
    c2 = c2
    MediaIds <- MCMediaIds
    Contents <- MCContents
    Slots <- TwoSlots
    MaxCrashes = 1
SYMMETRY MediaSymmetry
INVARIANT
    TypeOK
    AckedAvailable
PROPERTY
    StoreRefinement
