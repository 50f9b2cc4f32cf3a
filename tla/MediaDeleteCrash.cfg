\* One handler call at a time, two media ids, one body, one crash.
SPECIFICATION Spec
CONSTANTS
    m1 = m1
    m2 = m2
    m3 = m3
    c1 = c1
    c2 = c2
    MediaIds <- MCMediaIds
    Contents <- MCContents
    Slots <- OneSlot
    MaxCrashes = 1
INVARIANT
    RecordHasFile
