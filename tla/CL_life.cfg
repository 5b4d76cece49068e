\* Two containers, two process numbers, two jobs at a time; every fault.
SPECIFICATION FairSpec
CONSTANTS
    Ids = {c1, c2}
    Pids = {p1, p2}
    Jobs = {j1, j2}
    MaxFaults = 1
    Nobody = Nobody
    NoPid = NoPid
INVARIANTS
    TypeOK
    ScreenTellsTruth
    RootBeneathInit
PROPERTIES
    StopsItsOwn
    NothingExtractedIsLost
    Answered
