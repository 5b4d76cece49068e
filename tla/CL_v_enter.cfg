\* A pid file outlives the process it names.
SPECIFICATION Spec
CONSTANTS
    Ids = {c1, c2}
    Pids = {p1, p2}
    Jobs = {j1, j2}
    MaxFaults = 1
    Nobody = Nobody
    NoPid = NoPid
INVARIANTS
    EnterReachesContainer
