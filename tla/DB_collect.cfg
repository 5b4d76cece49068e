\* Two instances on one descriptor table, which the app uses too.
SPECIFICATION Spec
CONSTANTS
    Instances = {w1, w2}
    MaxCollect = 2
    Tries = 1
    MaxFd = 4
    MaxFaults = 1
    NoOne = NoOne
    Process = Process
    App = App
SYMMETRY InstanceSymmetry
INVARIANTS
    TypeOK
    NoDupLost
    ContextHoldsBuffers
PROPERTIES
    ClosesItsOwn
