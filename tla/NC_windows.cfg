\* Two windows on the one handle, in any order of their callbacks.
SPECIFICATION FairSpec
CONSTANTS
    Windows = {w1, w2}
    NoWindow = NoWindow
    MaxContexts = 4
    MaxShows = 5
INVARIANTS
    TypeOK
    DrawsOnLiveSurface
    StoppedHoldsNothing
    OrderlyNoUseAfterFree
    OrderlyServed
    Listens
PROPERTIES
    UIReturns
    InstanceSpec
