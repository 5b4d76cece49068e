\* An input thread sees the producer close while the render thread stores.
SPECIFICATION Spec
CONSTANTS
    Render = Render
    Event = Event
    Inputs = {i1}
    NoThread = NoThread
    Bufs = {0}
    MaxSession = 2
    MaxFaults = 1
    Faults = {"close"}
INVARIANTS
    NullIsBenign
