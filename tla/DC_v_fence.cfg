\* A signal meant for one session is written to the next one.
SPECIFICATION Spec
CONSTANTS
    Render = Render
    Event = Event
    Inputs = {i1}
    NoThread = NoThread
    Bufs = {0, 1}
    MaxSession = 3
    MaxFaults = 1
    Faults = {"close"}
INVARIANTS
    FenceOfFrame
