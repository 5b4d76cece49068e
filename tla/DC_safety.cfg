\* Any two faults of every kind, with one input thread, over one teardown.
SPECIFICATION Spec
CONSTANTS
    Render = Render
    Event = Event
    Inputs = {i1}
    NoThread = NoThread
    Bufs = {0}
    MaxSession = 2
    MaxFaults = 2
    Faults <- AllFaults
INVARIANTS
    TypeOK
    TeardownExclusive
    ReadyIsCurrent
    UpNeverCrashes
PROPERTIES
    SessionSpec
    EventThreadSpec
