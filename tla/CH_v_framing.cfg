\* No service is registered: the gate is open from the start.
SPECIFICATION Spec
CONSTANTS
    Render = Render
    Event = Event
    Inputs = {i1}
    NoThread = NoThread
    Services = {}
    Handles = {}
    None = None
    Capacity = 2
    MaxSession = 2
    MaxFaults = 1
INVARIANTS
    Framed
