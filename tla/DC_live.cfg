\* Producers that die, stall, answer late or desynchronise; two buffers; fair threads
\* and producers that need not report.
SPECIFICATION FairSpec
CONSTANTS
    Render = Render
    Event = Event
    Inputs = {}
    NoThread = NoThread
    Bufs = {0, 1}
    MaxSession = 3
    MaxFaults = 1
    Faults <- ProducerFaults
INVARIANTS
    FenceMatchesFrame
PROPERTIES
    RenderReturns
    Recovers
