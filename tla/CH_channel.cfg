\* One service; producers that fail, stall or ask again; fair threads.
SPECIFICATION FairSpec
CONSTANTS
    Render = Render
    Event = Event
    Inputs = {i1}
    NoThread = NoThread
    Services = {s1}
    Handles = {h1, h2}
    None = None
    Capacity = 2
    MaxSession = 2
    MaxFaults = 1
INVARIANTS
    TypeOK
    ResourceFramed
    LockKeepsSocket
    ResourcesSound
    ResourcesOnRecord
PROPERTIES
    CallsReturn
    SessionSpec
