\* Two containers; scripts in the root shell, delays, deaths of daemons and of the app.
SPECIFICATION FairSpec
CONSTANTS
    Containers = {c1, c2}
    NoContainer = NoContainer
    MaxHelpers = 2
    MaxFaults = 3
INVARIANTS
    TypeOK
    RightUndisturbed
PROPERTIES
    AttemptEnds
    ShellComesFree
    Connects
    InstanceSpec
