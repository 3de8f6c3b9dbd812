SPECIFICATION FairSpec
CONSTANTS
    Blocks = 2
    Servers <- MCServers
    Faults = {"connect", "break"}
INVARIANTS
    MostSpecificIsUsed
    StreamIsInOrder
    FinishedExactlyOnce
PROPERTIES
    Termination
