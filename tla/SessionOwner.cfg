SPECIFICATION FairSpec
CONSTANTS
    Peers = {"p1"}
    Calls <- OwnerCalls
    Triggers <- OwnerTriggers
    Roles <- HubOrBuilder
    TableCap = 2
    SentCap = 8
    MaxTurns = 3
    Faults = {}
    MaxBatch = 2
    ConvMax = 4
INVARIANTS HistoryWellFormed RepeatsRefused StuckStops
PROPERTIES SessionEnds
