SPECIFICATION Spec
CONSTANTS
    Peers = {"p1", "p2"}
    Calls <- MailCalls
    Triggers <- MailTriggers
    Roles <- PlainOnly
    TableCap = 64
    SentCap = 2
    MaxTurns = 2
    Faults = {}
    MaxBatch = 3
    ConvMax = 0
INVARIANTS NoPingPong
