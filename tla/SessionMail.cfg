SPECIFICATION MCSpec
CONSTANTS
    Peers = {"p1", "p2"}
    Calls <- MailCalls
    Triggers <- MailTriggers
    Roles <- PlainOnly
    TableCap = 64
    SentCap = 2
    MaxTurns = 2
    Faults = {"memory", "deliver"}
    MaxBatch = 3
    ConvMax = 0
    Agents = {a, b}
    Cap = 2
    Idle = 2
    ChatFaults = {"memory"}
    MaxSeq = 4
INVARIANTS RequestersAnswered RingInOrder
PROPERTIES NoSecondAnswer ShownOnce ResumesWhileOpen
