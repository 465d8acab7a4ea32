SPECIFICATION FairSpec
CONSTANTS
  NumAgents = 2
  Threads = {w1, w2}
  Gap = 1
  SchedPeriod = 1
  QueueCap = 1
  TaskIds = {}
  Faults = {"stall"}
  MaxDelay = 1
  MaxOwner = 2
  MaxMail = 1
  MaxCrashes = 0
PROPERTIES JobsServed
