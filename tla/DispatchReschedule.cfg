SPECIFICATION Spec
CONSTANTS
  NumAgents = 1
  Threads = {w1, w2}
  Gap = 2
  SchedPeriod = 2
  QueueCap = 1
  TaskIds = {t1}
  Faults = {"stall"}
  MaxDelay = 2
  MaxOwner = 1
  MaxMail = 0
  MaxCrashes = 1
PROPERTIES RescheduledTaskKept
