SPECIFICATION FairSpec
CONSTANTS
  NumAgents = 1
  Threads = {w1, w2}
  Gap = 1
  SchedPeriod = 1
  QueueCap = 1
  TaskIds = {t1, t2}
  Faults = {"store", "crash", "stall"}
  MaxDelay = 1
  MaxOwner = 2
  MaxMail = 0
  MaxCrashes = 1
PROPERTIES OwnerFirst TaskRunsBeforeItGoes TaskServed
