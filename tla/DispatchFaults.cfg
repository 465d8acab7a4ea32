SPECIFICATION Spec
CONSTANTS
  NumAgents = 2
  Threads = {w1, w2, w3}
  Gap = 1
  SchedPeriod = 0
  QueueCap = 3
  TaskIds = {}
  Faults = {"close", "start", "read", "crash"}
  MaxDelay = 1
  MaxOwner = 2
  MaxMail = 1
  MaxCrashes = 1
INVARIANTS DispatchInv OneSessionPerAgent JobsConserved RecordsClosed
PROPERTIES SessionGap MailWaitsOnDisk ImplementsAgentJobs
