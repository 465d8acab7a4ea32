SPECIFICATION FairSpec
CONSTANTS
  PingAfter = 1
  DropAfter = 3
  LostDelay = 1
  FailDelay = 2
  MaxDelay = 4
  MaxPass = 3
  Clients = {1, 2, 3}
  Fds = {1, 2, 3, 4}
  MaxClients = 2
  Backlog = 2
  RxRoom = 1
  Speakers = {s1}
  Budgets <- MCBudgets
CHECK_DEADLOCK FALSE
INVARIANTS DescriptorsAccounted FramesWhole NothingStranded
PROPERTIES ServedAsPolled  AskedFirst LinkRecovers DeadClientsLeave
