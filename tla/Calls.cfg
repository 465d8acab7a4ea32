SPECIFICATION Spec
CONSTANTS
  Calls = {1, 2}
  Cap = 1
  PipeRoom = 1
  MaxOut = 3
  Lively = {1}
  Words = {w1, w2}
  Keys = {k1, k2}
  Values = {v1, v2}
  MaxEntries = 3
  MaxTop = 2
  Providers = {"anthropic", "openai"}
  MaxWait = 4
  MaxTurns = 3
  MaxCalls = 2
  ServerIds = 2
  MaxHdrs = 2
  MaxHops = 3
  Names = {"builder", "oracle"}
  MaxMentions = 4
  MaxRoutes = 3
  MaxTokens = 5
CHECK_DEADLOCK FALSE
INVARIANTS NoStrayProcess OutputComplete TimeoutsExplained MemoryKept
  RequestsClean TranslationWellFormed MentionsRouted
PROPERTIES CallsReturn
