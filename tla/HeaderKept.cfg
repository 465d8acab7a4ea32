SPECIFICATION LlmSpec
CONSTANTS
  Providers = {"openai"}
  MaxWait = 4
  MaxTurns = 0
  MaxCalls = 0
  ServerIds = 0
  MaxHdrs = 2
  MaxHops = 1
INVARIANTS NextCallOnly
