SPECIFICATION FairSpec
CONSTANTS
  Files = {f1, f2}
  n1 = n1
  n2 = n2
  Names = {n1, n2}
  Cut <- MCCut
  Builders = {b1}
  MaxPlugins = 2
  Faults = {"check", "save"}
  MaxTexts = 2
  MaxTime = 1
  MaxRemoves = 1
INVARIANTS NamesUnique MtimeTellsText
PROPERTIES LeavesWithItsFile Settles
