SPECIFICATION FairSpec
CONSTANTS
  Passes = {m1}
  Reqs = {r1}
  NoProc = NoProc
  MaxOid = 2
  MaxOps = 2
  MaxCrashes = 0
  Batches <- MCBatches
  Replacements <- MCReplacements
PROPERTIES
  CallsFinish
  ExpiryHonoured
  DeadOrdersUnindexed
