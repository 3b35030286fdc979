SPECIFICATION Spec
CONSTANTS
  Passes = {m1, m2}
  Reqs = {r1, r2}
  NoProc = NoProc
  MaxOid = 3
  MaxOps = 2
  MaxCrashes = 1
  Batches <- LastingBatches
  Replacements <- MCReplacements
SYMMETRY Symmetry
INVARIANTS AtMostOneFill CancelIsFinal RestingLimitIndexed OneExitPerBracket DormantWhileEntryRests
