SPECIFICATION EvmSpec
CONSTANTS
  w1 = w1
  w2 = w2
  m1 = m1
  Signers = {w1, w2}
  Markets = {m1}
  Raw <- MCRaw
  s1 = s1
  s2 = s2
  Slots = {s1, s2}
  MaxReceipts = 1
  MaxSends = 3
  MaxFaults = 1
  MaxPolls = 1
SYMMETRY Symmetry
CHECK_DEADLOCK FALSE
INVARIANTS LogReplays ReadersComplete
