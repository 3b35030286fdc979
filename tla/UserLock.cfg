SPECIFICATION FairSpec
CONSTANTS
  Users = {u1, u2}
  Calls = {c1, c2, c3, c4}
  NoCall = NoCall
  MaxDepth = 1
INVARIANTS TailsClean
PROPERTIES ImplementsFairFifo
