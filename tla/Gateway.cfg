SPECIFICATION Spec
CONSTANTS
  m = m
  a = a
  s = s
  p = p
  n1 = n1
  n2 = n2
  c1 = c1
  c2 = c2
  None = None
  Infinite = Infinite
  Unnamed = Unnamed
  Conns = {c1, c2}
  Wallets = {m, a, s, p}
  Masters <- MCMasters
  AgentNames = {n1, n2}
  MaxNamed = 1
  Phantom = p
  Tables <- MCTables
  Requests <- MCRequests
  Behind = 2
  Ahead = 2
  Window = 1
  Limit = 1
  Skew = 1
  MaxRequests = 3
  MaxTime = 4
CHECK_DEADLOCK FALSE
PROPERTIES NonceOnce ActsWithStanding
