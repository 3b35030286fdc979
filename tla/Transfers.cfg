CONSTANTS
  u1 = u1
  s1 = s1
  s2 = s2
  na = na
  nb = nb
  Users = {u1, u2}
  Subs = {s1, s2}
  Names = {na, nb}
  AddrOf <- MCAddrOf
  Missing = Missing
  None = None
  Default = 4
  Amounts = {2}
  Results <- MCResults
  Payouts = {}
  Levels = {4}
  Grain = 2
  Traders = {u1}
  Peers <- MCPeers
  Settled <- MCSettled
  MaxCalls = 2
  MaxFills = 1
SPECIFICATION Spec
CHECK_DEADLOCK FALSE
PROPERTIES ImplementsLedger
