CONSTANTS
  u1 = u1
  Users = {u1}
  Subs = {}
  Names = {}
  AddrOf <- MCAddrOf
  Missing = Missing
  None = None
  Default = 4
  Amounts = {2}
  Results <- MCResults
  Payouts = {1, 2}
  Levels = {4}
  Grain = 2
  Settled <- MCSettled
  Traders = {u1}
  Peers = {u1}
  MaxCalls = 2
  MaxFills = 1
  Weis = {1, 2}
  Validators = {v1}
  Stakers = {u1}
  Requests = {r1, r2}
  Lock = 1
  QueueTime = 1
  MaxEvents = 3
  MaxCrashes = 1
SPECIFICATION LiveSpec
INVARIANTS StakeExplained
PROPERTIES StakingImplementsLedger WithdrawalsComplete
CHECK_DEADLOCK FALSE
