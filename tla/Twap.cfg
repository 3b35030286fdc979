SPECIFICATION TwapSpec
CONSTANTS
  s1 = s1
  s2 = s2
  None = None
  Stops = {s1, s2}
  Wires <- MCWires
  Prices = {20, 22}
  Grain = 2
  Trades <- MCTrades
  MaxMarks = 1
  Held = {1}
  MaxOps = 3
  Orders <- MCOrders
  Catchup = 3
  MaxTime = 2
SYMMETRY Symmetry
CHECK_DEADLOCK FALSE
INVARIANTS OrphansEnded HistoryTells TwapAccounted
PROPERTIES NeverLoosens ReduceOnlyReduces
