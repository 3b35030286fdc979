SPECIFICATION Spec
CONSTANTS
  x = x
  y = y
  None = None
  Assets = {x, y}
  Tiers <- MCTiers
  Settings <- MCSettings
  Balances = {3}
  Prices = {1, 2, 3}
  Opening = 2
  Sizes = {1, 2}
  Books <- MCBooks
  OpeningBook <- MCOpeningBook
  FeeRate <- MCFeeRate
  Calls = {c1, c2}
  MaxOrders = 2
  MaxMoves = 1
  MaxTopUps = 1
SYMMETRY Symmetry
INVARIANTS LineIsWhereItFires VwapIsLotByLot FillKeepsHealthy
CHECK_DEADLOCK FALSE
