CONSTANTS
  Assets = {a1, a2}
  Traded = {a1}
  Calls = {c1, c2}
  None = None
  Cross = Cross
  Ops = {"fill", "margin", "liquidate", "marks", "leverage", "funding", "reset"}
  Sizes <- MCSizes
  Margins = {1}
  Results <- MCResults
  Charges = {1}
  Seed = 2
  MaxOps = 3
  MaxCrashes = 1
SPECIFICATION MCSpec
SYMMETRY CallSymmetry
INVARIANTS PositionAccounted ListedIffOpen AllocationProportional NoLeftoverMargin FundingRecorded Tracked
PROPERTIES BackstopTakesAll
