SPECIFICATION Spec
CONSTANTS
 Cushion = 1
 MaxWork = 2
 MaxTroubles = 1
CHECK_DEADLOCK FALSE
INVARIANTS  TwapRowSumsFills
PROPERTIES FreshIds
