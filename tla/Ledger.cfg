\* Two ETFs that share the cash; one pays a dividend and splits.
SPECIFICATION Spec
CONSTANTS
  Etfs = {"A", "B"}
  Days = 2
  Prices <- MCPrices
  Rooms <- MCRooms
  Capitals = {8, 10}
  Lot = 2
  MaxShares = 4
  MaxFills = 3
  FeeParts = 4
  MinFee = 3
  MaxPositions = 2
  WeightParts = 3
  ExposureParts = 4
  Whole = 4
  Settlement <- MCSettlement
  Splits <- MCSplits
  Dividends <- MCDividends
INVARIANTS
  TypeOK
  TablesAgree
  SharesAreReal
  SplitBeforeTrade
  
PROPERTIES
  PurchasesWithinLimits
  LockedTillNextDay
  AccountKept
