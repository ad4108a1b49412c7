\* Entries, exits and round trips of one ETF over days.
SPECIFICATION Spec
CONSTANTS
  MaxHeld = 2
  MaxTarget = 3
  Lot = 1
  MaxDaily = 2
  TCycles = 1
  TDivisor = 2
  CoreParts = 2
  CoreWhole = 3
  Settlement = 0
  Ratios = {}
  Signals = {"entry", "exit", "t_sell"}
INVARIANTS
  OneOpenOrder
  TOrderHasCycle
  BuybackWithinSale
  OneEntryPerIntent
PROPERTIES
  StopLatched
  ExitBeforeOrdinary
  
