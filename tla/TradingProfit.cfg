\* Profit taking, re-entry, dividends and splits.
SPECIFICATION Spec
CONSTANTS
  MaxHeld = 3
  MaxTarget = 3
  Lot = 1
  MaxDaily = 2
  TCycles = 1
  TDivisor = 2
  CoreParts = 2
  CoreWhole = 3
  Settlement = 1
  Ratios = {1, 2}
  Signals = {"profit", "reentry"}
INVARIANTS
  TypeOK
  ExitHasIntent
  StopCoversPosition
  
  DailyBudget
