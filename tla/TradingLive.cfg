\* What must end, under fairness.
SPECIFICATION FairSpec
CONSTANTS
  MaxHeld = 1
  MaxTarget = 1
  Lot = 1
  MaxDaily = 2
  TCycles = 1
  TDivisor = 1
  CoreParts = 2
  CoreWhole = 3
  Settlement = 1
  Ratios = {}
  Signals = {"t_sell"}
PROPERTIES
  
  
  CycleEnds
