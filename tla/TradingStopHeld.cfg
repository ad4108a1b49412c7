\* A dividend or split on the day a stop was latched.
SPECIFICATION OneWorkerSpec
CONSTANTS
  MaxHeld = 2
  MaxTarget = 3
  Lot = 1
  MaxDaily = 2
  TCycles = 1
  TDivisor = 2
  CoreParts = 2
  CoreWhole = 3
  Settlement = 1
  Ratios = {1}
  Signals = {"exit"}
INVARIANTS
  StopStaysInForce
