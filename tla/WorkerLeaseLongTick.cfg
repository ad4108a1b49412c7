\* A tick that takes longer than the lease.
SPECIFICATION Spec
CONSTANTS
  Workers = {w1, w2}
  w1 = w1
  w2 = w2
  LeaseTime = 4
  MaxWait = 2
INVARIANTS
  OneScheduler
