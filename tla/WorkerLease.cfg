\* Two processes and a busy timeout of half the lease.
SPECIFICATION FairSpec
CONSTANTS
  Workers = {w1, w2}
  w1 = w1
  w2 = w2
  LeaseTime = 4
  MaxWait = 2
INVARIANTS
  OneHolder
PROPERTIES
  KeepsScheduling
