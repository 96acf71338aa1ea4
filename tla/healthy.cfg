SPECIFICATION FairSpec
CONSTANTS
  None = None
  Creates = {c1, c2}
  Cancels = {x1}
  Keys = {k1, k2}
  Jobs = {j1, j2}
  Slots = {s1, s2}
  MaxAttempts = 2
  MaxStalled = 1
  Faults <- NoFaults
INVARIANTS Driven GivesUpAtLimit
PROPERTIES EveryJobEnds
