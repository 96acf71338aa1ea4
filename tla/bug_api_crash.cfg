SPECIFICATION FairSpec
CONSTANTS
  None = None
  Creates = {c1, c2}
  Cancels = {}
  Keys = {k1}
  Jobs = {j1}
  Slots = {s1}
  MaxAttempts = 3
  MaxStalled = 1
  Faults <- OnlyApiDies
PROPERTIES EveryJobEnds
