SPECIFICATION FairSpec
CONSTANTS
  None = None
  Creates = {c1}
  Cancels = {x1}
  Keys = {k1}
  Jobs = {j1}
  Slots = {s1, s2}
  MaxAttempts = 3
  MaxStalled = 1
  Faults <- QueueFaults
PROPERTIES CancelStopsWork QueueDrains
