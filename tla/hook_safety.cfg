SPECIFICATION Spec
CONSTANTS
  None = None
  Submits = {c1, c2}
  Clicks = {x1, x2}
  Jobs = {j1, j2}
  Slots = {s1}
  NetworkFails = TRUE
SYMMETRY Interchangeable
INVARIANTS TypeOK OnePoller ShownIsTrue StopsOnlyWhenTold
PROPERTIES PollingNeverRegresses
