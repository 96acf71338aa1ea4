SPECIFICATION Spec
CONSTANTS
  None = None
  Submits = {c1, c2, c3}
  Clicks = {}
  Jobs = {j1, j2, j3}
  Slots = {s1}
  NetworkFails = FALSE
SYMMETRY Interchangeable
INVARIANTS AsksUntilTerminal
