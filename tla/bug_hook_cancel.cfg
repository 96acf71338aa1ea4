SPECIFICATION FairSpec
CONSTANTS
  None = None
  Submits = {c1}
  Clicks = {x1}
  Jobs = {j1}
  Slots = {s1}
  NetworkFails = FALSE
PROPERTIES PollsUntilTerminal
