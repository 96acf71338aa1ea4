SPECIFICATION Spec
CONSTANTS
  None = None
  Creates = {c1, c2}
  Cancels = {x1}
  Keys = {k1}
  Jobs = {j1, j2}
  Slots = {s1, s2}
  MaxAttempts = 2
  MaxStalled = 1
  Faults <- AllFaults
SYMMETRY Interchangeable
INVARIANTS TypeOK SingleExecutor OutcomeConsistent CancelEffective IdempotentCreate AttemptsBounded RefusedNotStranded
PROPERTIES TerminalFinal ImplementsLifecycle
