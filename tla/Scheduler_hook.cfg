SPECIFICATION Spec
CONSTANTS
  Tasks = {a, b}
  Callers = {c1, c2, h1}
  Hooks = {h1}
  Notifier = Notifier
  None = None
  Limits = {1}
  MaxCalls = 6
  Fails = FALSE
SYMMETRY MCSymmetry
INVARIANTS
  CallbackNotStuck
CHECK_DEADLOCK FALSE
