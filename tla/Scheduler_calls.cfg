SPECIFICATION Spec
CONSTANTS
  Tasks = {a, b}
  Callers = {c1, c2, h1}
  Hooks = {h1}
  Notifier = Notifier
  None = None
  Limits = {1, 2}
  MaxCalls = 5
  Fails = TRUE
SYMMETRY MCSymmetry
INVARIANTS
  LimitKept
  WaitIsQueued
  VictimsWait
CHECK_DEADLOCK FALSE
