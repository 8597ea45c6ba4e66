SPECIFICATION Spec
CONSTANTS
  Cap = 2
  Pagers = {p1}
  MaxEvents = 4
  Own = {}
  Muted = {1,2,3}
  Limit = 2
  Batch = 1
  Ops = {"ignore"}
  MaxDisturb = 1
INVARIANTS NeverPanics
CHECK_DEADLOCK FALSE
