SPECIFICATION Spec
CONSTANTS
  Cap = 2
  Pagers = {p1}
  MaxEvents = 4
  Own = {3}
  Muted = {2}
  Limit = 2
  Batch = 2
  Ops = {"sent", "resync", "lag", "shrink", "restart", "ignore", "purge", "fail"}
  MaxDisturb = 1
INVARIANTS StoreMirrorsMemory OrderTrackerIsExact SubscriberSeesMemory NoSilentHole
CHECK_DEADLOCK FALSE
