SPECIFICATION FairSpec
CONSTANTS
  Ops = {"send", "media", "react", "abort", "edit", "unwedge", "enable"}
  Failures = {"recoverable", "unrecoverable"}
  MaxTxn = 4
  MaxFailures = 2
INVARIANTS
  AbortHolds
  RefusedWasSent
  EditsArriveUndisturbed
  KeepsTheCanonical
PROPERTIES
  QueueDrains
  ReadyApplied
CHECK_DEADLOCK FALSE
