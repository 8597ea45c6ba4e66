SPECIFICATION Spec
CONSTANTS
  Ops = {"receipt", "thumbnail", "redact", "react", "reply", "edit", "verify", "unwedge", "disable"}
  Failures = {"store", "fetch", "crash", "unrecoverable"}
  MaxTxn = 5
  MaxFailures = 2
INVARIANTS
  ParentFirst
  CausalInv
  NothingLost
CHECK_DEADLOCK FALSE
