SPECIFICATION Spec
CONSTANTS
  Ops = {"thumbnail", "abort"}
  Failures = {}
  MaxTxn = 3
  MaxFailures = 0
INVARIANTS
  AbortedUploadIsGone
CHECK_DEADLOCK FALSE
