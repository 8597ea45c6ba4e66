SPECIFICATION Spec
CONSTANTS
  Ops = {"send", "receipt", "thumbnail", "abort", "unwedge", "enable", "global"}
  Failures = {"recoverable", "unrecoverable", "lost", "crash"}
  MaxTxn = 4
  MaxFailures = 2
INVARIANTS
  TypeOK
  OneAtATime
  SentInOrder
  NothingLost
  ReceiptsMonotone
  AbortedUploadSendsNothing
CHECK_DEADLOCK FALSE
