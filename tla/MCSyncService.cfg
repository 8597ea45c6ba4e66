SPECIFICATION FairSpec
CONSTANTS
  Users = {u1, u2}
  Calls = {"start", "stop", "expire"}
  OfflineModes = {TRUE, FALSE}
  MaxCalls = 3
  MaxErrors = 1
INVARIANTS NoOrphans ReportsAreFresh SessionsExpireTogether RecoversWithFewRooms
PROPERTY CallsEnd
