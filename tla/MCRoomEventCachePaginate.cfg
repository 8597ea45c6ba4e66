SPECIFICATION FairSpec
CONSTANTS
  Cap = 2
  Pagers = {p1, p2}
  MaxEvents = 3
  Own = {}
  Muted = {2,3}
  Limit = 2
  Batch = 1
  Ops = {"resync","ignore","restart","shrink","lag","fail"}
  MaxDisturb = 1

PROPERTY PaginationReachesStart ReachedStartIsTrue
CHECK_DEADLOCK FALSE
