\* Two posts at once; then the thread of the first caw is read.
CONSTANTS
  Workers = {w1, w2}
  Users = {u1}
  Hooked = {"registeruser", "caw", "read"}
  NoParent = NoParent
  MaxRequests = 5
  MaxFailures = 0
  MaxCrashes = 0
  MaxThread = 5
SPECIFICATION FairSpec
PROPERTY EveryRequestAnswered
CHECK_DEADLOCK FALSE
