\* One request at a time, nothing fails: what the tests assume.
CONSTANTS
  Workers = {w1}
  Users = {u1, u2}
  Hooked <- AllFunctions
  NoParent = NoParent
  MaxRequests = 6
  MaxFailures = 0
  MaxCrashes = 0
  MaxThread = 6
SPECIFICATION FairSpec
INVARIANTS UsersUnique IdsDense IdsUnique ThreadsAreTrees FollowOnce ReadIsPreorder
PROPERTY EveryRequestAnswered
CHECK_DEADLOCK FALSE
