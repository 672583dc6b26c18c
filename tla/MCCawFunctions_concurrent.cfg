\* Two requests at a time, one crash of Faz and one failed remote call.
CONSTANTS
  Workers = {w1, w2}
  Users = {u1, u2}
  Hooked <- AllFunctions
  NoParent = NoParent
  MaxRequests = 5
  MaxFailures = 1
  MaxCrashes = 1
  MaxThread = 5
SPECIFICATION Spec
SYMMETRY Symmetry
INVARIANTS TypeOK CawsGrounded ChildrenExact FollowMirror AnswerTrue
CHECK_DEADLOCK FALSE
