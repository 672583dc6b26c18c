\* An unhook between the two lookups of an event.
CONSTANTS
  Workers = {w1, w2}
  EventTypes = {e1}
  Functions = {caw}
  StreamFunctions = {hashtag}
  NoName = NoName
  OtherNames = {other}
  Unhooked = Unhooked
  MaxRequests = 3
SPECIFICATION Spec
INVARIANT HookedAreFunctions
CHECK_DEADLOCK FALSE
