\* Three threads hook, unhook and call one event type.
CONSTANTS
  Workers = {w1, w2, w3}
  EventTypes = {e1}
  Functions = {caw}
  StreamFunctions = {hashtag}
  NoName = NoName
  OtherNames = {other}
  Unhooked = Unhooked
  MaxRequests = 4
SPECIFICATION Spec
SYMMETRY Symmetry
INVARIANTS TypeOK EventAnswer
CHECK_DEADLOCK FALSE
