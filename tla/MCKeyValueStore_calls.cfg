\* Two threads, two keys, two callbacks, a value with a repeated tag.
CONSTANTS
  Threads = {t1, t2}
  Keys = {k1, k2}
  v1 = v1  v2 = v2
  Values = {v1, v2}
  g1 = g1  g2 = g2
  Tags = {g1, g2}
  Subs = {s1, s2}
  TagsOf <- TagsOfValues
  MaxCalls = 4
  NoThread = NoThread  NoRequest = NoRequest  NoReply = NoReply
SPECIFICATION FairSpec
INVARIANTS TypeOK LockHeld DeliveryExact AcceptedOrErased CallState
PROPERTIES Linearizable EveryCallReturns
CHECK_DEADLOCK FALSE
