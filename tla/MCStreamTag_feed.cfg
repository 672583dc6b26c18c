\* Two streams of one tag, one death of Faz or of the store, clients that leave.
CONSTANTS
  Streams = {s1, s2}
  g1 = g1  g2 = g2
  Tags = {g1, g2}
  v1 = v1  v2 = v2
  Values = {v1, v2}
  Hashtag <- OneTag
  TagsOf <- TagsOfValue
  NoValue = NoValue
  Window = 1
  MaxPuts = 2
  MaxDeaths = 1
SPECIFICATION FairSpec
INVARIANTS TypeOK NothingLost NoSilentStream
PROPERTIES IsAFeed AllDelivered ErrorReported
CHECK_DEADLOCK FALSE
