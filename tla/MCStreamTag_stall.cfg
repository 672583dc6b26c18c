\* One stream whose client leaves, and four Puts; no process dies.
CONSTANTS
  Streams = {s1}
  g1 = g1  g2 = g2
  Tags = {g1, g2}
  v1 = v1  v2 = v2
  Values = {v1}
  Hashtag <- OneTag
  TagsOf <- TagsOfValue
  NoValue = NoValue
  Window = 1
  MaxPuts = 4
  MaxDeaths = 0
SPECIFICATION FairSpec
PROPERTY PutReturns
CHECK_DEADLOCK FALSE
