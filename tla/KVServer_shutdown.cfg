\* Two lives of the process, two SIGINTs each, one death from outside.
CONSTANTS
  Threads = {t1, t2}
  Main = Main  NoThread = NoThread  NoRequest = NoRequest
  Keys = {k1, k2}
  Values = {v1}
  Works = {TRUE, FALSE}
  MaxCalls = 2
  MaxSignals = 2
  MaxKills = 1
  MaxRuns = 2
SPECIFICATION FairSpec
INVARIANTS TypeOK 
PROPERTY ExitsIfCallbacksReturn
CHECK_DEADLOCK FALSE
