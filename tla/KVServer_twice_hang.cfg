\* A second SIGINT on a thread inside a put.
CONSTANTS
  Threads = {t1, t2}
  Main = Main  NoThread = NoThread  NoRequest = NoRequest
  Keys = {k1}
  Values = {v1, v2}
  Works = {TRUE}
  MaxCalls = 2
  MaxSignals = 2
  MaxKills = 0
  MaxRuns = 1
SPECIFICATION PromptSpec
PROPERTY ExitsAfterSignal
CHECK_DEADLOCK FALSE
