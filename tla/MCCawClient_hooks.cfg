\* A C++ and a Go client at the same time, four commands, one death of Faz.
CONSTANTS
  c1 = c1  c2 = c2
  Clients = {c1, c2}
  Kind <- CppAndGo
  Functions = {"caw", "read", "hashtag"}
  Typos = {"typo"}
  EventTypeIn <- Tables
  NoName = NoName
  MaxCommands = 4
  MaxDeaths = 1
SPECIFICATION Spec
INVARIANTS TypeOK EventRunsItsFunction HookAllReport UnhookAllReport
CHECK_DEADLOCK FALSE
