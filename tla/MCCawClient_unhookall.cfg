\* A C++ and a Go client; Faz stays up.
CONSTANTS
  c1 = c1  c2 = c2
  Clients = {c1, c2}
  Kind <- CppAndGo
  Functions = {"caw", "read", "hashtag"}
  Typos = {"typo"}
  EventTypeIn <- Tables
  NoName = NoName
  MaxCommands = 2
  MaxDeaths = 0
SPECIFICATION Spec
INVARIANT UnhookAllUnhooks
CHECK_DEADLOCK FALSE
