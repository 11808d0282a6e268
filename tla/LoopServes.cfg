CONSTANTS
  NextTask = {n1}
  EveryTask = {e1}
  Timer = {}
  Fd = {f1, f2}
  NULL = NULL
  U64 = 2
  U32 = 2
  Delay = {0}
  Hint <- AnyHint
  Limit = 1
  sz = 2
  MaxClock = 1
SPECIFICATION FairSpec
PROPERTIES
  EventServed
  NextTickServed
