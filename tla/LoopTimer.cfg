CONSTANTS
  NextTask = {n1}
  EveryTask = {}
  Timer = {t1, t2}
  Fd = {}
  NULL = NULL
  U64 = 8
  U32 = 8
  Delay = {1, 2}
  Hint <- AnyHint
  Limit = 2
  sz = 2
  MaxClock = 2
SPECIFICATION FairSpec
INVARIANT SleepsInTime
PROPERTY TimerServed
