CONSTANTS
  NextTask = {n1}
  EveryTask = {e1}
  Timer = {t1}
  Fd = {f1, f2}
  NULL = NULL
  U64 = 2
  U32 = 2
  Delay = {0}
  Hint <- AnyHint
  Limit = 2
  sz = 2
  MaxClock = 1
SPECIFICATION Spec
INVARIANTS
  TypeOK
PROPERTY EventsKept
