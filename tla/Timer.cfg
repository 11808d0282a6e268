CONSTANTS
  Timer = {t1, t2}
  NULL = NULL
  U64 = 4
  U32 = 4
  Clock = {0, 1}
  Delay = {0, 1, 3}
  MaxTimes <- Limits
SPECIFICATION HFairSpec
INVARIANTS
  Sorted
  BatchAlive
  NeverEarly
  OnceEach
  DueServed
  LostOnlyByOverrun
PROPERTY WalkEnds
