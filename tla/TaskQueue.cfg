CONSTANTS
  Task = {t1, t2, t3, t4}
  ListHead = ListHead
  NULL = NULL
  SafeCancels = TRUE
SPECIFICATION HFairSpec
INVARIANTS
  TypeOK
  ListSound
  RingWhole
  NoLeak
  CursorAlive
  CursorOnRing
PROPERTIES
  PassServesAll
  ImplementsFifo
  PassEnds
