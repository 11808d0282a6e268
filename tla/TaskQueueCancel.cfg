CONSTANTS
  Task = {t1, t2, t3, t4}
  ListHead = ListHead
  NULL = NULL
  SafeCancels = FALSE
SPECIFICATION Spec
INVARIANT SafeAgainstRemoval
CHECK_DEADLOCK FALSE
