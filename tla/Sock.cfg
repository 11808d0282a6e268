CONSTANTS
  Fd = {1, 2}
  NoFd = NoFd
  Address = 2
SPECIFICATION Spec
INVARIANTS
  TypeOK
  NothingLost
  HeldOpen
PROPERTIES
  ReturnedFit
  CallEnds
CHECK_DEADLOCK FALSE
