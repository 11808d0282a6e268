CONSTANTS
  FD_SETSIZE = 3
  Event = {"READABLE", "WRITABLE"}
  Condition = {"IN", "OUT"}
  Garbage = Garbage
  ClosesFirst = FALSE
SPECIFICATION Spec
INVARIANT BufferFilled
