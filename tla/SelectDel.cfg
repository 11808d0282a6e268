CONSTANTS
  FD_SETSIZE = 3
  Event = {"READABLE"}
  Condition = {"IN"}
  Garbage = Garbage
  ClosesFirst = FALSE
SPECIFICATION Spec
INVARIANT RegisteredArePolled
