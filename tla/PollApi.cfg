CONSTANTS
  FD_SETSIZE = 2
  Data = {d1, d2}
  Event = {"READABLE", "WRITABLE"}
  Condition = {"IN", "OUT", "ERR", "HUP"}
  Cases <- AnyCase
  NULL = NULL
  sz = 2
SPECIFICATION Spec
SYMMETRY AnyData
INVARIANTS
  TypeOK
  FreshBuffer
  AsAsked
  DeletedFirst
PROPERTY ImplementsPollEngine
