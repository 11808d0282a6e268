CONSTANTS
  Node = {n1, n2, n3}
  Header = Header
  NULL = NULL
  Level = 2
  Score = {0, 1}
SPECIFICATION Spec
INVARIANTS
  TypeOK
  LevelsNested
  ExtractedApart
PROPERTY ImplementsOrderedList
