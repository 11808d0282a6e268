CONSTANTS
  ListHead = {h1, h2}
  Entry = {a, b, c}
  NULL = NULL
SPECIFICATION EitherSpec
SYMMETRY Entries
INVARIANTS
  BothWays
  OffApart
PROPERTIES
  ImplementsDeques
  SinglyListIsDeques
