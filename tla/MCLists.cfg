SPECIFICATION Spec
CONSTANTS
  h1 = h1
  h2 = h2
  e1 = e1
  e2 = e2
  e3 = e3
  Heads = {h1, h2}
  Entries = {e1, e2, e3}
  Junk <- MCJunk
  NULL = NULL
INVARIANTS TypeOK Represents
PROPERTIES PopTakesNewest ImplementsListsAbs
