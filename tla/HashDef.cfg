\* A definition table under stale structures, kills and a concurrent reader.
SPECIFICATION Spec
CONSTANTS
  n1 = n1
  n2 = n2
  n3 = n3
  h1 = h1
  h2 = h2
  Names <- MCNames
  Buckets = {1, 2}
  HashNr <- MCHashNr
  Handles <- MCHandles
  Other = Other
  Nobody = Nobody
  IsData = FALSE
  MaxRec = 3
SYMMETRY HandleSymmetry
INVARIANTS
  TypeOK
  ChainOK
  FreshExact
PROPERTY ImplementsStore
