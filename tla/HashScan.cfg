\* Scans beside a session that creates, removes and is killed.
SPECIFICATION FairSpec
CONSTANTS
  n1 = n1
  n2 = n2
  n3 = n3
  h1 = h1
  h2 = h2
  Names <- MCNames
  Buckets = {1, 2}
  HashNr <- MCHashNr
  Handles = {h1}
  Other = Other
  Nobody = Nobody
  IsData = TRUE
  MaxRec = 4
INVARIANTS
  ScanComplete
  ScanDistinct
PROPERTY CallsEnd
