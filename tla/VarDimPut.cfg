\* Records are written under growing indices, with errors and kills in between.
SPECIFICATION Spec
CONSTANTS
  h = h
  Radix = 2
  Indices <- MCIndices
  Batches <- MCBatches
  Data <- MCData
  Handles = {h}
  Nowhere = Nowhere
  MaxBlocks = 14
  MaxPuts = 3
INVARIANTS
  TypeOK
  PointersApart
  WrittenIsFound
  ScanExact
  NewDimExact
  ReadsBack
