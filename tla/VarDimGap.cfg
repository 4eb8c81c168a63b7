\* Indices that were skipped are read.
SPECIFICATION Spec
CONSTANTS
  h = h
  Radix = 2
  Indices <- MCIndices
  Batches <- MCBatches
  Data <- MCData
  Handles = {h}
  Nowhere = Nowhere
  MaxBlocks = 14
  MaxPuts = 3
INVARIANT ReadsZeros
