\* A removal from a structure that went stale in a failed call.
SPECIFICATION Spec
CONSTANTS
  e1 = e1
  e2 = e2
  c1 = c1
  d1 = d1
  g1 = g1
  v1 = v1
  NamesAt <- MCNames
  Lists <- MCLists
  EasyNames = {d1}
  Vars = {}
  Keep = Keep
  Nowhere = Nowhere
  Given <- MCGiven
  MaxRec = 7
INVARIANTS
  DefinedOnFile
