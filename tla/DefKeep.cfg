\* Calls from the lastread structure and from a user variable beside it.
SPECIFICATION Spec
CONSTANTS
  e1 = e1
  e2 = e2
  c1 = c1
  d1 = d1
  g1 = g1
  v1 = v1
  NamesAt <- MCNamesFew
  Lists <- MCListsFew
  EasyNames = {d1}
  Vars = {v1}
  Keep = Keep
  Nowhere = Nowhere
  Given <- MCGivenFew
  MaxRec = 6
CONSTRAINT WhileClean
INVARIANTS
  TypeOK
  NoDangling
  FreshNeverRefused
  RemovesExactly
  FreshExact
  IndicesSound
