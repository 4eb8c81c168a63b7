\* Sessions on a layer, killed and reopened.
SPECIFICATION Spec
CONSTANTS
  LayerTypes = {3, 5, 15, 11, 28, 31}
  Shapes <- MCShapes
  MaxShapes = 2
  MaxPuts = 4
  Junk = 99
  Separator = Separator
  Fields <- MCFields
  Values = {1, 27}
  MaxFields = 2
  MaxRows = 2
  MaxWrites = 4
  NoRow = NoRow
CONSTRAINT WhileWhole
INVARIANTS
  TypeOK
  ShapesReadBack
  KillKeepsShapes
  BoundsCover
  RingsWound
  ReaderFindsParts
  RowsReadBack
  KillKeepsRows
