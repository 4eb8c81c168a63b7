\* Sessions of calls of mexnc.
SPECIFICATION Spec
CHECK_DEADLOCK FALSE
CONSTANTS
  Ids = {0, 1}
  Undef = Undef
  Fill = Fill
  NoFile = NoFile
  NaN = NaN
  Unknown = Unknown
  Missing = Missing
  MaxVarDims = 4
  Paths = {"p", "q"}
  Begins <- MCBegins
  Calls <- MCCalls
  Scripts <- MCScripts
  Twins <- MCTwins
  Values <- MCValues
  MaxCalls = 2
INVARIANTS
  TypeOK
  NoErrorIsFatal
  RaisesKeepFiles
  NoGarbage
  TwoApisAgree
  ScaledRoundTrip
  ShapeReversed
  VarmTransposes
  RecordRoundTrip
