\* At most one number of a kind, any strings, two variables beside the lastread structure.
SPECIFICATION Spec
CONSTANTS
  Slots = 2
  Ints = {"1", "2"}
  Reals = {"1.5"}
  Strings = {"text"}
  Empty = Empty
  Invalid = Invalid
  Blank = " "
  Zero = "0"
  Lists <- MCOne
  Behind <- MCBehind
  Vars = {v}
  v = v
  Keep = Keep
  Nowhere = Nowhere
INVARIANTS
  TypeOK
  MeansWhatWasAsked
  NamesApart
  DataKept
