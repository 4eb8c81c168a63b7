\* Two integer attributes.
SPECIFICATION Spec
CONSTANTS
  Slots = 2
  Ints = {"1", "2"}
  Reals = {"1.5"}
  Strings = {"text"}
  Empty = Empty
  Invalid = Invalid
  Blank = " "
  Zero = "0"
  Lists <- MCTwo
  Behind <- MCBehind
  Vars = {v}
  v = v
  Keep = Keep
  Nowhere = Nowhere
INVARIANT DataKept
