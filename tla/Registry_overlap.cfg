SPECIFICATION Spec
CONSTANTS
  Object = {o1, o2, o3}
  Val = {a, b}
  Nil = Nil
  Nothing = Nothing
  MaxSlots = 4
  Faults = {"overlap"}
INVARIANT RefsHoldTheirValue
SYMMETRY Symmetry
CHECK_DEADLOCK FALSE
