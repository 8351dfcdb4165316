SPECIFICATION Spec
CONSTANTS
  Object = {o1, o2, o3}
  Val = {a, b}
  Nil = Nil
  Nothing = Nothing
  MaxSlots = 4
  Faults = {}
INVARIANTS
  TypeOK
  RefsHoldTheirValue
  NoAliasing
  LinksSound
  NoUseAfterClose
PROPERTIES
  NoSlotWasted
CHECK_DEADLOCK FALSE
