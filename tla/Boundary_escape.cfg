SPECIFICATION Spec
CONSTANTS
  Plain = Plain
  Fn = Fn
  Handler = Handler
  Message = Message
  Lists <- ListsUpTo
  MaxList = 1
  LibSlots = 1
  MaxCCalls = 3
  MaxStack = 6
  MaxNative = 4
  MaxCI = 6
  Faults = {"escape"}
INVARIANT FrameDiscipline
CHECK_DEADLOCK FALSE
