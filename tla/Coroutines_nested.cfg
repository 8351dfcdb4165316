SPECIFICATION Spec
CONSTANTS
  Main = Main
  Co = {c1}
  Nil = Nil
  MaxCCalls = 3
  HardLimit = 5
  MaxFrames = 6
  MaxNative = 5
  Faults = {"nested"}
INVARIANT KotlinOwnsFrame
CHECK_DEADLOCK FALSE
