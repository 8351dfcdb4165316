SPECIFICATION Spec
CONSTANTS
  Main = Main
  Co = {c1, c2}
  Nil = Nil
  MaxCCalls = 3
  HardLimit = 5
  MaxFrames = 7
  MaxNative = 7
  Faults = {}
INVARIANTS
  TypeOK
  KotlinOwnsFrame
  ContinuationThere
  CallsCounted
  YieldableIfUnwindable
  StatusTells
PROPERTIES
  ErrorsGoInnermost
  ActivationsSpec
SYMMETRY CoSymmetry
CHECK_DEADLOCK FALSE
