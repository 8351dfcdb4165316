SPECIFICATION Spec
CONSTANTS
  Plain = Plain
  Fn = Fn
  Handler = Handler
  Message = Message
  Lists <- ListsUpTo
  MaxList = 1
  LibSlots = 1
  MaxCCalls = 3
  MaxStack = 7
  MaxNative = 5
  MaxCI = 7
  Faults = {}
INVARIANTS
  TypeOK
  FrameDiscipline
  JumpTarget
  NoJumpOverKotlin
  HandlersInPlace
  OutcomeFaithful
  OwnFramesOnly
PROPERTY ViewsSpec
