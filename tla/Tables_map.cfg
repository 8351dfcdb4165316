SPECIFICATION WalkSpec
CONSTANTS
  MaxIndex = 5
  x = x
  Object = {x}
  Val = {a}
  Nil = Nil
  Hashes <- SomeHashes
  MaxSize = 64
  Rooms <- SomeRooms
INVARIANTS
  TypeOK
  NoRehashInRehash
  BoundaryRight
  MapKept
  TraversalExact
