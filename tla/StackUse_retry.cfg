SPECIFICATION Spec
CONSTANTS
  MinStack = 20
  Libraries = 7
  MaxArgs = 2
  MaxResults = 20
  MaxDepth = 2
INVARIANT TopWithinFrame
