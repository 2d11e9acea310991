SPECIFICATION Spec
CONSTANTS
  MaxChildren = 1
  MaxDepth = 1
INVARIANT NotifiedBeforeReturn
