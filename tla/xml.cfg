\* Every tree of at most two children per node and three levels: a single node,
\* chains, siblings of different depths, the full tree with four leaves.
SPECIFICATION XmlSpec
CONSTANTS
  MaxChildren = 2
  MaxDepth = 2
INVARIANTS
  XmlTypeOK
  PartialResults
  OnlyNotifyLate
PROPERTY CallsReturn
