\* Four keys over a cache of three, and an address more than it has nodes: an
\* address is used again at once, later, or by a key that was there before.
SPECIFICATION Spec
CONSTANTS
  Keys = {a, b, c, d}
  Values = {v1, v2}
  SizeLimit = 3
  Addresses = {n1, n2, n3, n4}
INVARIANTS
  TypeOK
  MapMatchesList
PROPERTIES
  PointersStay
  ImplementsPolicy
