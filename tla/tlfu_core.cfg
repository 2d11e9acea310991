\* Four keys over a cache of three, Frequency an int of 3 bits (-4..3), and keys
\* used up to 5 times: evictions among several keys, ties, frequencies whose
\* bucket empties while it is not the bucket of MinFreq, and use counts that pass
\* INT_MAX.  After those the cache may reach undefined behaviour and stop there.
SPECIFICATION Spec
CONSTANTS
  Keys = {a, b, c, d}
  Values = {v1, v2}
  SizeLimit = 3
  MaxFreq = 5
  IntMax = 3
CHECK_DEADLOCK FALSE
INVARIANTS
  TypeOK
  IndexConsistent
  CapacityRespected
  EvictionReady
PROPERTY ImplementsPolicy
SYMMETRY KeySymmetry
