\* Three keys over a cache of two, two threads in TryGet while others call Set and
\* Erase, and thresholds 0 to 2: readers that meet the threshold together, keys
\* that are evicted and stored again while a reader waits for the unique lock.
SPECIFICATION Spec
CONSTANTS
  Keys = {a, b, c}
  Values = {v1}
  NoKey = NoKey
  Threads = {t1, t2}
  SizeLimit = 2
  MaxThreshold = 2
  MaxUses = 3
  IntMax = 7
INVARIANTS
  TypeOK
  IndexConsistent
  FrequencyEarned
  LagBounded
PROPERTY ImplementsPolicy
SYMMETRY Symmetry
