\* Three keys, limits 0 to 3 and one to three shards: limits that do not divide
\* evenly, shards without a place, keys that share a shard and keys that do not.
\* Frequency is -3..2, which the uses of a key pass.
SPECIFICATION Spec
CONSTANTS
  Keys = {0, 1, 2}
  Values = {v1}
  Threads = {t1, t2}
  NoKey = NoKey
  MaxLimit = 3
  MaxShards = 3
  MaxUses = 2
  IntMax = 2
CHECK_DEADLOCK FALSE
INVARIANTS
  TypeOK
  ShardsConsistent
  CapacityRespected
  EvictionReady
  NoUseLost
PROPERTY ShardImplementsPolicy
SYMMETRY ThreadSymmetry
