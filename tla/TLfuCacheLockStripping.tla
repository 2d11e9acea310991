------------------------ MODULE TLfuCacheLockStripping ------------------------
(***************************************************************************)
(* LRUCache/TLfuCacheLockStripping.h: the keys are distributed over shards *)
(* by their hash, and each shard is an LFU cache of its own with its own   *)
(* shared_mutex and its part of the limit.                                 *)
(*                                                                         *)
(* A critical section of a shard is one step: under the shared lock        *)
(* nothing is written, under the unique one nobody else is there.  TryGet  *)
(* has two, with a gap between them.                                       *)
(***************************************************************************)
EXTENDS LfuIndex

CONSTANTS Threads,
          NoKey,      \* no key
          MaxLimit,   \* bound: the constructor's first argument
          MaxShards,  \* bound: the second
          MaxUses     \* bound: the uses of a key while it is stored

ASSUME StripingAssumption ==
  /\ Keys \subseteq Nat /\ NoKey \notin Keys
  /\ MaxLimit \in Nat /\ MaxShards \in Nat \ {0} /\ MaxUses \in Nat
  /\ IsFiniteSet(Keys) /\ IsFiniteSet(Threads)

VARIABLES SizeLimit, NumShards,
          shards,     \* KeyMap, FreqBuckets and MinFreq of each shard
          undefined,  \* back() was called on an empty list: anything may follow
          key,        \* the key each thread in TryGet has found, NoKey if it is not there
          uses,       \* history: the uses of each key while it is stored, begun or done
          recency,    \* history: the keys of each shard, the one last used (and counted) first
          watched     \* any one shard, for ShardImplementsPolicy

vars == <<SizeLimit, NumShards, shards, undefined, key, uses, recency, watched>>

ShardIds == 0 .. NumShards - 1

\* std::hash<int>, as libstdc++ has it.
Hash(k) == k

\* GetShard(key)
GetShard(k) == Hash(k) % NumShards

\* Mutant: one shard too many gets a place of the remainder.
CapacityOffByOne(i) == (SizeLimit \div NumShards) + (IF SizeLimit % NumShards >= i THEN 1 ELSE 0)

\* Shard::Capacity: the first shards share what does not divide evenly.
Capacity(i) == (SizeLimit \div NumShards) + (IF SizeLimit % NumShards > i THEN 1 ELSE 0)

Init ==
  /\ SizeLimit \in 0 .. MaxLimit /\ NumShards \in 1 .. MaxShards
  /\ shards = [i \in ShardIds |-> EmptyIndex]
  /\ undefined = FALSE
  /\ key = [t \in Threads |-> NoKey]
  /\ uses = << >> /\ recency = [i \in ShardIds |-> << >>]
  /\ watched \in ShardIds

Present(k) == k \in DOMAIN shards[GetShard(k)].keyMap

\* Mutant: the key enters its new bucket at the back.
UseToBack(c, k) ==
  IF k \in DOMAIN c.keyMap THEN UpdateFrequencyToBack(c, k) ELSE c

\* Mutant: a key that shares its bucket is not moved.
UseIfAlone(c, k) ==
  IF k \in DOMAIN c.keyMap /\ Len(BucketNear(c, k, 0)) = 1 THEN UpdateFrequency(c, k) ELSE c

\* UpdateFrequency(shard, key), with its early return for a key that is gone.
Use(c, k) == IF k \in DOMAIN c.keyMap THEN UpdateFrequency(c, k) ELSE c

\* shard.KeyMap.size() >= shard.Capacity
Full(i) == Cardinality(DOMAIN shards[i].keyMap) >= Capacity(i)

\* Mutant: the bucket keeps the key.
EvictFromMap(c) ==
  [keyMap |-> Without(c.keyMap, Victim(c)), freqBuckets |-> c.freqBuckets, minFreq |-> c.minFreq]

\* EvictLFU(shard), which unlike the other caches' leaves MinFreq alone: the Set
\* that calls it is about to write it.
Evict(c) ==
  [keyMap      |-> Without(c.keyMap, Victim(c)),
   freqBuckets |-> StoreBucket(c.freqBuckets, c.minFreq, Front(Bucket(c.freqBuckets, c.minFreq))),
   minFreq     |-> c.minFreq]

\* Mutant: a new key has not been used yet.
NewNodeUncounted(c, k, v) == InsertUncounted(c, k, v)

\* Mutant: MinFreq is not reset, unless the shard is empty.
NewNodeKeepingMinFreq(c, k, v) == InsertKeepingMinFreq(c, k, v)

\* The tail of Set: a new node.
NewNode(c, k, v) == Insert(c, k, v)

\* The shard of k becomes c.
StoreShard(k, c) == shards' = [shards EXCEPT ![GetShard(k)] = c]

\* history
Promote(order, k) == <<k>> \o RemoveFirst(order, k)
StoreOrder(k, order) == recency' = [recency EXCEPT ![GetShard(k)] = order]
PromoteInShard(k) == StoreOrder(k, Promote(recency[GetShard(k)], k))
Fresh(k) == uses[k] < MaxUses
CountUse(k) == uses' = [uses EXCEPT ![k] = @ + 1]

-----------------------------------------------------------------------------
\* TryGet's section under the shared lock, for a key that is there: its value is
\* copied.
Find(t, k) ==
  /\ key[t] = NoKey
  /\ Present(k) /\ Fresh(k)
  /\ key' = [key EXCEPT ![t] = k]
  /\ CountUse(k)
  /\ UNCHANGED <<SizeLimit, NumShards, watched, shards, undefined, recency>>

\* Its section under the unique lock: the key may be gone, or gone and come back.
Update(t) ==
  /\ key[t] # NoKey
  /\ StoreShard(key[t], Use(shards[GetShard(key[t])], key[t]))
  /\ IF Present(key[t]) THEN PromoteInShard(key[t]) ELSE UNCHANGED recency
  /\ key' = [key EXCEPT ![t] = NoKey]
  /\ UNCHANGED <<SizeLimit, NumShards, watched, undefined, uses>>

\* Set of a key that is there.
SetPresent(k, v) ==
  /\ SizeLimit > 0
  /\ Present(k) /\ Fresh(k)
  /\ StoreShard(k, Use(SetValue(shards[GetShard(k)], k, v), k))
  /\ CountUse(k)
  /\ PromoteInShard(k)
  /\ UNCHANGED <<SizeLimit, NumShards, watched, undefined, key>>

\* Set of a new key, with room for it or after EvictLFU has made room.
SetAbsent(k, v) ==
  /\ SizeLimit > 0
  /\ ~Present(k)
  /\ LET i    == GetShard(k)
         room == IF Full(i) THEN Evict(shards[i]) ELSE shards[i]
         kept == {x \in DOMAIN uses : GetShard(x) # i} \cup DOMAIN room.keyMap
     IN  /\ Full(i) => HasVictim(shards[i])
         /\ StoreShard(k, NewNode(room, k, v))
         /\ uses' = [x \in kept \cup {k} |-> IF x = k THEN 0 ELSE uses[x]]
         /\ StoreOrder(k, Promote(IF Full(i) THEN RemoveFirst(recency[i], Victim(shards[i]))
                                  ELSE recency[i], k))
  /\ UNCHANGED <<SizeLimit, NumShards, watched, undefined, key>>

\* Set of a new key for a full shard whose bucket of MinFreq is empty: EvictLFU
\* reads the back of an empty std::list.
SetWithoutVictim(k) ==
  /\ SizeLimit > 0
  /\ ~Present(k) /\ Full(GetShard(k)) /\ ~HasVictim(shards[GetShard(k)])
  /\ undefined' = TRUE
  /\ UNCHANGED <<SizeLimit, NumShards, watched, shards, key, uses, recency>>

Erase(k) ==
  /\ Present(k)
  /\ StoreShard(k, EraseKey(shards[GetShard(k)], k))
  /\ uses' = Without(uses, k)
  /\ StoreOrder(k, RemoveFirst(recency[GetShard(k)], k))
  /\ UNCHANGED <<SizeLimit, NumShards, watched, undefined, key>>

Next ==
  /\ ~undefined
  /\ \/ \E t \in Threads : Update(t) \/ \E k \in Keys : Find(t, k)
     \/ \E k \in Keys :
          \/ SetWithoutVictim(k) \/ Erase(k)
          \/ \E v \in Values : SetPresent(k, v) \/ SetAbsent(k, v)

Spec == Init /\ [][Next]_vars

-----------------------------------------------------------------------------
(***************************************************************************)
(* Properties.                                                             *)
(***************************************************************************)
TypeOK ==
  /\ SizeLimit \in 0 .. MaxLimit /\ NumShards \in 1 .. MaxShards
  /\ DOMAIN shards = ShardIds /\ \A i \in ShardIds : IndexType(shards[i])
  /\ undefined \in BOOLEAN
  /\ key \in [Threads -> Keys \cup {NoKey}]
  /\ uses \in [{k \in Keys : Present(k)} -> 0 .. MaxUses]
  /\ recency \in [ShardIds -> Seq(Keys)]
  /\ watched \in ShardIds

\* Every shard's KeyMap and FreqBuckets agree, and a key is only ever in the shard
\* of its hash, so that no key is stored twice.
ShardsConsistent ==
  \A i \in ShardIds :
    /\ BucketsMatchKeys(shards[i])
    /\ \A k \in DOMAIN shards[i].keyMap : GetShard(k) = i

\* The shards' parts add up to the limit: together they never hold more than
\* SizeLimit keys, though each looks only at its own capacity and no lock is held
\* on two of them, and where all of them are full they hold no less.
CapacityRespected ==
  LET stored == Cardinality({k \in Keys : Present(k)})
  IN  stored <= SizeLimit /\ ((\A i \in ShardIds : Full(i)) => stored = SizeLimit)

\* No use count of a key of the shard has passed INT_MAX, or all trace of it is
\* gone: Node::freq has 64 bits, and the buckets' frequencies, which are ints, are
\* counts (until a count comes full circle, after 2^32 uses).
CountsFit(i) == \A f \in DOMAIN shards[i].freqBuckets : f > 0

\* Whenever a shard is full, so that the next Set of a new key evicts, MinFreq is
\* exact and its bucket has a key, unless the shard has no place at all or a count
\* in it has passed INT_MAX.  Other calls leave MinFreq stale; every thread that
\* fills a shard again resets it in the same critical section.
EvictionReady ==
  \A i \in ShardIds :
    Full(i) /\ CountsFit(i) => Capacity(i) = 0 \/ MinFreqExact(shards[i])

\* The threads in TryGet between their two sections, with key k.
Pending(k) == {t \in Threads : key[t] = k}

\* Every TryGet that finds its key and every Set of it is counted in the frequency
\* or about to be, whatever other threads do to the shard between the sections.
NoUseLost ==
  \A k \in DOMAIN uses :
    1 + uses[k] <= shards[GetShard(k)].keyMap[k].freq + Cardinality(Pending(k))

\* Every shard is an LFU cache of Capacity keys, as long as its counts fit in an int:
\* whatever happens in it, and in the others, is an operation of the policy or
\* changes nothing in it.
Policy ==
  INSTANCE LfuPolicy
    WITH store   <- shards[watched].keyMap,
         recency <- recency[watched],
         limit   <- Capacity(watched)
ShardImplementsPolicy == Policy!Init /\ [][CountsFit(watched) => Policy!Next]_Policy!vars
=============================================================================
