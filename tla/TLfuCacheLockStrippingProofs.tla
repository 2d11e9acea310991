--------------------- MODULE TLfuCacheLockStrippingProofs ---------------------
(***************************************************************************)
(* Theorems about TLfuCacheLockStripping, for every set of threads, keys   *)
(* and values, every limit and number of shards, and use counts with or    *)
(* without overflow of int:                                                *)
(*   - types, agreement of the maps, the limit and the counting of uses,   *)
(*     whatever the counts;                                                *)
(*   - EvictionReady and ShardImplementsPolicy as long as no count comes   *)
(*     full circle (NoLap: 2^32 uses of one key), and, while counts fit in *)
(*     an int, undefined behaviour only in a shard without a place.        *)
(* Past INT_MAX the last is false, as it is of TLfuCache.                  *)
(***************************************************************************)
EXTENDS TLfuCacheLockStripping, LfuIndexProofs, FunctionTheorems

-----------------------------------------------------------------------------
(***************************************************************************)
(* The inductive invariant.                                                *)
(***************************************************************************)
NumThreads == Cardinality(Threads)

\* The highest frequency a key can reach: a key that was evicted and stored again
\* may be used by the threads that found it before.
MaxFreq == 1 + MaxUses + NumThreads

\* No count comes full circle.
NoLap == MaxFreq <= 2 * (IntMax + 1)

\* The frequencies of the buckets of c are counts.
Fits(c) == \A f \in DOMAIN c.freqBuckets : f > 0

\* A shard with room for n keys: if it is full and its counts fit in an int, it
\* knows its least frequency.  A shard without a place is empty.
ShardGood(c, r, n) ==
  /\ Agreed(c) /\ Ordered(c, r)
  /\ \A k \in DOMAIN c.keyMap : c.keyMap[k].freq <= MaxFreq
  /\ Cardinality(DOMAIN c.keyMap) <= n
  /\ NoLap /\ Cardinality(DOMAIN c.keyMap) >= n /\ n > 0 /\ Fits(c) => MinFreqExact(c)

\* The frequency of a stored key.
StoredFreq(k) == shards[GetShard(k)].keyMap[k].freq

(***************************************************************************)
(* A key of frequency f with u uses, and n threads in TryGet with it.  The *)
(* frequency counts no use that has not begun, except those of threads     *)
(* that found the key before it was evicted and stored again, one each.    *)
(***************************************************************************)
Counted(f, u, n) == 1 + u <= f + n /\ f + n <= 1 + u + NumThreads

ShardsInv ==
  /\ SizeLimit \in 0 .. MaxLimit /\ NumShards \in 1 .. MaxShards /\ watched \in ShardIds
  /\ DOMAIN shards = ShardIds /\ recency \in [ShardIds -> Seq(Keys)]
  /\ \A i \in ShardIds : /\ ShardGood(shards[i], recency[i], Capacity(i))
                         /\ \A k \in DOMAIN shards[i].keyMap : GetShard(k) = i

\* back() has been called on an empty list only where a shard has no place, or has
\* a use count past INT_MAX.
UndefinedOnlyBeyond ==
  undefined => SizeLimit < NumShards \/ \E i \in ShardIds : ~CountsFit(i)

IInv ==
  /\ ShardsInv /\ undefined \in BOOLEAN
  /\ key \in [Threads -> Keys \cup {NoKey}]
  /\ uses \in [{k \in Keys : Present(k)} -> 0 .. MaxUses]
  /\ \A k \in DOMAIN uses : Counted(StoredFreq(k), uses[k], Cardinality(Pending(k)))
  /\ NoLap => UndefinedOnlyBeyond

-----------------------------------------------------------------------------
(***************************************************************************)
(* The constants, and the distribution of keys and limit.                  *)
(***************************************************************************)
\* What is known of the constants.
LEMMA Constants ==
  /\ NumThreads \in Nat /\ IsFiniteSet(Threads) /\ IsFiniteSet(Keys)
  /\ MaxUses \in Nat /\ IntMax \in Nat /\ IntMax > 0
  /\ MaxFreq \in Nat /\ MaxFreq = 1 + MaxUses + NumThreads
  /\ \A k \in Keys : k \in Nat /\ k # NoKey
<1>1. NumThreads \in Nat
  BY StripingAssumption, FS_CardinalityType DEF NumThreads
<1>2. MaxUses \in Nat /\ IntMax \in Nat /\ IntMax > 0
  BY StripingAssumption, IntMaxAssumption
<1>3. MaxFreq \in Nat /\ MaxFreq = 1 + MaxUses + NumThreads
  BY <1>1, <1>2 DEF MaxFreq
<1>. QED  BY <1>1, <1>2, <1>3, StripingAssumption DEF NumThreads

\* Division with remainder.
LEMMA Division ==
  ASSUME NEW n \in Nat, NEW d \in Nat \ {0}
  PROVE  /\ n \div d \in Nat /\ n % d \in 0 .. d - 1
         /\ n = d * (n \div d) + (n % d)
<1>1. n \div d \in Int /\ n \div d >= 0
  OBVIOUS
<1>2. n \div d \in Nat
  BY <1>1
<1>3. n % d \in 0 .. d - 1
  OBVIOUS
<1>4. n = d * (n \div d) + (n % d)
  OBVIOUS
<1>. QED  BY <1>2, <1>3, <1>4, Zenon

\* Every key has a shard, and every shard a part of the limit, which is 0 only if
\* there are more shards than places.
LEMMA Distribution ==
  ASSUME SizeLimit \in 0 .. MaxLimit, NumShards \in 1 .. MaxShards
  PROVE  /\ SizeLimit \in Nat /\ NumShards \in Nat \ {0}
         /\ \A k \in Keys : GetShard(k) \in ShardIds
         /\ \A i \in ShardIds : i \in Nat /\ Capacity(i) \in Nat
         /\ \A i \in ShardIds : Capacity(i) = 0 => SizeLimit < NumShards
<1>1. SizeLimit \in Nat /\ NumShards \in Nat \ {0}
  BY StripingAssumption
<1>2. \A k \in Keys : GetShard(k) \in ShardIds
  BY <1>1, Constants, Division DEF GetShard, Hash, ShardIds
<1> DEFINE q == SizeLimit \div NumShards
           m == SizeLimit % NumShards
<1>3. /\ q \in Nat /\ m \in 0 .. NumShards - 1
      /\ SizeLimit = NumShards * q + m
  BY <1>1, Division, Zenon
<1>4. \A i \in ShardIds : i \in Nat /\ Capacity(i) = q + (IF m > i THEN 1 ELSE 0)
  BY <1>1 DEF Capacity, ShardIds
<1>. HIDE DEF q, m
<1>5. q = 0 => SizeLimit < NumShards
  BY <1>1, <1>3
<1>6. \A i \in ShardIds : Capacity(i) \in Nat /\ (Capacity(i) = 0 => SizeLimit < NumShards)
  BY <1>3, <1>4, <1>5
<1>. QED  BY <1>1, <1>2, <1>4, <1>6

-----------------------------------------------------------------------------
(***************************************************************************)
(* The threads in TryGet.                                                  *)
(***************************************************************************)
\* The threads that have found a key are some of the threads.
LEMMA PendingCounted ==
  ASSUME NEW k
  PROVE  /\ IsFiniteSet(Pending(k))
         /\ Cardinality(Pending(k)) \in Nat /\ Cardinality(Pending(k)) <= NumThreads
         /\ \A t \in Pending(k) : /\ Cardinality(Pending(k)) > 0
                                  /\ Cardinality(Pending(k) \ {t}) = Cardinality(Pending(k)) - 1
         /\ \A t \in Threads \ Pending(k) :
              Cardinality(Pending(k) \cup {t}) = Cardinality(Pending(k)) + 1
<1> DEFINE R == Pending(k)
<1>1. R \subseteq Threads /\ IsFiniteSet(Threads)
  BY Constants DEF Pending
<1>. HIDE DEF R
<1>2. IsFiniteSet(R) /\ Cardinality(R) <= NumThreads
  BY <1>1, FS_Subset DEF NumThreads
<1>3. Cardinality(R) \in Nat
  BY <1>2, FS_CardinalityType
<1>4. ASSUME NEW t \in R  PROVE Cardinality(R) > 0 /\ Cardinality(R \ {t}) = Cardinality(R) - 1
  <2>1. Cardinality(R \ {t}) = Cardinality(R) - 1
    BY <1>2, FS_RemoveElement
  <2>2. R \ {t} \subseteq R
    OBVIOUS
  <2>3. IsFiniteSet(R \ {t})
    BY <1>2, <2>2, FS_Subset
  <2>4. Cardinality(R \ {t}) \in Nat
    BY <2>3, FS_CardinalityType
  <2>. QED  BY <1>3, <2>1, <2>4
<1>5. ASSUME NEW t \in Threads \ R  PROVE Cardinality(R \cup {t}) = Cardinality(R) + 1
  BY <1>2, FS_AddElement
<1>. QED  BY <1>2, <1>3, <1>4, <1>5 DEF R

-----------------------------------------------------------------------------
(***************************************************************************)
(* The operations on one shard c, with the order r of the last uses of its *)
(* keys and room for n of them.                                            *)
(***************************************************************************)
\* The keys of a shard can be counted.
LEMMA ShardSize ==
  ASSUME NEW c, Agreed(c)
  PROVE  /\ DOMAIN c.keyMap \subseteq Keys /\ IsFiniteSet(DOMAIN c.keyMap)
         /\ Cardinality(DOMAIN c.keyMap) \in Nat
<1>1. DOMAIN c.keyMap \subseteq Keys
  BY DEF Agreed, IndexType
<1>2. IsFiniteSet(DOMAIN c.keyMap)
  BY <1>1, Constants, FS_Subset
<1>. QED  BY <1>1, <1>2, FS_CardinalityType

\* An empty shard.
LEMMA EmptyGood ==
  ASSUME NEW n \in Nat
  PROVE  ShardGood(EmptyIndex, << >>, n)
<1>1. PICK c : c = EmptyIndex
  OBVIOUS
<1>2. DOMAIN c.keyMap = {}
  BY <1>1 DEF EmptyIndex
<1>3. Cardinality(DOMAIN c.keyMap) = 0
  BY <1>2, FS_EmptySet
<1>4. Agreed(c) /\ Ordered(c, << >>)
  BY <1>1, EmptyIndexSound, SoundAgreed
<1>. QED  BY <1>1, <1>2, <1>3, <1>4 DEF ShardGood

\* Where every bucket is that of a count and none has come full circle, every
\* count fits in an int: a key whose count does not is in a bucket of its own.
LEMMA CountsFitSound ==
  ASSUME NEW c, Agreed(c), Fits(c), NoLap,
         \A k \in DOMAIN c.keyMap : c.keyMap[k].freq <= MaxFreq
  PROVE  Sound(c)
<1>1. ASSUME NEW k \in DOMAIN c.keyMap  PROVE c.keyMap[k].freq <= IntMax
  <2>1. PICK n \in Nat : n = c.keyMap[k].freq
    BY DEF Agreed, IndexType
  <2>2. PICK f \in Frequencies : f = ToFrequency(n)
    BY <2>1, AgreedBuckets
  <2>3. k \in Keys /\ Contains(Bucket(c.freqBuckets, f), k)
        /\ Bucket(c.freqBuckets, f) \in Seq(Keys)
    BY <2>1, <2>2, AgreedBuckets DEF Agreed, IndexType
  <2>4. Bucket(c.freqBuckets, f) # << >>
    BY <2>3, EmptyContains
  <2>5. f > 0
    BY <2>4 DEF Bucket, Fits
  <2>6. n <= 2 * (IntMax + 1)
    BY <2>1, Constants DEF NoLap
  <2>. QED  BY <2>1, <2>2, <2>5, <2>6, ToFrequencyBeyond
<1>. QED  BY <1>1 DEF Sound, Agreed

\* A counted use.  A use that takes a count past INT_MAX leaves a bucket that is
\* no count; before such a use no bucket was one.
LEMMA UseGood ==
  ASSUME NEW c, NEW r, NEW n \in Nat, ShardGood(c, r, n),
         NEW k \in DOMAIN c.keyMap, c.keyMap[k].freq < MaxFreq,
         NEW d, d = Use(c, k), NEW p, p = MovedToFront(r, k)
  PROVE  /\ ShardGood(d, p, n)
         /\ d.keyMap = [c.keyMap EXCEPT ![k] = [value |-> c.keyMap[k].value,
                                                freq |-> @.freq + 1]]
<1>1. /\ d = UpdateFrequency(c, k) /\ Agreed(c) /\ Ordered(c, r)
      /\ \A x \in DOMAIN c.keyMap : c.keyMap[x].freq <= MaxFreq
  BY DEF Use, ShardGood
<1>2. PICK m \in Nat : m = c.keyMap[k].freq /\ m > 0 /\ m < MaxFreq
  BY <1>1 DEF Agreed, IndexType
<1>3. Agreed(d) /\ d.keyMap = [c.keyMap EXCEPT ![k].freq = @ + 1]
  BY <1>1, UpdateFrequencyAgreed
<1>4. Ordered(d, p)
  BY <1>1, UpdateFrequencyOrdered
<1>5. c.keyMap \in [DOMAIN c.keyMap -> [value : Values, freq : Nat \ {0}]]
  BY <1>1 DEF Agreed, IndexType
<1>6. d.keyMap = [c.keyMap EXCEPT ![k] = [value |-> c.keyMap[k].value, freq |-> @.freq + 1]]
  BY <1>3, <1>5
<1>7. /\ DOMAIN d.keyMap = DOMAIN c.keyMap
      /\ \A x \in DOMAIN d.keyMap : d.keyMap[x].freq <= MaxFreq
  <2>1. DOMAIN d.keyMap = DOMAIN c.keyMap
    BY <1>6
  <2>2. \A x \in DOMAIN d.keyMap : d.keyMap[x].freq = IF x = k THEN m + 1 ELSE c.keyMap[x].freq
    BY <1>2, <1>6
  <2>. QED  BY <1>1, <1>2, <2>1, <2>2, Constants
<1>8. ASSUME NoLap, Cardinality(DOMAIN d.keyMap) >= n, n > 0, Fits(d)
      PROVE  MinFreqExact(d)
  <2>1. /\ ToFrequency(m + 1) \in DOMAIN d.freqBuckets
        /\ \A f \in DOMAIN c.freqBuckets : f \in DOMAIN d.freqBuckets \/ f = m
    BY <1>1, <1>2, UpdateFrequencyDomain
  <2>2. Fits(c) /\ ToFrequency(m + 1) > 0
    BY <1>2, <1>8, <2>1 DEF Fits
  <2>3. MinFreqExact(c)
    BY <1>7, <1>8, <2>2 DEF ShardGood
  <2>4. Sound(c)
    BY <1>1, <1>8, <2>2, CountsFitSound
  <2>5. m + 1 \in Nat /\ m + 1 <= 2 * (IntMax + 1)
    BY <1>2, <1>8, Constants DEF NoLap
  <2>6. m + 1 <= IntMax
    BY <2>2, <2>5, ToFrequencyBeyond
  <2>7. c.keyMap[k].freq < IntMax
    BY <1>2, <2>6, Constants
  <2>. QED  BY <1>1, <2>3, <2>4, <2>7, UpdateFrequencySound
<1>9. Cardinality(DOMAIN d.keyMap) <= n
  BY <1>7 DEF ShardGood
<1>. QED  BY <1>3, <1>4, <1>6, <1>7, <1>8, <1>9 DEF ShardGood

\* A new value, which is a use as well.
LEMMA WriteGood ==
  ASSUME NEW c, NEW r, NEW n \in Nat, ShardGood(c, r, n),
         NEW k \in DOMAIN c.keyMap, c.keyMap[k].freq < MaxFreq, NEW v \in Values,
         NEW d, d = Use(SetValue(c, k, v), k), NEW p, p = MovedToFront(r, k)
  PROVE  /\ ShardGood(d, p, n)
         /\ d.keyMap = [c.keyMap EXCEPT ![k] = [value |-> v, freq |-> @.freq + 1]]
<1>1. PICK e : e = SetValue(c, k, v)
  OBVIOUS
<1>2. Agreed(c) /\ Ordered(c, r)
  BY DEF ShardGood
<1>3. /\ Agreed(e) /\ DOMAIN e.keyMap = DOMAIN c.keyMap
      /\ \A x \in DOMAIN c.keyMap : e.keyMap[x].freq = c.keyMap[x].freq
      /\ e.freqBuckets = c.freqBuckets
      /\ MinFreqExact(c) => MinFreqExact(e)
  BY <1>1, <1>2, SetValueAgreed
<1>4. Ordered(e, r)
  BY <1>1, <1>2, SetValueOrdered
<1>5. ShardGood(e, r, n) /\ e.keyMap[k].freq < MaxFreq /\ k \in DOMAIN e.keyMap
  BY <1>3, <1>4 DEF ShardGood, Fits
<1>6. d = Use(e, k)
  BY <1>1
<1>7. /\ ShardGood(d, p, n)
      /\ d.keyMap = [e.keyMap EXCEPT ![k] = [value |-> e.keyMap[k].value, freq |-> @.freq + 1]]
  BY <1>5, <1>6, UseGood
<1>8. d.keyMap = [c.keyMap EXCEPT ![k] = [value |-> v, freq |-> @.freq + 1]]
  <2>1. e.keyMap = [c.keyMap EXCEPT ![k].value = v]
    BY <1>1 DEF SetValue
  <2>2. c.keyMap \in [DOMAIN c.keyMap -> [value : Values, freq : Nat \ {0}]]
    BY <1>2 DEF Agreed, IndexType
  <2>. QED  BY <1>7, <2>1, <2>2
<1>. QED  BY <1>7, <1>8

\* EvictLFU, which here leaves MinFreq alone.
LEMMA EvictGood ==
  ASSUME NEW c, NEW r, Agreed(c), Ordered(c, r), HasVictim(c), NEW d, d = Evict(c)
  PROVE  /\ Agreed(d) /\ Ordered(d, RemoveFirst(r, Victim(c)))
         /\ Victim(c) \in DOMAIN c.keyMap
         /\ DOMAIN d.keyMap = DOMAIN c.keyMap \ {Victim(c)}
         /\ \A x \in DOMAIN d.keyMap : d.keyMap[x] = c.keyMap[x]
<1>1. PICK e : e = EvictLFU(c)
  OBVIOUS
<1>2. /\ Agreed(e) /\ Victim(c) \in DOMAIN c.keyMap
      /\ e.keyMap = Without(c.keyMap, Victim(c))
  BY <1>1, EvictLFUAgreed
<1>3. Ordered(e, RemoveFirst(r, Victim(c)))
  BY <1>1, EvictLFUOrdered
<1>4. /\ d.keyMap = e.keyMap /\ d.freqBuckets = e.freqBuckets /\ d.minFreq = c.minFreq
  BY <1>1 DEF Evict, EvictLFU
<1>5. c.minFreq \in Frequencies
  BY DEF Agreed, IndexType
<1>6. Agreed(d)
  BY <1>2, <1>4, <1>5 DEF Agreed, IndexType, BucketsMatchKeys
<1>7. Ordered(d, RemoveFirst(r, Victim(c)))
  BY <1>3, <1>4 DEF Ordered
<1>8. /\ DOMAIN d.keyMap = DOMAIN c.keyMap \ {Victim(c)}
      /\ \A x \in DOMAIN d.keyMap : d.keyMap[x] = c.keyMap[x]
  BY <1>2, <1>4 DEF Without, Restrict
<1>. QED  BY <1>2, <1>6, <1>7, <1>8

\* A new key, where there is room for it.
LEMMA AddGood ==
  ASSUME NEW c, NEW r, Agreed(c), Ordered(c, r), NEW n \in Nat, Cardinality(DOMAIN c.keyMap) < n,
         \A x \in DOMAIN c.keyMap : c.keyMap[x].freq <= MaxFreq,
         NEW k \in Keys, k \notin DOMAIN c.keyMap, NEW v \in Values,
         NEW d, d = NewNode(c, k, v), NEW p, p = MovedToFront(r, k)
  PROVE  /\ ShardGood(d, p, n)
         /\ d.keyMap = [x \in DOMAIN c.keyMap \cup {k} |->
                          IF x = k THEN [value |-> v, freq |-> 1] ELSE c.keyMap[x]]
<1>1. d = Insert(c, k, v)
  BY DEF NewNode
<1>2. /\ Agreed(d) /\ MinFreqExact(d)
      /\ d.keyMap = [x \in DOMAIN c.keyMap \cup {k} |->
                       IF x = k THEN [value |-> v, freq |-> 1] ELSE c.keyMap[x]]
  BY <1>1, InsertAgreed
<1>3. Ordered(d, p)
  BY <1>1, InsertOrdered
<1>4. Cardinality(DOMAIN d.keyMap) <= n
  <2>1. IsFiniteSet(DOMAIN c.keyMap) /\ Cardinality(DOMAIN c.keyMap) \in Nat
    BY ShardSize
  <2>2. Cardinality(DOMAIN c.keyMap \cup {k}) = Cardinality(DOMAIN c.keyMap) + 1
    BY <2>1, FS_AddElement
  <2>3. DOMAIN d.keyMap = DOMAIN c.keyMap \cup {k}
    BY <1>2
  <2>. QED  BY <2>1, <2>2, <2>3
<1>5. \A x \in DOMAIN d.keyMap : d.keyMap[x].freq <= MaxFreq
  BY <1>2, Constants
<1>. QED  BY <1>2, <1>3, <1>4, <1>5 DEF ShardGood

\* Erase leaves a place free, which makes the value of MinFreq harmless.
LEMMA EraseGood ==
  ASSUME NEW c, NEW r, NEW n \in Nat, ShardGood(c, r, n), NEW k \in DOMAIN c.keyMap,
         NEW d, d = EraseKey(c, k)
  PROVE  /\ ShardGood(d, RemoveFirst(r, k), n)
         /\ d.keyMap = Without(c.keyMap, k)
         /\ DOMAIN d.keyMap = DOMAIN c.keyMap \ {k}
         /\ \A x \in DOMAIN d.keyMap : d.keyMap[x] = c.keyMap[x]
<1>1. /\ Agreed(c) /\ Ordered(c, r) /\ Cardinality(DOMAIN c.keyMap) <= n
      /\ \A x \in DOMAIN c.keyMap : c.keyMap[x].freq <= MaxFreq
  BY DEF ShardGood
<1>2. Agreed(d) /\ d.keyMap = Without(c.keyMap, k)
  BY <1>1, EraseKeyAgreed
<1>3. Ordered(d, RemoveFirst(r, k))
  BY <1>1, EraseKeyOrdered
<1>4. /\ DOMAIN d.keyMap = DOMAIN c.keyMap \ {k}
      /\ \A x \in DOMAIN d.keyMap : d.keyMap[x] = c.keyMap[x]
  BY <1>2 DEF Without, Restrict
<1>5. Cardinality(DOMAIN d.keyMap) < n
  <2>1. IsFiniteSet(DOMAIN c.keyMap) /\ Cardinality(DOMAIN c.keyMap) \in Nat
    BY <1>1, ShardSize
  <2>2. Cardinality(DOMAIN c.keyMap \ {k}) = Cardinality(DOMAIN c.keyMap) - 1
    BY <2>1, FS_RemoveElement
  <2>. QED  BY <1>1, <1>4, <2>1, <2>2
<1>6. Cardinality(DOMAIN d.keyMap) \in Nat
  BY <1>2, ShardSize
<1>7. \A x \in DOMAIN d.keyMap : d.keyMap[x].freq <= MaxFreq
  BY <1>1, <1>4
<1>. QED  BY <1>2, <1>3, <1>4, <1>5, <1>6, <1>7 DEF ShardGood

\* A shard without a place has no victim.
LEMMA VictimNeedsPlace ==
  ASSUME NEW c, NEW r, NEW n \in Nat, ShardGood(c, r, n), HasVictim(c)
  PROVE  n > 0
<1>1. Agreed(c) /\ Cardinality(DOMAIN c.keyMap) <= n
  BY DEF ShardGood
<1>2. PICK k \in DOMAIN c.keyMap : k = Victim(c)
  BY <1>1, EvictLFUAgreed
<1>3. IsFiniteSet(DOMAIN c.keyMap) /\ Cardinality(DOMAIN c.keyMap) \in Nat
  BY <1>1, ShardSize
<1>4. Cardinality(DOMAIN c.keyMap) # 0
  BY <1>2, <1>3, FS_EmptySet
<1>. QED  BY <1>1, <1>3, <1>4

-----------------------------------------------------------------------------
(***************************************************************************)
(* The steps.                                                              *)
(***************************************************************************)
\* Empty shards have the invariant.
LEMMA InitInvariant == Init => IInv
<1>. SUFFICES ASSUME Init  PROVE IInv
  OBVIOUS
<1>1. /\ SizeLimit \in 0 .. MaxLimit /\ NumShards \in 1 .. MaxShards /\ watched \in ShardIds
      /\ shards = [i \in ShardIds |-> EmptyIndex] /\ recency = [i \in ShardIds |-> << >>]
      /\ undefined = FALSE /\ key = [t \in Threads |-> NoKey] /\ uses = << >>
  BY DEF Init
<1>2. /\ \A k \in Keys : GetShard(k) \in ShardIds
      /\ \A i \in ShardIds : Capacity(i) \in Nat
  BY <1>1, Distribution
<1>3. EmptyIndex.keyMap = << >> /\ DOMAIN EmptyIndex.keyMap = {}
  BY DEF EmptyIndex
<1>4. << >> \in Seq(Keys)
  BY EmptyIndexSound DEF Ordered
<1>5. ShardsInv
  BY <1>1, <1>2, <1>3, <1>4, EmptyGood DEF ShardsInv
<1>6. \A k \in Keys : ~Present(k)
  BY <1>1, <1>2, <1>3 DEF Present
<1>7. DOMAIN uses = {} /\ uses \in [{} -> 0 .. MaxUses]
  BY <1>1
<1>8. {k \in Keys : Present(k)} = {}
  BY <1>6
<1>9. UndefinedOnlyBeyond
  BY <1>1 DEF UndefinedOnlyBeyond
<1>. QED  BY <1>1, <1>5, <1>7, <1>8, <1>9 DEF IInv

\* What the steps need of the invariant.
LEMMA Facts ==
  ASSUME IInv
  PROVE  /\ SizeLimit \in Nat /\ NumShards \in Nat \ {0}
         /\ \A k \in Keys : GetShard(k) \in ShardIds
         /\ \A i \in ShardIds : /\ Capacity(i) \in Nat
                                /\ ShardGood(shards[i], recency[i], Capacity(i))
                                /\ Agreed(shards[i]) /\ Ordered(shards[i], recency[i])
                                /\ DOMAIN shards[i].keyMap \subseteq Keys
                                /\ \A k \in DOMAIN shards[i].keyMap : GetShard(k) = i
         /\ \A k \in Keys : k \in DOMAIN uses <=> Present(k)
         /\ DOMAIN uses \subseteq Keys
         /\ \A k \in DOMAIN uses : /\ uses[k] \in Nat /\ uses[k] <= MaxUses
                                   /\ StoredFreq(k) \in Nat \ {0}
                                   /\ Counted(StoredFreq(k), uses[k], Cardinality(Pending(k)))
<1>1. /\ SizeLimit \in Nat /\ NumShards \in Nat \ {0}
      /\ \A k \in Keys : GetShard(k) \in ShardIds
      /\ \A i \in ShardIds : Capacity(i) \in Nat
  BY Distribution DEF IInv, ShardsInv
<1>2. \A i \in ShardIds : /\ ShardGood(shards[i], recency[i], Capacity(i))
                          /\ Agreed(shards[i]) /\ Ordered(shards[i], recency[i])
                          /\ DOMAIN shards[i].keyMap \subseteq Keys
                          /\ \A k \in DOMAIN shards[i].keyMap :
                               /\ GetShard(k) = i
                               /\ shards[i].keyMap[k].freq \in Nat \ {0}
  BY DEF IInv, ShardsInv, ShardGood, Agreed, IndexType
<1>3. /\ DOMAIN uses = {k \in Keys : Present(k)}
      /\ \A k \in DOMAIN uses : uses[k] \in 0 .. MaxUses
  BY DEF IInv
<1>4. \A k \in DOMAIN uses : /\ uses[k] \in Nat /\ uses[k] <= MaxUses
                             /\ StoredFreq(k) \in Nat \ {0}
  BY <1>1, <1>2, <1>3, Constants DEF StoredFreq, Present
<1>5. \A k \in DOMAIN uses : Counted(StoredFreq(k), uses[k], Cardinality(Pending(k)))
  BY DEF IInv
<1>. QED  BY <1>1, <1>2, <1>3, <1>4, <1>5

\* One shard becomes c, with the order r of the last uses of its keys.
LEMMA OneShard ==
  ASSUME IInv, NEW i \in ShardIds, NEW c, NEW r,
         shards' = [shards EXCEPT ![i] = c], recency' = [recency EXCEPT ![i] = r],
         UNCHANGED <<SizeLimit, NumShards, watched>>,
         ShardGood(c, r, Capacity(i)), \A k \in DOMAIN c.keyMap : GetShard(k) = i
  PROVE  /\ ShardsInv'
         /\ \A k \in Keys :
              /\ GetShard(k) = i => /\ Present(k)' <=> k \in DOMAIN c.keyMap
                                    /\ StoredFreq(k)' = c.keyMap[k].freq
              /\ GetShard(k) # i => /\ Present(k)' <=> Present(k)
                                    /\ StoredFreq(k)' = StoredFreq(k)
<1>1. /\ SizeLimit' = SizeLimit /\ NumShards' = NumShards /\ watched' = watched
      /\ ShardIds' = ShardIds
      /\ \A k : GetShard(k)' = GetShard(k)
      /\ \A j : Capacity(j)' = Capacity(j)
  BY DEF ShardIds, GetShard, Hash, Capacity
<1>2. /\ DOMAIN shards' = ShardIds
      /\ \A j \in ShardIds : shards'[j] = IF j = i THEN c ELSE shards[j]
  BY DEF IInv, ShardsInv
<1>3. r \in Seq(Keys)
  BY DEF ShardGood, Ordered
<1>4. /\ recency' \in [ShardIds -> Seq(Keys)]
      /\ \A j \in ShardIds : recency'[j] = IF j = i THEN r ELSE recency[j]
  BY <1>3 DEF IInv, ShardsInv
<1>5. \A j \in ShardIds : /\ ShardGood(shards'[j], recency'[j], Capacity(j))
                          /\ \A k \in DOMAIN shards'[j].keyMap : GetShard(k) = j
  BY <1>2, <1>4, Facts
<1>6. ShardsInv'
  BY <1>1, <1>2, <1>4, <1>5 DEF IInv, ShardsInv
<1>7. \A k \in Keys : GetShard(k) \in ShardIds
  BY Facts
<1>. QED  BY <1>1, <1>2, <1>6, <1>7 DEF Present, StoredFreq

\* No shard changes.
LEMMA NoShard ==
  ASSUME IInv, UNCHANGED <<SizeLimit, NumShards, shards, recency, watched>>
  PROVE  /\ ShardsInv'
         /\ \A k \in Keys : /\ Present(k)' <=> Present(k)
                            /\ StoredFreq(k)' = StoredFreq(k)
BY DEF IInv, ShardsInv, ShardIds, GetShard, Hash, Capacity, Present, StoredFreq

\* Nothing undefined happens.
LEMMA StillDefined ==
  ASSUME ~undefined, undefined' = undefined, IInv
  PROVE  undefined' \in BOOLEAN /\ UndefinedOnlyBeyond'
BY DEF IInv, UndefinedOnlyBeyond

\* The first critical section of TryGet: a use begins, and a thread has the key.
LEMMA FindInvariant ==
  ASSUME IInv, ~undefined, NEW t \in Threads, NEW k \in Keys, Find(t, k)
  PROVE  IInv'
<1>1. /\ key[t] = NoKey /\ Present(k) /\ uses[k] < MaxUses
      /\ key' = [key EXCEPT ![t] = k] /\ uses' = [uses EXCEPT ![k] = @ + 1]
      /\ UNCHANGED <<SizeLimit, NumShards, watched, shards, undefined, recency>>
  BY DEF Find, Fresh, CountUse
<1>2. /\ ShardsInv'
      /\ \A x \in Keys : (Present(x)' <=> Present(x)) /\ StoredFreq(x)' = StoredFreq(x)
  BY <1>1, NoShard
<1>3. undefined' \in BOOLEAN /\ UndefinedOnlyBeyond'
  BY <1>1, StillDefined
<1>4. /\ key' \in [Threads -> Keys \cup {NoKey}]
      /\ \A s \in Threads : key'[s] = IF s = t THEN k ELSE key[s]
  BY <1>1 DEF IInv
<1>5. /\ t \notin Pending(k) /\ Pending(k)' = Pending(k) \cup {t}
      /\ \A x \in Keys : x # k => Pending(x)' = Pending(x)
  BY <1>1, <1>4, Constants DEF Pending
<1>6. k \in DOMAIN uses /\ DOMAIN uses = {x \in Keys : Present(x)}
      /\ DOMAIN uses' = DOMAIN uses
      /\ \A x \in DOMAIN uses : uses'[x] = IF x = k THEN uses[x] + 1 ELSE uses[x]
  BY <1>1, Facts DEF IInv
<1>7. uses' \in [{x \in Keys : Present(x)}' -> 0 .. MaxUses]
  <2>1. {x \in Keys : Present(x)}' = DOMAIN uses
    BY <1>2, <1>6
  <2>2. uses[k] + 1 \in 0 .. MaxUses
    BY <1>1, <1>6, Facts, Constants
  <2>3. uses \in [DOMAIN uses -> 0 .. MaxUses]
    BY DEF IInv
  <2>4. uses' \in [DOMAIN uses -> 0 .. MaxUses]
    BY <1>1, <2>2, <2>3
  <2>. QED  BY <2>1, <2>4
<1>8. ASSUME NEW x \in DOMAIN uses'
      PROVE  Counted(StoredFreq(x)', uses'[x], Cardinality(Pending(x)'))
  <2>1. /\ x \in DOMAIN uses /\ x \in Keys /\ StoredFreq(x)' = StoredFreq(x)
        /\ uses[x] \in Nat /\ StoredFreq(x) \in Nat
        /\ Counted(StoredFreq(x), uses[x], Cardinality(Pending(x)))
    BY <1>2, <1>6, Facts
  <2>2. CASE x = k
    <3>1. /\ Cardinality(Pending(k)) \in Nat
          /\ Cardinality(Pending(k)') = Cardinality(Pending(k)) + 1
      BY <1>5, PendingCounted
    <3>. QED  BY <1>6, <2>1, <2>2, <3>1, Constants DEF Counted
  <2>3. CASE x # k
    BY <1>5, <1>6, <2>1, <2>3
  <2>. QED  BY <2>2, <2>3
<1>. QED  BY <1>2, <1>3, <1>4, <1>7, <1>8 DEF IInv

\* A use of a stored key that begins, or that a thread in TryGet has begun, does not
\* take its frequency past the highest.
LEMMA RoomForAUse ==
  ASSUME IInv, NEW k \in DOMAIN uses, Fresh(k) \/ Cardinality(Pending(k)) > 0
  PROVE  StoredFreq(k) < MaxFreq
<1>1. /\ uses[k] \in Nat /\ uses[k] <= MaxUses /\ StoredFreq(k) \in Nat
      /\ Cardinality(Pending(k)) \in Nat
      /\ StoredFreq(k) + Cardinality(Pending(k)) <= 1 + uses[k] + NumThreads
  BY Facts, PendingCounted DEF Counted
<1>. QED  BY <1>1, Constants DEF Fresh

\* What Update(t) does, k being the key the thread has found: it is used if it is
\* (still, or again) there.
LEMMA UpdateStep ==
  ASSUME IInv, NEW t \in Threads, Update(t), NEW k, k = key[t]
  PROVE  /\ k \in Keys /\ GetShard(k) \in ShardIds
         /\ key' = [key EXCEPT ![t] = NoKey]
         /\ t \in Pending(k) /\ Pending(k)' = Pending(k) \ {t}
         /\ \A x \in Keys : x # k => Pending(x)' = Pending(x)
         /\ UNCHANGED <<SizeLimit, NumShards, watched, undefined, uses>>
         /\ \E c, r :
              /\ shards' = [shards EXCEPT ![GetShard(k)] = c]
              /\ recency' = [recency EXCEPT ![GetShard(k)] = r]
              /\ ShardGood(c, r, Capacity(GetShard(k)))
              /\ DOMAIN c.keyMap = DOMAIN shards[GetShard(k)].keyMap
              /\ Present(k) =>
                   /\ c.keyMap = [shards[GetShard(k)].keyMap EXCEPT
                                    ![k] = [value |-> shards[GetShard(k)].keyMap[k].value,
                                            freq |-> @.freq + 1]]
                   /\ r = MovedToFront(recency[GetShard(k)], k)
              /\ ~Present(k) => c = shards[GetShard(k)] /\ r = recency[GetShard(k)]
<1>1. /\ key[t] # NoKey /\ key' = [key EXCEPT ![t] = NoKey]
      /\ UNCHANGED <<SizeLimit, NumShards, watched, undefined, uses>>
  BY DEF Update
<1>2. k \in Keys /\ GetShard(k) \in ShardIds
  BY <1>1, Facts DEF IInv
<1>3. \A s \in Threads : key'[s] = IF s = t THEN NoKey ELSE key[s]
  BY <1>1 DEF IInv
<1>4. /\ t \in Pending(k) /\ Pending(k)' = Pending(k) \ {t}
      /\ \A x \in Keys : x # k => Pending(x)' = Pending(x)
  BY <1>2, <1>3, Constants DEF Pending
<1>5. PICK i \in ShardIds : i = GetShard(k)
  BY <1>2
<1>6. /\ Capacity(i) \in Nat /\ ShardGood(shards[i], recency[i], Capacity(i))
  BY Facts
<1>7. PICK c : c = Use(shards[i], k)
  OBVIOUS
<1>8. shards' = [shards EXCEPT ![i] = c]
  BY <1>5, <1>7 DEF Update, StoreShard
<1>9. CASE Present(k)
  <2>1. k \in DOMAIN uses /\ Cardinality(Pending(k)) > 0
    BY <1>2, <1>4, <1>9, Facts, PendingCounted
  <2>2. k \in DOMAIN shards[i].keyMap /\ shards[i].keyMap[k].freq < MaxFreq
    BY <1>5, <1>9, <2>1, RoomForAUse DEF StoredFreq, Present
  <2>3. PICK r : r = MovedToFront(recency[i], k)
    OBVIOUS
  <2>4. recency' = [recency EXCEPT ![i] = r]
    BY <1>5, <1>9, <2>3 DEF Update, PromoteInShard, StoreOrder, Promote, MovedToFront
  <2>5. /\ ShardGood(c, r, Capacity(i))
        /\ c.keyMap = [shards[i].keyMap EXCEPT
                         ![k] = [value |-> shards[i].keyMap[k].value, freq |-> @.freq + 1]]
    BY <1>6, <1>7, <2>2, <2>3, UseGood
  <2>6. DOMAIN c.keyMap = DOMAIN shards[i].keyMap
    BY <2>5
  <2>. QED  BY <1>1, <1>2, <1>4, <1>5, <1>8, <1>9, <2>3, <2>4, <2>5, <2>6
<1>10. CASE ~Present(k)
  <2>1. c = shards[i]
    BY <1>5, <1>7, <1>10 DEF Present, Use
  <2>2. recency' = [recency EXCEPT ![i] = recency[i]]
    BY <1>10 DEF Update, IInv, ShardsInv
  <2>. QED  BY <1>1, <1>2, <1>4, <1>5, <1>6, <1>8, <1>10, <2>1, <2>2
<1>. QED  BY <1>9, <1>10

\* The second critical section of TryGet: a use is counted, or its key is gone.
LEMMA UpdateInvariant ==
  ASSUME IInv, ~undefined, NEW t \in Threads, Update(t)
  PROVE  IInv'
<1>1. PICK k : k = key[t]
  OBVIOUS
<1>2. /\ k \in Keys /\ GetShard(k) \in ShardIds
      /\ key' = [key EXCEPT ![t] = NoKey]
      /\ t \in Pending(k) /\ Pending(k)' = Pending(k) \ {t}
      /\ \A x \in Keys : x # k => Pending(x)' = Pending(x)
      /\ UNCHANGED <<SizeLimit, NumShards, watched, undefined, uses>>
  BY <1>1, UpdateStep
<1>3. PICK i \in ShardIds : i = GetShard(k)
  BY <1>2
<1>4. PICK c, r :
        /\ shards' = [shards EXCEPT ![i] = c] /\ recency' = [recency EXCEPT ![i] = r]
        /\ ShardGood(c, r, Capacity(i))
        /\ DOMAIN c.keyMap = DOMAIN shards[i].keyMap
        /\ Present(k) => c.keyMap = [shards[i].keyMap EXCEPT
                           ![k] = [value |-> shards[i].keyMap[k].value, freq |-> @.freq + 1]]
        /\ ~Present(k) => c = shards[i]
  BY <1>1, <1>3, UpdateStep
<1>5. \A x \in DOMAIN c.keyMap : GetShard(x) = i
  BY <1>4, Facts
<1>6. /\ ShardsInv'
      /\ \A x \in Keys :
           /\ GetShard(x) = i => (Present(x)' <=> x \in DOMAIN c.keyMap)
                                 /\ StoredFreq(x)' = c.keyMap[x].freq
           /\ GetShard(x) # i => (Present(x)' <=> Present(x)) /\ StoredFreq(x)' = StoredFreq(x)
  BY <1>2, <1>4, <1>5, OneShard
<1>7. \A x \in Keys : Present(x)' <=> Present(x)
  BY <1>4, <1>6 DEF Present
<1>8. ASSUME NEW x \in DOMAIN uses
      PROVE  StoredFreq(x)' = IF x = k THEN StoredFreq(x) + 1 ELSE StoredFreq(x)
  <2>1. x \in Keys /\ Present(x)
    BY Facts
  <2>2. CASE GetShard(x) = i
    <3>1. x \in DOMAIN shards[i].keyMap /\ StoredFreq(x) = shards[i].keyMap[x].freq
      BY <2>1, <2>2 DEF Present, StoredFreq
    <3>2. CASE Present(k)
      <4>1. c.keyMap[x].freq = IF x = k THEN shards[i].keyMap[x].freq + 1
                               ELSE shards[i].keyMap[x].freq
        BY <1>4, <3>1, <3>2
      <4>. QED  BY <1>6, <2>1, <2>2, <3>1, <4>1
    <3>3. CASE ~Present(k)
      BY <1>4, <1>6, <2>1, <2>2, <3>1, <3>3
    <3>. QED  BY <3>2, <3>3
  <2>3. CASE GetShard(x) # i
    BY <1>3, <1>6, <2>1, <2>3
  <2>. QED  BY <2>2, <2>3
<1>9. uses' \in [{x \in Keys : Present(x)}' -> 0 .. MaxUses]
  <2>1. {x \in Keys : Present(x)}' = {x \in Keys : Present(x)}
    BY <1>7
  <2>. QED  BY <1>2, <2>1 DEF IInv
<1>10. ASSUME NEW x \in DOMAIN uses'
       PROVE  Counted(StoredFreq(x)', uses'[x], Cardinality(Pending(x)'))
  <2>1. /\ x \in DOMAIN uses /\ x \in Keys /\ uses'[x] = uses[x]
        /\ uses[x] \in Nat /\ StoredFreq(x) \in Nat
        /\ Counted(StoredFreq(x), uses[x], Cardinality(Pending(x)))
    BY <1>2, Facts
  <2>2. CASE x = k
    <3>1. /\ Cardinality(Pending(k)) \in Nat
          /\ Cardinality(Pending(k)') = Cardinality(Pending(k)) - 1
      BY <1>2, PendingCounted
    <3>. QED  BY <1>8, <2>1, <2>2, <3>1, Constants DEF Counted
  <2>3. CASE x # k
    BY <1>2, <1>8, <2>1, <2>3
  <2>. QED  BY <2>2, <2>3
<1>11. undefined' \in BOOLEAN /\ UndefinedOnlyBeyond'
  BY <1>2, StillDefined
<1>12. key' \in [Threads -> Keys \cup {NoKey}]
  BY <1>2 DEF IInv
<1>. QED  BY <1>6, <1>9, <1>10, <1>11, <1>12 DEF IInv

\* What SetPresent(k, v) does to the shard of k: a use, with a new value.
LEMMA SetPresentStep ==
  ASSUME IInv, NEW k \in Keys, NEW v \in Values, SetPresent(k, v),
         NEW i \in ShardIds, i = GetShard(k)
  PROVE  /\ k \in DOMAIN shards[i].keyMap
         /\ \E c, r :
              /\ shards' = [shards EXCEPT ![i] = c] /\ recency' = [recency EXCEPT ![i] = r]
              /\ ShardGood(c, r, Capacity(i))
              /\ c.keyMap = [shards[i].keyMap EXCEPT
                               ![k] = [value |-> v, freq |-> @.freq + 1]]
              /\ r = MovedToFront(recency[i], k)
<1>1. Present(k) /\ Fresh(k)
  BY DEF SetPresent
<1>2. k \in DOMAIN shards[i].keyMap /\ shards[i].keyMap[k].freq < MaxFreq
  <2>1. k \in DOMAIN uses
    BY <1>1, Facts
  <2>. QED  BY <1>1, <2>1, RoomForAUse DEF StoredFreq, Present
<1>3. /\ Capacity(i) \in Nat /\ ShardGood(shards[i], recency[i], Capacity(i))
  BY Facts
<1>4. PICK c, r : c = Use(SetValue(shards[i], k, v), k) /\ r = MovedToFront(recency[i], k)
  OBVIOUS
<1>5. shards' = [shards EXCEPT ![i] = c] /\ recency' = [recency EXCEPT ![i] = r]
  BY <1>4 DEF SetPresent, StoreShard, PromoteInShard, StoreOrder, Promote, MovedToFront
<1>6. /\ ShardGood(c, r, Capacity(i))
      /\ c.keyMap = [shards[i].keyMap EXCEPT ![k] = [value |-> v, freq |-> @.freq + 1]]
  BY <1>2, <1>3, <1>4, WriteGood
<1>. QED  BY <1>2, <1>4, <1>5, <1>6

\* Set of a key that is there.
LEMMA SetPresentInvariant ==
  ASSUME IInv, ~undefined, NEW k \in Keys, NEW v \in Values, SetPresent(k, v)
  PROVE  IInv'
<1>1. /\ Present(k) /\ uses[k] < MaxUses
      /\ uses' = [uses EXCEPT ![k] = @ + 1]
      /\ key' = key /\ UNCHANGED <<SizeLimit, NumShards, watched, undefined>>
  BY DEF SetPresent, Fresh, CountUse
<1>2. PICK i \in ShardIds : i = GetShard(k)
  BY Facts
<1>3. k \in DOMAIN shards[i].keyMap
  BY <1>2, SetPresentStep
<1>4. PICK c, r :
        /\ shards' = [shards EXCEPT ![i] = c] /\ recency' = [recency EXCEPT ![i] = r]
        /\ ShardGood(c, r, Capacity(i))
        /\ c.keyMap = [shards[i].keyMap EXCEPT ![k] = [value |-> v, freq |-> @.freq + 1]]
  BY <1>2, SetPresentStep
<1>5. /\ DOMAIN c.keyMap = DOMAIN shards[i].keyMap
      /\ \A x \in DOMAIN c.keyMap :
           c.keyMap[x].freq = IF x = k THEN shards[i].keyMap[x].freq + 1
                              ELSE shards[i].keyMap[x].freq
  BY <1>3, <1>4
<1>6. \A x \in DOMAIN c.keyMap : GetShard(x) = i
  BY <1>5, Facts
<1>7. /\ ShardsInv'
      /\ \A x \in Keys :
           /\ GetShard(x) = i => (Present(x)' <=> x \in DOMAIN c.keyMap)
                                 /\ StoredFreq(x)' = c.keyMap[x].freq
           /\ GetShard(x) # i => (Present(x)' <=> Present(x)) /\ StoredFreq(x)' = StoredFreq(x)
  BY <1>1, <1>4, <1>6, OneShard
<1>8. \A x \in Keys : Present(x)' <=> Present(x)
  BY <1>5, <1>7 DEF Present
<1>9. ASSUME NEW x \in DOMAIN uses
      PROVE  StoredFreq(x)' = IF x = k THEN StoredFreq(x) + 1 ELSE StoredFreq(x)
  <2>1. x \in Keys /\ Present(x)
    BY Facts
  <2>2. CASE GetShard(x) = i
    <3>1. x \in DOMAIN shards[i].keyMap /\ StoredFreq(x) = shards[i].keyMap[x].freq
      BY <2>1, <2>2 DEF Present, StoredFreq
    <3>. QED  BY <1>5, <1>7, <2>1, <2>2, <3>1
  <2>3. CASE GetShard(x) # i
    BY <1>2, <1>7, <2>1, <2>3
  <2>. QED  BY <2>2, <2>3
<1>10. /\ k \in DOMAIN uses /\ DOMAIN uses' = DOMAIN uses
       /\ \A x \in DOMAIN uses : uses'[x] = IF x = k THEN uses[x] + 1 ELSE uses[x]
  BY <1>1, Facts DEF IInv
<1>11. uses' \in [{x \in Keys : Present(x)}' -> 0 .. MaxUses]
  <2>1. {x \in Keys : Present(x)}' = DOMAIN uses
    BY <1>8 DEF IInv
  <2>2. uses[k] + 1 \in 0 .. MaxUses
    BY <1>1, <1>10, Facts, Constants
  <2>3. uses \in [DOMAIN uses -> 0 .. MaxUses]
    BY DEF IInv
  <2>4. uses' \in [DOMAIN uses -> 0 .. MaxUses]
    BY <1>1, <2>2, <2>3
  <2>. QED  BY <2>1, <2>4
<1>12. \A x : Pending(x)' = Pending(x)
  BY <1>1 DEF Pending
<1>13. ASSUME NEW x \in DOMAIN uses'
       PROVE  Counted(StoredFreq(x)', uses'[x], Cardinality(Pending(x)'))
  <2>1. /\ x \in DOMAIN uses
        /\ uses[x] \in Nat /\ StoredFreq(x) \in Nat /\ Cardinality(Pending(x)) \in Nat
        /\ Counted(StoredFreq(x), uses[x], Cardinality(Pending(x)))
    BY <1>10, Facts, PendingCounted
  <2>2. CASE x = k
    BY <1>9, <1>10, <1>12, <2>1, <2>2, Constants DEF Counted
  <2>3. CASE x # k
    BY <1>9, <1>10, <1>12, <2>1, <2>3
  <2>. QED  BY <2>2, <2>3
<1>14. undefined' \in BOOLEAN /\ UndefinedOnlyBeyond'
  BY <1>1, StillDefined
<1>15. key' \in [Threads -> Keys \cup {NoKey}]
  BY <1>1 DEF IInv
<1>. QED  BY <1>7, <1>11, <1>13, <1>14, <1>15 DEF IInv

\* What is left, d of shard i and q of its order of use, when EvictLFU has made room
\* if it was needed.
RoomMade(i, d, q) ==
  /\ Full(i) => /\ NoLap /\ Fits(shards[i]) => MinFreqExact(shards[i])
                /\ DOMAIN d.keyMap = DOMAIN shards[i].keyMap \ {Victim(shards[i])}
                /\ q = RemoveFirst(recency[i], Victim(shards[i]))
  /\ ~Full(i) => d = shards[i] /\ q = recency[i]
  /\ DOMAIN d.keyMap \subseteq DOMAIN shards[i].keyMap
  /\ \A x \in DOMAIN d.keyMap : d.keyMap[x] = shards[i].keyMap[x]

\* The uses when k has entered shard i, of which d was left.
UsesAfterAdd(i, d, k) ==
  [x \in {y \in DOMAIN uses : GetShard(y) # i} \cup DOMAIN d.keyMap \cup {k} |->
     IF x = k THEN 0 ELSE uses[x]]

\* The map with a new node for k.
Added(map, k, v) ==
  [x \in DOMAIN map \cup {k} |-> IF x = k THEN [value |-> v, freq |-> 1] ELSE map[x]]

\* The shard a new key enters, and how.
LEMMA SetAbsentStep ==
  ASSUME IInv, NEW k \in Keys, NEW v \in Values, SetAbsent(k, v),
         NEW i \in ShardIds, i = GetShard(k)
  PROVE  /\ k \notin DOMAIN shards[i].keyMap /\ Capacity(i) > 0
         /\ \E d, q, c, r :
              /\ RoomMade(i, d, q)
              /\ shards' = [shards EXCEPT ![i] = c] /\ recency' = [recency EXCEPT ![i] = r]
              /\ ShardGood(c, r, Capacity(i))
              /\ c.keyMap = Added(d.keyMap, k, v)
              /\ r = MovedToFront(q, k)
              /\ uses' = UsesAfterAdd(i, d, k)
<1>1. k \notin DOMAIN shards[i].keyMap
  BY DEF SetAbsent, Present
<1>2. /\ Capacity(i) \in Nat /\ ShardGood(shards[i], recency[i], Capacity(i))
      /\ Agreed(shards[i]) /\ Ordered(shards[i], recency[i])
      /\ \A x \in DOMAIN shards[i].keyMap : shards[i].keyMap[x].freq <= MaxFreq
      /\ Cardinality(DOMAIN shards[i].keyMap) \in Nat /\ IsFiniteSet(DOMAIN shards[i].keyMap)
      /\ Cardinality(DOMAIN shards[i].keyMap) <= Capacity(i)
  BY Facts, ShardSize DEF ShardGood
<1>3. CASE Full(i)
  <2>1. Cardinality(DOMAIN shards[i].keyMap) >= Capacity(i) /\ HasVictim(shards[i])
    BY <1>3 DEF SetAbsent, Full
  <2>2. Capacity(i) > 0
    BY <1>2, <2>1, VictimNeedsPlace
  <2>3. NoLap /\ Fits(shards[i]) => MinFreqExact(shards[i])
    BY <1>2, <2>1, <2>2 DEF ShardGood
  <2>4. PICK d : d = Evict(shards[i])
    OBVIOUS
  <2>5. PICK q : q = RemoveFirst(recency[i], Victim(shards[i]))
    OBVIOUS
  <2>6. /\ Agreed(d) /\ Ordered(d, q) /\ Victim(shards[i]) \in DOMAIN shards[i].keyMap
        /\ DOMAIN d.keyMap = DOMAIN shards[i].keyMap \ {Victim(shards[i])}
        /\ \A x \in DOMAIN d.keyMap : d.keyMap[x] = shards[i].keyMap[x]
    BY <1>2, <2>1, <2>4, <2>5, EvictGood
  <2>7. Cardinality(DOMAIN d.keyMap) < Capacity(i)
    <3>1. PICK m : m = DOMAIN shards[i].keyMap
      OBVIOUS
    <3>2. /\ IsFiniteSet(m) /\ Victim(shards[i]) \in m /\ DOMAIN d.keyMap = m \ {Victim(shards[i])}
          /\ Cardinality(m) \in Nat /\ Cardinality(m) <= Capacity(i)
      BY <1>2, <2>6, <3>1
    <3>3. Cardinality(DOMAIN d.keyMap) = Cardinality(m) - 1
      BY <3>2, FS_RemoveElement
    <3>. QED  BY <1>2, <3>2, <3>3
  <2>8. PICK c, r : c = NewNode(d, k, v) /\ r = MovedToFront(q, k)
    OBVIOUS
  <2>9. /\ k \notin DOMAIN d.keyMap /\ Capacity(i) \in Nat /\ Agreed(d) /\ Ordered(d, q)
        /\ \A x \in DOMAIN d.keyMap : d.keyMap[x].freq <= MaxFreq
    BY <1>1, <1>2, <2>6
  <2>10. /\ ShardGood(c, r, Capacity(i))
         /\ c.keyMap = Added(d.keyMap, k, v)
    BY <2>7, <2>8, <2>9, AddGood DEF Added
  <2>11. /\ shards' = [shards EXCEPT ![i] = c] /\ recency' = [recency EXCEPT ![i] = r]
         /\ uses' = UsesAfterAdd(i, d, k)
    BY <1>3, <2>4, <2>5, <2>8
    DEF SetAbsent, StoreShard, StoreOrder, Promote, MovedToFront, UsesAfterAdd
  <2>12. DOMAIN d.keyMap \subseteq DOMAIN shards[i].keyMap
    BY <2>6
  <2>13. RoomMade(i, d, q)
    BY <1>3, <2>3, <2>5, <2>6, <2>12 DEF RoomMade
  <2>. QED  BY <1>1, <2>2, <2>8, <2>10, <2>11, <2>13
<1>4. CASE ~Full(i)
  <2>1. Cardinality(DOMAIN shards[i].keyMap) < Capacity(i) /\ Capacity(i) > 0
    BY <1>2, <1>4 DEF Full
  <2>2. PICK d, q : d = shards[i] /\ q = recency[i]
    OBVIOUS
  <2>3. PICK c, r : c = NewNode(d, k, v) /\ r = MovedToFront(q, k)
    OBVIOUS
  <2>4. /\ ShardGood(c, r, Capacity(i))
        /\ c.keyMap = Added(d.keyMap, k, v)
    BY <1>1, <1>2, <2>1, <2>2, <2>3, AddGood DEF Added
  <2>5. /\ shards' = [shards EXCEPT ![i] = c] /\ recency' = [recency EXCEPT ![i] = r]
        /\ uses' = UsesAfterAdd(i, d, k)
    BY <1>4, <2>2, <2>3
    DEF SetAbsent, StoreShard, StoreOrder, Promote, MovedToFront, UsesAfterAdd
  <2>6. RoomMade(i, d, q)
    BY <1>4, <2>2 DEF RoomMade
  <2>. QED  BY <1>1, <2>1, <2>3, <2>4, <2>5, <2>6
<1>. QED  BY <1>3, <1>4

\* Set of a new key.
LEMMA SetAbsentInvariant ==
  ASSUME IInv, ~undefined, NEW k \in Keys, NEW v \in Values, SetAbsent(k, v)
  PROVE  IInv'
<1>1. key' = key /\ UNCHANGED <<SizeLimit, NumShards, watched, undefined>>
  BY DEF SetAbsent
<1>2. PICK i \in ShardIds : i = GetShard(k)
  BY Facts
<1>3. PICK d, q, c, r :
        /\ RoomMade(i, d, q)
        /\ shards' = [shards EXCEPT ![i] = c] /\ recency' = [recency EXCEPT ![i] = r]
        /\ ShardGood(c, r, Capacity(i))
        /\ c.keyMap = Added(d.keyMap, k, v)
        /\ r = MovedToFront(q, k)
        /\ uses' = UsesAfterAdd(i, d, k)
  BY <1>2, SetAbsentStep
<1>4. /\ k \notin DOMAIN shards[i].keyMap
      /\ DOMAIN d.keyMap \subseteq DOMAIN shards[i].keyMap
      /\ \A x \in DOMAIN d.keyMap : d.keyMap[x] = shards[i].keyMap[x]
  BY <1>2, <1>3, SetAbsentStep DEF RoomMade
<1>5. /\ DOMAIN c.keyMap = DOMAIN d.keyMap \cup {k}
      /\ c.keyMap[k].freq = 1
      /\ \A x \in DOMAIN d.keyMap : x # k /\ c.keyMap[x].freq = shards[i].keyMap[x].freq
  BY <1>3, <1>4 DEF Added
<1>6. \A x \in DOMAIN c.keyMap : GetShard(x) = i
  BY <1>2, <1>4, <1>5, Facts
<1>7. /\ ShardsInv'
      /\ \A x \in Keys :
           /\ GetShard(x) = i => (Present(x)' <=> x \in DOMAIN c.keyMap)
                                 /\ StoredFreq(x)' = c.keyMap[x].freq
           /\ GetShard(x) # i => (Present(x)' <=> Present(x)) /\ StoredFreq(x)' = StoredFreq(x)
  BY <1>1, <1>3, <1>6, OneShard
<1>8. \A x \in DOMAIN d.keyMap : x \in Keys /\ GetShard(x) = i /\ x \in DOMAIN uses
  BY <1>4, Facts DEF Present
<1>9. \A x \in Keys : x \in DOMAIN uses' <=> Present(x)'
  <2>1. ASSUME NEW x \in Keys, GetShard(x) = i  PROVE x \in DOMAIN uses' <=> Present(x)'
    BY <1>3, <1>5, <1>7, <1>8, <2>1 DEF UsesAfterAdd
  <2>2. ASSUME NEW x \in Keys, GetShard(x) # i  PROVE x \in DOMAIN uses' <=> Present(x)'
    BY <1>2, <1>3, <1>7, <1>8, <2>2, Facts DEF UsesAfterAdd
  <2>. QED  BY <2>1, <2>2
<1>10. /\ uses'[k] = 0 /\ k \in DOMAIN uses'
       /\ \A x \in DOMAIN uses' : x # k => x \in DOMAIN uses /\ uses'[x] = uses[x]
  BY <1>3, <1>8 DEF UsesAfterAdd
<1>11. uses' \in [{x \in Keys : Present(x)}' -> 0 .. MaxUses]
  <2>1. DOMAIN uses' \subseteq Keys
    BY <1>10, Facts
  <2>2. {x \in Keys : Present(x)}' = DOMAIN uses'
    BY <1>9, <2>1
  <2>3. \A x \in DOMAIN uses' : uses'[x] \in 0 .. MaxUses
    BY <1>10, Facts, Constants
  <2>4. uses' \in [DOMAIN uses' -> 0 .. MaxUses]
    BY <1>3, <2>3 DEF UsesAfterAdd
  <2>. QED  BY <2>2, <2>4
<1>12. \A x : Pending(x)' = Pending(x)
  BY <1>1 DEF Pending
<1>13. ASSUME NEW x \in DOMAIN uses'
       PROVE  Counted(StoredFreq(x)', uses'[x], Cardinality(Pending(x)'))
  <2>1. CASE x = k
    <3>1. Cardinality(Pending(k)) \in Nat /\ Cardinality(Pending(k)) <= NumThreads
      BY PendingCounted
    <3>2. StoredFreq(k)' = 1
      BY <1>2, <1>5, <1>7
    <3>. QED  BY <1>10, <1>12, <2>1, <3>1, <3>2, Constants DEF Counted
  <2>2. CASE x # k
    <3>1. /\ x \in DOMAIN uses /\ x \in Keys /\ uses'[x] = uses[x] /\ Present(x)'
          /\ Counted(StoredFreq(x), uses[x], Cardinality(Pending(x)))
      BY <1>9, <1>10, <2>2, Facts
    <3>2. StoredFreq(x)' = StoredFreq(x)
      <4>1. CASE GetShard(x) = i
        <5>1. x \in DOMAIN d.keyMap
          BY <1>5, <1>7, <2>2, <3>1, <4>1
        <5>. QED  BY <1>5, <1>7, <3>1, <4>1, <5>1 DEF StoredFreq
      <4>2. CASE GetShard(x) # i
        BY <1>7, <3>1, <4>2
      <4>. QED  BY <4>1, <4>2
    <3>. QED  BY <1>12, <3>1, <3>2
  <2>. QED  BY <2>1, <2>2
<1>14. undefined' \in BOOLEAN /\ UndefinedOnlyBeyond'
  BY <1>1, StillDefined
<1>15. key' \in [Threads -> Keys \cup {NoKey}]
  BY <1>1 DEF IInv
<1>. QED  BY <1>7, <1>11, <1>13, <1>14, <1>15 DEF IInv

\* Set of a new key where EvictLFU finds its bucket empty: the shard has no place,
\* or a count in it does not fit.
LEMMA SetWithoutVictimInvariant ==
  ASSUME IInv, NEW k \in Keys, SetWithoutVictim(k)
  PROVE  IInv'
<1>1. /\ SizeLimit > 0 /\ Full(GetShard(k)) /\ ~HasVictim(shards[GetShard(k)])
      /\ undefined' = TRUE
      /\ UNCHANGED <<SizeLimit, NumShards, watched, shards, key, uses, recency>>
  BY DEF SetWithoutVictim
<1>2. PICK i \in ShardIds : i = GetShard(k)
  BY Facts
<1>3. Capacity(i) \in Nat /\ ShardGood(shards[i], recency[i], Capacity(i))
  BY Facts
<1>4. NoLap => Capacity(i) = 0 \/ ~Fits(shards[i])
  BY <1>1, <1>2, <1>3 DEF Full, ShardGood, MinFreqExact
<1>5. NoLap => UndefinedOnlyBeyond'
  <2>1. Capacity(i) = 0 => SizeLimit < NumShards
    BY <1>2, Distribution DEF IInv, ShardsInv
  <2>2. SizeLimit' = SizeLimit /\ NumShards' = NumShards /\ shards' = shards /\ ShardIds' = ShardIds
    BY <1>1 DEF ShardIds
  <2>. QED  BY <1>2, <1>4, <2>1, <2>2 DEF UndefinedOnlyBeyond, CountsFit, Fits
<1>6. /\ ShardsInv'
      /\ \A x \in Keys : (Present(x)' <=> Present(x)) /\ StoredFreq(x)' = StoredFreq(x)
  BY <1>1, NoShard
<1>7. {x \in Keys : Present(x)}' = {x \in Keys : Present(x)}
  BY <1>6
<1>8. \A x \in DOMAIN uses : StoredFreq(x)' = StoredFreq(x) /\ Pending(x)' = Pending(x)
  BY <1>1, <1>6, Facts DEF Pending
<1>. QED  BY <1>1, <1>5, <1>6, <1>7, <1>8 DEF IInv

\* Erase.
LEMMA EraseInvariant ==
  ASSUME IInv, ~undefined, NEW k \in Keys, Erase(k)
  PROVE  IInv'
<1>1. /\ Present(k) /\ uses' = Without(uses, k) /\ key' = key
      /\ UNCHANGED <<SizeLimit, NumShards, watched, undefined>>
  BY DEF Erase
<1>2. PICK i \in ShardIds : i = GetShard(k)
  BY Facts
<1>3. PICK c, r : c = EraseKey(shards[i], k) /\ r = RemoveFirst(recency[i], k)
  OBVIOUS
<1>4. shards' = [shards EXCEPT ![i] = c] /\ recency' = [recency EXCEPT ![i] = r]
  BY <1>2, <1>3 DEF Erase, StoreShard, StoreOrder
<1>5. /\ k \in DOMAIN shards[i].keyMap
      /\ Capacity(i) \in Nat /\ ShardGood(shards[i], recency[i], Capacity(i))
  BY <1>1, <1>2, Facts DEF Present
<1>6. /\ ShardGood(c, RemoveFirst(recency[i], k), Capacity(i))
      /\ DOMAIN c.keyMap = DOMAIN shards[i].keyMap \ {k}
      /\ \A x \in DOMAIN c.keyMap : c.keyMap[x] = shards[i].keyMap[x]
  BY <1>3, <1>5, EraseGood
<1>7. ShardGood(c, r, Capacity(i)) /\ \A x \in DOMAIN c.keyMap : GetShard(x) = i
  BY <1>3, <1>6, Facts
<1>8. /\ ShardsInv'
      /\ \A x \in Keys :
           /\ GetShard(x) = i => (Present(x)' <=> x \in DOMAIN c.keyMap)
                                 /\ StoredFreq(x)' = c.keyMap[x].freq
           /\ GetShard(x) # i => (Present(x)' <=> Present(x)) /\ StoredFreq(x)' = StoredFreq(x)
  BY <1>1, <1>4, <1>7, OneShard
<1>9. \A x \in Keys : Present(x)' <=> Present(x) /\ x # k
  BY <1>2, <1>6, <1>8 DEF Present
<1>10. /\ DOMAIN uses' = DOMAIN uses \ {k}
       /\ \A x \in DOMAIN uses' : uses'[x] = uses[x]
       /\ uses' \in [DOMAIN uses' -> 0 .. MaxUses]
  BY <1>1 DEF Without, Restrict, IInv
<1>11. {x \in Keys : Present(x)}' = DOMAIN uses'
  BY <1>9, <1>10, Facts
<1>12. ASSUME NEW x \in DOMAIN uses'
       PROVE  Counted(StoredFreq(x)', uses'[x], Cardinality(Pending(x)'))
  <2>1. /\ x \in DOMAIN uses /\ x \in Keys /\ Present(x) /\ x # k /\ uses'[x] = uses[x]
        /\ Counted(StoredFreq(x), uses[x], Cardinality(Pending(x)))
    BY <1>10, Facts
  <2>2. StoredFreq(x)' = StoredFreq(x)
    BY <1>6, <1>8, <2>1 DEF Present, StoredFreq
  <2>3. Pending(x)' = Pending(x)
    BY <1>1 DEF Pending
  <2>. QED  BY <2>1, <2>2, <2>3
<1>13. undefined' \in BOOLEAN /\ UndefinedOnlyBeyond'
  BY <1>1, StillDefined
<1>14. key' \in [Threads -> Keys \cup {NoKey}]
  BY <1>1 DEF IInv
<1>. QED  BY <1>8, <1>10, <1>11, <1>12, <1>13, <1>14 DEF IInv

\* Every step preserves the invariant.
LEMMA NextInvariant == IInv /\ [Next]_vars => IInv'
<1>. SUFFICES ASSUME IInv, [Next]_vars  PROVE IInv'
  OBVIOUS
<1>1. ASSUME ~undefined, NEW t \in Threads, Update(t) \/ \E k \in Keys : Find(t, k)
      PROVE  IInv'
  BY <1>1, FindInvariant, UpdateInvariant
<1>2. ASSUME ~undefined, NEW k \in Keys, SetWithoutVictim(k) \/ Erase(k)  PROVE IInv'
  BY <1>2, SetWithoutVictimInvariant, EraseInvariant
<1>3. ASSUME ~undefined, NEW k \in Keys, NEW v \in Values, SetPresent(k, v) \/ SetAbsent(k, v)
      PROVE  IInv'
  BY <1>3, SetPresentInvariant, SetAbsentInvariant
<1>4. CASE UNCHANGED vars
  <2>1. /\ UNCHANGED <<SizeLimit, NumShards, shards, recency, watched>>
        /\ UNCHANGED <<undefined, key, uses>>
    BY <1>4 DEF vars
  <2>2. /\ ShardsInv'
        /\ \A x \in Keys : (Present(x)' <=> Present(x)) /\ StoredFreq(x)' = StoredFreq(x)
    BY <2>1, NoShard
  <2>3. {x \in Keys : Present(x)}' = {x \in Keys : Present(x)}
    BY <2>2
  <2>4. \A x \in DOMAIN uses : StoredFreq(x)' = StoredFreq(x) /\ Pending(x)' = Pending(x)
    BY <2>1, <2>2, Facts DEF Pending
  <2>5. undefined' \in BOOLEAN /\ (NoLap => UndefinedOnlyBeyond')
    BY <2>1 DEF IInv, UndefinedOnlyBeyond, CountsFit, ShardIds
  <2>. QED  BY <2>1, <2>2, <2>3, <2>4, <2>5 DEF IInv
<1>. QED  BY <1>1, <1>2, <1>3, <1>4 DEF Next

\* The invariant holds for ever.
THEOREM Invariant == Spec => []IInv
BY InitInvariant, NextInvariant, PTL DEF Spec

-----------------------------------------------------------------------------
\* The members keep their types.
THEOREM TypeCorrect == Spec => []TypeOK
<1>1. IInv => TypeOK
  BY DEF IInv, ShardsInv, ShardGood, Agreed, TypeOK
<1>. QED  BY <1>1, Invariant, PTL

\* In every shard KeyMap and FreqBuckets agree, and every key is in the shard of its
\* hash, so that no key is stored twice.
THEOREM ShardsAlwaysConsistent == Spec => []ShardsConsistent
<1>1. IInv => ShardsConsistent
  BY DEF IInv, ShardsInv, ShardGood, Agreed, ShardsConsistent
<1>. QED  BY <1>1, Invariant, PTL

\* A full shard knows its least frequency, although EvictLFU and UpdateFrequency
\* leave MinFreq stale in other states and any thread may come between the sections
\* of a TryGet, unless the shard has no place or a use count has passed INT_MAX.
\* (A key whose count comes full circle would be an exception.)
THEOREM AlwaysEvictionReady ==
  ASSUME NoLap
  PROVE  Spec => []EvictionReady
<1>1. ASSUME IInv  PROVE EvictionReady
  <2>. SUFFICES ASSUME NEW i \in ShardIds, Full(i), CountsFit(i), Capacity(i) # 0
                PROVE  MinFreqExact(shards[i])
    BY DEF EvictionReady
  <2>1. Capacity(i) \in Nat /\ ShardGood(shards[i], recency[i], Capacity(i))
    BY <1>1, Facts
  <2>. QED  BY <2>1 DEF ShardGood, Full, CountsFit, Fits
<1>. QED  BY <1>1, Invariant, PTL

\* As long as use counts fit in an int, an eviction reads the back of an empty list
\* only where the limit leaves a shard without a place.
THEOREM UndefinedAlwaysBeyond ==
  ASSUME NoLap
  PROVE  Spec => []UndefinedOnlyBeyond
<1>1. IInv => UndefinedOnlyBeyond
  BY DEF IInv
<1>. QED  BY <1>1, Invariant, PTL

\* No use of a key gets lost between the two critical sections of TryGet.
THEOREM NoUseEverLost == Spec => []NoUseLost
<1>1. IInv => NoUseLost
  BY DEF IInv, Counted, StoredFreq, NoUseLost
<1>. QED  BY <1>1, Invariant, PTL

-----------------------------------------------------------------------------
(***************************************************************************)
(* The limit.  Number the keys of every shard from 0 up, below its         *)
(* Capacity.  The key of number j in shard i takes place j * NumShards + i *)
(* of the whole cache: no two keys take the same place, and no place is    *)
(* beyond SizeLimit, because Capacity gives what SizeLimit does not divide *)
(* evenly to the first shards.                                             *)
(***************************************************************************)
\* A finite set can be numbered.
LEMMA Numbered ==
  ASSUME NEW S, IsFiniteSet(S), NEW n \in Nat, Cardinality(S) <= n
  PROVE  \E h \in [S -> 0 .. n - 1] : \A x, y \in S : h[x] = h[y] => x = y
<1>1. Cardinality(S) \in Nat /\ ExistsBijection(1 .. Cardinality(S), S)
  BY FS_CardinalityType
<1>2. ExistsBijection(S, 1 .. Cardinality(S))
  BY <1>1, Fun_ExistsBijSymmetric
<1>3. PICK f : f \in Bijection(S, 1 .. Cardinality(S))
  BY <1>2 DEF ExistsBijection
<1>4. f \in [S -> 1 .. Cardinality(S)] /\ \A x, y \in S : f[x] = f[y] => x = y
  BY <1>3 DEF Bijection, Injection, IsInjective
<1> DEFINE h == [x \in S |-> f[x] - 1]
<1>5. \A x \in S : f[x] \in 1 .. Cardinality(S) /\ h[x] = f[x] - 1
  BY <1>4
<1>6. \A x \in S : h[x] \in 0 .. n - 1
  BY <1>1, <1>5
<1>7. h \in [S -> 0 .. n - 1]
  BY <1>6
<1>8. \A x, y \in S : h[x] = h[y] => x = y
  BY <1>1, <1>4, <1>5
<1>. QED  BY <1>7, <1>8

\* A smaller factor leaves room for one more.
LEMMA NextMultiple ==
  ASSUME NEW a \in Nat, NEW b \in Nat, NEW d \in Nat, a < b
  PROVE  a * d + d <= b * d
OBVIOUS

\* Places of different number or shard are different.
LEMMA PlacesDiffer ==
  ASSUME NEW d \in Nat \ {0}, NEW a \in Nat, NEW b \in Nat, NEW i \in 0 .. d - 1,
         NEW j \in 0 .. d - 1, a * d + i = b * d + j
  PROVE  a = b /\ i = j
<1> DEFINE x == a * d
           y == b * d
<1>1. x \in Nat /\ y \in Nat /\ i \in Nat /\ j \in Nat /\ i < d /\ j < d
  OBVIOUS
<1>2. (a < b => x + d <= y) /\ (b < a => y + d <= x) /\ (a = b => x = y)
  BY NextMultiple
<1>3. x + i = y + j
  OBVIOUS
<1>. HIDE DEF x, y
<1>4. ~(a < b) /\ ~(b < a)
  BY <1>1, <1>2, <1>3
<1>5. a = b
  BY <1>4
<1>. QED  BY <1>1, <1>2, <1>3, <1>5

\* The places of every shard are below SizeLimit.
LEMMA PlacesBelowLimit ==
  ASSUME SizeLimit \in 0 .. MaxLimit, NumShards \in 1 .. MaxShards,
         NEW i \in ShardIds, NEW j \in 0 .. Capacity(i) - 1
  PROVE  j * NumShards + i \in 0 .. SizeLimit - 1
<1>1. /\ SizeLimit \in Nat /\ NumShards \in Nat \ {0} /\ i \in Nat /\ i < NumShards
      /\ Capacity(i) \in Nat
  BY Distribution DEF ShardIds
<1> DEFINE q == SizeLimit \div NumShards
           m == SizeLimit % NumShards
           x == j * NumShards
           y == q * NumShards
<1>2. /\ q \in Nat /\ m \in 0 .. NumShards - 1
      /\ SizeLimit = NumShards * q + m
  BY <1>1, Division, Zenon
<1>3. Capacity(i) = q + (IF m > i THEN 1 ELSE 0)
  BY <1>1 DEF Capacity
<1>. HIDE DEF q, m
<1>4. y = NumShards * q
  BY <1>1, <1>2
<1>5. /\ j \in Nat /\ j <= q /\ (j = q => m > i)
  BY <1>1, <1>2, <1>3
<1>6. /\ x \in Nat /\ y \in Nat
      /\ j < q => x + NumShards <= y
      /\ j = q => x = y
  BY <1>1, <1>2, <1>5, NextMultiple
<1>7. SizeLimit = y + m /\ m \in Nat
  BY <1>1, <1>2, <1>4
<1>. HIDE DEF x, y
<1>8. x + i \in 0 .. SizeLimit - 1
  <2>1. CASE j < q
    BY <1>1, <1>6, <1>7, <2>1
  <2>2. CASE j = q
    BY <1>1, <1>5, <1>6, <1>7, <2>2
  <2>. QED  BY <1>2, <1>5, <2>1, <2>2
<1>. QED  BY <1>8 DEF x

\* The places below SizeLimit are all places of a shard.
LEMMA PlacesOfShards ==
  ASSUME SizeLimit \in 0 .. MaxLimit, NumShards \in 1 .. MaxShards,
         NEW p \in 0 .. SizeLimit - 1
  PROVE  /\ p % NumShards \in ShardIds
         /\ p \div NumShards \in 0 .. Capacity(p % NumShards) - 1
         /\ p = (p \div NumShards) * NumShards + (p % NumShards)
<1>1. /\ SizeLimit \in Nat /\ NumShards \in Nat \ {0} /\ p \in Nat /\ p < SizeLimit
  BY Distribution
<1> DEFINE q == SizeLimit \div NumShards
           m == SizeLimit % NumShards
           j == p \div NumShards
           i == p % NumShards
           x == j * NumShards
           y == q * NumShards
<1>2. /\ q \in Nat /\ m \in 0 .. NumShards - 1
      /\ SizeLimit = NumShards * q + m
  BY <1>1, Division, Zenon
<1>3. /\ j \in Nat /\ i \in 0 .. NumShards - 1
      /\ p = NumShards * j + i
  BY <1>1, Division, Zenon
<1>4. i \in ShardIds /\ Capacity(i) = q + (IF m > i THEN 1 ELSE 0)
  BY <1>3 DEF Capacity, ShardIds
<1>. HIDE DEF q, m, j, i
<1>5. y = NumShards * q /\ x = NumShards * j
  BY <1>1, <1>2, <1>3
<1>6. /\ x \in Nat /\ y \in Nat
      /\ q < j => y + NumShards <= x
      /\ j = q => x = y
  BY <1>1, <1>2, <1>3, NextMultiple
<1>7. SizeLimit = y + m /\ p = x + i
  BY <1>2, <1>3, <1>5
<1>. HIDE DEF x, y
<1>8. j <= q /\ (j = q => i < m)
  <2>1. ~(q < j)
    BY <1>1, <1>2, <1>3, <1>6, <1>7
  <2>2. j = q => i < m
    BY <1>1, <1>2, <1>3, <1>6, <1>7
  <2>. QED  BY <1>2, <1>3, <2>1, <2>2
<1>9. j \in 0 .. Capacity(i) - 1
  <2>1. CASE j < q
    BY <1>2, <1>3, <1>4, <2>1
  <2>2. CASE j = q
    BY <1>2, <1>3, <1>4, <1>8, <2>2
  <2>. QED  BY <1>2, <1>3, <1>8, <2>1, <2>2
<1>. QED  BY <1>4, <1>7, <1>9 DEF x, i, j

\* As many things as a set holds at least can be named by its members.
LEMMA Listed ==
  ASSUME NEW S, IsFiniteSet(S), NEW n \in Nat, Cardinality(S) >= n
  PROVE  \E h \in [0 .. n - 1 -> S] : \A a, b \in 0 .. n - 1 : h[a] = h[b] => a = b
<1>1. Cardinality(S) \in Nat /\ ExistsBijection(1 .. Cardinality(S), S)
  BY FS_CardinalityType
<1>2. PICK f : f \in Bijection(1 .. Cardinality(S), S)
  BY <1>1 DEF ExistsBijection
<1>3. /\ f \in [1 .. Cardinality(S) -> S]
      /\ \A a, b \in 1 .. Cardinality(S) : f[a] = f[b] => a = b
  BY <1>2 DEF Bijection, Injection, IsInjective
<1> DEFINE h == [a \in 0 .. n - 1 |-> f[a + 1]]
<1>4. \A a \in 0 .. n - 1 : a + 1 \in 1 .. Cardinality(S) /\ h[a] = f[a + 1]
  BY <1>1
<1>5. h \in [0 .. n - 1 -> S]
  BY <1>3, <1>4
<1>6. \A a, b \in 0 .. n - 1 : h[a] = h[b] => a = b
  BY <1>3, <1>4
<1>. QED  BY <1>5, <1>6

\* The interval of the places.
LEMMA PlacesCounted ==
  ASSUME NEW n \in Nat
  PROVE  IsFiniteSet(0 .. n - 1) /\ Cardinality(0 .. n - 1) = n
<1>1. PICK l \in Int : l = n - 1 /\ l + 1 = n /\ l >= -1
  OBVIOUS
<1>2. IsFiniteSet(0 .. l) /\ Cardinality(0 .. l) = IF 0 > l THEN 0 ELSE l - 0 + 1
  BY FS_Interval
<1>3. Cardinality(0 .. l) = l + 1
  BY <1>1, <1>2
<1>. QED  BY <1>1, <1>2, <1>3

\* Shards that are all full hold no less than SizeLimit keys: a key can be named for
\* every place, a different one for each.
LEMMA FullShardsHoldLimit ==
  ASSUME IInv, \A i \in ShardIds : Full(i)
  PROVE  Cardinality({k \in Keys : Present(k)}) >= SizeLimit
<1> DEFINE Stored  == {k \in Keys : Present(k)}
           Held(i) == DOMAIN shards[i].keyMap
           Lists(i) == {h \in [0 .. Capacity(i) - 1 -> Held(i)] :
                          \A a, b \in 0 .. Capacity(i) - 1 : h[a] = h[b] => a = b}
           list  == [i \in ShardIds |-> CHOOSE h : h \in Lists(i)]
           named == [p \in 0 .. SizeLimit - 1 |-> list[p % NumShards][p \div NumShards]]
<1>1. /\ SizeLimit \in 0 .. MaxLimit /\ NumShards \in 1 .. MaxShards
      /\ SizeLimit \in Nat /\ NumShards \in Nat \ {0}
  BY Facts DEF IInv, ShardsInv
<1>2. ASSUME NEW i \in ShardIds
      PROVE  /\ list[i] \in [0 .. Capacity(i) - 1 -> Held(i)]
             /\ \A a, b \in 0 .. Capacity(i) - 1 : list[i][a] = list[i][b] => a = b
  <2>1. Agreed(shards[i]) /\ Capacity(i) \in Nat /\ Cardinality(Held(i)) >= Capacity(i)
    BY Facts DEF Full
  <2>2. \E h : h \in Lists(i)
    BY <2>1, ShardSize, Listed
  <2>3. list[i] \in Lists(i)
    BY <2>2
  <2>. QED  BY <2>3
<1>3. ASSUME NEW p \in 0 .. SizeLimit - 1
      PROVE  /\ p % NumShards \in ShardIds
             /\ p \div NumShards \in 0 .. Capacity(p % NumShards) - 1
             /\ p = (p \div NumShards) * NumShards + (p % NumShards)
             /\ named[p] = list[p % NumShards][p \div NumShards]
             /\ named[p] \in Held(p % NumShards)
  <2>1. /\ p % NumShards \in ShardIds
        /\ p \div NumShards \in 0 .. Capacity(p % NumShards) - 1
        /\ p = (p \div NumShards) * NumShards + (p % NumShards)
    BY <1>1, PlacesOfShards
  <2>2. named[p] = list[p % NumShards][p \div NumShards]
    OBVIOUS
  <2>. HIDE DEF list, named
  <2>3. named[p] \in Held(p % NumShards)
    BY <1>2, <2>1, <2>2
  <2>. QED  BY <2>1, <2>2, <2>3
<1>4. \A i \in ShardIds : \A k \in Held(i) : k \in Keys /\ GetShard(k) = i /\ k \in Stored
  BY Facts DEF Present
<1>. HIDE DEF list, named
<1>5. \A p \in 0 .. SizeLimit - 1 : named[p] \in Stored /\ GetShard(named[p]) = p % NumShards
  BY <1>3, <1>4
<1>6. ASSUME NEW a \in 0 .. SizeLimit - 1, NEW b \in 0 .. SizeLimit - 1, named[a] = named[b]
      PROVE  a = b
  <2>1. a % NumShards = b % NumShards
    BY <1>5, <1>6
  <2>2. a \div NumShards = b \div NumShards
    BY <1>2, <1>3, <1>6, <2>1
  <2>. QED  BY <1>3, <2>1, <2>2
<1>7. named \in Injection(0 .. SizeLimit - 1, Stored)
  <2>1. named = [p \in 0 .. SizeLimit - 1 |-> named[p]]
    BY DEF named
  <2>2. named \in [0 .. SizeLimit - 1 -> Stored]
    BY <1>5, <2>1
  <2>. QED  BY <1>6, <2>2 DEF Injection, IsInjective
<1>8. IsFiniteSet(Stored)
  BY Constants, FS_Subset
<1>9. Cardinality(0 .. SizeLimit - 1) <= Cardinality(Stored)
  BY <1>7, <1>8, FS_Injection
<1>. QED  BY <1>1, <1>9, PlacesCounted

\* The shards together never hold more than SizeLimit keys, and no less where all of
\* them are full.
THEOREM CapacityAlwaysRespected == Spec => []CapacityRespected
<1>1. ASSUME IInv  PROVE CapacityRespected
  <2> DEFINE Stored  == {k \in Keys : Present(k)}
             Held(i) == DOMAIN shards[i].keyMap
             Numberings(i) == {h \in [Held(i) -> 0 .. Capacity(i) - 1] :
                                 \A x, y \in Held(i) : h[x] = h[y] => x = y}
             number == [i \in ShardIds |-> CHOOSE h : h \in Numberings(i)]
             place  == [k \in Stored |-> number[GetShard(k)][k] * NumShards + GetShard(k)]
  <2>1. /\ SizeLimit \in 0 .. MaxLimit /\ NumShards \in 1 .. MaxShards
        /\ SizeLimit \in Nat /\ NumShards \in Nat \ {0}
    BY <1>1, Facts DEF IInv, ShardsInv
  <2>2. ASSUME NEW i \in ShardIds
        PROVE  /\ number[i] \in [Held(i) -> 0 .. Capacity(i) - 1]
               /\ \A x, y \in Held(i) : number[i][x] = number[i][y] => x = y
    <3>1. Agreed(shards[i]) /\ Cardinality(Held(i)) <= Capacity(i) /\ Capacity(i) \in Nat
      BY <1>1, Facts DEF ShardGood
    <3>2. \E h : h \in Numberings(i)
      BY <3>1, ShardSize, Numbered
    <3>3. number[i] \in Numberings(i)
      BY <3>2
    <3>. QED  BY <3>3
  <2>3. ASSUME NEW k \in Stored
        PROVE  /\ GetShard(k) \in ShardIds /\ k \in Held(GetShard(k))
               /\ number[GetShard(k)][k] \in 0 .. Capacity(GetShard(k)) - 1
               /\ place[k] = number[GetShard(k)][k] * NumShards + GetShard(k)
    <3>1. GetShard(k) \in ShardIds /\ k \in Held(GetShard(k))
      BY <1>1, Facts DEF Present
    <3>2. number[GetShard(k)][k] \in 0 .. Capacity(GetShard(k)) - 1
      BY <2>2, <3>1
    <3>. QED  BY <3>1, <3>2
  <2>. HIDE DEF number, place
  <2>4. \A k \in Stored : place[k] \in 0 .. SizeLimit - 1
    BY <2>1, <2>3, PlacesBelowLimit
  <2>5. ASSUME NEW k \in Stored, NEW l \in Stored, place[k] = place[l]
        PROVE  k = l
    <3>1. PICK i, a : i = GetShard(k) /\ a = number[GetShard(k)][k]
      OBVIOUS
    <3>2. PICK j, b : j = GetShard(l) /\ b = number[GetShard(l)][l]
      OBVIOUS
    <3>3. /\ i \in 0 .. NumShards - 1 /\ j \in 0 .. NumShards - 1 /\ a \in Nat /\ b \in Nat
          /\ a * NumShards + i = b * NumShards + j
      BY <2>3, <2>5, <3>1, <3>2 DEF ShardIds
    <3>4. i = j /\ a = b
      BY <2>1, <3>3, PlacesDiffer
    <3>5. i \in ShardIds /\ k \in Held(i) /\ l \in Held(i) /\ number[i][k] = number[i][l]
      BY <2>3, <3>1, <3>2, <3>4
    <3>. QED  BY <2>2, <3>5
  <2>6. place \in Injection(Stored, 0 .. SizeLimit - 1)
    <3>1. place = [k \in Stored |-> place[k]]
      BY DEF place
    <3>2. place \in [Stored -> 0 .. SizeLimit - 1]
      BY <2>4, <3>1
    <3>. QED  BY <2>5, <3>2 DEF Injection, IsInjective
  <2>7. IsFiniteSet(0 .. SizeLimit - 1) /\ Cardinality(0 .. SizeLimit - 1) = SizeLimit
    BY <2>1, PlacesCounted
  <2>8. Cardinality(Stored) <= SizeLimit
    BY <2>6, <2>7, FS_Injection
  <2>9. ASSUME \A i \in ShardIds : Full(i)  PROVE Cardinality(Stored) = SizeLimit
    <3>1. Cardinality(Stored) >= SizeLimit
      BY <1>1, <2>9, FullShardsHoldLimit
    <3>2. Cardinality(Stored) \in Nat
      <4>1. IsFiniteSet(Stored)
        BY Constants, FS_Subset
      <4>. QED  BY <4>1, FS_CardinalityType
    <3>. QED  BY <2>1, <2>8, <3>1, <3>2
  <2>. QED  BY <2>8, <2>9 DEF CapacityRespected
<1>. QED  BY <1>1, Invariant, PTL

-----------------------------------------------------------------------------
(***************************************************************************)
(* The refinement.  The watched shard may be any, so what is shown for it  *)
(* holds of each.                                                          *)
(***************************************************************************)
\* The instance brings the library's operators under names of its own: they are
\* the same operators.
LEMMA PolicyOperators ==
  /\ \A s, e : Policy!RemoveFirst(s, e) = RemoveFirst(s, e)
  /\ \A s, i : Policy!RemoveAt(s, i) = RemoveAt(s, i)
  /\ \A S : Policy!Max(S) = Max(S)
  /\ \A S : Policy!Cardinality(S) = Cardinality(S)
  /\ \A f, S : Policy!Restrict(f, S) = Restrict(f, S)
<1>1. \A s, i : Policy!RemoveAt(s, i) = RemoveAt(s, i)
  BY DEF Policy!RemoveAt, RemoveAt
<1>2. \A s, e : Policy!RemoveFirst(s, e) = RemoveFirst(s, e)
  BY <1>1 DEF Policy!RemoveFirst, RemoveFirst, Policy!SelectInSeq, SelectInSeq, Policy!Min, Min
<1>3. \A S : Policy!Max(S) = Max(S)
  BY DEF Policy!Max, Max
<1>4. \A S : Policy!Cardinality(S) = Cardinality(S)
  BY DEF Policy!Cardinality, Cardinality, Policy!IsFiniteSet, IsFiniteSet
<1>5. \A f, S : Policy!Restrict(f, S) = Restrict(f, S)
  BY DEF Policy!Restrict, Restrict
<1>. QED  BY <1>1, <1>2, <1>3, <1>4, <1>5

\* What a step on shard i is for the watched shard.
LEMMA WatchedShard ==
  ASSUME IInv, NEW i \in ShardIds, NEW c, NEW r,
         shards' = [shards EXCEPT ![i] = c], recency' = [recency EXCEPT ![i] = r],
         UNCHANGED <<SizeLimit, NumShards, watched>>
  PROVE  /\ Capacity(watched)' = Capacity(watched)
         /\ watched = i => shards[watched]' = c /\ recency[watched]' = r
         /\ watched # i => /\ shards[watched]' = shards[watched]
                           /\ recency[watched]' = recency[watched]
BY DEF IInv, ShardsInv, Capacity

\* A counted use of a key is the policy's use of it.
LEMMA UseIsPolicyUse ==
  ASSUME NEW k \in DOMAIN shards[watched].keyMap, NEW w,
         shards[watched]'.keyMap = [shards[watched].keyMap EXCEPT
                                      ![k] = [value |-> w, freq |-> @.freq + 1]],
         recency[watched]' = MovedToFront(recency[watched], k)
  PROVE  Policy!Use(k, w)
BY PolicyOperators DEF Policy!Use, Policy!Promote, MovedToFront

\* An eviction by EvictLFU is the policy's, as long as counts fit in an int.
LEMMA VictimIsPolicyVictim ==
  ASSUME IInv, NoLap, CountsFit(watched), MinFreqExact(shards[watched])
  PROVE  /\ recency[watched][Policy!VictimPosition] = Victim(shards[watched])
         /\ Policy!RemoveAt(recency[watched], Policy!VictimPosition)
              = RemoveFirst(recency[watched], Victim(shards[watched]))
<1> DEFINE P == {i \in 1..Len(recency[watched]) : \A k \in DOMAIN shards[watched].keyMap :
                   shards[watched].keyMap[recency[watched][i]].freq
                     <= shards[watched].keyMap[k].freq}
<1>1. Sound(shards[watched]) /\ Ordered(shards[watched], recency[watched])
  <2>1. ShardGood(shards[watched], recency[watched], Capacity(watched))
    BY DEF IInv, ShardsInv
  <2>2. Fits(shards[watched])
    BY DEF CountsFit, Fits
  <2>. QED  BY <2>1, <2>2, CountsFitSound DEF ShardGood
<1>2. /\ recency[watched][Max(P)] = Victim(shards[watched])
      /\ RemoveAt(recency[watched], Max(P)) = RemoveFirst(recency[watched], Victim(shards[watched]))
  BY <1>1, VictimFound
<1>3. Policy!VictimPosition = Max(P)
  BY PolicyOperators DEF Policy!VictimPosition, Policy!NoneRarer
<1>. QED  BY <1>2, <1>3, PolicyOperators

\* The second critical section of TryGet is a read of the policy, or nothing.
LEMMA UpdateIsPolicyStep ==
  ASSUME IInv, NEW t \in Threads, Update(t)
  PROVE  Policy!Next \/ UNCHANGED Policy!vars
<1>1. PICK k : k = key[t]
  OBVIOUS
<1>2. /\ k \in Keys /\ GetShard(k) \in ShardIds
      /\ UNCHANGED <<SizeLimit, NumShards, watched>>
  BY <1>1, UpdateStep
<1>3. PICK i \in ShardIds : i = GetShard(k)
  BY <1>2
<1>4. PICK c, r :
        /\ shards' = [shards EXCEPT ![i] = c] /\ recency' = [recency EXCEPT ![i] = r]
        /\ ShardGood(c, r, Capacity(i))
        /\ DOMAIN c.keyMap = DOMAIN shards[i].keyMap
        /\ Present(k) =>
             /\ c.keyMap = [shards[i].keyMap EXCEPT
                              ![k] = [value |-> shards[i].keyMap[k].value, freq |-> @.freq + 1]]
             /\ r = MovedToFront(recency[i], k)
        /\ ~Present(k) => c = shards[i] /\ r = recency[i]
  BY <1>1, <1>3, UpdateStep
<1>5. /\ Capacity(watched)' = Capacity(watched)
      /\ watched = i => shards[watched]' = c /\ recency[watched]' = r
      /\ watched # i => shards[watched]' = shards[watched] /\ recency[watched]' = recency[watched]
  BY <1>2, <1>4, WatchedShard
<1>6. CASE watched = i /\ Present(k)
  <2>1. k \in DOMAIN shards[watched].keyMap
    BY <1>3, <1>6 DEF Present
  <2>2. Policy!Use(k, shards[watched].keyMap[k].value)
    BY <1>4, <1>5, <1>6, <2>1, UseIsPolicyUse
  <2>3. Policy!Read(k)
    BY <2>1, <2>2 DEF Policy!Read
  <2>. QED  BY <1>2, <1>5, <2>3 DEF Policy!Next
<1>7. CASE watched # i \/ ~Present(k)
  BY <1>4, <1>5, <1>7 DEF Policy!vars
<1>. QED  BY <1>6, <1>7

\* Set of a key that is there is a write of the policy.
LEMMA SetPresentIsPolicyStep ==
  ASSUME IInv, NEW k \in Keys, NEW v \in Values, SetPresent(k, v)
  PROVE  Policy!Next \/ UNCHANGED Policy!vars
<1>1. PICK i \in ShardIds : i = GetShard(k)
  BY Facts
<1>2. k \in DOMAIN shards[i].keyMap
  BY <1>1, SetPresentStep
<1>3. PICK c, r :
        /\ shards' = [shards EXCEPT ![i] = c] /\ recency' = [recency EXCEPT ![i] = r]
        /\ c.keyMap = [shards[i].keyMap EXCEPT ![k] = [value |-> v, freq |-> @.freq + 1]]
        /\ r = MovedToFront(recency[i], k)
  BY <1>1, SetPresentStep
<1>4. /\ Capacity(watched)' = Capacity(watched)
      /\ watched = i => shards[watched]' = c /\ recency[watched]' = r
      /\ watched # i => shards[watched]' = shards[watched] /\ recency[watched]' = recency[watched]
  BY <1>3, WatchedShard DEF SetPresent
<1>5. CASE watched = i
  <2>1. Policy!Use(k, v)
    BY <1>2, <1>3, <1>4, <1>5, UseIsPolicyUse
  <2>2. Policy!Write(k, v)
    BY <2>1 DEF Policy!Write
  <2>. QED  BY <1>4, <2>2 DEF Policy!Next
<1>6. CASE watched # i
  BY <1>4, <1>6 DEF Policy!vars
<1>. QED  BY <1>5, <1>6

\* Set of a new key is the policy's, eviction included.
LEMMA SetAbsentIsPolicyStep ==
  ASSUME IInv, NoLap, CountsFit(watched), NEW k \in Keys, NEW v \in Values, SetAbsent(k, v)
  PROVE  Policy!Next \/ UNCHANGED Policy!vars
<1>1. PICK i \in ShardIds : i = GetShard(k)
  BY Facts
<1>2. k \notin DOMAIN shards[i].keyMap /\ Capacity(i) > 0
  BY <1>1, SetAbsentStep
<1>3. PICK d, q, c, r :
        /\ RoomMade(i, d, q)
        /\ shards' = [shards EXCEPT ![i] = c] /\ recency' = [recency EXCEPT ![i] = r]
        /\ ShardGood(c, r, Capacity(i))
        /\ c.keyMap = Added(d.keyMap, k, v)
        /\ r = MovedToFront(q, k)
        /\ uses' = UsesAfterAdd(i, d, k)
  BY <1>1, SetAbsentStep
<1>4. /\ Capacity(watched)' = Capacity(watched)
      /\ watched = i => shards[watched]' = c /\ recency[watched]' = r
      /\ watched # i => shards[watched]' = shards[watched] /\ recency[watched]' = recency[watched]
  BY <1>3, WatchedShard DEF SetAbsent
<1>5. CASE watched = i
  <2>1. /\ Full(i) <=> Cardinality(DOMAIN shards[watched].keyMap) >= Capacity(watched)
        /\ k \notin DOMAIN shards[watched].keyMap /\ Capacity(watched) > 0
    BY <1>2, <1>5 DEF Full
  <2>2. CASE Full(i)
    <3>1. /\ MinFreqExact(shards[watched])
          /\ DOMAIN d.keyMap = DOMAIN shards[watched].keyMap \ {Victim(shards[watched])}
          /\ \A x \in DOMAIN d.keyMap : d.keyMap[x] = shards[watched].keyMap[x]
          /\ q = RemoveFirst(recency[watched], Victim(shards[watched]))
      BY <1>3, <1>5, <2>2 DEF RoomMade, CountsFit, Fits
    <3>2. /\ recency[watched][Policy!VictimPosition] = Victim(shards[watched])
          /\ Policy!RemoveAt(recency[watched], Policy!VictimPosition) = q
      BY <3>1, VictimIsPolicyVictim
    <3>3. shards[watched]'.keyMap =
            [x \in (DOMAIN shards[watched].keyMap \ {recency[watched][Policy!VictimPosition]})
                     \cup {k} |->
               IF x = k THEN [value |-> v, freq |-> 1] ELSE shards[watched].keyMap[x]]
      <4>1. c.keyMap = [x \in DOMAIN d.keyMap \cup {k} |->
                          IF x = k THEN [value |-> v, freq |-> 1] ELSE d.keyMap[x]]
        BY <1>3 DEF Added
      <4>. QED  BY <1>4, <1>5, <2>1, <3>1, <3>2, <4>1
    <3>4. recency[watched]' = MovedToFront(q, k)
      BY <1>3, <1>4, <1>5
    <3>5. Policy!Add(k, v)
      BY <2>1, <2>2, <3>2, <3>3, <3>4, PolicyOperators
      DEF Policy!Add, Policy!Promote, MovedToFront
    <3>. QED  BY <1>4, <3>5 DEF Policy!Next
  <2>3. CASE ~Full(i)
    <3>1. d = shards[watched] /\ q = recency[watched]
      BY <1>3, <1>5, <2>3 DEF RoomMade
    <3>2. shards[watched]'.keyMap = [x \in DOMAIN shards[watched].keyMap \cup {k} |->
                         IF x = k THEN [value |-> v, freq |-> 1] ELSE shards[watched].keyMap[x]]
      BY <1>3, <1>4, <1>5, <3>1 DEF Added
    <3>3. recency[watched]' = MovedToFront(recency[watched], k)
      BY <1>3, <1>4, <1>5, <3>1
    <3>4. Policy!Add(k, v)
      BY <2>1, <2>3, <3>2, <3>3, PolicyOperators DEF Policy!Add, Policy!Promote, MovedToFront
    <3>. QED  BY <1>4, <3>4 DEF Policy!Next
  <2>. QED  BY <2>2, <2>3
<1>6. CASE watched # i
  BY <1>4, <1>6 DEF Policy!vars
<1>. QED  BY <1>5, <1>6

\* Erase is the policy's.
LEMMA EraseIsPolicyStep ==
  ASSUME IInv, NEW k \in Keys, Erase(k)
  PROVE  Policy!Next \/ UNCHANGED Policy!vars
<1>1. PICK i \in ShardIds : i = GetShard(k)
  BY Facts
<1>2. PICK c, r : c = EraseKey(shards[i], k) /\ r = RemoveFirst(recency[i], k)
  OBVIOUS
<1>3. shards' = [shards EXCEPT ![i] = c] /\ recency' = [recency EXCEPT ![i] = r]
  BY <1>1, <1>2 DEF Erase, StoreShard, StoreOrder
<1>4. /\ Capacity(watched)' = Capacity(watched)
      /\ watched = i => shards[watched]' = c /\ recency[watched]' = r
      /\ watched # i => shards[watched]' = shards[watched] /\ recency[watched]' = recency[watched]
  BY <1>3, WatchedShard DEF Erase
<1>5. CASE watched = i
  <2>1. k \in DOMAIN shards[watched].keyMap
    BY <1>1, <1>5 DEF Erase, Present
  <2>2. shards[watched]'.keyMap = Without(shards[watched].keyMap, k)
    BY <1>2, <1>4, <1>5 DEF EraseKey, Leave
  <2>3. recency[watched]' = RemoveFirst(recency[watched], k)
    BY <1>2, <1>4, <1>5
  <2>4. Policy!Erase(k)
    BY <2>1, <2>2, <2>3, PolicyOperators DEF Policy!Erase, Without
  <2>. QED  BY <1>4, <2>4 DEF Policy!Next
<1>6. CASE watched # i
  BY <1>4, <1>6 DEF Policy!vars
<1>. QED  BY <1>5, <1>6

\* Every step is a step of the policy, or changes nothing the policy sees.
LEMMA StepIsPolicyStep ==
  ASSUME NoLap, CountsFit(watched), IInv, [Next]_vars
  PROVE  [Policy!Next]_Policy!vars
<1>. SUFFICES Policy!Next \/ UNCHANGED Policy!vars
  OBVIOUS
<1>1. ASSUME NEW t \in Threads, \E k \in Keys : Find(t, k)  PROVE UNCHANGED Policy!vars
  BY <1>1 DEF Find, Policy!vars, Capacity
<1>2. ASSUME NEW k \in Keys, SetWithoutVictim(k)  PROVE UNCHANGED Policy!vars
  BY <1>2 DEF SetWithoutVictim, Policy!vars, Capacity
<1>3. CASE UNCHANGED vars
  BY <1>3 DEF vars, Policy!vars, Capacity
<1>. QED  BY <1>1, <1>2, <1>3, UpdateIsPolicyStep, SetPresentIsPolicyStep,
             SetAbsentIsPolicyStep, EraseIsPolicyStep DEF Next

\* Under any interleaving of any number of threads every shard is an LFU cache of
\* Capacity keys as long as its use counts fit in an int: EvictLFU, which trusts a
\* MinFreq that other calls leave stale, takes the key the policy takes.  Past
\* INT_MAX the keys of the shard are ranked by counts that have wrapped.
THEOREM ImplementsLfuPolicy ==
  ASSUME NoLap
  PROVE  Spec => ShardImplementsPolicy
<1>1. Init => Policy!Init
  <2>. SUFFICES ASSUME Init  PROVE Policy!Init
    OBVIOUS
  <2>1. Capacity(watched) \in Nat
    BY Distribution DEF Init
  <2>. QED  BY <2>1 DEF Init, EmptyIndex, Policy!Init
<1>2. IInv /\ [Next]_vars => [CountsFit(watched) => Policy!Next]_Policy!vars
  BY StepIsPolicyStep
<1>. QED  BY <1>1, <1>2, Invariant, PTL DEF Spec, ShardImplementsPolicy
=============================================================================
