------------------------------- MODULE LfuIndex -------------------------------
(***************************************************************************)
(* The index that the three LFU caches of LRUCache/ keep, and the private  *)
(* helpers that update it.  The helpers are written out in each header     *)
(* (TLfuCache.h, TLfuCacheThreadsafeLazyUpdate.h, TLfuCacheLockStripping.h)*)
(* and are the same algorithm; TLfuCache.h is the one named here.          *)
(*                                                                         *)
(* An index is a record with the three private members of the class:       *)
(*   keyMap       KeyMap:      key -> [value, freq]                        *)
(*   freqBuckets  FreqBuckets: frequency -> list of keys, front first      *)
(*   minFreq      MinFreq                                                  *)
(* Node::it is the position of the key in its bucket, so an erase through  *)
(* it removes that key from that bucket.                                   *)
(***************************************************************************)
EXTENDS Integers, Sequences, FiniteSets, SequencesExt

CONSTANTS Keys,    \* the keys a client uses
          Values,  \* the values a client stores
          IntMax   \* numeric_limits<Frequency>::max(), Frequency being int

ASSUME IntMaxAssumption == IntMax \in Nat \ {0}

-----------------------------------------------------------------------------
\* The values of a Frequency.
Frequencies == (-IntMax - 1)..IntMax

\* What the conversion of the 64-bit count freq to Frequency (an int) yields.
ToFrequency(n) ==
  IF n <= IntMax THEN n ELSE ((n + IntMax + 1) % (2 * (IntMax + 1))) - (IntMax + 1)

EmptyIndex == [keyMap |-> << >>, freqBuckets |-> << >>, minFreq |-> 0]

\* FreqBuckets[f]: operator[] yields an empty list for an absent frequency.
Bucket(buckets, f) == IF f \in DOMAIN buckets THEN buckets[f] ELSE << >>

\* The map with the list s at f.
WithBucket(buckets, f, s) ==
  [g \in DOMAIN buckets \cup {f} |-> IF g = f THEN s ELSE buckets[g]]

\* FreqBuckets.erase(f) or KeyMap.erase(x).
Without(map, x) == Restrict(map, DOMAIN map \ {x})

\* A bucket is written back, or erased if it is empty.
StoreBucket(buckets, f, s) ==
  IF s = << >> THEN Without(buckets, f) ELSE WithBucket(buckets, f, s)

\* UpdateMinFreq(): a scan of every bucket, the empty ones included.
UpdateMinFreq(buckets) == IF DOMAIN buckets = {} THEN 0 ELSE Min(DOMAIN buckets)

\* The value of a key is replaced (the first step of Set for a key in the map).
SetValue(c, k, v) ==
  [keyMap |-> [c.keyMap EXCEPT ![k].value = v],
   freqBuckets |-> c.freqBuckets, minFreq |-> c.minFreq]

\* k leaves its bucket, which becomes oldBucket, for the bucket of the next
\* frequency, which becomes newBucket.  A bucket that becomes empty is erased
\* only if it was the bucket of MinFreq.
MoveKey(c, k, oldBucket, newBucket) ==
  LET old       == c.keyMap[k].freq
      moved     == WithBucket(WithBucket(c.freqBuckets, ToFrequency(old), oldBucket),
                              ToFrequency(old + 1), newBucket)
      exhausted == old = c.minFreq /\ oldBucket = << >>
  IN  [keyMap      |-> [c.keyMap EXCEPT ![k].freq = old + 1],
       freqBuckets |-> IF exhausted THEN Without(moved, ToFrequency(old)) ELSE moved,
       minFreq     |-> IF exhausted THEN ToFrequency(old + 1) ELSE c.minFreq]

\* The bucket of the frequency of k plus n.
BucketNear(c, k, n) == Bucket(c.freqBuckets, ToFrequency(c.keyMap[k].freq + n))

\* Mutant: the key is not erased from its old bucket.
UpdateFrequencyKeepingOld(c, k) ==
  MoveKey(c, k, BucketNear(c, k, 0), <<k>> \o BucketNear(c, k, 1))

\* Mutant: the key enters its new bucket at the back.
UpdateFrequencyToBack(c, k) ==
  MoveKey(c, k, RemoveFirst(BucketNear(c, k, 0), k), Append(BucketNear(c, k, 1), k))

\* UpdateFrequency(key), key being in the map.
UpdateFrequency(c, k) ==
  MoveKey(c, k, RemoveFirst(BucketNear(c, k, 0), k), <<k>> \o BucketNear(c, k, 1))

\* minBucket.back() is defined: the bucket EvictLFU reads has a key.
HasVictim(c) == Bucket(c.freqBuckets, c.minFreq) # << >>

\* The key EvictLFU erases: the back of the bucket of MinFreq.
Victim(c) == Last(Bucket(c.freqBuckets, c.minFreq))

\* EvictLFU(), when HasVictim(c).
EvictLFU(c) ==
  LET buckets == StoreBucket(c.freqBuckets, c.minFreq,
                             Front(Bucket(c.freqBuckets, c.minFreq)))
  IN  [keyMap      |-> Without(c.keyMap, Victim(c)),
       freqBuckets |-> buckets,
       minFreq     |-> UpdateMinFreq(buckets)]

\* k enters at the front of bucket f.
Enter(c, k, v, f, minFreq) ==
  [keyMap      |-> [x \in DOMAIN c.keyMap \cup {k} |->
                      IF x = k THEN [value |-> v, freq |-> f] ELSE c.keyMap[x]],
   freqBuckets |-> WithBucket(c.freqBuckets, f, <<k>> \o Bucket(c.freqBuckets, f)),
   minFreq     |-> minFreq]

\* Mutant: the count of a new key starts at 0.
InsertUncounted(c, k, v) == Enter(c, k, v, 0, 0)

\* Mutant: MinFreq is not reset, except in an empty cache.
InsertKeepingMinFreq(c, k, v) ==
  Enter(c, k, v, 1, IF c.keyMap = << >> THEN 1 ELSE c.minFreq)

\* The tail of Set: a new key has been used once, and MinFreq is 1.
Insert(c, k, v) == Enter(c, k, v, 1, 1)

\* k leaves the bucket of f, and KeyMap.  MinFreq is recomputed only if that
\* bucket became empty and was the bucket of MinFreq.
Leave(c, k, f) ==
  LET rest    == RemoveFirst(Bucket(c.freqBuckets, f), k)
      buckets == StoreBucket(c.freqBuckets, f, rest)
  IN  [keyMap      |-> Without(c.keyMap, k),
       freqBuckets |-> buckets,
       minFreq     |-> IF rest = << >> /\ c.keyMap[k].freq = c.minFreq
                       THEN UpdateMinFreq(buckets) ELSE c.minFreq]

\* Mutant: the bucket is looked up under the 64-bit count itself.
EraseKeyUnconverted(c, k) == Leave(c, k, c.keyMap[k].freq)

\* The body of Erase for a key in the map.  The bucket it looks up exists
\* (BucketsMatchKeys).
EraseKey(c, k) == Leave(c, k, ToFrequency(c.keyMap[k].freq))

-----------------------------------------------------------------------------
(***************************************************************************)
(* Predicates on an index, from which the caches build their invariants.   *)
(***************************************************************************)

\* The types of the three members.
IndexType(c) ==
  /\ DOMAIN c.keyMap \subseteq Keys
  /\ c.keyMap \in [DOMAIN c.keyMap -> [value : Values, freq : Nat \ {0}]]
  /\ DOMAIN c.freqBuckets \subseteq Frequencies
  /\ c.freqBuckets \in [DOMAIN c.freqBuckets -> Seq(Keys)]
  /\ c.minFreq \in Frequencies

\* KeyMap and FreqBuckets agree: a key is in a bucket exactly if it is stored
\* with that frequency, and no bucket holds a key twice, so that every Node::it
\* points at its key.
BucketsMatchKeys(c) ==
  \A f \in Frequencies :
    /\ \A k \in Keys : Contains(Bucket(c.freqBuckets, f), k)
                         <=> k \in DOMAIN c.keyMap /\ ToFrequency(c.keyMap[k].freq) = f
    /\ IsInjective(Bucket(c.freqBuckets, f))

\* MinFreq is the least frequency of the keys, and its bucket has a key.
MinFreqExact(c) ==
  /\ HasVictim(c)
  /\ \A k \in DOMAIN c.keyMap : c.minFreq <= c.keyMap[k].freq
=============================================================================
