------------------------------- MODULE TLfuCache ------------------------------
(***************************************************************************)
(* The single-threaded LFU cache, LRUCache/TLfuCache.h: one action per     *)
(* public operation that changes the state.  Exist, and the early returns  *)
(* of TryGet and Erase for an absent key, change nothing.                  *)
(***************************************************************************)
EXTENDS LfuIndex

CONSTANTS SizeLimit,  \* the constructor's argument
          MaxFreq     \* bound: no key is used more than MaxFreq times

ASSUME CacheAssumption == SizeLimit \in Nat /\ MaxFreq \in Nat \ {0} /\ IsFiniteSet(Keys)

VARIABLES index,      \* KeyMap, FreqBuckets and MinFreq
          undefined,  \* back() was called on an empty list: anything may follow
          recency     \* history: the keys, the one used last at the front

vars == <<index, undefined, recency>>

Init == index = EmptyIndex /\ undefined = FALSE /\ recency = << >>

Present(k) == k \in DOMAIN index.keyMap

\* Mutant: one key more than the limit is let in.
FullOffByOne == Cardinality(DOMAIN index.keyMap) > SizeLimit

Full == Cardinality(DOMAIN index.keyMap) >= SizeLimit

\* history: k is the key used last.
Promote(order, k) == <<k>> \o RemoveFirst(order, k)

-----------------------------------------------------------------------------
\* TryGet of a key that is there: a use of the key.
TryGet(k) ==
  /\ Present(k) /\ index.keyMap[k].freq < MaxFreq
  /\ index' = UpdateFrequency(index, k)
  /\ recency' = Promote(recency, k)
  /\ UNCHANGED undefined

\* Set of a key that is there: the value is replaced, the key is used.
SetPresent(k, v) ==
  /\ SizeLimit > 0
  /\ Present(k) /\ index.keyMap[k].freq < MaxFreq
  /\ index' = UpdateFrequency(SetValue(index, k, v), k)
  /\ recency' = Promote(recency, k)
  /\ UNCHANGED undefined

\* Set of a new key, with room for it or after EvictLFU has made room.
SetAbsent(k, v) ==
  /\ SizeLimit > 0
  /\ ~Present(k)
  /\ Full => HasVictim(index)
  /\ index' = Insert(IF Full THEN EvictLFU(index) ELSE index, k, v)
  /\ recency' = Promote(IF Full THEN RemoveFirst(recency, Victim(index)) ELSE recency, k)
  /\ UNCHANGED undefined

\* Set of a new key when the bucket of MinFreq is empty: EvictLFU reads the
\* back of an empty std::list.
SetWithoutVictim(k) ==
  /\ SizeLimit > 0
  /\ ~Present(k) /\ Full /\ ~HasVictim(index)
  /\ undefined' = TRUE
  /\ UNCHANGED <<index, recency>>

\* Erase of a key that is there.
Erase(k) ==
  /\ Present(k)
  /\ index' = EraseKey(index, k)
  /\ recency' = RemoveFirst(recency, k)
  /\ UNCHANGED undefined

Next ==
  /\ ~undefined
  /\ \E k \in Keys :
       \/ TryGet(k)
       \/ SetWithoutVictim(k)
       \/ Erase(k)
       \/ \E v \in Values : SetPresent(k, v) \/ SetAbsent(k, v)

Spec == Init /\ [][Next]_vars

-----------------------------------------------------------------------------
(***************************************************************************)
(* Properties.                                                             *)
(***************************************************************************)

\* The type invariant of the three private members.
TypeOK ==
  /\ IndexType(index)
  /\ undefined \in BOOLEAN
  /\ recency \in Seq(Keys)

\* KeyMap and FreqBuckets describe the same cache, and every Node::it points at
\* its own key: the erase through an iterator in UpdateFrequency and Erase is
\* always of the right element.
IndexConsistent == BucketsMatchKeys(index)

\* The cache never holds more than SizeLimit keys, whatever the mixture of Set,
\* TryGet and Erase.
CapacityRespected == Cardinality(DOMAIN index.keyMap) <= SizeLimit

\* No use count has passed INT_MAX, or all trace of it is gone: the frequencies
\* of the buckets are counts (until a count comes full circle, after 2^32 uses).
CountsFit == \A f \in DOMAIN index.freqBuckets : f > 0

\* Whenever the cache is full, that is whenever the next Set of a new key will
\* evict, MinFreq is exact and its bucket has a key, as long as counts fit in an
\* int.  It is not exact in every state: empty buckets stay in FreqBuckets and
\* mislead UpdateMinFreq after an Erase; what saves EvictLFU is that a cache
\* cannot fill up again without a Set that resets MinFreq to 1.
EvictionReady == Full /\ SizeLimit > 0 /\ CountsFit => MinFreqExact(index)

\* The cache is an LFU cache: as long as counts fit in an int, each of its
\* operations is one of the policy's, on the same keys, values and use counts,
\* and evicts the same key.
Policy == INSTANCE LfuPolicy WITH store <- index.keyMap, limit <- SizeLimit
ImplementsPolicy == Policy!Init /\ [][CountsFit => Policy!Next]_Policy!vars
=============================================================================
