-------------------- MODULE TLfuCacheThreadsafeLazyUpdate ---------------------
(***************************************************************************)
(* LRUCache/TLfuCacheThreadsafeLazyUpdate.h: the LFU cache under one       *)
(* shared_mutex.  TryGet reads under a shared lock and counts the read in  *)
(* the atomic readCounter of the node; only when that reaches              *)
(* LazyUpdateThreshold does it take the unique lock, in a second critical  *)
(* section, to turn the reads into one use of the key.                     *)
(*                                                                         *)
(* A section under the unique lock is one step, possible when no thread    *)
(* holds the lock shared.  Sections under the shared lock overlap, so that *)
(* the fetch_add and the load of readCounter are steps of their own.       *)
(***************************************************************************)
EXTENDS LfuIndex, Functions

CONSTANTS Threads,
          NoKey,         \* no key
          SizeLimit,     \* the constructor's first argument
          MaxThreshold,  \* bound: its second argument
          MaxUses        \* bound: the reads and Sets of a key while it is stored

\* Node::freq is an int here: the bound, with the late updates of readers, keeps it
\* from overflowing.
ASSUME LazyAssumption ==
  /\ SizeLimit \in Nat /\ MaxThreshold \in Nat /\ MaxUses \in Nat
  /\ MaxUses + Cardinality(Threads) < IntMax
  /\ IsFiniteSet(Keys) /\ IsFiniteSet(Threads) /\ NoKey \notin Keys

VARIABLES LazyUpdateThreshold,
          index,        \* KeyMap (without readCounter), FreqBuckets and MinFreq
          readCounter,  \* of each node
          at,           \* where each thread is in TryGet
          key,          \* the key it gets, NoKey when it is not there
          reads,        \* history: the reads of each key while it is stored
          overlaps,     \* history: of those, the ones that began while another had not returned
          sets,         \* history: the Sets of it, without the one that stored it
          recency       \* history: the keys, the one last used (and counted) at the front

vars == <<LazyUpdateThreshold, index, readCounter, at, key, reads, overlaps, sets, recency>>

Init ==
  /\ LazyUpdateThreshold \in 0 .. MaxThreshold
  /\ index = EmptyIndex /\ readCounter = << >>
  /\ at = [t \in Threads |-> "idle"] /\ key = [t \in Threads |-> NoKey]
  /\ reads = << >> /\ overlaps = << >> /\ sets = << >> /\ recency = << >>

Present(k) == k \in DOMAIN index.keyMap

\* No thread holds mtx shared: it can be locked.
Unlocked == \A t \in Threads : at[t] # "reading"

-----------------------------------------------------------------------------
\* Mutant: the bucket of the old frequency keeps the key.
UseKeepingOld(c, k) == UpdateFrequencyKeepingOld(c, k)

\* Mutant: the key enters its new bucket at the back.
UseToBack(c, k) == UpdateFrequencyToBack(c, k)

\* UpdateFrequency(key), as this header writes it out.
Use(c, k) == IF k \in DOMAIN c.keyMap THEN UpdateFrequency(c, k) ELSE c

\* KeyMap.size() >= SizeLimit
Full == Cardinality(DOMAIN index.keyMap) >= SizeLimit

\* EvictLFU() and the UpdateMinFreq() it ends with, as this header writes them out.
MakeRoom == EvictLFU(index)

\* The map f with y at k.
With(f, k, y) == [x \in DOMAIN f \cup {k} |-> IF x = k THEN y ELSE f[x]]

\* Mutant: a new key has not been used yet.
NewNodeUncounted(c, k, v) == InsertUncounted(c, k, v)

\* The tail of Set: a new node, its counter apart.
NewNode(c, k, v) == Insert(c, k, v)

\* history
Promote(order, k) == <<k>> \o RemoveFirst(order, k)

\* The threads in TryGet that have found k.
Readers(k) == {t \in Threads : key[t] = k}

\* The bound on what is done to k.
Fresh(k) == reads[k] + sets[k] < MaxUses

-----------------------------------------------------------------------------
(***************************************************************************)
(* TryGet.                                                                 *)
(***************************************************************************)
\* Mutant: the counter must pass the threshold.
MetBeyond(k) == readCounter[k] > LazyUpdateThreshold

\* readCounter >= LazyUpdateThreshold
Met(k) == readCounter[k] >= LazyUpdateThreshold

\* The key is found under the shared lock, its value copied and its counter
\* increased.
Read(t, k) ==
  /\ at[t] = "idle"
  /\ Present(k) /\ Fresh(k)
  /\ readCounter' = [readCounter EXCEPT ![k] = @ + 1]
  /\ reads' = [reads EXCEPT ![k] = @ + 1]
  /\ overlaps' = IF Readers(k) = {} THEN overlaps ELSE [overlaps EXCEPT ![k] = @ + 1]
  /\ at' = [at EXCEPT ![t] = "reading"] /\ key' = [key EXCEPT ![t] = k]
  /\ UNCHANGED <<LazyUpdateThreshold, index, sets, recency>>

\* TryGet returns the value it copied.
Return(t) == at' = [at EXCEPT ![t] = "idle"] /\ key' = [key EXCEPT ![t] = NoKey]

\* The counter is loaded, by now perhaps increased by others, and the shared lock
\* released.
Check(t) ==
  /\ at[t] = "reading"
  /\ IF Met(key[t])
       THEN at' = [at EXCEPT ![t] = "updating"] /\ UNCHANGED key
       ELSE Return(t)
  /\ UNCHANGED <<LazyUpdateThreshold, index, readCounter, reads, overlaps, sets, recency>>

\* Mutant: the counter is not looked at again.
StillThere(k) == Present(k)

\* What TryGet tests again under the unique lock.
StillDue(k) == Present(k) /\ Met(k)

\* The second critical section: the key may be gone, may have gone and come back,
\* and another reader may have reset its counter.
Update(t) ==
  /\ at[t] = "updating" /\ Unlocked
  /\ Return(t)
  /\ IF StillDue(key[t])
       THEN /\ index' = Use(index, key[t])
            /\ readCounter' = [readCounter EXCEPT ![key[t]] = 0]
            /\ recency' = Promote(recency, key[t])
       ELSE UNCHANGED <<index, readCounter, recency>>
  /\ UNCHANGED <<LazyUpdateThreshold, reads, overlaps, sets>>

-----------------------------------------------------------------------------
(***************************************************************************)
(* Set and Erase, by any thread that is not in TryGet.                     *)
(***************************************************************************)
\* A key that is there: the use counts at once, and in readCounter as well.
SetPresent(k, v) ==
  /\ Unlocked /\ SizeLimit > 0
  /\ Present(k) /\ Fresh(k)
  /\ index' = Use(SetValue(index, k, v), k)
  /\ readCounter' = [readCounter EXCEPT ![k] = @ + 1]
  /\ sets' = [sets EXCEPT ![k] = @ + 1]
  /\ recency' = Promote(recency, k)
  /\ UNCHANGED <<LazyUpdateThreshold, at, key, reads, overlaps>>

\* A new key, after EvictLFU if the cache is full.
SetAbsent(k, v) ==
  /\ Unlocked /\ SizeLimit > 0
  /\ ~Present(k)
  /\ LET room == IF Full THEN MakeRoom ELSE index
         kept == DOMAIN room.keyMap
         rest == IF Full THEN RemoveFirst(recency, Victim(index)) ELSE recency
     IN  /\ index' = NewNode(room, k, v)
         /\ readCounter' = With(Restrict(readCounter, kept), k, 0)
         /\ reads' = With(Restrict(reads, kept), k, 0)
         /\ overlaps' = With(Restrict(overlaps, kept), k, 0)
         /\ sets' = With(Restrict(sets, kept), k, 0)
         /\ recency' = Promote(rest, k)
  /\ UNCHANGED <<LazyUpdateThreshold, at, key>>

Erase(k) ==
  /\ Unlocked
  /\ Present(k)
  /\ index' = EraseKey(index, k)
  /\ readCounter' = Without(readCounter, k)
  /\ reads' = Without(reads, k) /\ overlaps' = Without(overlaps, k) /\ sets' = Without(sets, k)
  /\ recency' = RemoveFirst(recency, k)
  /\ UNCHANGED <<LazyUpdateThreshold, at, key>>

Next ==
  \/ \E t \in Threads : Check(t) \/ Update(t) \/ \E k \in Keys : Read(t, k)
  \/ \E k \in Keys :
       Erase(k) \/ \E v \in Values : SetPresent(k, v) \/ SetAbsent(k, v)

Spec == Init /\ [][Next]_vars

-----------------------------------------------------------------------------
(***************************************************************************)
(* Properties.                                                             *)
(***************************************************************************)
TypeOK ==
  /\ LazyUpdateThreshold \in 0 .. MaxThreshold
  /\ IndexType(index)
  /\ \A f \in {readCounter, reads, overlaps, sets} : f \in [DOMAIN index.keyMap -> 0 .. MaxUses]
  /\ at \in [Threads -> {"idle", "reading", "updating"}]
  /\ key \in [Threads -> Keys \cup {NoKey}]
  /\ recency \in Seq(Keys)

\* Whatever happens between the two critical sections of TryGet, KeyMap and
\* FreqBuckets describe the same cache and every Node::it points at its own key.
IndexConsistent == BucketsMatchKeys(index)

\* How often readers have updated the frequency of k.
Updates(k) == index.keyMap[k].freq - 1 - sets[k]

\* Each update of a frequency was earned by LazyUpdateThreshold reads and Sets of
\* its own: readers that meet the threshold together count once, and one that
\* comes late, after another has reset the counter or the key has been evicted and
\* stored again, does not count the reads a second time.
FrequencyEarned ==
  \A k \in DOMAIN index.keyMap :
    LazyUpdateThreshold * Updates(k) + readCounter[k] <= reads[k] + sets[k]

\* The reads of k that may pass without an update of its frequency.
Slack == IF LazyUpdateThreshold = 0 THEN 0 ELSE LazyUpdateThreshold - 1

\* Reads that do not overlap are all counted, as the threshold has it: the frequency
\* falls behind only by the reads below the threshold, by reads that began while
\* another of the same key had not returned, and by one that is still there.  No
\* wish to update gets lost between the two locks.  (Readers that meet the threshold
\* together count once; testLfuCacheThreadsafeLazyUpdate.cpp:82-90 has two of them.)
LagBounded ==
  \A k \in DOMAIN index.keyMap :
    reads[k] <= Updates(k) * (Slack + 1) + Slack + overlaps[k]
                  + (IF Readers(k) = {} THEN 0 ELSE 1)

\* Under any interleaving the cache is an LFU cache of the uses it has counted:
\* an update by a reader is a use of the key, a read on its own changes nothing.
\* So MinFreq leads EvictLFU to the right key, and to one, also after the late
\* updates of readers that were overtaken, and the limit is kept.
Policy == INSTANCE LfuPolicy WITH store <- index.keyMap, limit <- SizeLimit
ImplementsPolicy == Policy!Spec
=============================================================================
