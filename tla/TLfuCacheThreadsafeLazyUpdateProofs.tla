------------------ MODULE TLfuCacheThreadsafeLazyUpdateProofs ------------------
(***************************************************************************)
(* Theorems about TLfuCacheThreadsafeLazyUpdate, for every set of threads, *)
(* keys and values, every limit and threshold, and every bound on the uses *)
(* of a key that leaves room in an int for the late updates of the readers *)
(* (LazyAssumption).                                                       *)
(***************************************************************************)
EXTENDS TLfuCacheThreadsafeLazyUpdate, LfuIndexProofs

-----------------------------------------------------------------------------
(***************************************************************************)
(* The inductive invariant.                                                *)
(***************************************************************************)
NumThreads == Cardinality(Threads)

\* Slack for the threshold T.
SlackOf(T) == IF T = 0 THEN 0 ELSE T - 1

(***************************************************************************)
(* What is known of a key with u updates of its frequency by readers, read *)
(* counter c, r reads, o of which overlap another, s Sets, and n threads   *)
(* in TryGet with it.                                                      *)
(*   - At most r + NumThreads - n of the updates can have been made: a     *)
(*     thread whose key was evicted and stored again has no read of its    *)
(*     own, and makes one update at most before it returns.  So the        *)
(*     frequency, an int, does not overflow.                               *)
(*   - The reads that overlap none and are not yet turned into updates are *)
(*     no more than the counter, which Sets increase as well, and no more  *)
(*     than those that came while the counter was below the threshold, and *)
(*     one whose reader is still there: neither bound is inductive without *)
(*     the other.                                                          *)
(***************************************************************************)
Good(T, u, c, r, o, s, n) ==
  /\ u \in Nat /\ c \in Nat /\ r \in Nat /\ o \in Nat /\ s \in Nat /\ n \in Nat
  /\ o <= r /\ r + s <= MaxUses
  /\ u + n <= r + NumThreads
  /\ T * u + c <= r + s
  /\ r <= u * (SlackOf(T) + 1) + SlackOf(T) + o + (IF n = 0 THEN 0 ELSE 1)
  /\ r <= u * (SlackOf(T) + 1) + o + c

KeyGood(k) ==
  Good(LazyUpdateThreshold, Updates(k), readCounter[k], reads[k], overlaps[k], sets[k],
       Cardinality(Readers(k)))

\* A full cache knows its least frequency.
VictimKnown == Full /\ SizeLimit > 0 => MinFreqExact(index)

HistoryTypes ==
  /\ readCounter \in [DOMAIN index.keyMap -> Nat]
  /\ reads \in [DOMAIN index.keyMap -> Nat]
  /\ overlaps \in [DOMAIN index.keyMap -> Nat]
  /\ sets \in [DOMAIN index.keyMap -> Nat]

\* A thread has a key exactly while it is in TryGet.
ThreadsHaveKeys ==
  /\ at \in [Threads -> {"idle", "reading", "updating"}]
  /\ key \in [Threads -> Keys \cup {NoKey}]
  /\ \A t \in Threads : at[t] = "idle" <=> key[t] = NoKey

IInv ==
  /\ LazyUpdateThreshold \in 0 .. MaxThreshold
  /\ Sound(index) /\ Ordered(index, recency)
  /\ Cardinality(DOMAIN index.keyMap) <= SizeLimit
  /\ VictimKnown
  /\ HistoryTypes /\ ThreadsHaveKeys
  /\ \A k \in DOMAIN index.keyMap : KeyGood(k)

-----------------------------------------------------------------------------
(***************************************************************************)
(* The counts of one key.                                                  *)
(***************************************************************************)
\* What is known of the constants.
LEMMA Constants ==
  /\ NumThreads \in Nat /\ IsFiniteSet(Threads) /\ IsFiniteSet(Keys)
  /\ SizeLimit \in Nat /\ MaxUses \in Nat /\ IntMax \in Nat
  /\ MaxUses + NumThreads < IntMax
  /\ \A T \in 0 .. MaxThreshold : T \in Nat /\ SlackOf(T) \in Nat
  /\ \A T \in 0 .. MaxThreshold : \A c \in Nat : c < T => c <= SlackOf(T)
<1>1. NumThreads \in Nat
  BY LazyAssumption, FS_CardinalityType DEF NumThreads
<1>2. \A T \in 0 .. MaxThreshold : T \in Nat /\ SlackOf(T) \in Nat
  BY LazyAssumption DEF SlackOf
<1>3. \A T \in 0 .. MaxThreshold : \A c \in Nat : c < T => c <= SlackOf(T)
  BY LazyAssumption DEF SlackOf
<1>. QED  BY <1>1, <1>2, <1>3, LazyAssumption, IntMaxAssumption DEF NumThreads

\* One more of u factors.
LEMMA OneMore == \A u, w \in Nat : (u + 1) * w = u * w + w /\ u * w \in Nat
  OBVIOUS

\* A read.
LEMMA GoodRead ==
  ASSUME NEW T \in 0 .. MaxThreshold, NEW u, NEW c, NEW r, NEW o, NEW s, NEW n,
         Good(T, u, c, r, o, s, n), r + s < MaxUses
  PROVE  Good(T, u, c + 1, r + 1, IF n = 0 THEN o ELSE o + 1, s, n + 1)
<1> DEFINE w == u * (SlackOf(T) + 1)
           e == T * u
<1>1. w \in Nat /\ e \in Nat /\ SlackOf(T) \in Nat /\ NumThreads \in Nat /\ MaxUses \in Nat
  BY Constants, OneMore DEF Good
<1>. HIDE DEF w, e
<1>. QED  BY <1>1 DEF Good, w, e

\* A reader returns, the counter being below the threshold.
LEMMA GoodLeave ==
  ASSUME NEW T \in 0 .. MaxThreshold, NEW u, NEW c, NEW r, NEW o, NEW s, NEW n,
         Good(T, u, c, r, o, s, n), n > 0, c < T
  PROVE  Good(T, u, c, r, o, s, n - 1)
<1> DEFINE w == u * (SlackOf(T) + 1)
           e == T * u
<1>1. /\ w \in Nat /\ e \in Nat /\ SlackOf(T) \in Nat /\ NumThreads \in Nat /\ MaxUses \in Nat
      /\ c <= SlackOf(T)
  BY Constants, OneMore DEF Good
<1>. HIDE DEF w, e
<1>. QED  BY <1>1 DEF Good, w, e

\* A reader updates the frequency, the counter having met the threshold.
LEMMA GoodUpdate ==
  ASSUME NEW T \in 0 .. MaxThreshold, NEW u, NEW c, NEW r, NEW o, NEW s, NEW n,
         Good(T, u, c, r, o, s, n), n > 0, n <= NumThreads, c >= T
  PROVE  Good(T, u + 1, 0, r, o, s, n - 1)
<1> DEFINE w == u * (SlackOf(T) + 1)
           e == T * u
<1>1. /\ w \in Nat /\ e \in Nat /\ SlackOf(T) \in Nat /\ NumThreads \in Nat /\ MaxUses \in Nat
      /\ T \in Nat
  BY Constants, OneMore DEF Good
<1>2. (u + 1) * (SlackOf(T) + 1) = w + SlackOf(T) + 1
  BY <1>1, OneMore DEF Good
<1>3. T * (u + 1) = e + T
  BY <1>1 DEF Good
<1>. HIDE DEF w, e
<1>4. /\ u \in Nat /\ c \in Nat /\ r \in Nat /\ o \in Nat /\ s \in Nat /\ n \in Nat
      /\ o <= r /\ r + s <= MaxUses
      /\ u + n <= r + NumThreads
      /\ e + c <= r + s
      /\ r <= w + SlackOf(T) + o + 1
  BY DEF Good, w, e
<1>5. e + T + 0 <= r + s
  BY <1>1, <1>4
<1>. QED  BY <1>1, <1>2, <1>3, <1>4, <1>5 DEF Good

\* A Set of the key: a use, and the counter is increased as well.
LEMMA GoodSet ==
  ASSUME NEW T \in 0 .. MaxThreshold, NEW u, NEW c, NEW r, NEW o, NEW s, NEW n,
         Good(T, u, c, r, o, s, n), r + s < MaxUses
  PROVE  Good(T, u, c + 1, r, o, s + 1, n)
<1> DEFINE w == u * (SlackOf(T) + 1)
           e == T * u
<1>1. w \in Nat /\ e \in Nat /\ SlackOf(T) \in Nat /\ NumThreads \in Nat /\ MaxUses \in Nat
  BY Constants, OneMore DEF Good
<1>. HIDE DEF w, e
<1>. QED  BY <1>1 DEF Good, w, e

\* A new key, which threads that had found an earlier node of it may still have.
LEMMA GoodNew ==
  ASSUME NEW T \in 0 .. MaxThreshold, NEW n \in Nat, n <= NumThreads
  PROVE  Good(T, 0, 0, 0, 0, 0, n)
<1>1. T \in Nat /\ SlackOf(T) \in Nat /\ NumThreads \in Nat /\ MaxUses \in Nat
  BY Constants
<1>2. T * 0 = 0 /\ 0 * (SlackOf(T) + 1) = 0
  BY <1>1
<1>. QED  BY <1>1, <1>2 DEF Good

-----------------------------------------------------------------------------
(***************************************************************************)
(* The threads in TryGet.                                                  *)
(***************************************************************************)
\* The readers of a key are some of the threads.
LEMMA ReadersCounted ==
  ASSUME NEW k
  PROVE  /\ IsFiniteSet(Readers(k))
         /\ Cardinality(Readers(k)) \in Nat /\ Cardinality(Readers(k)) <= NumThreads
         /\ Cardinality(Readers(k)) = 0 <=> Readers(k) = {}
         /\ \A t \in Readers(k) : /\ Cardinality(Readers(k)) > 0
                                  /\ Cardinality(Readers(k) \ {t}) = Cardinality(Readers(k)) - 1
         /\ \A t \in Threads \ Readers(k) :
              Cardinality(Readers(k) \cup {t}) = Cardinality(Readers(k)) + 1
<1> DEFINE R == Readers(k)
<1>1. R \subseteq Threads /\ IsFiniteSet(Threads)
  BY Constants DEF Readers
<1>. HIDE DEF R
<1>2. IsFiniteSet(R) /\ Cardinality(R) <= NumThreads
  BY <1>1, FS_Subset DEF NumThreads
<1>3. Cardinality(R) \in Nat
  BY <1>2, FS_CardinalityType
<1>4. ASSUME NEW t \in R  PROVE Cardinality(R) > 0 /\ Cardinality(R \ {t}) = Cardinality(R) - 1
  <2>1. Cardinality(R \ {t}) = Cardinality(R) - 1
    BY <1>2, FS_RemoveElement
  <2>2. R \ {t} \subseteq R
    OBVIOUS
  <2>3. IsFiniteSet(R \ {t})
    BY <1>2, <2>2, FS_Subset
  <2>4. Cardinality(R \ {t}) \in Nat
    BY <2>3, FS_CardinalityType
  <2>. QED  BY <1>3, <2>1, <2>4
<1>5. ASSUME NEW t \in Threads \ R  PROVE Cardinality(R \cup {t}) = Cardinality(R) + 1
  BY <1>2, FS_AddElement
<1>6. Cardinality(R) = 0 <=> R = {}
  BY <1>2, FS_EmptySet
<1>. QED  BY <1>2, <1>3, <1>4, <1>5, <1>6 DEF R

\* A thread that begins TryGet of k is a reader of k and of no other key.
LEMMA ReaderEnters ==
  ASSUME ThreadsHaveKeys, NEW t \in Threads, at[t] = "idle", NEW k \in Keys,
         key' = [key EXCEPT ![t] = k], at' = [at EXCEPT ![t] = "reading"]
  PROVE  /\ ThreadsHaveKeys'
         /\ t \notin Readers(k) /\ Readers(k)' = Readers(k) \cup {t}
         /\ \A x \in Keys : x # k => Readers(x)' = Readers(x)
<1>1. key[t] = NoKey /\ k # NoKey /\ \A x \in Keys : x # NoKey
  BY LazyAssumption DEF ThreadsHaveKeys
<1>2. ThreadsHaveKeys'
  BY <1>1 DEF ThreadsHaveKeys
<1>3. \A x \in Threads : key'[x] = IF x = t THEN k ELSE key[x]
  BY DEF ThreadsHaveKeys
<1>. QED  BY <1>1, <1>2, <1>3 DEF Readers

\* A thread that returns from TryGet is no reader any more.
LEMMA ReaderReturns ==
  ASSUME ThreadsHaveKeys, NEW t \in Threads, at[t] # "idle", Return(t),
         NEW k, k = key[t]
  PROVE  /\ ThreadsHaveKeys'
         /\ k \in Keys
         /\ t \in Readers(k) /\ Readers(k)' = Readers(k) \ {t}
         /\ \A x \in Keys : x # k => Readers(x)' = Readers(x)
<1>1. k \in Keys /\ k # NoKey /\ \A x \in Keys : x # NoKey
  BY LazyAssumption DEF ThreadsHaveKeys
<1>2. ThreadsHaveKeys'
  BY DEF ThreadsHaveKeys, Return
<1>3. \A x \in Threads : key'[x] = IF x = t THEN NoKey ELSE key[x]
  BY DEF ThreadsHaveKeys, Return
<1>. QED  BY <1>1, <1>2, <1>3 DEF Readers

-----------------------------------------------------------------------------
(***************************************************************************)
(* The steps.                                                              *)
(***************************************************************************)
\* An empty cache has the invariant.
LEMMA InitInvariant == Init => IInv
<1>. SUFFICES ASSUME Init  PROVE IInv
  OBVIOUS
<1>1. index.keyMap = << >> /\ DOMAIN index.keyMap = {}
  BY DEF Init, EmptyIndex
<1>2. Sound(index) /\ Ordered(index, recency)
  BY EmptyIndexSound DEF Init
<1>3. Cardinality(DOMAIN index.keyMap) = 0
  BY <1>1, FS_EmptySet
<1>4. Cardinality(DOMAIN index.keyMap) <= SizeLimit /\ VictimKnown
  BY <1>3, Constants DEF VictimKnown, Full
<1>5. HistoryTypes
  BY <1>1 DEF Init, HistoryTypes
<1>6. ThreadsHaveKeys
  BY DEF Init, ThreadsHaveKeys
<1>7. LazyUpdateThreshold \in 0 .. MaxThreshold
  BY DEF Init
<1>. QED  BY <1>1, <1>2, <1>4, <1>5, <1>6, <1>7 DEF IInv

\* What the steps need of the invariant.
LEMMA KeyFacts ==
  ASSUME IInv, NEW k \in DOMAIN index.keyMap
  PROVE  /\ k \in Keys
         /\ index.keyMap[k].freq \in Nat \ {0}
         /\ index.keyMap[k].freq = 1 + sets[k] + Updates(k)
         /\ KeyGood(k)
         /\ Updates(k) \in Nat /\ sets[k] \in Nat /\ reads[k] \in Nat /\ readCounter[k] \in Nat
         /\ overlaps[k] \in Nat /\ overlaps[k] <= reads[k]
         /\ reads[k] + sets[k] <= MaxUses
         /\ Updates(k) + Cardinality(Readers(k)) <= reads[k] + NumThreads
<1>1. k \in Keys /\ index.keyMap[k].freq \in Nat \ {0}
  BY DEF IInv, Sound, IndexType
<1>2. KeyGood(k) /\ sets[k] \in Nat
  BY DEF IInv, HistoryTypes
<1>3. index.keyMap[k].freq = 1 + sets[k] + Updates(k)
  BY <1>1, <1>2 DEF Updates
<1>. QED  BY <1>1, <1>2, <1>3 DEF KeyGood, Good

\* A key in use has room for one use more in an int.
LEMMA RoomForAUse ==
  ASSUME IInv, NEW k \in DOMAIN index.keyMap,
         Fresh(k) \/ Cardinality(Readers(k)) > 0
  PROVE  index.keyMap[k].freq < IntMax
<1>1. Cardinality(Readers(k)) \in Nat
  BY ReadersCounted
<1>. QED  BY <1>1, KeyFacts, Constants DEF Fresh

\* A read under the shared lock.
LEMMA ReadInvariant ==
  ASSUME IInv, NEW t \in Threads, NEW k \in Keys, Read(t, k)
  PROVE  IInv'
<1>1. /\ at[t] = "idle" /\ k \in DOMAIN index.keyMap /\ Fresh(k)
      /\ readCounter' = [readCounter EXCEPT ![k] = @ + 1]
      /\ reads' = [reads EXCEPT ![k] = @ + 1]
      /\ overlaps' = IF Readers(k) = {} THEN overlaps ELSE [overlaps EXCEPT ![k] = @ + 1]
      /\ at' = [at EXCEPT ![t] = "reading"] /\ key' = [key EXCEPT ![t] = k]
      /\ LazyUpdateThreshold' = LazyUpdateThreshold /\ index' = index
      /\ sets' = sets /\ recency' = recency
  BY DEF Read, Present
<1>2. /\ ThreadsHaveKeys'
      /\ t \notin Readers(k) /\ Readers(k)' = Readers(k) \cup {t}
      /\ \A x \in Keys : x # k => Readers(x)' = Readers(x)
  BY <1>1, ReaderEnters DEF IInv
<1>3. /\ HistoryTypes'
      /\ \A x \in DOMAIN index.keyMap :
           /\ readCounter'[x] = IF x = k THEN readCounter[x] + 1 ELSE readCounter[x]
           /\ reads'[x] = IF x = k THEN reads[x] + 1 ELSE reads[x]
           /\ overlaps'[x] = IF x = k /\ Readers(k) # {} THEN overlaps[x] + 1 ELSE overlaps[x]
  BY <1>1 DEF IInv, HistoryTypes
<1>4. ASSUME NEW x \in DOMAIN index.keyMap  PROVE KeyGood(x)'
  <2>1. x \in Keys /\ KeyGood(x) /\ Updates(x)' = Updates(x)
    BY <1>1, KeyFacts DEF Updates
  <2>2. CASE x = k
    <3>1. Cardinality(Readers(k)') = Cardinality(Readers(k)) + 1
      BY <1>2, ReadersCounted
    <3>2. LazyUpdateThreshold \in 0 .. MaxThreshold /\ reads[k] + sets[k] < MaxUses
      BY <1>1 DEF IInv, Fresh
    <3>3. Good(LazyUpdateThreshold, Updates(k), readCounter[k] + 1, reads[k] + 1,
               IF Cardinality(Readers(k)) = 0 THEN overlaps[k] ELSE overlaps[k] + 1,
               sets[k], Cardinality(Readers(k)) + 1)
      BY <2>1, <2>2, <3>2, GoodRead DEF KeyGood
    <3>4. overlaps'[k] = IF Cardinality(Readers(k)) = 0 THEN overlaps[k] ELSE overlaps[k] + 1
      BY <1>3, <2>2, ReadersCounted
    <3>. QED  BY <1>1, <1>3, <2>1, <2>2, <3>1, <3>3, <3>4 DEF KeyGood
  <2>3. CASE x # k
    BY <1>1, <1>2, <1>3, <2>1, <2>3 DEF KeyGood
  <2>. QED  BY <2>2, <2>3
<1>. QED  BY <1>1, <1>2, <1>3, <1>4 DEF IInv, VictimKnown, Full

\* The load of the counter: a thread that returns leaves the counter below the
\* threshold.
LEMMA CheckInvariant ==
  ASSUME IInv, NEW t \in Threads, Check(t)
  PROVE  IInv'
<1>1. /\ at[t] = "reading"
      /\ LazyUpdateThreshold' = LazyUpdateThreshold /\ index' = index
      /\ readCounter' = readCounter /\ reads' = reads /\ overlaps' = overlaps
      /\ sets' = sets /\ recency' = recency
      /\ HistoryTypes'
  BY DEF Check, IInv, HistoryTypes
<1>2. PICK k : k = key[t]
  OBVIOUS
<1>3. ThreadsHaveKeys' /\ \A x \in DOMAIN index.keyMap : KeyGood(x)'
  <2>1. CASE Met(k)
    <3>1. at' = [at EXCEPT ![t] = "updating"] /\ key' = key
      BY <1>2, <2>1 DEF Check
    <3>2. ThreadsHaveKeys'
      BY <1>1, <3>1 DEF IInv, ThreadsHaveKeys
    <3>3. \A x : Readers(x)' = Readers(x) /\ Updates(x)' = Updates(x)
      BY <1>1, <3>1 DEF Readers, Updates
    <3>. QED  BY <1>1, <3>2, <3>3, KeyFacts DEF KeyGood
  <2>2. CASE ~Met(k)
    <3>1. Return(t)
      BY <1>2, <2>2 DEF Check
    <3>2. /\ ThreadsHaveKeys'
          /\ k \in Keys /\ t \in Readers(k) /\ Readers(k)' = Readers(k) \ {t}
          /\ \A x \in Keys : x # k => Readers(x)' = Readers(x)
      BY <1>1, <1>2, <3>1, ReaderReturns DEF IInv
    <3>3. ASSUME NEW x \in DOMAIN index.keyMap  PROVE KeyGood(x)'
      <4>1. x \in Keys /\ KeyGood(x) /\ Updates(x)' = Updates(x)
        BY <1>1, KeyFacts DEF Updates
      <4>2. CASE x = k
        <5>1. /\ Cardinality(Readers(k)) > 0
              /\ Cardinality(Readers(k)') = Cardinality(Readers(k)) - 1
          BY <3>2, ReadersCounted
        <5>2. LazyUpdateThreshold \in 0 .. MaxThreshold /\ LazyUpdateThreshold \in Nat
          BY Constants DEF IInv
        <5>3. readCounter[k] < LazyUpdateThreshold
          BY <2>2, <4>2, <5>2, KeyFacts DEF Met
        <5>4. Good(LazyUpdateThreshold, Updates(k), readCounter[k], reads[k], overlaps[k], sets[k],
                   Cardinality(Readers(k)) - 1)
          BY <4>1, <4>2, <5>1, <5>2, <5>3, GoodLeave DEF KeyGood
        <5>. QED  BY <1>1, <4>1, <4>2, <5>1, <5>4 DEF KeyGood
      <4>3. CASE x # k
        BY <1>1, <3>2, <4>1, <4>3 DEF KeyGood
      <4>. QED  BY <4>2, <4>3
    <3>. QED  BY <3>2, <3>3
  <2>. QED  BY <2>1, <2>2
<1>. QED  BY <1>1, <1>3 DEF IInv, VictimKnown, Full

\* A step that keeps the set of keys and does not make MinFreq wrong.
LEMMA SameKeys ==
  ASSUME IInv, Sound(index'), Ordered(index', recency'),
         DOMAIN index'.keyMap = DOMAIN index.keyMap,
         MinFreqExact(index) => MinFreqExact(index'),
         LazyUpdateThreshold' = LazyUpdateThreshold,
         HistoryTypes', ThreadsHaveKeys',
         \A x \in DOMAIN index.keyMap : KeyGood(x)'
  PROVE  IInv'
<1>1. VictimKnown'
  BY DEF IInv, VictimKnown, Full
<1>. QED  BY <1>1 DEF IInv

\* The second critical section of TryGet.
LEMMA UpdateInvariant ==
  ASSUME IInv, NEW t \in Threads, Update(t)
  PROVE  IInv'
<1>1. PICK k : k = key[t]
  OBVIOUS
<1>2. /\ at[t] = "updating" /\ Return(t)
      /\ LazyUpdateThreshold' = LazyUpdateThreshold
      /\ reads' = reads /\ overlaps' = overlaps /\ sets' = sets
  BY DEF Update
<1>3. /\ ThreadsHaveKeys'
      /\ k \in Keys /\ t \in Readers(k) /\ Readers(k)' = Readers(k) \ {t}
      /\ \A x \in Keys : x # k => Readers(x)' = Readers(x)
  BY <1>1, <1>2, ReaderReturns DEF IInv
<1>4. /\ Cardinality(Readers(k)) \in Nat /\ Cardinality(Readers(k)) <= NumThreads
      /\ Cardinality(Readers(k)) > 0
      /\ Cardinality(Readers(k)') = Cardinality(Readers(k)) - 1
  BY <1>3, ReadersCounted
<1>5. LazyUpdateThreshold \in 0 .. MaxThreshold /\ LazyUpdateThreshold \in Nat
  BY Constants DEF IInv
<1>6. Sound(index) /\ Ordered(index, recency)
  BY DEF IInv
<1>7. CASE StillDue(k)
  <2>1. /\ k \in DOMAIN index.keyMap /\ readCounter[k] >= LazyUpdateThreshold
        /\ index' = UpdateFrequency(index, k)
        /\ readCounter' = [readCounter EXCEPT ![k] = 0]
        /\ recency' = MovedToFront(recency, k)
    BY <1>1, <1>7 DEF Update, StillDue, Present, Met, Use, Promote, MovedToFront
  <2>2. index.keyMap[k].freq < IntMax
    BY <1>4, <2>1, RoomForAUse
  <2>3. /\ Sound(index')
        /\ index'.keyMap = [index.keyMap EXCEPT ![k].freq = @ + 1]
        /\ MinFreqExact(index) => MinFreqExact(index')
    BY <1>6, <2>1, <2>2, UpdateFrequencySound
  <2>4. Ordered(index', recency')
    BY <1>6, <2>1, <2>2, SoundAgreed, UpdateFrequencyOrdered
  <2>5. /\ DOMAIN index'.keyMap = DOMAIN index.keyMap
        /\ \A x \in DOMAIN index.keyMap :
             index'.keyMap[x].freq = IF x = k THEN index.keyMap[x].freq + 1
                                     ELSE index.keyMap[x].freq
    BY <2>1, <2>3 DEF IInv, Sound, IndexType
  <2>6. /\ HistoryTypes'
        /\ \A x \in DOMAIN index.keyMap :
             readCounter'[x] = IF x = k THEN 0 ELSE readCounter[x]
    BY <1>2, <2>1, <2>5 DEF IInv, HistoryTypes
  <2>7. ASSUME NEW x \in DOMAIN index.keyMap  PROVE KeyGood(x)'
    <3>1. x \in Keys /\ KeyGood(x)
      BY KeyFacts
    <3>2. CASE x = k
      <4>1. Updates(k)' = Updates(k) + 1
        BY <1>2, <2>1, <2>5, KeyFacts DEF Updates
      <4>2. Good(LazyUpdateThreshold, Updates(k) + 1, 0, reads[k], overlaps[k], sets[k],
                 Cardinality(Readers(k)) - 1)
        BY <1>4, <1>5, <2>1, <3>1, <3>2, GoodUpdate DEF KeyGood
      <4>. QED  BY <1>2, <1>4, <2>6, <3>2, <4>1, <4>2 DEF KeyGood
    <3>3. CASE x # k
      <4>1. Updates(x)' = Updates(x) /\ Readers(x)' = Readers(x)
        BY <1>2, <1>3, <2>5, <3>1, <3>3 DEF Updates
      <4>. QED  BY <1>2, <2>6, <3>1, <3>3, <4>1 DEF KeyGood
    <3>. QED  BY <3>2, <3>3
  <2>. QED  BY <1>2, <1>3, <2>3, <2>4, <2>5, <2>6, <2>7, SameKeys
<1>8. CASE ~StillDue(k)
  <2>1. index' = index /\ readCounter' = readCounter /\ recency' = recency
    BY <1>1, <1>8 DEF Update
  <2>2. HistoryTypes'
    BY <1>2, <2>1 DEF IInv, HistoryTypes
  <2>3. ASSUME NEW x \in DOMAIN index.keyMap  PROVE KeyGood(x)'
    <3>1. x \in Keys /\ KeyGood(x) /\ Updates(x)' = Updates(x)
      BY <1>2, <2>1, KeyFacts DEF Updates
    <3>2. CASE x = k
      <4>1. readCounter[k] < LazyUpdateThreshold
        BY <1>5, <1>8, <3>2, KeyFacts DEF StillDue, Present, Met
      <4>2. Good(LazyUpdateThreshold, Updates(k), readCounter[k], reads[k], overlaps[k], sets[k],
                 Cardinality(Readers(k)) - 1)
        BY <1>4, <1>5, <3>1, <3>2, <4>1, GoodLeave DEF KeyGood
      <4>. QED  BY <1>2, <1>4, <2>1, <3>1, <3>2, <4>2 DEF KeyGood
    <3>3. CASE x # k
      BY <1>2, <1>3, <2>1, <3>1, <3>3 DEF KeyGood
    <3>. QED  BY <3>2, <3>3
  <2>. QED  BY <1>2, <1>3, <1>6, <2>1, <2>2, <2>3, SameKeys
<1>. QED  BY <1>7, <1>8

\* Set of a key that is there: what becomes of the index.
LEMMA SetPresentIndex ==
  ASSUME IInv, NEW k \in Keys, NEW v \in Values, SetPresent(k, v)
  PROVE  /\ k \in DOMAIN index.keyMap
         /\ Sound(index') /\ Ordered(index', recency')
         /\ MinFreqExact(index) => MinFreqExact(index')
         /\ index'.keyMap = [index.keyMap EXCEPT ![k] = [value |-> v, freq |-> @.freq + 1]]
<1>1. PICK c : c = SetValue(index, k, v)
  OBVIOUS
<1>2. /\ k \in DOMAIN index.keyMap /\ Fresh(k)
      /\ index' = Use(c, k) /\ recency' = MovedToFront(recency, k)
  BY <1>1 DEF SetPresent, Present, Promote, MovedToFront
<1>3. Sound(index) /\ Ordered(index, recency) /\ index.keyMap[k].freq < IntMax
  BY <1>2, RoomForAUse DEF IInv
<1>4. /\ Sound(c) /\ k \in DOMAIN c.keyMap /\ c.keyMap[k].freq < IntMax
      /\ MinFreqExact(index) => MinFreqExact(c)
  <2>1. /\ Sound(c) /\ DOMAIN c.keyMap = DOMAIN index.keyMap
        /\ \A x \in DOMAIN index.keyMap : c.keyMap[x].freq = index.keyMap[x].freq
        /\ MinFreqExact(index) => MinFreqExact(c)
    BY <1>1, <1>2, <1>3, SetValueSound
  <2>. QED  BY <1>2, <1>3, <2>1
<1>5. Ordered(c, recency)
  BY <1>1, <1>2, <1>3, SoundAgreed, SetValueOrdered
<1>6. index' = UpdateFrequency(c, k)
  BY <1>2, <1>4 DEF Use
<1>7. /\ Sound(index')
      /\ index'.keyMap = [c.keyMap EXCEPT ![k].freq = @ + 1]
      /\ MinFreqExact(c) => MinFreqExact(index')
  BY <1>4, <1>6, UpdateFrequencySound
<1>8. Ordered(index', recency')
  BY <1>2, <1>4, <1>5, <1>6, SoundAgreed, UpdateFrequencyOrdered
<1>9. index'.keyMap = [index.keyMap EXCEPT ![k] = [value |-> v, freq |-> @.freq + 1]]
  <2>1. c.keyMap = [index.keyMap EXCEPT ![k].value = v]
    BY <1>1 DEF SetValue
  <2>2. index.keyMap \in [DOMAIN index.keyMap -> [value : Values, freq : Nat \ {0}]]
    BY <1>3 DEF Sound, IndexType
  <2>. QED  BY <1>2, <1>7, <2>1, <2>2
<1>. QED  BY <1>2, <1>4, <1>7, <1>8, <1>9

\* Set of a key that is there.
LEMMA SetPresentInvariant ==
  ASSUME IInv, NEW k \in Keys, NEW v \in Values, SetPresent(k, v)
  PROVE  IInv'
<1>1. /\ Fresh(k)
      /\ readCounter' = [readCounter EXCEPT ![k] = @ + 1]
      /\ sets' = [sets EXCEPT ![k] = @ + 1]
      /\ LazyUpdateThreshold' = LazyUpdateThreshold
      /\ at' = at /\ key' = key /\ reads' = reads /\ overlaps' = overlaps
  BY DEF SetPresent
<1>2. /\ k \in DOMAIN index.keyMap
      /\ Sound(index') /\ Ordered(index', recency')
      /\ MinFreqExact(index) => MinFreqExact(index')
      /\ index'.keyMap = [index.keyMap EXCEPT ![k] = [value |-> v, freq |-> @.freq + 1]]
  BY SetPresentIndex
<1>3. /\ DOMAIN index'.keyMap = DOMAIN index.keyMap
      /\ \A x \in DOMAIN index.keyMap :
           index'.keyMap[x].freq = IF x = k THEN index.keyMap[x].freq + 1
                                   ELSE index.keyMap[x].freq
  BY <1>2 DEF IInv, Sound, IndexType
<1>4. /\ HistoryTypes'
      /\ \A x \in DOMAIN index.keyMap :
           /\ readCounter'[x] = IF x = k THEN readCounter[x] + 1 ELSE readCounter[x]
           /\ sets'[x] = IF x = k THEN sets[x] + 1 ELSE sets[x]
  BY <1>1, <1>2, <1>3 DEF IInv, HistoryTypes
<1>5. ThreadsHaveKeys' /\ \A x : Readers(x)' = Readers(x)
  BY <1>1 DEF IInv, ThreadsHaveKeys, Readers
<1>6. ASSUME NEW x \in DOMAIN index.keyMap  PROVE KeyGood(x)'
  <2>1. x \in Keys /\ KeyGood(x)
    BY KeyFacts
  <2>2. Updates(x)' = Updates(x)
    <3>1. index.keyMap[x].freq \in Int /\ sets[x] \in Int
      BY KeyFacts
    <3>2. /\ x = k => index'.keyMap[x].freq = index.keyMap[x].freq + 1 /\ sets'[x] = sets[x] + 1
          /\ x # k => index'.keyMap[x].freq = index.keyMap[x].freq /\ sets'[x] = sets[x]
      BY <1>3, <1>4
    <3>. QED  BY <3>1, <3>2 DEF Updates
  <2>3. CASE x = k
    <3>1. LazyUpdateThreshold \in 0 .. MaxThreshold /\ reads[k] + sets[k] < MaxUses
      BY <1>1 DEF IInv, Fresh
    <3>2. Good(LazyUpdateThreshold, Updates(k), readCounter[k] + 1, reads[k], overlaps[k],
               sets[k] + 1, Cardinality(Readers(k)))
      BY <2>1, <2>3, <3>1, GoodSet DEF KeyGood
    <3>. QED  BY <1>1, <1>4, <1>5, <2>2, <2>3, <3>2 DEF KeyGood
  <2>4. CASE x # k
    BY <1>1, <1>4, <1>5, <2>1, <2>2, <2>4 DEF KeyGood
  <2>. QED  BY <2>3, <2>4
<1>. QED  BY <1>1, <1>2, <1>3, <1>4, <1>5, <1>6, SameKeys

\* Set of a new key: the index it enters, with room for it.
LEMMA SetAbsentRoom ==
  ASSUME IInv, NEW k \in Keys, NEW v \in Values, SetAbsent(k, v)
  PROVE  \E c, r :
           /\ Sound(c) /\ Ordered(c, r) /\ k \notin DOMAIN c.keyMap
           /\ Cardinality(DOMAIN c.keyMap) < SizeLimit
           /\ DOMAIN c.keyMap \subseteq DOMAIN index.keyMap
           /\ \A x \in DOMAIN c.keyMap : c.keyMap[x] = index.keyMap[x]
           /\ index' = Insert(c, k, v) /\ recency' = MovedToFront(r, k)
           /\ readCounter' = With(Restrict(readCounter, DOMAIN c.keyMap), k, 0)
           /\ reads' = With(Restrict(reads, DOMAIN c.keyMap), k, 0)
           /\ overlaps' = With(Restrict(overlaps, DOMAIN c.keyMap), k, 0)
           /\ sets' = With(Restrict(sets, DOMAIN c.keyMap), k, 0)
<1>1. /\ SizeLimit > 0 /\ k \notin DOMAIN index.keyMap /\ SizeLimit \in Nat
      /\ Full <=> Cardinality(DOMAIN index.keyMap) >= SizeLimit
  BY Constants DEF SetAbsent, Present, Full
<1>2. /\ Sound(index) /\ Ordered(index, recency)
      /\ Cardinality(DOMAIN index.keyMap) <= SizeLimit
      /\ Full => HasVictim(index)
      /\ DOMAIN index.keyMap \subseteq Keys
  BY <1>1 DEF IInv, VictimKnown, MinFreqExact, Sound, IndexType
<1>3. IsFiniteSet(DOMAIN index.keyMap) /\ Cardinality(DOMAIN index.keyMap) \in Nat
  <2>1. IsFiniteSet(DOMAIN index.keyMap)
    BY <1>2, Constants, FS_Subset
  <2>. QED  BY <2>1, FS_CardinalityType
<1>4. CASE Full
  <2>1. PICK c : c = EvictLFU(index)
    OBVIOUS
  <2>2. /\ Sound(c) /\ Victim(index) \in DOMAIN index.keyMap
        /\ c.keyMap = Without(index.keyMap, Victim(index))
    BY <1>2, <1>4, <2>1, EvictLFUSound
  <2>3. /\ DOMAIN c.keyMap = DOMAIN index.keyMap \ {Victim(index)}
        /\ \A x \in DOMAIN c.keyMap : c.keyMap[x] = index.keyMap[x]
    BY <2>2 DEF Without, Restrict
  <2>4. Cardinality(DOMAIN c.keyMap) = Cardinality(DOMAIN index.keyMap) - 1
    BY <1>3, <2>2, <2>3, FS_RemoveElement
  <2>5. Ordered(c, RemoveFirst(recency, Victim(index)))
    BY <1>2, <1>4, <2>1, SoundAgreed, EvictLFUOrdered
  <2>6. /\ index' = Insert(c, k, v)
        /\ recency' = MovedToFront(RemoveFirst(recency, Victim(index)), k)
        /\ readCounter' = With(Restrict(readCounter, DOMAIN c.keyMap), k, 0)
        /\ reads' = With(Restrict(reads, DOMAIN c.keyMap), k, 0)
        /\ overlaps' = With(Restrict(overlaps, DOMAIN c.keyMap), k, 0)
        /\ sets' = With(Restrict(sets, DOMAIN c.keyMap), k, 0)
    BY <1>4, <2>1 DEF SetAbsent, MakeRoom, NewNode, Promote, MovedToFront
  <2>7. Cardinality(DOMAIN c.keyMap) < SizeLimit
    BY <1>1, <1>2, <1>3, <2>4
  <2>8. k \notin DOMAIN c.keyMap /\ DOMAIN c.keyMap \subseteq DOMAIN index.keyMap
    BY <1>1, <2>3
  <2>. QED  BY <2>2, <2>3, <2>5, <2>6, <2>7, <2>8
<1>5. CASE ~Full
  <2>1. /\ index' = Insert(index, k, v) /\ recency' = MovedToFront(recency, k)
        /\ readCounter' = With(Restrict(readCounter, DOMAIN index.keyMap), k, 0)
        /\ reads' = With(Restrict(reads, DOMAIN index.keyMap), k, 0)
        /\ overlaps' = With(Restrict(overlaps, DOMAIN index.keyMap), k, 0)
        /\ sets' = With(Restrict(sets, DOMAIN index.keyMap), k, 0)
    BY <1>5 DEF SetAbsent, NewNode, Promote, MovedToFront
  <2>2. Cardinality(DOMAIN index.keyMap) < SizeLimit
    BY <1>1, <1>3, <1>5
  <2>. QED  BY <1>1, <1>2, <2>1, <2>2
<1>. QED  BY <1>4, <1>5

\* Set of a new key.
LEMMA SetAbsentInvariant ==
  ASSUME IInv, NEW k \in Keys, NEW v \in Values, SetAbsent(k, v)
  PROVE  IInv'
<1>1. PICK c, r :
        /\ Sound(c) /\ Ordered(c, r) /\ k \notin DOMAIN c.keyMap
        /\ Cardinality(DOMAIN c.keyMap) < SizeLimit
        /\ DOMAIN c.keyMap \subseteq DOMAIN index.keyMap
        /\ \A x \in DOMAIN c.keyMap : c.keyMap[x] = index.keyMap[x]
        /\ index' = Insert(c, k, v) /\ recency' = MovedToFront(r, k)
        /\ readCounter' = With(Restrict(readCounter, DOMAIN c.keyMap), k, 0)
        /\ reads' = With(Restrict(reads, DOMAIN c.keyMap), k, 0)
        /\ overlaps' = With(Restrict(overlaps, DOMAIN c.keyMap), k, 0)
        /\ sets' = With(Restrict(sets, DOMAIN c.keyMap), k, 0)
  BY SetAbsentRoom
<1>2. /\ Sound(index') /\ MinFreqExact(index')
      /\ index'.keyMap = [x \in DOMAIN c.keyMap \cup {k} |->
                            IF x = k THEN [value |-> v, freq |-> 1] ELSE c.keyMap[x]]
  BY <1>1, InsertSound
<1>3. Ordered(index', recency')
  BY <1>1, SoundAgreed, InsertOrdered
<1>4. /\ DOMAIN index'.keyMap = DOMAIN c.keyMap \cup {k}
      /\ index'.keyMap[k].freq = 1
      /\ \A x \in DOMAIN c.keyMap : x # k /\ index'.keyMap[x] = index.keyMap[x]
  BY <1>1, <1>2
<1>5. /\ HistoryTypes'
      /\ readCounter'[k] = 0 /\ reads'[k] = 0 /\ overlaps'[k] = 0 /\ sets'[k] = 0
      /\ \A x \in DOMAIN c.keyMap : /\ readCounter'[x] = readCounter[x]
                                   /\ reads'[x] = reads[x] /\ sets'[x] = sets[x]
                                   /\ overlaps'[x] = overlaps[x]
  BY <1>1, <1>4 DEF IInv, HistoryTypes, With, Restrict
<1>6. /\ LazyUpdateThreshold' = LazyUpdateThreshold
      /\ ThreadsHaveKeys' /\ \A x : Readers(x)' = Readers(x)
  BY DEF SetAbsent, IInv, ThreadsHaveKeys, Readers
<1>7. Cardinality(DOMAIN index'.keyMap) <= SizeLimit
  <2>1. DOMAIN c.keyMap \subseteq Keys
    BY <1>1 DEF Sound, IndexType
  <2>2. IsFiniteSet(DOMAIN c.keyMap)
    BY <2>1, Constants, FS_Subset
  <2>3. Cardinality(DOMAIN c.keyMap) \in Nat
    BY <2>2, FS_CardinalityType
  <2>4. Cardinality(DOMAIN c.keyMap \cup {k}) = Cardinality(DOMAIN c.keyMap) + 1
    BY <1>1, <2>2, FS_AddElement
  <2>. QED  BY <1>1, <1>4, <2>3, <2>4, Constants
<1>8. ASSUME NEW x \in DOMAIN index'.keyMap  PROVE KeyGood(x)'
  <2>1. CASE x = k
    <3>1. Updates(k)' = 0
      BY <1>4, <1>5 DEF Updates
    <3>2. LazyUpdateThreshold \in 0 .. MaxThreshold
      BY DEF IInv
    <3>3. Cardinality(Readers(k)) \in Nat /\ Cardinality(Readers(k)) <= NumThreads
      BY ReadersCounted
    <3>4. Good(LazyUpdateThreshold, 0, 0, 0, 0, 0, Cardinality(Readers(k)))
      BY <3>2, <3>3, GoodNew
    <3>. QED  BY <1>5, <1>6, <2>1, <3>1, <3>4 DEF KeyGood
  <2>2. CASE x # k
    <3>1. x \in DOMAIN c.keyMap /\ x \in DOMAIN index.keyMap
      BY <1>1, <1>4, <2>2
    <3>2. Updates(x)' = Updates(x) /\ KeyGood(x)
      BY <1>4, <1>5, <3>1, KeyFacts DEF Updates
    <3>. QED  BY <1>5, <1>6, <3>1, <3>2 DEF KeyGood
  <2>. QED  BY <2>1, <2>2
<1>. QED  BY <1>2, <1>3, <1>5, <1>6, <1>7, <1>8 DEF IInv, VictimKnown

\* Erase: a place is free, which makes the value of MinFreq harmless.
LEMMA EraseInvariant ==
  ASSUME IInv, NEW k \in Keys, Erase(k)
  PROVE  IInv'
<1>1. /\ k \in DOMAIN index.keyMap /\ index' = EraseKey(index, k)
      /\ recency' = RemoveFirst(recency, k)
      /\ readCounter' = Without(readCounter, k)
      /\ reads' = Without(reads, k) /\ sets' = Without(sets, k)
      /\ overlaps' = Without(overlaps, k)
      /\ LazyUpdateThreshold' = LazyUpdateThreshold
  BY DEF Erase, Present
<1>2. Sound(index) /\ Ordered(index, recency) /\ DOMAIN index.keyMap \subseteq Keys
  BY DEF IInv, Sound, IndexType
<1>3. Sound(index') /\ index'.keyMap = Without(index.keyMap, k)
  BY <1>1, <1>2, EraseKeySound
<1>4. Ordered(index', recency')
  <2>1. Ordered(index', RemoveFirst(recency, k))
    BY <1>1, <1>2, SoundAgreed, EraseKeyOrdered
  <2>. QED  BY <1>1, <2>1
<1>5. /\ DOMAIN index'.keyMap = DOMAIN index.keyMap \ {k}
      /\ \A x \in DOMAIN index'.keyMap : index'.keyMap[x] = index.keyMap[x]
  BY <1>3 DEF Without, Restrict
<1>6. /\ HistoryTypes'
      /\ \A x \in DOMAIN index'.keyMap : /\ readCounter'[x] = readCounter[x]
                                        /\ reads'[x] = reads[x] /\ sets'[x] = sets[x]
                                        /\ overlaps'[x] = overlaps[x]
  BY <1>1, <1>5 DEF IInv, HistoryTypes, Without, Restrict
<1>7. ThreadsHaveKeys' /\ \A x : Readers(x)' = Readers(x)
  BY DEF Erase, IInv, ThreadsHaveKeys, Readers
<1>8. Cardinality(DOMAIN index'.keyMap) < SizeLimit
  <2>1. IsFiniteSet(DOMAIN index.keyMap)
    BY <1>2, Constants, FS_Subset
  <2>2. Cardinality(DOMAIN index.keyMap) \in Nat
    BY <2>1, FS_CardinalityType
  <2>3. Cardinality(DOMAIN index.keyMap \ {k}) = Cardinality(DOMAIN index.keyMap) - 1
    BY <1>1, <2>1, FS_RemoveElement
  <2>4. Cardinality(DOMAIN index.keyMap) <= SizeLimit
    BY DEF IInv
  <2>. QED  BY <1>5, <2>2, <2>3, <2>4, Constants
<1>9. Cardinality(DOMAIN index'.keyMap) \in Nat
  <2>1. DOMAIN index'.keyMap \subseteq Keys
    BY <1>2, <1>5
  <2>2. IsFiniteSet(DOMAIN index'.keyMap)
    BY <2>1, Constants, FS_Subset
  <2>. QED  BY <2>2, FS_CardinalityType
<1>10. Cardinality(DOMAIN index'.keyMap) <= SizeLimit /\ VictimKnown'
  BY <1>8, <1>9, Constants DEF VictimKnown, Full
<1>11. ASSUME NEW x \in DOMAIN index'.keyMap  PROVE KeyGood(x)'
  <2>1. x \in DOMAIN index.keyMap
    BY <1>5
  <2>2. Updates(x)' = Updates(x) /\ KeyGood(x)
    BY <1>5, <1>6, <2>1, KeyFacts DEF Updates
  <2>. QED  BY <1>1, <1>6, <1>7, <2>2 DEF KeyGood
<1>. QED  BY <1>1, <1>3, <1>4, <1>6, <1>7, <1>10, <1>11 DEF IInv

\* Every step preserves the invariant.
LEMMA NextInvariant == IInv /\ [Next]_vars => IInv'
<1>. SUFFICES ASSUME IInv, [Next]_vars  PROVE IInv'
  OBVIOUS
<1>1. ASSUME NEW t \in Threads, Check(t) \/ Update(t) \/ \E k \in Keys : Read(t, k)
      PROVE  IInv'
  BY <1>1, ReadInvariant, CheckInvariant, UpdateInvariant
<1>2. ASSUME NEW k \in Keys, Erase(k)  PROVE IInv'
  BY <1>2, EraseInvariant
<1>3. ASSUME NEW k \in Keys, NEW v \in Values, SetPresent(k, v) \/ SetAbsent(k, v)
      PROVE  IInv'
  BY <1>3, SetPresentInvariant, SetAbsentInvariant
<1>4. CASE UNCHANGED vars
  <2>1. \A x : Readers(x)' = Readers(x) /\ Updates(x)' = Updates(x)
    BY <1>4 DEF vars, Readers, Updates
  <2>2. \A x \in DOMAIN index.keyMap : KeyGood(x)'
    BY <1>4, <2>1 DEF vars, IInv, KeyGood
  <2>. QED  BY <1>4, <2>2
            DEF vars, IInv, VictimKnown, Full, HistoryTypes, ThreadsHaveKeys
<1>. QED  BY <1>1, <1>2, <1>3, <1>4 DEF Next

\* The invariant holds for ever.
THEOREM Invariant == Spec => []IInv
BY InitInvariant, NextInvariant, PTL DEF Spec

-----------------------------------------------------------------------------
\* The members keep their types.
THEOREM TypeCorrect == Spec => []TypeOK
<1>1. ASSUME IInv  PROVE TypeOK
  <2>1. LazyUpdateThreshold \in Nat
    BY <1>1, Constants DEF IInv
  <2>2. ASSUME NEW k \in DOMAIN index.keyMap
        PROVE  /\ readCounter[k] \in 0 .. MaxUses
               /\ reads[k] \in 0 .. MaxUses /\ sets[k] \in 0 .. MaxUses
               /\ overlaps[k] \in 0 .. MaxUses
    <3> DEFINE e == LazyUpdateThreshold * Updates(k)
    <3>1. /\ readCounter[k] \in Nat /\ reads[k] \in Nat /\ sets[k] \in Nat
          /\ Updates(k) \in Nat /\ reads[k] + sets[k] <= MaxUses
          /\ overlaps[k] \in Nat /\ overlaps[k] <= reads[k]
          /\ e + readCounter[k] <= reads[k] + sets[k]
      BY <1>1, <2>2, KeyFacts DEF KeyGood, Good
    <3>2. e \in Nat
      BY <2>1, <3>1, OneMore
    <3>. HIDE DEF e
    <3>. QED  BY <3>1, <3>2, Constants
  <2>3. \A f \in {readCounter, reads, overlaps, sets} : f \in [DOMAIN index.keyMap -> 0 .. MaxUses]
    BY <1>1, <2>2 DEF IInv, HistoryTypes
  <2>. QED  BY <1>1, <2>3 DEF IInv, Sound, Ordered, ThreadsHaveKeys, TypeOK
<1>. QED  BY <1>1, Invariant, PTL

\* KeyMap and FreqBuckets agree, whatever happens between the two critical sections
\* of a TryGet.
THEOREM IndexAlwaysConsistent == Spec => []IndexConsistent
<1>1. IInv => IndexConsistent
  BY DEF IInv, Sound, IndexConsistent
<1>. QED  BY <1>1, Invariant, PTL

\* Every update of a frequency by a reader has a threshold of reads and Sets of its
\* own: late readers do not count the reads of others a second time.
THEOREM FrequencyAlwaysEarned == Spec => []FrequencyEarned
<1>1. IInv => FrequencyEarned
  BY KeyFacts DEF KeyGood, Good, FrequencyEarned
<1>. QED  BY <1>1, Invariant, PTL

\* Reads that do not overlap are all counted: the frequency falls behind them only by
\* those below the threshold, those that overlap another read of the key, and one
\* whose reader is still there.
THEOREM LagAlwaysBounded == Spec => []LagBounded
<1>1. IInv => LagBounded
  <2>. SUFFICES ASSUME IInv, NEW k \in DOMAIN index.keyMap
                PROVE  reads[k] <= Updates(k) * (Slack + 1) + Slack + overlaps[k]
                                     + (IF Readers(k) = {} THEN 0 ELSE 1)
    BY DEF LagBounded
  <2>1. Slack = SlackOf(LazyUpdateThreshold)
    BY DEF Slack, SlackOf
  <2>2. Cardinality(Readers(k)) = 0 <=> Readers(k) = {}
    BY ReadersCounted
  <2>. QED  BY <2>1, <2>2, KeyFacts DEF KeyGood, Good
<1>. QED  BY <1>1, Invariant, PTL

-----------------------------------------------------------------------------
(***************************************************************************)
(* The refinement: what the threads do together is what LfuPolicy does one *)
(* operation after the other.                                              *)
(***************************************************************************)
\* The instance brings the library's operators under names of its own: they are
\* the same operators.
LEMMA PolicyOperators ==
  /\ \A s, e : Policy!RemoveFirst(s, e) = RemoveFirst(s, e)
  /\ \A s, i : Policy!RemoveAt(s, i) = RemoveAt(s, i)
  /\ \A S : Policy!Max(S) = Max(S)
  /\ \A S : Policy!Cardinality(S) = Cardinality(S)
  /\ \A f, S : Policy!Restrict(f, S) = Restrict(f, S)
<1>1. \A s, i : Policy!RemoveAt(s, i) = RemoveAt(s, i)
  BY DEF Policy!RemoveAt, RemoveAt
<1>2. \A s, e : Policy!RemoveFirst(s, e) = RemoveFirst(s, e)
  BY <1>1 DEF Policy!RemoveFirst, RemoveFirst, Policy!SelectInSeq, SelectInSeq, Policy!Min, Min
<1>3. \A S : Policy!Max(S) = Max(S)
  BY DEF Policy!Max, Max
<1>4. \A S : Policy!Cardinality(S) = Cardinality(S)
  BY DEF Policy!Cardinality, Cardinality, Policy!IsFiniteSet, IsFiniteSet
<1>5. \A f, S : Policy!Restrict(f, S) = Restrict(f, S)
  BY DEF Policy!Restrict, Restrict
<1>. QED  BY <1>1, <1>2, <1>3, <1>4, <1>5

\* A counted use of a key is the policy's use of it.
LEMMA UseIsPolicyUse ==
  ASSUME NEW k \in DOMAIN index.keyMap, NEW w,
         index'.keyMap = [index.keyMap EXCEPT ![k] = [value |-> w, freq |-> @.freq + 1]],
         recency' = Promote(recency, k)
  PROVE  Policy!Use(k, w)
BY PolicyOperators DEF Policy!Use, Policy!Promote, Promote

\* An eviction by EvictLFU is the policy's: the place of its victim in the order
\* of use is the one the policy computes from the use counts of all the keys.
LEMMA VictimIsPolicyVictim ==
  ASSUME IInv, MinFreqExact(index)
  PROVE  /\ recency[Policy!VictimPosition] = Victim(index)
         /\ Policy!RemoveAt(recency, Policy!VictimPosition) = RemoveFirst(recency, Victim(index))
<1> DEFINE P == {i \in 1..Len(recency) : \A k \in DOMAIN index.keyMap :
                   index.keyMap[recency[i]].freq <= index.keyMap[k].freq}
<1>1. Sound(index) /\ Ordered(index, recency)
  BY DEF IInv
<1>2. recency[Max(P)] = Victim(index)
      /\ RemoveAt(recency, Max(P)) = RemoveFirst(recency, Victim(index))
  BY <1>1, VictimFound
<1>3. Policy!VictimPosition = Max(P)
  BY PolicyOperators DEF Policy!VictimPosition, Policy!NoneRarer
<1>. QED  BY <1>2, <1>3, PolicyOperators

\* A reader's update is a read of the policy, or nothing.
LEMMA UpdateIsPolicyStep ==
  ASSUME IInv, NEW t \in Threads, Update(t)
  PROVE  (\E k \in Keys : Policy!Read(k)) \/ UNCHANGED <<index, recency>>
<1>1. PICK k : k = key[t]
  OBVIOUS
<1>2. CASE StillDue(k)
  <2>1. /\ k \in DOMAIN index.keyMap /\ index' = UpdateFrequency(index, k)
        /\ recency' = Promote(recency, k)
    BY <1>1, <1>2 DEF Update, StillDue, Present, Use
  <2>2. k \in Keys /\ Cardinality(Readers(k)) > 0
    <3>1. at[t] # "idle" /\ Return(t) /\ ThreadsHaveKeys
      BY DEF Update, IInv
    <3>2. k \in Keys /\ t \in Readers(k)
      BY <1>1, <3>1, ReaderReturns
    <3>. QED  BY <3>2, ReadersCounted
  <2>3. Sound(index) /\ index.keyMap[k].freq < IntMax
    BY <2>1, <2>2, RoomForAUse DEF IInv
  <2>4. index'.keyMap = [index.keyMap EXCEPT ![k].freq = @ + 1]
    BY <2>1, <2>3, UpdateFrequencySound
  <2>5. index'.keyMap = [index.keyMap EXCEPT
                           ![k] = [value |-> index.keyMap[k].value, freq |-> @.freq + 1]]
    <3>1. index.keyMap \in [DOMAIN index.keyMap -> [value : Values, freq : Nat \ {0}]]
      BY <2>3 DEF Sound, IndexType
    <3>. QED  BY <2>1, <2>4, <3>1
  <2>6. Policy!Read(k)
    BY <2>1, <2>5, UseIsPolicyUse DEF Policy!Read
  <2>. QED  BY <2>2, <2>6
<1>3. CASE ~StillDue(k)
  BY <1>1, <1>3 DEF Update
<1>. QED  BY <1>2, <1>3

\* Set of a new key is the policy's, eviction included.
LEMMA SetAbsentIsPolicyAdd ==
  ASSUME IInv, NEW k \in Keys, NEW v \in Values, SetAbsent(k, v)
  PROVE  Policy!Add(k, v)
<1>1. /\ k \notin DOMAIN index.keyMap /\ SizeLimit > 0 /\ Sound(index)
      /\ Full <=> Cardinality(DOMAIN index.keyMap) >= SizeLimit
  BY DEF SetAbsent, Present, Full, IInv
<1>2. CASE Full
  <2>1. MinFreqExact(index)
    BY <1>1, <1>2 DEF IInv, VictimKnown
  <2>2. /\ recency[Policy!VictimPosition] = Victim(index)
        /\ Policy!RemoveAt(recency, Policy!VictimPosition) = RemoveFirst(recency, Victim(index))
    BY <2>1, VictimIsPolicyVictim
  <2>3. PICK c : c = EvictLFU(index)
    OBVIOUS
  <2>4. c.keyMap = Without(index.keyMap, Victim(index))
    BY <1>1, <2>1, <2>3, EvictLFUSound DEF MinFreqExact
  <2>5. /\ DOMAIN c.keyMap = DOMAIN index.keyMap \ {Victim(index)}
        /\ \A x \in DOMAIN c.keyMap : c.keyMap[x] = index.keyMap[x]
    BY <2>4 DEF Without, Restrict
  <2>6. /\ index' = Insert(c, k, v)
        /\ recency' = Promote(RemoveFirst(recency, Victim(index)), k)
    BY <1>2, <2>3 DEF SetAbsent, MakeRoom, NewNode
  <2>7. index'.keyMap = [x \in DOMAIN c.keyMap \cup {k} |->
                           IF x = k THEN [value |-> v, freq |-> 1] ELSE c.keyMap[x]]
    BY <2>6 DEF Insert, Enter
  <2>8. index'.keyMap = [x \in (DOMAIN index.keyMap \ {recency[Policy!VictimPosition]}) \cup {k} |->
                           IF x = k THEN [value |-> v, freq |-> 1] ELSE index.keyMap[x]]
    BY <1>1, <2>2, <2>5, <2>7
  <2>. QED  BY <1>1, <1>2, <2>2, <2>6, <2>8, PolicyOperators
            DEF Policy!Add, Policy!Promote, Promote
<1>3. CASE ~Full
  <2>1. index' = Insert(index, k, v) /\ recency' = Promote(recency, k)
    BY <1>3 DEF SetAbsent, NewNode
  <2>2. index'.keyMap = [x \in DOMAIN index.keyMap \cup {k} |->
                           IF x = k THEN [value |-> v, freq |-> 1] ELSE index.keyMap[x]]
    BY <2>1 DEF Insert, Enter
  <2>. QED  BY <1>1, <1>3, <2>1, <2>2, PolicyOperators DEF Policy!Add, Policy!Promote, Promote
<1>. QED  BY <1>2, <1>3

\* Every step is a step of the policy, or changes nothing the policy sees.
LEMMA StepIsPolicyStep == IInv /\ [Next]_vars => [Policy!Next]_Policy!vars
<1>. SUFFICES ASSUME IInv, [Next]_vars  PROVE [Policy!Next]_Policy!vars
  OBVIOUS
<1>1. ASSUME NEW t \in Threads, Update(t)  PROVE Policy!Next \/ UNCHANGED Policy!vars
  BY <1>1, UpdateIsPolicyStep DEF Policy!Next, Policy!vars
<1>2. ASSUME NEW t \in Threads, Check(t) \/ \E k \in Keys : Read(t, k)
      PROVE  UNCHANGED Policy!vars
  BY <1>2 DEF Check, Read, Policy!vars
<1>3. ASSUME NEW k \in Keys, Erase(k)  PROVE Policy!Next
  <2>1. /\ k \in DOMAIN index.keyMap /\ index' = EraseKey(index, k)
        /\ recency' = RemoveFirst(recency, k)
    BY <1>3 DEF Erase, Present
  <2>2. index'.keyMap = Without(index.keyMap, k)
    BY <2>1 DEF EraseKey, Leave
  <2>3. Policy!Erase(k)
    BY <2>1, <2>2, PolicyOperators DEF Policy!Erase, Without
  <2>. QED  BY <2>3 DEF Policy!Next
<1>4. ASSUME NEW k \in Keys, NEW v \in Values, SetPresent(k, v)  PROVE Policy!Next
  <2>1. /\ k \in DOMAIN index.keyMap
        /\ index'.keyMap = [index.keyMap EXCEPT ![k] = [value |-> v, freq |-> @.freq + 1]]
    BY <1>4, SetPresentIndex
  <2>2. recency' = Promote(recency, k)
    BY <1>4 DEF SetPresent
  <2>3. Policy!Write(k, v)
    BY <2>1, <2>2, UseIsPolicyUse DEF Policy!Write
  <2>. QED  BY <2>3 DEF Policy!Next
<1>5. ASSUME NEW k \in Keys, NEW v \in Values, SetAbsent(k, v)  PROVE Policy!Next
  BY <1>5, SetAbsentIsPolicyAdd DEF Policy!Next
<1>6. CASE UNCHANGED vars
  BY <1>6 DEF vars, Policy!vars
<1>. QED  BY <1>1, <1>2, <1>3, <1>4, <1>5, <1>6 DEF Next

\* Under any interleaving of any number of threads the cache is an LFU cache of the
\* uses it has counted: a late update of a reader that was overtaken is a use of
\* the key or nothing, and every eviction takes the key the policy takes.
THEOREM ImplementsLfuPolicy == Spec => ImplementsPolicy
<1>1. Init => Policy!Init
  BY Constants DEF Init, EmptyIndex, Policy!Init
<1>. QED  BY <1>1, StepIsPolicyStep, Invariant, PTL DEF Spec, ImplementsPolicy, Policy!Spec
=============================================================================
