---------------------------- MODULE TLfuCacheProofs ---------------------------
(***************************************************************************)
(* Theorems about TLfuCache, for every set of keys and values, every       *)
(* SizeLimit, and use counts with or without overflow of int:              *)
(*   - types, agreement of the maps and the limit, whatever the counts;    *)
(*   - EvictionReady and ImplementsPolicy as long as no count comes full   *)
(*     circle (NoLap: 2^32 uses of one key);                               *)
(*   - no undefined behaviour as long as counts fit (MaxFreq <= IntMax).   *)
(* Beyond INT_MAX the last is false: the run tlfu_core reaches an eviction *)
(* from an empty bucket (SetWithoutVictim).  Beyond a lap a count has a    *)
(* positive frequency again, which is not the count.                       *)
(***************************************************************************)
EXTENDS TLfuCache, LfuIndexProofs

\* No count comes full circle.
NoLap == MaxFreq <= 2 * (IntMax + 1)

CountsBounded == \A k \in DOMAIN index.keyMap : index.keyMap[k].freq <= MaxFreq

\* The inductive invariant.  EvictionReady is inductive only together with the
\* agreement of KeyMap and the buckets, which says which keys share the bucket a
\* use or an eviction empties, and with the capacity: after an Erase MinFreq may be
\* wrong, and only the free place it leaves makes that harmless.  Ordered relates
\* the buckets, whose order EvictLFU relies on, to the order of use.
IInv ==
  /\ Agreed(index)
  /\ CountsBounded
  /\ CapacityRespected
  /\ Ordered(index, recency)
  /\ undefined \in BOOLEAN
  /\ NoLap => EvictionReady
  /\ MaxFreq <= IntMax => CountsFit /\ undefined = FALSE

LEMMA ConstantTypes ==
  SizeLimit \in Nat /\ MaxFreq \in Nat /\ MaxFreq > 0 /\ IntMax \in Nat /\ IntMax > 0
BY CacheAssumption, IntMaxAssumption

\* The set of stored keys is finite.
LEMMA KeyMapFinite ==
  ASSUME NEW c, Agreed(c)
  PROVE  /\ IsFiniteSet(DOMAIN c.keyMap)
         /\ Cardinality(DOMAIN c.keyMap) \in Nat
<1>1. DOMAIN c.keyMap \subseteq Keys
  BY DEF Agreed, IndexType
<1>2. IsFiniteSet(DOMAIN c.keyMap)
  BY <1>1, CacheAssumption, FS_Subset
<1>. QED  BY <1>2, FS_CardinalityType

\* Where every bucket is that of a count and none has come full circle, every
\* count fits in an int: a key whose count does not is in a bucket of its own.
LEMMA CountsFitSound ==
  ASSUME Agreed(index), CountsBounded, NoLap, CountsFit
  PROVE  Sound(index)
<1>1. ASSUME NEW k \in DOMAIN index.keyMap  PROVE index.keyMap[k].freq <= IntMax
  <2>1. PICK n \in Nat : n = index.keyMap[k].freq
    BY DEF Agreed, IndexType
  <2>2. PICK f \in Frequencies : f = ToFrequency(n)
    BY <2>1, AgreedBuckets
  <2>3. k \in Keys /\ Contains(Bucket(index.freqBuckets, f), k)
        /\ Bucket(index.freqBuckets, f) \in Seq(Keys)
    BY <2>1, <2>2, AgreedBuckets DEF Agreed, IndexType
  <2>4. Bucket(index.freqBuckets, f) # << >>
    BY <2>3, EmptyContains
  <2>5. f > 0
    BY <2>4 DEF Bucket, CountsFit
  <2>6. n <= 2 * (IntMax + 1)
    BY <2>1, ConstantTypes DEF CountsBounded, NoLap
  <2>. QED  BY <2>1, <2>2, <2>5, <2>6, ToFrequencyBeyond
<1>. QED  BY <1>1 DEF Sound, Agreed

\* An empty cache has the invariant.
LEMMA InitInvariant == Init => IInv
<1>. SUFFICES ASSUME Init  PROVE IInv
  OBVIOUS
<1>1. DOMAIN index.keyMap = {} /\ DOMAIN index.freqBuckets = {}
  BY DEF Init, EmptyIndex
<1>2. Agreed(index) /\ Ordered(index, recency) /\ undefined = FALSE
  BY EmptyIndexSound, SoundAgreed DEF Init
<1>3. Cardinality(DOMAIN index.keyMap) = 0
  BY <1>1, FS_EmptySet
<1>4. CapacityRespected /\ EvictionReady
  BY <1>3, ConstantTypes DEF CapacityRespected, EvictionReady, Full
<1>5. CountsBounded /\ CountsFit
  BY <1>1 DEF CountsBounded, CountsFit
<1>. QED  BY <1>2, <1>4, <1>5 DEF IInv

-----------------------------------------------------------------------------
\* A use of a key preserves the invariant.  c is the index after its value has
\* been replaced, or the index.  A use that takes a count past INT_MAX leaves a
\* bucket that is no count; before such a use no bucket was one.
LEMMA UseInvariant ==
  ASSUME IInv, NEW k \in DOMAIN index.keyMap, index.keyMap[k].freq < MaxFreq,
         NEW c, Agreed(c), DOMAIN c.keyMap = DOMAIN index.keyMap,
         \A x \in DOMAIN index.keyMap : c.keyMap[x].freq = index.keyMap[x].freq,
         c.freqBuckets = index.freqBuckets, MinFreqExact(index) => MinFreqExact(c),
         Ordered(c, recency),
         NEW d, d = index', d = UpdateFrequency(c, k),
         recency' = Promote(recency, k), undefined' = undefined
  PROVE  IInv'
<1>1. PICK n \in Nat : n = c.keyMap[k].freq /\ n > 0 /\ n < MaxFreq
  BY DEF Agreed, IndexType
<1>2. Agreed(d) /\ d.keyMap = [c.keyMap EXCEPT ![k].freq = @ + 1]
  BY UpdateFrequencyAgreed
<1>3. /\ DOMAIN d.keyMap = DOMAIN index.keyMap
      /\ \A x \in DOMAIN index.keyMap :
           d.keyMap[x].freq = IF x = k THEN n + 1 ELSE index.keyMap[x].freq
  BY <1>1, <1>2 DEF Agreed, IndexType
<1>4. /\ ToFrequency(n + 1) \in DOMAIN d.freqBuckets
      /\ DOMAIN d.freqBuckets
           \subseteq DOMAIN index.freqBuckets \cup {ToFrequency(n), ToFrequency(n + 1)}
      /\ \A f \in DOMAIN index.freqBuckets : f \in DOMAIN d.freqBuckets \/ f = n
  BY <1>1, UpdateFrequencyDomain
<1>5. CountsBounded'
  BY <1>1, <1>3, ConstantTypes DEF IInv, CountsBounded
<1>6. CapacityRespected'
  BY <1>3 DEF IInv, CapacityRespected
<1>7. Ordered(index', recency')
  <2>1. PICK r : r = recency
    OBVIOUS
  <2>2. Ordered(d, MovedToFront(r, k))
    BY <2>1, UpdateFrequencyOrdered
  <2>. QED  BY <2>1, <2>2 DEF Promote, MovedToFront
<1>8. ASSUME NoLap  PROVE EvictionReady'
  <2>. SUFFICES ASSUME Full', SizeLimit > 0, CountsFit'  PROVE MinFreqExact(d)
    BY DEF EvictionReady
  <2>1. CountsFit
    BY <1>1, <1>4 DEF CountsFit
  <2>2. Full
    BY <1>3 DEF Full
  <2>3. MinFreqExact(c)
    BY <1>8, <2>1, <2>2 DEF IInv, EvictionReady
  <2>4. Sound(index)
    BY <1>8, <2>1, CountsFitSound DEF IInv
  <2>5. Sound(c)
    BY <2>4 DEF Sound, Agreed
  <2>6. ToFrequency(n + 1) > 0
    BY <1>4 DEF CountsFit
  <2>7. n + 1 \in Nat /\ n + 1 <= 2 * (IntMax + 1)
    BY <1>1, <1>8, ConstantTypes DEF NoLap
  <2>8. n + 1 <= IntMax
    BY <2>6, <2>7, ToFrequencyBeyond
  <2>9. c.keyMap[k].freq < IntMax
    BY <1>1, <2>8, ConstantTypes
  <2>. QED  BY <2>3, <2>5, <2>9, UpdateFrequencySound
<1>9. ASSUME MaxFreq <= IntMax  PROVE CountsFit' /\ undefined' = FALSE
  <2>1. CountsFit /\ undefined = FALSE
    BY <1>9 DEF IInv
  <2>2. n <= IntMax /\ n + 1 \in Nat /\ n + 1 <= IntMax
    BY <1>1, <1>9, ConstantTypes
  <2>3. ToFrequency(n) = n /\ ToFrequency(n + 1) = n + 1
    BY <2>2, ToFrequencyIdentity
  <2>4. n > 0 /\ n + 1 > 0
    BY <1>1
  <2>. QED  BY <1>4, <2>1, <2>3, <2>4 DEF CountsFit
<1>. QED  BY <1>2, <1>5, <1>6, <1>7, <1>8, <1>9 DEF IInv

\* A new key preserves it: c is the index with room for k, and r the order of
\* use of its keys.
LEMMA NewKeyInvariant ==
  ASSUME IInv, NEW k \in Keys, NEW v \in Values,
         NEW c, Agreed(c), k \notin DOMAIN c.keyMap, Cardinality(DOMAIN c.keyMap) < SizeLimit,
         \A x \in DOMAIN c.keyMap : c.keyMap[x].freq <= MaxFreq,
         DOMAIN c.freqBuckets \subseteq DOMAIN index.freqBuckets,
         NEW r, Ordered(c, r),
         NEW d, d = index', d = Insert(c, k, v),
         recency' = Promote(r, k), undefined' = undefined
  PROVE  IInv'
<1>1. /\ Agreed(d)
      /\ d.keyMap = [x \in DOMAIN c.keyMap \cup {k} |->
                       IF x = k THEN [value |-> v, freq |-> 1] ELSE c.keyMap[x]]
      /\ DOMAIN d.freqBuckets = DOMAIN c.freqBuckets \cup {1}
      /\ MinFreqExact(d)
  BY InsertAgreed
<1>2. CountsBounded'
  BY <1>1, ConstantTypes DEF CountsBounded
<1>3. CapacityRespected'
  <2>1. IsFiniteSet(DOMAIN c.keyMap) /\ Cardinality(DOMAIN c.keyMap) \in Nat
    BY KeyMapFinite
  <2>2. DOMAIN d.keyMap = DOMAIN c.keyMap \cup {k}
    BY <1>1
  <2>3. Cardinality(DOMAIN d.keyMap) = Cardinality(DOMAIN c.keyMap) + 1
    BY <2>1, <2>2, FS_AddElement
  <2>. QED  BY <2>1, <2>3, ConstantTypes DEF CapacityRespected
<1>4. Ordered(index', recency')
  <2>1. Ordered(d, MovedToFront(r, k))
    BY InsertOrdered
  <2>. QED  BY <2>1 DEF Promote, MovedToFront
<1>5. EvictionReady'
  BY <1>1 DEF EvictionReady
<1>6. MaxFreq <= IntMax => CountsFit' /\ undefined' = FALSE
  BY <1>1 DEF IInv, CountsFit
<1>. QED  BY <1>1, <1>2, <1>3, <1>4, <1>5, <1>6 DEF IInv

\* The keys that remain when some leave have the counts they had.
LEMMA FewerKeysBounded ==
  ASSUME CountsBounded, NEW c, NEW k, c.keyMap = Without(index.keyMap, k)
  PROVE  \A x \in DOMAIN c.keyMap : c.keyMap[x].freq <= MaxFreq
BY DEF CountsBounded, Without, Restrict

\* Every operation preserves the invariant.
LEMMA NextInvariant == IInv /\ [Next]_vars => IInv'
<1>. SUFFICES ASSUME IInv, [Next]_vars  PROVE IInv'
  OBVIOUS
<1>1. Agreed(index) /\ CountsBounded /\ Ordered(index, recency)
  BY DEF IInv
<1>2. PICK n \in Nat : n = Cardinality(DOMAIN index.keyMap) /\ n <= SizeLimit
  BY <1>1, KeyMapFinite DEF IInv, CapacityRespected
<1>3. PICK d : d = index'
  OBVIOUS
<1>4. ASSUME NEW k \in Keys, TryGet(k)  PROVE IInv'
  <2>1. PICK c : c = index
    OBVIOUS
  <2>2. /\ k \in DOMAIN index.keyMap /\ index.keyMap[k].freq < MaxFreq
        /\ d = UpdateFrequency(c, k)
        /\ recency' = Promote(recency, k) /\ undefined' = undefined
    BY <1>3, <1>4, <2>1 DEF TryGet, Present
  <2>3. /\ Agreed(c) /\ DOMAIN c.keyMap = DOMAIN index.keyMap
        /\ \A x \in DOMAIN index.keyMap : c.keyMap[x].freq = index.keyMap[x].freq
        /\ c.freqBuckets = index.freqBuckets /\ (MinFreqExact(index) => MinFreqExact(c))
        /\ Ordered(c, recency)
    BY <1>1, <2>1
  <2>. QED  BY <1>3, <2>2, <2>3, UseInvariant
<1>5. ASSUME NEW k \in Keys, NEW v \in Values, SetPresent(k, v)  PROVE IInv'
  <2>1. PICK c : c = SetValue(index, k, v)
    OBVIOUS
  <2>2. /\ k \in DOMAIN index.keyMap /\ index.keyMap[k].freq < MaxFreq
        /\ d = UpdateFrequency(c, k)
        /\ recency' = Promote(recency, k) /\ undefined' = undefined
    BY <1>3, <1>5, <2>1 DEF SetPresent, Present
  <2>3. /\ Agreed(c) /\ DOMAIN c.keyMap = DOMAIN index.keyMap
        /\ \A x \in DOMAIN index.keyMap : c.keyMap[x].freq = index.keyMap[x].freq
        /\ c.freqBuckets = index.freqBuckets /\ (MinFreqExact(index) => MinFreqExact(c))
    BY <1>1, <2>1, <2>2, SetValueAgreed
  <2>4. Ordered(c, recency)
    BY <1>1, <2>1, <2>2, SetValueOrdered
  <2>. QED  BY <1>3, <2>2, <2>3, <2>4, UseInvariant
<1>6. ASSUME NEW k \in Keys, NEW v \in Values, SetAbsent(k, v)  PROVE IInv'
  <2>1. /\ SizeLimit > 0 /\ k \notin DOMAIN index.keyMap /\ undefined' = undefined
        /\ Full => HasVictim(index)
    BY <1>6 DEF SetAbsent, Present
  <2>2. PICK c, r : /\ Agreed(c) /\ k \notin DOMAIN c.keyMap
                    /\ Cardinality(DOMAIN c.keyMap) < SizeLimit
                    /\ \A x \in DOMAIN c.keyMap : c.keyMap[x].freq <= MaxFreq
                    /\ DOMAIN c.freqBuckets \subseteq DOMAIN index.freqBuckets
                    /\ Ordered(c, r)
                    /\ d = Insert(c, k, v) /\ recency' = Promote(r, k)
    <3>1. CASE Full
      <4>1. PICK c, r : c = EvictLFU(index) /\ r = RemoveFirst(recency, Victim(index))
        OBVIOUS
      <4>2. /\ Agreed(c) /\ Victim(index) \in DOMAIN index.keyMap
            /\ c.keyMap = Without(index.keyMap, Victim(index))
            /\ DOMAIN c.freqBuckets \subseteq DOMAIN index.freqBuckets
        BY <1>1, <2>1, <3>1, <4>1, EvictLFUAgreed
      <4>3. DOMAIN c.keyMap = DOMAIN index.keyMap \ {Victim(index)}
        BY <4>2 DEF Without, Restrict
      <4>4. Cardinality(DOMAIN c.keyMap) = n - 1
        <5>1. IsFiniteSet(DOMAIN index.keyMap)
          BY <1>1, KeyMapFinite
        <5>. QED  BY <1>2, <4>2, <4>3, <5>1, FS_RemoveElement
      <4>5. Cardinality(DOMAIN c.keyMap) < SizeLimit
        BY <1>2, <4>4, ConstantTypes
      <4>6. \A x \in DOMAIN c.keyMap : c.keyMap[x].freq <= MaxFreq
        BY <1>1, <4>2, FewerKeysBounded
      <4>7. Ordered(c, r)
        BY <1>1, <2>1, <3>1, <4>1, EvictLFUOrdered
      <4>8. d = Insert(c, k, v) /\ recency' = Promote(r, k)
        BY <1>3, <1>6, <3>1, <4>1 DEF SetAbsent
      <4>9. k \notin DOMAIN c.keyMap
        BY <2>1, <4>3
      <4>. QED  BY <4>2, <4>5, <4>6, <4>7, <4>8, <4>9
    <3>2. CASE ~Full
      <4>1. PICK c, r : c = index /\ r = recency
        OBVIOUS
      <4>2. d = Insert(c, k, v) /\ recency' = Promote(r, k)
        BY <1>3, <1>6, <3>2, <4>1 DEF SetAbsent
      <4>3. Cardinality(DOMAIN c.keyMap) < SizeLimit
        BY <1>2, <3>2, <4>1, ConstantTypes DEF Full
      <4>. QED  BY <1>1, <2>1, <4>1, <4>2, <4>3 DEF CountsBounded
    <3>. QED  BY <3>1, <3>2
  <2>. QED  BY <1>3, <2>1, <2>2, NewKeyInvariant
<1>7. ASSUME NEW k \in Keys, SetWithoutVictim(k)  PROVE IInv'
  <2>1. /\ Full /\ SizeLimit > 0 /\ ~HasVictim(index)
        /\ index' = index /\ recency' = recency /\ undefined' = TRUE
    BY <1>7 DEF SetWithoutVictim
  <2>2. ~(MaxFreq <= IntMax)
    <3>. SUFFICES ASSUME MaxFreq <= IntMax  PROVE FALSE
      OBVIOUS
    <3>1. NoLap
      BY ConstantTypes DEF NoLap
    <3>2. EvictionReady /\ CountsFit
      BY <3>1 DEF IInv
    <3>. QED  BY <2>1, <3>2 DEF EvictionReady, MinFreqExact
  <2>. QED  BY <2>1, <2>2 DEF IInv, CountsBounded, CapacityRespected, EvictionReady, Full, CountsFit
<1>8. ASSUME NEW k \in Keys, Erase(k)  PROVE IInv'
  <2>1. /\ k \in DOMAIN index.keyMap /\ d = EraseKey(index, k)
        /\ recency' = RemoveFirst(recency, k) /\ undefined' = undefined
    BY <1>3, <1>8 DEF Erase, Present
  <2>2. /\ Agreed(d) /\ d.keyMap = Without(index.keyMap, k)
        /\ DOMAIN d.freqBuckets \subseteq DOMAIN index.freqBuckets
    BY <1>1, <2>1, EraseKeyAgreed
  <2>3. Cardinality(DOMAIN d.keyMap) = n - 1
    <3>1. DOMAIN d.keyMap = DOMAIN index.keyMap \ {k}
      BY <2>2 DEF Without, Restrict
    <3>2. IsFiniteSet(DOMAIN index.keyMap)
      BY <1>1, KeyMapFinite
    <3>. QED  BY <1>2, <2>1, <3>1, <3>2, FS_RemoveElement
  <2>4. CapacityRespected' /\ EvictionReady'
    BY <1>2, <1>3, <2>3, ConstantTypes DEF CapacityRespected, EvictionReady, Full
  <2>5. Ordered(index', recency')
    <3>1. Ordered(d, RemoveFirst(recency, k))
      BY <1>1, <2>1, EraseKeyOrdered
    <3>. QED  BY <1>3, <2>1, <3>1
  <2>6. CountsBounded'
    <3>1. \A x \in DOMAIN d.keyMap : d.keyMap[x].freq <= MaxFreq
      BY <1>1, <2>2, FewerKeysBounded
    <3>. QED  BY <1>3, <3>1 DEF CountsBounded
  <2>7. MaxFreq <= IntMax => CountsFit' /\ undefined' = FALSE
    BY <1>3, <2>1, <2>2 DEF IInv, CountsFit
  <2>. QED  BY <1>3, <2>1, <2>2, <2>4, <2>5, <2>6, <2>7 DEF IInv
<1>9. CASE UNCHANGED vars
  BY <1>9 DEF IInv, vars, CountsBounded, CapacityRespected, EvictionReady, Full, CountsFit
<1>. QED  BY <1>4, <1>5, <1>6, <1>7, <1>8, <1>9 DEF Next

\* The invariant holds for ever.
THEOREM Invariant == Spec => []IInv
BY InitInvariant, NextInvariant, PTL DEF Spec

-----------------------------------------------------------------------------
\* The members keep their types: MinFreq and the frequencies of the buckets are
\* ints, every use count is positive.
THEOREM TypeCorrect == Spec => []TypeOK
<1>1. IInv => TypeOK
  BY DEF IInv, Agreed, Ordered, TypeOK
<1>. QED  BY <1>1, Invariant, PTL

\* KeyMap and FreqBuckets agree after any sequence of operations, also when use
\* counts have passed INT_MAX and the buckets are those of negative frequencies.
THEOREM IndexAlwaysConsistent == Spec => []IndexConsistent
<1>1. IInv => IndexConsistent
  BY DEF IInv, Agreed, IndexConsistent
<1>. QED  BY <1>1, Invariant, PTL

\* The cache never exceeds its limit.
THEOREM CapacityAlwaysRespected == Spec => []CapacityRespected
<1>1. IInv => CapacityRespected
  BY DEF IInv
<1>. QED  BY <1>1, Invariant, PTL

\* A full cache knows its least frequency, although MinFreq is wrong in other
\* states, unless a use count has passed INT_MAX.  The key whose count comes full
\* circle is an exception: it empties a bucket that MinFreq still names.
THEOREM AlwaysEvictionReady ==
  ASSUME NoLap
  PROVE  Spec => []EvictionReady
<1>1. IInv => EvictionReady
  BY DEF IInv
<1>. QED  BY <1>1, Invariant, PTL

\* As long as use counts fit in an int no operation reads the back of an empty
\* list.
THEOREM NeverUndefined ==
  ASSUME MaxFreq <= IntMax
  PROVE  Spec => [](undefined = FALSE)
<1>1. IInv => undefined = FALSE
  BY DEF IInv
<1>. QED  BY <1>1, Invariant, PTL

-----------------------------------------------------------------------------
(***************************************************************************)
(* The refinement: the operations of the cache are those of LfuPolicy.     *)
(***************************************************************************)
\* The instance brings the library's operators under names of its own: they are
\* the same operators.
LEMMA PolicyOperators ==
  /\ \A s, e : Policy!RemoveFirst(s, e) = RemoveFirst(s, e)
  /\ \A s, i : Policy!RemoveAt(s, i) = RemoveAt(s, i)
  /\ \A S : Policy!Max(S) = Max(S)
  /\ \A S : Policy!Cardinality(S) = Cardinality(S)
  /\ \A f, S : Policy!Restrict(f, S) = Restrict(f, S)
<1>1. \A s, i : Policy!RemoveAt(s, i) = RemoveAt(s, i)
  BY DEF Policy!RemoveAt, RemoveAt
<1>2. \A s, e : Policy!RemoveFirst(s, e) = RemoveFirst(s, e)
  BY <1>1 DEF Policy!RemoveFirst, RemoveFirst, Policy!SelectInSeq, SelectInSeq, Policy!Min, Min
<1>3. \A S : Policy!Max(S) = Max(S)
  BY DEF Policy!Max, Max
<1>4. \A S : Policy!Cardinality(S) = Cardinality(S)
  BY DEF Policy!Cardinality, Cardinality, Policy!IsFiniteSet, IsFiniteSet
<1>5. \A f, S : Policy!Restrict(f, S) = Restrict(f, S)
  BY DEF Policy!Restrict, Restrict
<1>. QED  BY <1>1, <1>2, <1>3, <1>4, <1>5

\* TryGet and Set of a key that is there are the policy's use of it.
LEMMA UseIsPolicyUse ==
  ASSUME NEW k \in DOMAIN index.keyMap, NEW w,
         index'.keyMap = [index.keyMap EXCEPT ![k] = [value |-> w, freq |-> @.freq + 1]],
         recency' = Promote(recency, k)
  PROVE  Policy!Use(k, w)
BY PolicyOperators DEF Policy!Use, Policy!Promote, Promote

\* An eviction by EvictLFU is the policy's: the place of its victim in the order
\* of use is the one the policy computes from the use counts of all the keys.
LEMMA VictimIsPolicyVictim ==
  ASSUME Sound(index), Ordered(index, recency), MinFreqExact(index)
  PROVE  /\ recency[Policy!VictimPosition] = Victim(index)
         /\ Policy!RemoveAt(recency, Policy!VictimPosition) = RemoveFirst(recency, Victim(index))
<1> DEFINE P == {i \in 1..Len(recency) : \A k \in DOMAIN index.keyMap :
                   index.keyMap[recency[i]].freq <= index.keyMap[k].freq}
<1>2. recency[Max(P)] = Victim(index)
      /\ RemoveAt(recency, Max(P)) = RemoveFirst(recency, Victim(index))
  BY VictimFound
<1>3. Policy!VictimPosition = Max(P)
  BY PolicyOperators DEF Policy!VictimPosition, Policy!NoneRarer
<1>. QED  BY <1>2, <1>3, PolicyOperators

\* As long as counts fit in an int every step is a step of the policy, or changes
\* nothing the policy sees.
LEMMA StepIsPolicyStep ==
  ASSUME NoLap, CountsFit, IInv, [Next]_vars
  PROVE  [Policy!Next]_Policy!vars
<1>1. /\ Sound(index) /\ Agreed(index) /\ Ordered(index, recency)
      /\ index.keyMap \in [DOMAIN index.keyMap -> [value : Values, freq : Nat \ {0}]]
  BY CountsFitSound DEF IInv, Agreed, IndexType
<1>2. Full /\ SizeLimit > 0 => MinFreqExact(index)
  BY DEF IInv, EvictionReady
<1>3. ASSUME NEW k \in Keys, TryGet(k)  PROVE Policy!Read(k)
  <2>1. /\ k \in DOMAIN index.keyMap /\ index' = UpdateFrequency(index, k)
        /\ recency' = Promote(recency, k)
    BY <1>3 DEF TryGet, Present
  <2>2. index'.keyMap = [index.keyMap EXCEPT ![k].freq = @ + 1]
    BY <1>1, <2>1, UpdateFrequencyAgreed
  <2>3. index'.keyMap = [index.keyMap EXCEPT
                           ![k] = [value |-> index.keyMap[k].value, freq |-> @.freq + 1]]
    BY <1>1, <2>1, <2>2
  <2>. QED  BY <2>1, <2>3, UseIsPolicyUse DEF Policy!Read
<1>4. ASSUME NEW k \in Keys, NEW v \in Values, SetPresent(k, v)  PROVE Policy!Write(k, v)
  <2>1. PICK c : c = SetValue(index, k, v)
    OBVIOUS
  <2>2. /\ k \in DOMAIN index.keyMap /\ index' = UpdateFrequency(c, k)
        /\ recency' = Promote(recency, k)
    BY <1>4, <2>1 DEF SetPresent, Present
  <2>3. Agreed(c) /\ k \in DOMAIN c.keyMap
    BY <1>1, <2>1, <2>2, SetValueAgreed
  <2>4. index'.keyMap = [c.keyMap EXCEPT ![k].freq = @ + 1]
    BY <2>2, <2>3, UpdateFrequencyAgreed
  <2>5. c.keyMap = [index.keyMap EXCEPT ![k].value = v]
    BY <2>1 DEF SetValue
  <2>6. index'.keyMap = [index.keyMap EXCEPT ![k] = [value |-> v, freq |-> @.freq + 1]]
    BY <1>1, <2>2, <2>4, <2>5
  <2>. QED  BY <2>2, <2>6, UseIsPolicyUse DEF Policy!Write
<1>5. ASSUME NEW k \in Keys, NEW v \in Values, SetAbsent(k, v)  PROVE Policy!Add(k, v)
  <2>1. /\ k \notin DOMAIN index.keyMap /\ SizeLimit > 0
        /\ Full <=> Cardinality(DOMAIN index.keyMap) >= SizeLimit
    BY <1>5 DEF SetAbsent, Present, Full
  <2>2. CASE Full
    <3>1. MinFreqExact(index)
      BY <1>2, <2>1, <2>2
    <3>2. /\ recency[Policy!VictimPosition] = Victim(index)
          /\ Policy!RemoveAt(recency, Policy!VictimPosition) = RemoveFirst(recency, Victim(index))
      BY <1>1, <3>1, VictimIsPolicyVictim
    <3>3. PICK c : c = EvictLFU(index)
      OBVIOUS
    <3>4. Sound(c) /\ c.keyMap = Without(index.keyMap, Victim(index))
      BY <1>1, <3>1, <3>3, EvictLFUSound DEF MinFreqExact
    <3>5. /\ DOMAIN c.keyMap = DOMAIN index.keyMap \ {Victim(index)}
          /\ \A x \in DOMAIN c.keyMap : c.keyMap[x] = index.keyMap[x]
      BY <3>4 DEF Without, Restrict
    <3>6. /\ index' = Insert(c, k, v) /\ k \notin DOMAIN c.keyMap
          /\ recency' = Promote(RemoveFirst(recency, Victim(index)), k)
      BY <1>5, <2>1, <2>2, <3>3, <3>5 DEF SetAbsent
    <3>7. index'.keyMap = [x \in DOMAIN c.keyMap \cup {k} |->
                             IF x = k THEN [value |-> v, freq |-> 1] ELSE c.keyMap[x]]
      BY <3>6 DEF Insert, Enter
    <3>8. index'.keyMap =
            [x \in (DOMAIN index.keyMap \ {recency[Policy!VictimPosition]}) \cup {k} |->
                             IF x = k THEN [value |-> v, freq |-> 1] ELSE index.keyMap[x]]
      BY <3>2, <3>5, <3>7
    <3>. QED  BY <2>1, <2>2, <3>2, <3>6, <3>8, PolicyOperators
              DEF Policy!Add, Policy!Promote, Promote
  <2>3. CASE ~Full
    <3>1. index' = Insert(index, k, v) /\ recency' = Promote(recency, k)
      BY <1>5, <2>3 DEF SetAbsent
    <3>2. index'.keyMap = [x \in DOMAIN index.keyMap \cup {k} |->
                             IF x = k THEN [value |-> v, freq |-> 1] ELSE index.keyMap[x]]
      BY <3>1 DEF Insert, Enter
    <3>. QED  BY <2>1, <2>3, <3>1, <3>2, PolicyOperators DEF Policy!Add, Policy!Promote, Promote
  <2>. QED  BY <2>2, <2>3
<1>6. ASSUME NEW k \in Keys, SetWithoutVictim(k)  PROVE FALSE
  BY <1>2, <1>6 DEF SetWithoutVictim, MinFreqExact
<1>7. ASSUME NEW k \in Keys, Erase(k)  PROVE Policy!Erase(k)
  <2>1. /\ k \in DOMAIN index.keyMap /\ index' = EraseKey(index, k)
        /\ recency' = RemoveFirst(recency, k)
    BY <1>7 DEF Erase, Present
  <2>2. index'.keyMap = Without(index.keyMap, k)
    BY <2>1 DEF EraseKey, Leave
  <2>. QED  BY <2>1, <2>2, PolicyOperators DEF Policy!Erase, Without
<1>8. CASE UNCHANGED vars
  BY <1>8 DEF vars, Policy!vars
<1>9. ASSUME Next  PROVE Policy!Next
  BY <1>3, <1>4, <1>5, <1>6, <1>7, <1>9 DEF Next, Policy!Next
<1>. QED  BY <1>8, <1>9

\* The cache is an LFU cache: after any sequence of operations it holds the keys,
\* values and use counts of the policy and evicts the key that the policy evicts,
\* although it looks at one bucket and not at the use counts.
THEOREM ImplementsLfuPolicy ==
  ASSUME NoLap
  PROVE  Spec => ImplementsPolicy
<1>1. Init => Policy!Init
  BY CacheAssumption DEF Init, EmptyIndex, Policy!Init
<1>2. IInv /\ [Next]_vars => [CountsFit => Policy!Next]_Policy!vars
  BY StepIsPolicyStep
<1>. QED  BY <1>1, <1>2, Invariant, PTL DEF Spec, ImplementsPolicy
=============================================================================
