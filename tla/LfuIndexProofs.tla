---------------------------- MODULE LfuIndexProofs ----------------------------
(***************************************************************************)
(* Lemmas about the operators of LfuIndex, for every set of keys and every *)
(* IntMax.  The caches' theorems rest on them.                             *)
(***************************************************************************)
EXTENDS LfuIndex, DataLemmas

-----------------------------------------------------------------------------
\* UpdateMinFreq() yields a Frequency, the least that has a bucket.
LEMMA UpdateMinFreqProperties ==
  ASSUME NEW b, DOMAIN b \subseteq Frequencies
  PROVE  /\ UpdateMinFreq(b) \in Frequencies
         /\ \A f \in DOMAIN b : UpdateMinFreq(b) \in DOMAIN b /\ UpdateMinFreq(b) <= f
<1>1. CASE DOMAIN b = {}
  BY <1>1, IntMaxAssumption DEF UpdateMinFreq, Frequencies
<1>2. CASE DOMAIN b # {}
  <2>1. Min(DOMAIN b) \in DOMAIN b /\ \A f \in DOMAIN b : Min(DOMAIN b) <= f
    BY <1>2, MinOfInterval, IntMaxAssumption DEF Frequencies
  <2>. QED  BY <1>2, <2>1 DEF UpdateMinFreq
<1>. QED  BY <1>1, <1>2

-----------------------------------------------------------------------------
(***************************************************************************)
(* The map of buckets.                                                     *)
(***************************************************************************)
TypedBuckets(b) == DOMAIN b \subseteq Frequencies /\ b \in [DOMAIN b -> Seq(Keys)]

\* FreqBuckets[f] is a list of keys, there or not.
LEMMA BucketIsList ==
  ASSUME NEW b, TypedBuckets(b), NEW f
  PROVE  Bucket(b, f) \in Seq(Keys)
BY EmptySeq DEF TypedBuckets, Bucket

\* A write of one bucket, or its erasure, changes that bucket and no other.
LEMMA BucketWritten ==
  ASSUME NEW b, TypedBuckets(b), NEW f \in Frequencies, NEW s \in Seq(Keys)
  PROVE  /\ TypedBuckets(WithBucket(b, f, s))
         /\ TypedBuckets(Without(b, f))
         /\ TypedBuckets(StoreBucket(b, f, s))
         /\ \A g : /\ Bucket(WithBucket(b, f, s), g) = IF g = f THEN s ELSE Bucket(b, g)
                   /\ Bucket(Without(b, f), g) = IF g = f THEN << >> ELSE Bucket(b, g)
                   /\ Bucket(StoreBucket(b, f, s), g) = IF g = f THEN s ELSE Bucket(b, g)
<1>1. /\ TypedBuckets(WithBucket(b, f, s))
      /\ \A g : Bucket(WithBucket(b, f, s), g) = IF g = f THEN s ELSE Bucket(b, g)
  BY DEF TypedBuckets, WithBucket, Bucket
<1>2. /\ TypedBuckets(Without(b, f))
      /\ \A g : Bucket(Without(b, f), g) = IF g = f THEN << >> ELSE Bucket(b, g)
  BY DEF TypedBuckets, Without, Restrict, Bucket
<1>. QED  BY <1>1, <1>2 DEF StoreBucket

\* A key moved from one bucket to another: the two written, the first then erased or not.
LEMMA TwoBucketsWritten ==
  ASSUME NEW b, TypedBuckets(b), NEW f \in Frequencies, NEW h \in Frequencies, f # h,
         NEW s \in Seq(Keys), NEW t \in Seq(Keys)
  PROVE  LET moved == WithBucket(WithBucket(b, f, s), h, t)
         IN  /\ TypedBuckets(moved)
             /\ TypedBuckets(Without(moved, f))
             /\ \A g : Bucket(moved, g) = IF g = f THEN s ELSE IF g = h THEN t ELSE Bucket(b, g)
             /\ \A g : Bucket(Without(moved, f), g) = IF g = f THEN << >> ELSE Bucket(moved, g)
<1>1. PICK one : one = WithBucket(b, f, s)
  OBVIOUS
<1>2. TypedBuckets(one) /\ \A g : Bucket(one, g) = IF g = f THEN s ELSE Bucket(b, g)
  BY <1>1, BucketWritten
<1>3. PICK two : two = WithBucket(one, h, t)
  OBVIOUS
<1>4. TypedBuckets(two) /\ \A g : Bucket(two, g) = IF g = h THEN t ELSE Bucket(one, g)
  BY <1>2, <1>3, BucketWritten
<1>5. /\ TypedBuckets(Without(two, f))
      /\ \A g : Bucket(Without(two, f), g) = IF g = f THEN << >> ELSE Bucket(two, g)
  BY <1>4, BucketWritten
<1>6. \A g : Bucket(two, g) = IF g = f THEN s ELSE IF g = h THEN t ELSE Bucket(b, g)
  BY <1>2, <1>4
<1>. QED  BY <1>1, <1>3, <1>4, <1>5, <1>6

-----------------------------------------------------------------------------
(***************************************************************************)
(* The conversion of a count to a Frequency.                               *)
(***************************************************************************)
\* It yields a Frequency.
LEMMA ToFrequencyValues ==
  ASSUME NEW n \in Nat
  PROVE  ToFrequency(n) \in Frequencies
<1> DEFINE w == 2 * (IntMax + 1)
<1>1. (n + IntMax + 1) % w \in 0..(w - 1)
  BY IntMaxAssumption
<1>. QED  BY <1>1, IntMaxAssumption DEF ToFrequency, Frequencies

\* It changes no count up to INT_MAX.
LEMMA ToFrequencyIdentity ==
  ASSUME NEW n \in Nat, n <= IntMax
  PROVE  ToFrequency(n) = n /\ n \in Frequencies
BY IntMaxAssumption DEF ToFrequency, Frequencies

\* The next count has another frequency, even where the counts pass INT_MAX.
LEMMA ToFrequencyMoves ==
  ASSUME NEW n \in Nat
  PROVE  ToFrequency(n + 1) # ToFrequency(n)
<1> DEFINE w == 2 * (IntMax + 1)
           m == n + IntMax + 1
<1>1. IntMax \in Nat /\ IntMax > 0 /\ w \in Nat /\ w > 1 /\ m \in Int
  BY IntMaxAssumption
<1>2. (m + 1) % w # m % w /\ (m + 1) % w \in 0..(w - 1) /\ m % w \in 0..(w - 1)
  <2>. HIDE DEF w, m
  <2>1. (m + 1) % w # m % w
    BY <1>1, ModNext, Zenon
  <2>2. (m + 1) % w \in 0..(w - 1) /\ m % w \in 0..(w - 1)
    BY <1>1
  <2>. QED  BY <2>1, <2>2
<1>3. m + 1 = (n + 1) + IntMax + 1
  BY <1>1
<1>. HIDE DEF w
<1>4. ToFrequency(n) = IF n <= IntMax THEN n ELSE (m % w) - (IntMax + 1)
  BY DEF ToFrequency, w
<1>5. ToFrequency(n + 1) = IF n + 1 <= IntMax THEN n + 1 ELSE ((m + 1) % w) - (IntMax + 1)
  BY <1>3 DEF ToFrequency, w
<1>6. CASE n + 1 <= IntMax
  BY <1>1, <1>4, <1>5, <1>6
<1>7. CASE n = IntMax
  <2>1. (m + 1) % w = 0
    <3>1. m + 1 = w * 1 + 0 /\ 0 \in 0..(w - 1)
      BY <1>1, <1>7 DEF w
    <3>. QED  BY <1>1, <3>1, ModOf
  <2>. HIDE DEF m
  <2>2. ToFrequency(n + 1) = 0 - (IntMax + 1) /\ ToFrequency(n) = n
    BY <1>1, <1>4, <1>5, <1>7, <2>1
  <2>. QED  BY <1>1, <1>7, <2>2
<1>8. CASE n > IntMax
  <2>. HIDE DEF m
  <2>1. /\ ToFrequency(n + 1) = ((m + 1) % w) - (IntMax + 1)
        /\ ToFrequency(n) = (m % w) - (IntMax + 1)
    BY <1>1, <1>4, <1>5, <1>8
  <2>. QED  BY <1>1, <1>2, <2>1
<1>. QED  BY <1>1, <1>6, <1>7, <1>8

\* A count above INT_MAX has no positive frequency before it has come full circle.
LEMMA ToFrequencyBeyond ==
  ASSUME NEW n \in Nat, n <= 2 * (IntMax + 1), ToFrequency(n) > 0
  PROVE  n <= IntMax
<1> DEFINE w == 2 * (IntMax + 1)
<1>1. SUFFICES ASSUME n > IntMax  PROVE FALSE
  BY IntMaxAssumption
<1>2. IntMax \in Nat /\ w \in Nat /\ w > 1 /\ n <= w
  BY IntMaxAssumption
<1>3. (n + IntMax + 1) % w <= IntMax + 1
  <2> DEFINE r == n - (IntMax + 1)
  <2>1. n + IntMax + 1 = w * 1 + r /\ r \in 0..(w - 1) /\ r <= IntMax + 1
    BY <1>1, <1>2
  <2>. HIDE DEF w, r
  <2>2. (w * 1 + r) % w = r
    BY <1>2, <2>1, ModOf
  <2>. QED  BY <2>1, <2>2
<1>4. ToFrequency(n) = ((n + IntMax + 1) % w) - (IntMax + 1)
  BY <1>1, <1>2 DEF ToFrequency
<1>5. (n + IntMax + 1) % w \in Nat
  BY <1>2
<1>. QED  BY <1>2, <1>3, <1>4, <1>5

-----------------------------------------------------------------------------
(***************************************************************************)
(* An index whose two maps agree, whatever the counts.                     *)
(***************************************************************************)
Agreed(c) == IndexType(c) /\ BucketsMatchKeys(c)

\* What the agreement says of the buckets and of the frequency of a key.
LEMMA AgreedBuckets ==
  ASSUME NEW c, Agreed(c)
  PROVE  /\ TypedBuckets(c.freqBuckets)
         /\ \A k \in DOMAIN c.keyMap : ToFrequency(c.keyMap[k].freq) \in Frequencies
         /\ \A f \in Frequencies :
              /\ IsInjective(Bucket(c.freqBuckets, f))
              /\ Bucket(c.freqBuckets, f) \in Seq(Keys)
              /\ \A k \in Keys : Contains(Bucket(c.freqBuckets, f), k)
                                   <=> k \in DOMAIN c.keyMap /\ ToFrequency(c.keyMap[k].freq) = f
<1>1. TypedBuckets(c.freqBuckets)
  BY DEF Agreed, IndexType, TypedBuckets
<1>2. \A k \in DOMAIN c.keyMap : ToFrequency(c.keyMap[k].freq) \in Frequencies
  BY ToFrequencyValues DEF Agreed, IndexType
<1>. QED  BY <1>1, <1>2, BucketIsList DEF Agreed, BucketsMatchKeys

\* push_front
Pushed(s, k) == <<k>> \o s

\* A use of a key moves it to the front of the next bucket and counts the use.
LEMMA UpdateFrequencyAgreed ==
  ASSUME NEW c, Agreed(c), NEW k \in DOMAIN c.keyMap, NEW d, d = UpdateFrequency(c, k)
  PROVE  /\ Agreed(d)
         /\ d.keyMap = [c.keyMap EXCEPT ![k].freq = @ + 1]
         /\ \A f : Bucket(d.freqBuckets, f) =
                     IF f = ToFrequency(c.keyMap[k].freq)
                     THEN RemoveFirst(Bucket(c.freqBuckets, f), k)
                     ELSE IF f = ToFrequency(c.keyMap[k].freq + 1)
                     THEN Pushed(Bucket(c.freqBuckets, f), k)
                     ELSE Bucket(c.freqBuckets, f)
<1> DEFINE n       == c.keyMap[k].freq
           old     == ToFrequency(n)
           next    == ToFrequency(n + 1)
           rest    == RemoveFirst(Bucket(c.freqBuckets, old), k)
           entered == <<k>> \o Bucket(c.freqBuckets, next)
           moved   == WithBucket(WithBucket(c.freqBuckets, old, rest), next, entered)
           exhausted == n = c.minFreq /\ rest = << >>
<1>1. /\ n \in Nat \ {0} /\ n + 1 \in Nat \ {0} /\ k \in Keys
      /\ old \in Frequencies /\ next \in Frequencies /\ old # next
  <2>1. n \in Nat \ {0} /\ n + 1 \in Nat \ {0} /\ k \in Keys
    BY DEF Agreed, IndexType
  <2>. QED  BY <2>1, ToFrequencyValues, ToFrequencyMoves
<1>2. d = [keyMap      |-> [c.keyMap EXCEPT ![k].freq = n + 1],
           freqBuckets |-> IF exhausted THEN Without(moved, old) ELSE moved,
           minFreq     |-> IF exhausted THEN next ELSE c.minFreq]
  <2>1. BucketNear(c, k, 0) = Bucket(c.freqBuckets, old)
        /\ BucketNear(c, k, 1) = Bucket(c.freqBuckets, next)
    BY <1>1 DEF BucketNear
  <2>. QED  BY <2>1 DEF UpdateFrequency, MoveKey
<1>. HIDE DEF old, next
<1>3. /\ rest \in Seq(Keys) /\ IsInjective(rest)
      /\ \A x : Contains(rest, x) <=> x # k /\ Contains(Bucket(c.freqBuckets, old), x)
  BY <1>1, AgreedBuckets, RemoveFirstProperties
<1>4. /\ entered \in Seq(Keys) /\ IsInjective(entered)
      /\ \A x : Contains(entered, x) <=> x = k \/ Contains(Bucket(c.freqBuckets, next), x)
  <2>1. ~Contains(Bucket(c.freqBuckets, next), k)
    BY <1>1, AgreedBuckets DEF old
  <2>. QED  BY <1>1, <2>1, AgreedBuckets, PushFrontProperties
<1>. HIDE DEF rest, entered
<1>5. /\ TypedBuckets(d.freqBuckets)
      /\ \A g : Bucket(d.freqBuckets, g) = IF g = old THEN rest
                                           ELSE IF g = next THEN entered
                                           ELSE Bucket(c.freqBuckets, g)
  <2>1. TypedBuckets(c.freqBuckets)
    BY AgreedBuckets
  <2>2. /\ TypedBuckets(moved)
        /\ TypedBuckets(Without(moved, old))
        /\ \A g : Bucket(moved, g) = IF g = old THEN rest
                                     ELSE IF g = next THEN entered
                                     ELSE Bucket(c.freqBuckets, g)
        /\ \A g : Bucket(Without(moved, old), g) = IF g = old THEN << >> ELSE Bucket(moved, g)
    BY <1>1, <1>3, <1>4, <2>1, TwoBucketsWritten
  <2>. HIDE DEF moved
  <2>. QED  BY <1>1, <1>2, <2>2
<1>. HIDE DEF exhausted, moved
<1>6. /\ d.keyMap = [c.keyMap EXCEPT ![k].freq = @ + 1]
      /\ DOMAIN d.keyMap = DOMAIN c.keyMap
      /\ d.keyMap \in [DOMAIN d.keyMap -> [value : Values, freq : Nat \ {0}]]
      /\ \A x \in DOMAIN d.keyMap : d.keyMap[x].freq = IF x = k THEN n + 1 ELSE c.keyMap[x].freq
  BY <1>1, <1>2 DEF Agreed, IndexType
<1>7. IndexType(d)
  BY <1>1, <1>2, <1>5, <1>6 DEF Agreed, IndexType, TypedBuckets
<1>8. \A x \in DOMAIN d.keyMap : ToFrequency(d.keyMap[x].freq)
                                   = IF x = k THEN next ELSE ToFrequency(c.keyMap[x].freq)
  BY <1>6 DEF next
<1>. HIDE DEF n
<1>9. BucketsMatchKeys(d)
  <2>. SUFFICES ASSUME NEW f \in Frequencies
                PROVE  /\ IsInjective(Bucket(d.freqBuckets, f))
                       /\ \A x \in Keys : Contains(Bucket(d.freqBuckets, f), x)
                            <=> x \in DOMAIN d.keyMap /\ ToFrequency(d.keyMap[x].freq) = f
    BY DEF BucketsMatchKeys
  <2>0. old = ToFrequency(c.keyMap[k].freq)
    BY DEF old, n
  <2>1. CASE f = old
    BY <1>1, <1>3, <1>5, <1>6, <1>8, <2>0, <2>1, AgreedBuckets
  <2>2. CASE f = next
    BY <1>1, <1>4, <1>5, <1>6, <1>8, <2>0, <2>2, AgreedBuckets
  <2>3. CASE f # old /\ f # next
    BY <1>1, <1>5, <1>6, <1>8, <2>0, <2>3, AgreedBuckets
  <2>. QED  BY <2>1, <2>2, <2>3
<1>10. \A f : Bucket(d.freqBuckets, f) =
                IF f = old THEN RemoveFirst(Bucket(c.freqBuckets, f), k)
                ELSE IF f = next THEN Pushed(Bucket(c.freqBuckets, f), k)
                ELSE Bucket(c.freqBuckets, f)
  BY <1>5 DEF rest, entered, Pushed
<1>. QED  BY <1>6, <1>7, <1>9, <1>10 DEF Agreed, old, next, n

\* A use writes the next bucket and erases none but that of a count that fits.
LEMMA UpdateFrequencyDomain ==
  ASSUME NEW c, Agreed(c), NEW k \in DOMAIN c.keyMap, NEW d, d = UpdateFrequency(c, k)
  PROVE  /\ ToFrequency(c.keyMap[k].freq + 1) \in DOMAIN d.freqBuckets
         /\ DOMAIN d.freqBuckets \subseteq
              DOMAIN c.freqBuckets \cup {ToFrequency(c.keyMap[k].freq),
                                        ToFrequency(c.keyMap[k].freq + 1)}
         /\ \A f \in DOMAIN c.freqBuckets : f \in DOMAIN d.freqBuckets \/ f = c.keyMap[k].freq
<1> DEFINE n    == c.keyMap[k].freq
           old  == ToFrequency(n)
           next == ToFrequency(n + 1)
<1>1. n \in Nat /\ old # next /\ c.minFreq \in Frequencies
  BY ToFrequencyMoves DEF Agreed, IndexType
<1>2. PICK s, t : LET moved == WithBucket(WithBucket(c.freqBuckets, old, s), next, t)
                  IN  \/ d.freqBuckets = moved
                      \/ d.freqBuckets = Without(moved, old) /\ n = c.minFreq
  BY DEF UpdateFrequency, MoveKey
<1> DEFINE moved == WithBucket(WithBucket(c.freqBuckets, old, s), next, t)
<1>3. /\ DOMAIN moved = DOMAIN c.freqBuckets \cup {old, next}
      /\ DOMAIN Without(moved, old) = DOMAIN moved \ {old}
  BY DEF WithBucket, Without, Restrict
<1>4. n = c.minFreq => old = n
  BY <1>1, ToFrequencyIdentity, IntMaxAssumption DEF Frequencies
<1>. HIDE DEF old, next, n, moved
<1>5. d.freqBuckets = moved \/ (d.freqBuckets = Without(moved, old) /\ n = c.minFreq)
  BY <1>2 DEF moved
<1>6. /\ next \in DOMAIN d.freqBuckets
      /\ DOMAIN d.freqBuckets \subseteq DOMAIN c.freqBuckets \cup {old, next}
      /\ \A f \in DOMAIN c.freqBuckets : f \in DOMAIN d.freqBuckets \/ f = n
  BY <1>1, <1>3, <1>4, <1>5
<1>. QED  BY <1>6 DEF old, next, n

\* A replaced value moves nothing.
LEMMA SetValueAgreed ==
  ASSUME NEW c, Agreed(c), NEW k \in DOMAIN c.keyMap, NEW v \in Values,
         NEW d, d = SetValue(c, k, v)
  PROVE  /\ Agreed(d)
         /\ DOMAIN d.keyMap = DOMAIN c.keyMap
         /\ \A x \in DOMAIN c.keyMap : d.keyMap[x].freq = c.keyMap[x].freq
         /\ d.freqBuckets = c.freqBuckets
         /\ MinFreqExact(c) => MinFreqExact(d)
<1>1. /\ d.keyMap = [c.keyMap EXCEPT ![k].value = v]
      /\ d.freqBuckets = c.freqBuckets
      /\ d.minFreq = c.minFreq
  BY DEF SetValue
<1>2. /\ DOMAIN d.keyMap = DOMAIN c.keyMap
      /\ d.keyMap \in [DOMAIN d.keyMap -> [value : Values, freq : Nat \ {0}]]
      /\ \A x \in DOMAIN c.keyMap : d.keyMap[x].freq = c.keyMap[x].freq
  BY <1>1 DEF Agreed, IndexType
<1>3. IndexType(d)
  BY <1>1, <1>2 DEF Agreed, IndexType
<1>4. BucketsMatchKeys(d)
  BY <1>1, <1>2 DEF Agreed, BucketsMatchKeys
<1>5. MinFreqExact(c) => MinFreqExact(d)
  BY <1>1, <1>2 DEF MinFreqExact, HasVictim
<1>. QED  BY <1>1, <1>2, <1>3, <1>4, <1>5 DEF Agreed

\* A new key makes MinFreq exact, whatever it was.
LEMMA InsertAgreed ==
  ASSUME NEW c, Agreed(c), NEW k \in Keys, k \notin DOMAIN c.keyMap, NEW v \in Values,
         NEW d, d = Insert(c, k, v)
  PROVE  /\ Agreed(d)
         /\ d.keyMap = [x \in DOMAIN c.keyMap \cup {k} |->
                          IF x = k THEN [value |-> v, freq |-> 1] ELSE c.keyMap[x]]
         /\ DOMAIN d.freqBuckets = DOMAIN c.freqBuckets \cup {1}
         /\ MinFreqExact(d)
<1>1. PICK n \in Frequencies : n = 1
  BY IntMaxAssumption DEF Frequencies
<1> DEFINE entered == <<k>> \o Bucket(c.freqBuckets, n)
<1>2. /\ d.keyMap = [x \in DOMAIN c.keyMap \cup {k} |->
                       IF x = k THEN [value |-> v, freq |-> n] ELSE c.keyMap[x]]
      /\ d.freqBuckets = WithBucket(c.freqBuckets, n, entered)
      /\ d.minFreq = n
  BY <1>1 DEF Insert, Enter
<1>3. /\ entered \in Seq(Keys) /\ IsInjective(entered)
      /\ \A x : Contains(entered, x) <=> x = k \/ Contains(Bucket(c.freqBuckets, n), x)
  BY <1>1, AgreedBuckets, PushFrontProperties
<1>. HIDE DEF entered
<1>4. /\ TypedBuckets(d.freqBuckets)
      /\ DOMAIN d.freqBuckets = DOMAIN c.freqBuckets \cup {n}
      /\ \A g : Bucket(d.freqBuckets, g) = IF g = n THEN entered ELSE Bucket(c.freqBuckets, g)
  <2>1. DOMAIN d.freqBuckets = DOMAIN c.freqBuckets \cup {n}
    BY <1>2 DEF WithBucket
  <2>. QED  BY <1>1, <1>2, <1>3, <2>1, AgreedBuckets, BucketWritten
<1>5. /\ DOMAIN d.keyMap = DOMAIN c.keyMap \cup {k}
      /\ d.keyMap \in [DOMAIN d.keyMap -> [value : Values, freq : Nat \ {0}]]
      /\ \A x \in DOMAIN d.keyMap : d.keyMap[x].freq = IF x = k THEN n ELSE c.keyMap[x].freq
  BY <1>1, <1>2 DEF Agreed, IndexType
<1>6. IndexType(d)
  BY <1>1, <1>2, <1>4, <1>5 DEF Agreed, IndexType, TypedBuckets
<1>7. \A x \in DOMAIN d.keyMap : ToFrequency(d.keyMap[x].freq)
                                   = IF x = k THEN n ELSE ToFrequency(c.keyMap[x].freq)
  <2>1. ToFrequency(n) = n
    BY <1>1, ToFrequencyIdentity, IntMaxAssumption
  <2>. QED  BY <1>5, <2>1
<1>8. BucketsMatchKeys(d)
  <2>1. ASSUME NEW f \in Frequencies
        PROVE  /\ IsInjective(Bucket(d.freqBuckets, f))
               /\ \A x \in Keys : Contains(Bucket(d.freqBuckets, f), x)
                    <=> x \in DOMAIN d.keyMap /\ ToFrequency(d.keyMap[x].freq) = f
    <3>1. CASE f = n
      BY <1>1, <1>3, <1>4, <1>5, <1>7, <3>1, AgreedBuckets
    <3>2. CASE f # n
      BY <1>4, <1>5, <1>7, <3>2, AgreedBuckets
    <3>. QED  BY <3>1, <3>2
  <2>. QED  BY <2>1 DEF BucketsMatchKeys
<1>9. MinFreqExact(d)
  <2>1. entered # << >>
    BY <1>3, EmptyContains
  <2>2. \A x \in DOMAIN d.keyMap : n <= d.keyMap[x].freq
    BY <1>1, <1>5
  <2>. QED  BY <1>2, <1>4, <2>1, <2>2 DEF MinFreqExact, HasVictim
<1>. QED  BY <1>1, <1>2, <1>4, <1>6, <1>8, <1>9 DEF Agreed

\* One key less in KeyMap and in its bucket.
LEMMA RemovalAgreed ==
  ASSUME NEW c, Agreed(c), NEW k \in DOMAIN c.keyMap,
         NEW f, f = ToFrequency(c.keyMap[k].freq), NEW s \in Seq(Keys), IsInjective(s),
         \A x : Contains(s, x) <=> x # k /\ Contains(Bucket(c.freqBuckets, f), x),
         NEW d, d.keyMap = Without(c.keyMap, k),
         d.minFreq \in {c.minFreq, UpdateMinFreq(d.freqBuckets)},
         d.freqBuckets = StoreBucket(c.freqBuckets, f, s)
  PROVE  /\ Agreed(d)
         /\ DOMAIN d.freqBuckets \subseteq DOMAIN c.freqBuckets \cup {f}
         /\ \A g : Bucket(d.freqBuckets, g) = IF g = f THEN s ELSE Bucket(c.freqBuckets, g)
<1>1. f \in Frequencies
  BY AgreedBuckets
<1>2. /\ TypedBuckets(d.freqBuckets)
      /\ \A g : Bucket(d.freqBuckets, g) = IF g = f THEN s ELSE Bucket(c.freqBuckets, g)
  BY <1>1, AgreedBuckets, BucketWritten
<1>3. /\ DOMAIN d.keyMap = DOMAIN c.keyMap \ {k}
      /\ \A x \in DOMAIN d.keyMap : d.keyMap[x] = c.keyMap[x]
      /\ d.keyMap \in [DOMAIN d.keyMap -> [value : Values, freq : Nat \ {0}]]
  BY DEF Without, Restrict, Agreed, IndexType
<1>4. d.minFreq \in Frequencies
  BY <1>2, UpdateMinFreqProperties DEF TypedBuckets, Agreed, IndexType
<1>5. IndexType(d)
  BY <1>2, <1>3, <1>4 DEF Agreed, IndexType, TypedBuckets
<1>6. BucketsMatchKeys(d)
  <2>1. ASSUME NEW g \in Frequencies
        PROVE  /\ IsInjective(Bucket(d.freqBuckets, g))
               /\ \A x \in Keys : Contains(Bucket(d.freqBuckets, g), x)
                    <=> x \in DOMAIN d.keyMap /\ ToFrequency(d.keyMap[x].freq) = g
    <3>1. CASE g = f
      BY <1>1, <1>2, <1>3, <3>1, AgreedBuckets
    <3>2. CASE g # f
      BY <1>2, <1>3, <3>2, AgreedBuckets
    <3>. QED  BY <3>1, <3>2
  <2>. QED  BY <2>1 DEF BucketsMatchKeys
<1>7. DOMAIN d.freqBuckets \subseteq DOMAIN c.freqBuckets \cup {f}
  BY DEF StoreBucket, WithBucket, Without, Restrict
<1>. QED  BY <1>2, <1>5, <1>6, <1>7 DEF Agreed

\* EvictLFU removes the back of the bucket of MinFreq, a key of that frequency.
LEMMA EvictLFUAgreed ==
  ASSUME NEW c, Agreed(c), HasVictim(c), NEW d, d = EvictLFU(c)
  PROVE  /\ Agreed(d)
         /\ Victim(c) \in DOMAIN c.keyMap /\ ToFrequency(c.keyMap[Victim(c)].freq) = c.minFreq
         /\ d.keyMap = Without(c.keyMap, Victim(c))
         /\ DOMAIN d.freqBuckets \subseteq DOMAIN c.freqBuckets
         /\ \A f : Bucket(d.freqBuckets, f) = IF f = c.minFreq THEN Front(Bucket(c.freqBuckets, f))
                                             ELSE Bucket(c.freqBuckets, f)
<1> DEFINE s == Bucket(c.freqBuckets, c.minFreq)
<1>1. c.minFreq \in Frequencies /\ s # << >> /\ c.minFreq \in DOMAIN c.freqBuckets
  BY DEF Agreed, IndexType, HasVictim, Bucket
<1>2. s \in Seq(Keys) /\ IsInjective(s)
  BY <1>1, AgreedBuckets
<1>3. /\ Front(s) \in Seq(Keys) /\ IsInjective(Front(s))
      /\ Last(s) \in Keys /\ Contains(s, Last(s))
      /\ \A x : Contains(Front(s), x) <=> x # Last(s) /\ Contains(s, x)
  BY <1>1, <1>2, PopBackProperties
<1>4. Victim(c) = Last(s)
  BY DEF Victim
<1>5. Victim(c) \in DOMAIN c.keyMap /\ ToFrequency(c.keyMap[Victim(c)].freq) = c.minFreq
  BY <1>1, <1>3, <1>4, AgreedBuckets
<1>6. /\ d.keyMap = Without(c.keyMap, Victim(c))
      /\ d.freqBuckets = StoreBucket(c.freqBuckets, c.minFreq, Front(s))
      /\ d.minFreq = UpdateMinFreq(d.freqBuckets)
  BY DEF EvictLFU
<1>. HIDE DEF s
<1>7. /\ Agreed(d)
      /\ DOMAIN d.freqBuckets \subseteq DOMAIN c.freqBuckets
      /\ \A f : Bucket(d.freqBuckets, f) = IF f = c.minFreq THEN Front(s)
                                          ELSE Bucket(c.freqBuckets, f)
  <2>1. PICK k \in DOMAIN c.keyMap : k = Victim(c)
    BY <1>5
  <2>2. PICK rest : rest = Front(s)
    OBVIOUS
  <2>3. PICK f : f = c.minFreq
    OBVIOUS
  <2>4. /\ f = ToFrequency(c.keyMap[k].freq) /\ d.keyMap = Without(c.keyMap, k)
        /\ d.freqBuckets = StoreBucket(c.freqBuckets, f, rest)
        /\ rest \in Seq(Keys) /\ IsInjective(rest)
        /\ d.minFreq \in {c.minFreq, UpdateMinFreq(d.freqBuckets)}
    BY <1>3, <1>5, <1>6, <2>1, <2>2, <2>3
  <2>5. \A x : Contains(rest, x) <=> x # k /\ Contains(Bucket(c.freqBuckets, f), x)
    BY <1>3, <1>4, <2>1, <2>2, <2>3 DEF s
  <2>6. /\ Agreed(d)
        /\ DOMAIN d.freqBuckets \subseteq DOMAIN c.freqBuckets \cup {f}
        /\ \A g : Bucket(d.freqBuckets, g) = IF g = f THEN rest ELSE Bucket(c.freqBuckets, g)
    BY <2>4, <2>5, RemovalAgreed
  <2>. QED  BY <1>1, <2>2, <2>3, <2>6
<1>. QED  BY <1>5, <1>6, <1>7 DEF s

\* Erase removes its key and no other.
LEMMA EraseKeyAgreed ==
  ASSUME NEW c, Agreed(c), NEW k \in DOMAIN c.keyMap, NEW d, d = EraseKey(c, k)
  PROVE  /\ Agreed(d)
         /\ d.keyMap = Without(c.keyMap, k)
         /\ DOMAIN d.freqBuckets \subseteq DOMAIN c.freqBuckets
         /\ \A f : Bucket(d.freqBuckets, f) =
                     IF f = ToFrequency(c.keyMap[k].freq)
                     THEN RemoveFirst(Bucket(c.freqBuckets, f), k)
                     ELSE Bucket(c.freqBuckets, f)
<1>1. PICK f \in Frequencies : f = ToFrequency(c.keyMap[k].freq)
  BY AgreedBuckets
<1>2. PICK rest : rest = RemoveFirst(Bucket(c.freqBuckets, f), k)
  OBVIOUS
<1>3. Contains(Bucket(c.freqBuckets, f), k) /\ k \in Keys
  BY <1>1, AgreedBuckets DEF Agreed, IndexType
<1>4. /\ rest \in Seq(Keys) /\ IsInjective(rest)
      /\ \A x : Contains(rest, x) <=> x # k /\ Contains(Bucket(c.freqBuckets, f), x)
  BY <1>1, <1>2, AgreedBuckets, RemoveFirstProperties
<1>5. /\ d.keyMap = Without(c.keyMap, k)
      /\ d.freqBuckets = StoreBucket(c.freqBuckets, f, rest)
      /\ d.minFreq \in {c.minFreq, UpdateMinFreq(d.freqBuckets)}
  BY <1>1, <1>2 DEF EraseKey, Leave
<1>6. /\ Agreed(d)
      /\ DOMAIN d.freqBuckets \subseteq DOMAIN c.freqBuckets \cup {f}
      /\ \A g : Bucket(d.freqBuckets, g) = IF g = f THEN rest ELSE Bucket(c.freqBuckets, g)
  BY <1>1, <1>4, <1>5, RemovalAgreed
<1>7. f \in DOMAIN c.freqBuckets
  <2>1. Bucket(c.freqBuckets, f) \in Seq(Keys)
    BY <1>1, AgreedBuckets
  <2>2. Bucket(c.freqBuckets, f) # << >>
    BY <1>3, <2>1, EmptyContains
  <2>. QED  BY <2>2 DEF Bucket
<1>. QED  BY <1>1, <1>2, <1>5, <1>6, <1>7

-----------------------------------------------------------------------------
(***************************************************************************)
(* An index whose use counts fit in a Frequency: the buckets are those of  *)
(* the counts themselves.                                                  *)
(***************************************************************************)
Sound(c) ==
  /\ IndexType(c)
  /\ BucketsMatchKeys(c)
  /\ \A k \in DOMAIN c.keyMap : c.keyMap[k].freq <= IntMax

LEMMA SoundAgreed ==
  ASSUME NEW c, Sound(c)
  PROVE  Agreed(c)
BY DEF Sound, Agreed

\* The conversion changes none of the counts.
LEMMA SoundCounts ==
  ASSUME NEW c, Sound(c), NEW k \in DOMAIN c.keyMap
  PROVE  /\ k \in Keys /\ c.keyMap[k].freq \in Nat \ {0}
         /\ c.keyMap[k].freq \in Frequencies
         /\ ToFrequency(c.keyMap[k].freq) = c.keyMap[k].freq
BY ToFrequencyIdentity DEF Sound, IndexType

\* What Sound says of the buckets.
LEMMA SoundBuckets ==
  ASSUME NEW c, Sound(c)
  PROVE  /\ TypedBuckets(c.freqBuckets)
         /\ \A f \in Frequencies :
              /\ IsInjective(Bucket(c.freqBuckets, f))
              /\ Bucket(c.freqBuckets, f) \in Seq(Keys)
              /\ \A k \in Keys : Contains(Bucket(c.freqBuckets, f), k)
                                   <=> k \in DOMAIN c.keyMap /\ c.keyMap[k].freq = f
BY SoundAgreed, SoundCounts, AgreedBuckets

\* A use of a key keeps MinFreq exact if it was.
LEMMA UpdateFrequencySound ==
  ASSUME NEW c, Sound(c), NEW k \in DOMAIN c.keyMap, c.keyMap[k].freq < IntMax,
         NEW d, d = UpdateFrequency(c, k)
  PROVE  /\ Sound(d)
         /\ d.keyMap = [c.keyMap EXCEPT ![k].freq = @ + 1]
         /\ \A f : Bucket(d.freqBuckets, f) =
                     IF f = c.keyMap[k].freq THEN RemoveFirst(Bucket(c.freqBuckets, f), k)
                     ELSE IF f = c.keyMap[k].freq + 1 THEN Pushed(Bucket(c.freqBuckets, f), k)
                     ELSE Bucket(c.freqBuckets, f)
         /\ MinFreqExact(c) => MinFreqExact(d)
<1> DEFINE old  == c.keyMap[k].freq
           rest == RemoveFirst(Bucket(c.freqBuckets, old), k)
           exhausted == old = c.minFreq /\ rest = << >>
<1>1. /\ old \in Nat \ {0} /\ old < IntMax /\ k \in Keys
      /\ old \in Frequencies /\ old + 1 \in Frequencies
      /\ ToFrequency(old) = old /\ ToFrequency(old + 1) = old + 1
  <2>1. old \in Nat \ {0} /\ k \in Keys
    BY SoundCounts
  <2>. QED  BY <2>1, ToFrequencyIdentity, IntMaxAssumption
<1>2. /\ Agreed(d)
      /\ d.keyMap = [c.keyMap EXCEPT ![k].freq = @ + 1]
      /\ \A f : Bucket(d.freqBuckets, f) =
                  IF f = old THEN RemoveFirst(Bucket(c.freqBuckets, f), k)
                  ELSE IF f = old + 1 THEN Pushed(Bucket(c.freqBuckets, f), k)
                  ELSE Bucket(c.freqBuckets, f)
  BY <1>1, SoundAgreed, UpdateFrequencyAgreed
<1>3. d.minFreq = IF exhausted THEN old + 1 ELSE c.minFreq
  <2>1. BucketNear(c, k, 0) = Bucket(c.freqBuckets, old)
    BY <1>1 DEF BucketNear
  <2>. QED  BY <1>1, <2>1 DEF UpdateFrequency, MoveKey
<1>4. /\ DOMAIN d.keyMap = DOMAIN c.keyMap
      /\ \A x \in DOMAIN d.keyMap :
           d.keyMap[x].freq = IF x = k THEN old + 1 ELSE c.keyMap[x].freq
  BY <1>2 DEF Sound, IndexType
<1>5. Sound(d)
  <2>1. \A x \in DOMAIN d.keyMap : d.keyMap[x].freq <= IntMax
    BY <1>1, <1>4, IntMaxAssumption DEF Sound
  <2>. QED  BY <1>2, <2>1 DEF Sound, Agreed
<1>6. /\ rest \in Seq(Keys)
      /\ \A x : Contains(rest, x) <=> x # k /\ Contains(Bucket(c.freqBuckets, old), x)
  BY <1>1, SoundBuckets, RemoveFirstProperties
<1>7. \A f : f # old /\ f # old + 1 => Bucket(d.freqBuckets, f) = Bucket(c.freqBuckets, f)
  BY <1>2
<1>8. Bucket(d.freqBuckets, old) = rest
  BY <1>2
<1>9. Bucket(d.freqBuckets, old + 1) # << >>
  <2>1. k \in DOMAIN d.keyMap /\ d.keyMap[k].freq = old + 1
    BY <1>4
  <2>2. PICK f \in Frequencies : f = old + 1
    BY <1>1
  <2>3. Contains(Bucket(d.freqBuckets, f), k) /\ Bucket(d.freqBuckets, f) \in Seq(Keys)
    BY <1>1, <1>5, <2>1, <2>2, SoundBuckets
  <2>4. Bucket(d.freqBuckets, f) # << >>
    BY <1>1, <2>3, EmptyContains
  <2>. QED  BY <2>2, <2>4
<1>. HIDE DEF rest
<1>10. ASSUME MinFreqExact(c)  PROVE MinFreqExact(d)
  <2>1. /\ Bucket(c.freqBuckets, c.minFreq) # << >>
        /\ \A x \in DOMAIN c.keyMap : c.minFreq <= c.keyMap[x].freq
        /\ c.minFreq \in Frequencies /\ c.minFreq \in Int
    BY <1>10, IntMaxAssumption DEF MinFreqExact, HasVictim, Sound, IndexType, Frequencies
  <2>2. \A x \in DOMAIN c.keyMap : c.keyMap[x].freq \in Nat
    BY DEF Sound, IndexType
  <2>3. CASE exhausted
    <3>1. \A x \in DOMAIN c.keyMap : x # k => c.keyMap[x].freq # old
      <4>1. \A x \in Keys : ~Contains(rest, x)
        BY <1>6, <2>3, EmptyContains
      <4>2. \A x \in Keys : x # k => ~Contains(Bucket(c.freqBuckets, old), x)
        BY <1>6, <4>1
      <4>. QED  BY <1>1, <4>2, SoundBuckets DEF Sound, IndexType
    <3>. QED  BY <1>1, <1>3, <1>4, <1>9, <2>1, <2>2, <2>3, <3>1 DEF MinFreqExact, HasVictim
  <2>4. CASE ~exhausted
    <3>1. Bucket(d.freqBuckets, c.minFreq) # << >>
      <4>1. CASE c.minFreq = old
        BY <1>8, <2>4, <4>1
      <4>2. CASE c.minFreq # old
        <5>1. c.minFreq # old + 1
          BY <1>1, <2>1
        <5>. QED  BY <1>7, <2>1, <4>2, <5>1
      <4>. QED  BY <4>1, <4>2
    <3>. QED  BY <1>1, <1>3, <1>4, <2>1, <2>2, <2>4, <3>1 DEF MinFreqExact, HasVictim
  <2>. QED  BY <2>3, <2>4
<1>. QED  BY <1>2, <1>5, <1>10

LEMMA SetValueSound ==
  ASSUME NEW c, Sound(c), NEW k \in DOMAIN c.keyMap, NEW v \in Values,
         NEW d, d = SetValue(c, k, v)
  PROVE  /\ Sound(d)
         /\ DOMAIN d.keyMap = DOMAIN c.keyMap
         /\ \A x \in DOMAIN c.keyMap : d.keyMap[x].freq = c.keyMap[x].freq
         /\ MinFreqExact(c) => MinFreqExact(d)
<1>1. /\ Agreed(d)
      /\ DOMAIN d.keyMap = DOMAIN c.keyMap
      /\ \A x \in DOMAIN c.keyMap : d.keyMap[x].freq = c.keyMap[x].freq
      /\ MinFreqExact(c) => MinFreqExact(d)
  BY SoundAgreed, SetValueAgreed
<1>. QED  BY <1>1 DEF Sound, Agreed

LEMMA InsertSound ==
  ASSUME NEW c, Sound(c), NEW k \in Keys, k \notin DOMAIN c.keyMap, NEW v \in Values,
         NEW d, d = Insert(c, k, v)
  PROVE  /\ Sound(d)
         /\ d.keyMap = [x \in DOMAIN c.keyMap \cup {k} |->
                          IF x = k THEN [value |-> v, freq |-> 1] ELSE c.keyMap[x]]
         /\ MinFreqExact(d)
<1>1. /\ Agreed(d)
      /\ d.keyMap = [x \in DOMAIN c.keyMap \cup {k} |->
                       IF x = k THEN [value |-> v, freq |-> 1] ELSE c.keyMap[x]]
      /\ MinFreqExact(d)
  BY SoundAgreed, InsertAgreed
<1>2. \A x \in DOMAIN d.keyMap : d.keyMap[x].freq <= IntMax
  BY <1>1, IntMaxAssumption DEF Sound
<1>. QED  BY <1>1, <1>2 DEF Sound, Agreed

\* Fewer keys: the counts of the others fit as before.
LEMMA RemovalSound ==
  ASSUME NEW c, Sound(c), NEW d, Agreed(d), NEW k, d.keyMap = Without(c.keyMap, k)
  PROVE  Sound(d)
BY DEF Sound, Agreed, Without, Restrict

LEMMA EvictLFUSound ==
  ASSUME NEW c, Sound(c), HasVictim(c), NEW d, d = EvictLFU(c)
  PROVE  /\ Sound(d)
         /\ Victim(c) \in DOMAIN c.keyMap /\ c.keyMap[Victim(c)].freq = c.minFreq
         /\ d.keyMap = Without(c.keyMap, Victim(c))
         /\ \A f : Bucket(d.freqBuckets, f) = IF f = c.minFreq THEN Front(Bucket(c.freqBuckets, f))
                                             ELSE Bucket(c.freqBuckets, f)
<1>1. /\ Agreed(d)
      /\ Victim(c) \in DOMAIN c.keyMap /\ ToFrequency(c.keyMap[Victim(c)].freq) = c.minFreq
      /\ d.keyMap = Without(c.keyMap, Victim(c))
      /\ \A f : Bucket(d.freqBuckets, f) = IF f = c.minFreq THEN Front(Bucket(c.freqBuckets, f))
                                          ELSE Bucket(c.freqBuckets, f)
  BY SoundAgreed, EvictLFUAgreed
<1>2. Sound(d)
  BY <1>1, RemovalSound
<1>. QED  BY <1>1, <1>2, SoundCounts

LEMMA EraseKeySound ==
  ASSUME NEW c, Sound(c), NEW k \in DOMAIN c.keyMap, NEW d, d = EraseKey(c, k)
  PROVE  /\ Sound(d)
         /\ d.keyMap = Without(c.keyMap, k)
         /\ \A f : Bucket(d.freqBuckets, f) =
                     IF f = c.keyMap[k].freq THEN RemoveFirst(Bucket(c.freqBuckets, f), k)
                     ELSE Bucket(c.freqBuckets, f)
<1>1. /\ Agreed(d)
      /\ d.keyMap = Without(c.keyMap, k)
      /\ \A f : Bucket(d.freqBuckets, f) =
                  IF f = ToFrequency(c.keyMap[k].freq)
                  THEN RemoveFirst(Bucket(c.freqBuckets, f), k)
                  ELSE Bucket(c.freqBuckets, f)
  BY SoundAgreed, EraseKeyAgreed
<1>2. Sound(d)
  BY <1>1, RemovalSound
<1>. QED  BY <1>1, <1>2, SoundCounts

-----------------------------------------------------------------------------
(***************************************************************************)
(* r is the order in which the keys were last used, as the buckets know it *)
(* of the keys they hold together: with that an eviction, which looks only *)
(* at the bucket of MinFreq, finds the key used longest ago.               *)
(***************************************************************************)
Ordered(c, r) ==
  /\ r \in Seq(Keys) /\ IsInjective(r)
  /\ \A k \in Keys : Contains(r, k) <=> k \in DOMAIN c.keyMap
  /\ \A f \in Frequencies : \A x, y \in Keys :
       Before(Bucket(c.freqBuckets, f), x, y) => Before(r, x, y)

\* Keys that a bucket puts in order are two keys of its frequency.
LEMMA BucketOrder ==
  ASSUME NEW c, Agreed(c), NEW f \in Frequencies, NEW x \in Keys, NEW y \in Keys,
         Before(Bucket(c.freqBuckets, f), x, y)
  PROVE  /\ x # y
         /\ x \in DOMAIN c.keyMap /\ ToFrequency(c.keyMap[x].freq) = f
         /\ y \in DOMAIN c.keyMap /\ ToFrequency(c.keyMap[y].freq) = f
<1>1. /\ Bucket(c.freqBuckets, f) \in Seq(Keys) /\ IsInjective(Bucket(c.freqBuckets, f))
      /\ \A k \in Keys : Contains(Bucket(c.freqBuckets, f), k)
                            <=> k \in DOMAIN c.keyMap /\ ToFrequency(c.keyMap[k].freq) = f
  BY AgreedBuckets
<1>2. Contains(Bucket(c.freqBuckets, f), x) /\ Contains(Bucket(c.freqBuckets, f), y) /\ x # y
  BY <1>1, BeforeContains
<1>. QED  BY <1>1, <1>2

\* A use puts its key first, in its bucket as in the order of use.
LEMMA UpdateFrequencyOrdered ==
  ASSUME NEW c, Agreed(c), NEW k \in DOMAIN c.keyMap,
         NEW r, Ordered(c, r),
         NEW d, d = UpdateFrequency(c, k), NEW p, p = MovedToFront(r, k)
  PROVE  Ordered(d, p)
<1>0. PICK old, next : /\ old = ToFrequency(c.keyMap[k].freq)
                       /\ next = ToFrequency(c.keyMap[k].freq + 1)
  OBVIOUS
<1>1. /\ k \in Keys /\ old # next
      /\ r \in Seq(Keys) /\ IsInjective(r)
      /\ \A x \in Keys : Contains(r, x) <=> x \in DOMAIN c.keyMap
  <2>1. k \in Keys /\ c.keyMap[k].freq \in Nat
    BY DEF Agreed, IndexType
  <2>. QED  BY <1>0, <2>1, ToFrequencyMoves DEF Ordered
<1>2. /\ p \in Seq(Keys) /\ IsInjective(p)
      /\ \A x : Contains(p, x) <=> x = k \/ Contains(r, x)
      /\ \A x, y : Before(p, x, y) <=> /\ y # k
                                      /\ \/ x = k /\ Contains(r, y)
                                         \/ x # k /\ Before(r, x, y)
  BY <1>1, MovedToFrontProperties
<1>3. /\ DOMAIN d.keyMap = DOMAIN c.keyMap
      /\ \A f : Bucket(d.freqBuckets, f) =
                  IF f = old THEN RemoveFirst(Bucket(c.freqBuckets, f), k)
                  ELSE IF f = next THEN Pushed(Bucket(c.freqBuckets, f), k)
                  ELSE Bucket(c.freqBuckets, f)
  <2>1. /\ d.keyMap = [c.keyMap EXCEPT ![k].freq = @ + 1]
        /\ \A f : Bucket(d.freqBuckets, f) =
                    IF f = old THEN RemoveFirst(Bucket(c.freqBuckets, f), k)
                    ELSE IF f = next THEN Pushed(Bucket(c.freqBuckets, f), k)
                    ELSE Bucket(c.freqBuckets, f)
    BY <1>0, UpdateFrequencyAgreed
  <2>. QED  BY <2>1
<1>4. ASSUME NEW f \in Frequencies, NEW x \in Keys, NEW y \in Keys,
             Before(Bucket(d.freqBuckets, f), x, y)
      PROVE  Before(p, x, y)
  <2> DEFINE b == Bucket(c.freqBuckets, f)
  <2>1. /\ b \in Seq(Keys) /\ IsInjective(b)
        /\ \A z \in Keys : Contains(b, z)
                             <=> z \in DOMAIN c.keyMap /\ ToFrequency(c.keyMap[z].freq) = f
    BY AgreedBuckets
  <2>2. Before(b, x, y) => /\ x \in DOMAIN c.keyMap /\ ToFrequency(c.keyMap[x].freq) = f
                           /\ y \in DOMAIN c.keyMap /\ ToFrequency(c.keyMap[y].freq) = f
                           /\ Before(r, x, y)
    BY BucketOrder DEF Ordered
  <2>. HIDE DEF b
  <2>3. CASE f = old
    <3>1. Before(RemoveFirst(b, k), x, y)
      BY <1>3, <1>4, <2>3 DEF b
    <3>2. x # k /\ y # k /\ Before(b, x, y)
      BY <2>1, <3>1, RemoveFirstOrder
    <3>. QED  BY <1>2, <2>2, <3>2
  <2>4. CASE f = next
    <3>1. f # old
      BY <1>1, <2>4
    <3>2. Before(<<k>> \o b, x, y) /\ ~Contains(b, k)
      BY <1>0, <1>1, <1>3, <1>4, <2>1, <2>4, <3>1 DEF b, Pushed
    <3>3. (x = k /\ Contains(b, y)) \/ Before(b, x, y)
      BY <1>1, <2>1, <3>2, PushFrontOrder
    <3>4. CASE x = k /\ Contains(b, y)
      <4>1. y # k /\ Contains(r, y)
        BY <1>1, <2>1, <3>2, <3>4
      <4>. QED  BY <1>2, <3>4, <4>1
    <3>5. CASE Before(b, x, y)
      BY <1>0, <1>2, <2>2, <3>1, <3>5
    <3>. QED  BY <3>3, <3>4, <3>5
  <2>5. CASE f # old /\ f # next
    <3>1. Before(b, x, y)
      BY <1>3, <1>4, <2>5 DEF b
    <3>. QED  BY <1>0, <1>2, <2>2, <2>5, <3>1
  <2>. QED  BY <2>3, <2>4, <2>5
<1>5. \A x \in Keys : Contains(p, x) <=> x \in DOMAIN d.keyMap
  BY <1>1, <1>2, <1>3
<1>. QED  BY <1>2, <1>4, <1>5 DEF Ordered

\* A replaced value changes no order.
LEMMA SetValueOrdered ==
  ASSUME NEW c, Agreed(c), NEW k \in DOMAIN c.keyMap, NEW v \in Values,
         NEW r, Ordered(c, r), NEW d, d = SetValue(c, k, v)
  PROVE  Ordered(d, r)
<1>1. DOMAIN d.keyMap = DOMAIN c.keyMap /\ d.freqBuckets = c.freqBuckets
  BY DEF SetValue
<1>. QED  BY <1>1 DEF Ordered

\* A new key is the first of its bucket and of the order of use.
LEMMA InsertOrdered ==
  ASSUME NEW c, Agreed(c), NEW k \in Keys, k \notin DOMAIN c.keyMap, NEW v \in Values,
         NEW r, Ordered(c, r),
         NEW d, d = Insert(c, k, v), NEW p, p = MovedToFront(r, k)
  PROVE  Ordered(d, p)
<1>1. /\ r \in Seq(Keys) /\ IsInjective(r)
      /\ \A x \in Keys : Contains(r, x) <=> x \in DOMAIN c.keyMap
  BY DEF Ordered
<1>2. /\ p \in Seq(Keys) /\ IsInjective(p)
      /\ \A x : Contains(p, x) <=> x = k \/ Contains(r, x)
      /\ \A x, y : Before(p, x, y) <=> /\ y # k
                                      /\ \/ x = k /\ Contains(r, y)
                                         \/ x # k /\ Before(r, x, y)
  BY <1>1, MovedToFrontProperties
<1>3. /\ DOMAIN d.keyMap = DOMAIN c.keyMap \cup {k}
      /\ Bucket(d.freqBuckets, 1) = Pushed(Bucket(c.freqBuckets, 1), k)
      /\ \A f : f # 1 => Bucket(d.freqBuckets, f) = Bucket(c.freqBuckets, f)
  <2>1. /\ DOMAIN d.keyMap = DOMAIN c.keyMap \cup {k}
        /\ d.freqBuckets = WithBucket(c.freqBuckets, 1, Pushed(Bucket(c.freqBuckets, 1), k))
    BY DEF Insert, Enter, Pushed
  <2>. QED  BY <2>1 DEF WithBucket, Bucket
<1>4. ASSUME NEW f \in Frequencies, NEW x \in Keys, NEW y \in Keys,
             Before(Bucket(d.freqBuckets, f), x, y)
      PROVE  Before(p, x, y)
  <2> DEFINE b == Bucket(c.freqBuckets, f)
  <2>1. /\ b \in Seq(Keys) /\ IsInjective(b)
        /\ \A z \in Keys : Contains(b, z)
                             <=> z \in DOMAIN c.keyMap /\ ToFrequency(c.keyMap[z].freq) = f
    BY AgreedBuckets
  <2>2. ASSUME Before(b, x, y)  PROVE Before(p, x, y)
    <3>1. x \in DOMAIN c.keyMap /\ y \in DOMAIN c.keyMap /\ Before(r, x, y)
      BY <2>2, BucketOrder DEF Ordered
    <3>. QED  BY <1>2, <3>1
  <2>. HIDE DEF b
  <2>3. CASE f = 1
    <3>1. Before(<<k>> \o b, x, y) /\ ~Contains(b, k)
      BY <1>3, <1>4, <2>1, <2>3 DEF b, Pushed
    <3>2. (x = k /\ Contains(b, y)) \/ Before(b, x, y)
      BY <2>1, <3>1, PushFrontOrder
    <3>3. CASE x = k /\ Contains(b, y)
      <4>1. y # k /\ Contains(r, y)
        BY <1>1, <2>1, <3>1, <3>3
      <4>. QED  BY <1>2, <3>3, <4>1
    <3>. QED  BY <2>2, <3>2, <3>3
  <2>4. CASE f # 1
    BY <1>3, <1>4, <2>2, <2>4 DEF b
  <2>. QED  BY <2>3, <2>4
<1>5. \A x \in Keys : Contains(p, x) <=> x \in DOMAIN d.keyMap
  BY <1>1, <1>2, <1>3
<1>. QED  BY <1>2, <1>4, <1>5 DEF Ordered

\* A key that leaves its bucket and KeyMap leaves the order of use.
LEMMA RemovalOrdered ==
  ASSUME NEW c, Agreed(c), NEW k \in DOMAIN c.keyMap, NEW r, Ordered(c, r),
         NEW d, DOMAIN d.keyMap = DOMAIN c.keyMap \ {k},
         \A f \in Frequencies : \A x, y \in Keys :
           Before(Bucket(d.freqBuckets, f), x, y) =>
             x # k /\ y # k /\ Before(Bucket(c.freqBuckets, f), x, y)
  PROVE  Ordered(d, RemoveFirst(r, k))
<1>1. /\ r \in Seq(Keys) /\ IsInjective(r)
      /\ \A x \in Keys : Contains(r, x) <=> x \in DOMAIN c.keyMap
      /\ \A f \in Frequencies : \A x, y \in Keys :
           Before(Bucket(c.freqBuckets, f), x, y) => Before(r, x, y)
  BY DEF Ordered
<1>2. PICK q : q = RemoveFirst(r, k)
  OBVIOUS
<1>3. /\ q \in Seq(Keys) /\ IsInjective(q)
      /\ \A x : Contains(q, x) <=> x # k /\ Contains(r, x)
  BY <1>1, <1>2, RemoveFirstProperties
<1>4. \A x, y : Before(q, x, y) <=> x # k /\ y # k /\ Before(r, x, y)
  BY <1>1, <1>2, RemoveFirstOrder
<1>5. Ordered(d, q)
  BY <1>1, <1>3, <1>4 DEF Ordered
<1>. QED  BY <1>2, <1>5

\* An evicted key leaves the order of use.
LEMMA EvictLFUOrdered ==
  ASSUME NEW c, Agreed(c), HasVictim(c), NEW r, Ordered(c, r), NEW d, d = EvictLFU(c)
  PROVE  Ordered(d, RemoveFirst(r, Victim(c)))
<1>1. PICK k \in DOMAIN c.keyMap : k = Victim(c)
  BY EvictLFUAgreed
<1>2. DOMAIN d.keyMap = DOMAIN c.keyMap \ {k}
  <2>1. d.keyMap = Without(c.keyMap, k)
    BY <1>1, EvictLFUAgreed
  <2>. QED  BY <2>1 DEF Without, Restrict
<1>3. \A f : Bucket(d.freqBuckets, f) = IF f = c.minFreq THEN Front(Bucket(c.freqBuckets, f))
                                       ELSE Bucket(c.freqBuckets, f)
  BY EvictLFUAgreed
<1>4. ASSUME NEW f \in Frequencies, NEW x \in Keys, NEW y \in Keys,
             Before(Bucket(d.freqBuckets, f), x, y)
      PROVE  x # k /\ y # k /\ Before(Bucket(c.freqBuckets, f), x, y)
  <2> DEFINE b == Bucket(c.freqBuckets, f)
  <2>1. b \in Seq(Keys) /\ IsInjective(b)
    BY AgreedBuckets
  <2>2. CASE f = c.minFreq
    <3>1. b # << >> /\ k = Last(b)
      BY <1>1, <2>2 DEF HasVictim, Victim
    <3>. HIDE DEF b
    <3>2. /\ Front(b) \in Seq(Keys) /\ IsInjective(Front(b))
          /\ \A z : Contains(Front(b), z) <=> z # k /\ Contains(b, z)
      BY <2>1, <3>1, PopBackProperties
    <3>3. Before(Front(b), x, y)
      BY <1>3, <1>4, <2>2 DEF b
    <3>4. Contains(Front(b), x) /\ Contains(Front(b), y)
      BY <3>2, <3>3, BeforeContains
    <3>5. Before(b, x, y)
      BY <2>1, <3>1, <3>3, PopBackOrder
    <3>. QED  BY <3>2, <3>4, <3>5 DEF b
  <2>3. CASE f # c.minFreq
    <3>1. Before(b, x, y)
      BY <1>3, <1>4, <2>3
    <3>2. ToFrequency(c.keyMap[x].freq) = f /\ ToFrequency(c.keyMap[y].freq) = f
      BY <3>1, BucketOrder
    <3>3. ToFrequency(c.keyMap[k].freq) = c.minFreq
      BY <1>1, EvictLFUAgreed
    <3>. QED  BY <2>3, <3>1, <3>2, <3>3
  <2>. QED  BY <2>2, <2>3
<1>5. Ordered(d, RemoveFirst(r, k))
  BY <1>2, <1>4, RemovalOrdered
<1>. QED  BY <1>1, <1>5

\* An erased key leaves the order of use.
LEMMA EraseKeyOrdered ==
  ASSUME NEW c, Agreed(c), NEW k \in DOMAIN c.keyMap, NEW r, Ordered(c, r),
         NEW d, d = EraseKey(c, k)
  PROVE  Ordered(d, RemoveFirst(r, k))
<1>1. DOMAIN d.keyMap = DOMAIN c.keyMap \ {k}
  <2>1. d.keyMap = Without(c.keyMap, k)
    BY EraseKeyAgreed
  <2>. QED  BY <2>1 DEF Without, Restrict
<1>2. \A f : Bucket(d.freqBuckets, f) =
              IF f = ToFrequency(c.keyMap[k].freq) THEN RemoveFirst(Bucket(c.freqBuckets, f), k)
              ELSE Bucket(c.freqBuckets, f)
  BY EraseKeyAgreed
<1>3. ASSUME NEW f \in Frequencies, NEW x \in Keys, NEW y \in Keys,
             Before(Bucket(d.freqBuckets, f), x, y)
      PROVE  x # k /\ y # k /\ Before(Bucket(c.freqBuckets, f), x, y)
  <2> DEFINE b == Bucket(c.freqBuckets, f)
  <2>1. b \in Seq(Keys) /\ IsInjective(b)
    BY AgreedBuckets
  <2>2. CASE f = ToFrequency(c.keyMap[k].freq)
    <3>1. Before(RemoveFirst(b, k), x, y)
      BY <1>2, <1>3, <2>2
    <3>. HIDE DEF b
    <3>2. x # k /\ y # k /\ Before(b, x, y)
      BY <2>1, <3>1, RemoveFirstOrder
    <3>. QED  BY <3>2 DEF b
  <2>3. CASE f # ToFrequency(c.keyMap[k].freq)
    <3>1. Before(b, x, y)
      BY <1>2, <1>3, <2>3
    <3>2. ToFrequency(c.keyMap[x].freq) = f /\ ToFrequency(c.keyMap[y].freq) = f
      BY <3>1, BucketOrder
    <3>. QED  BY <2>3, <3>1, <3>2
  <2>. QED  BY <2>2, <2>3
<1>. QED  BY <1>1, <1>3, RemovalOrdered

\* When MinFreq is exact, the key EvictLFU takes is, of the keys used least often,
\* the one furthest back in the order of use: its place is the greatest of theirs.
LEMMA VictimFound ==
  ASSUME NEW c, Sound(c), MinFreqExact(c), NEW r, Ordered(c, r),
         NEW P, P = {i \in 1..Len(r) : \A k \in DOMAIN c.keyMap :
                                         c.keyMap[r[i]].freq <= c.keyMap[k].freq}
  PROVE  r[Max(P)] = Victim(c) /\ RemoveAt(r, Max(P)) = RemoveFirst(r, Victim(c))
<1> DEFINE b == Bucket(c.freqBuckets, c.minFreq)
<1>1. /\ r \in Seq(Keys) /\ IsInjective(r)
      /\ \A k \in Keys : Contains(r, k) <=> k \in DOMAIN c.keyMap
      /\ \A x, y \in Keys : Before(b, x, y) => Before(r, x, y)
  BY DEF Ordered, Sound, IndexType
<1>2. PICK v \in DOMAIN c.keyMap : v = Victim(c) /\ c.keyMap[v].freq = c.minFreq
  BY EvictLFUSound DEF MinFreqExact
<1>3. /\ b \in Seq(Keys) /\ b # << >> /\ v = Last(b)
      /\ \A k \in Keys : Contains(b, k) <=> k \in DOMAIN c.keyMap /\ c.keyMap[k].freq = c.minFreq
  <2>1. c.minFreq \in Frequencies
    BY DEF Sound, IndexType
  <2>2. b # << >> /\ v = Last(b)
    BY <1>2 DEF MinFreqExact, HasVictim, Victim
  <2>. QED  BY <2>1, <2>2, SoundBuckets
<1>. HIDE DEF b
<1>4. \A k \in DOMAIN c.keyMap : k \in Keys /\ c.keyMap[k].freq \in Nat
                                 /\ c.minFreq <= c.keyMap[k].freq
  BY DEF MinFreqExact, Sound, IndexType
<1>5. PICK n \in 1..Len(r) : r[n] = v
  BY <1>1, <1>2, <1>4 DEF Contains
<1>6. n \in P
  BY <1>2, <1>4, <1>5
<1>7. ASSUME NEW i \in P  PROVE i <= n
  <2>1. i \in 1..Len(r) /\ c.keyMap[r[i]].freq <= c.keyMap[v].freq
    BY <1>7
  <2>2. PICK k \in Keys : k = r[i]
    BY <1>1, <2>1
  <2>3. Contains(r, k)
    BY <2>1, <2>2 DEF Contains
  <2>4. k \in DOMAIN c.keyMap /\ c.keyMap[k].freq = c.minFreq
    BY <1>1, <1>2, <1>4, <2>1, <2>2, <2>3
  <2>5. CASE k = v
    <3>1. r[i] = r[n]
      BY <1>5, <2>2, <2>5
    <3>2. i = n
      BY <1>1, <1>5, <2>1, <3>1 DEF IsInjective
    <3>. QED  BY <3>2
  <2>6. CASE k # v
    <3>1. Before(b, k, v)
      BY <1>3, <2>4, <2>6, LastIsLast
    <3>2. Before(r, k, v)
      BY <1>1, <1>4, <3>1
    <3>3. PICK p, q \in 1..Len(r) : p < q /\ r[p] = k /\ r[q] = v
      BY <3>2 DEF Before
    <3>4. p = i
      BY <1>1, <2>1, <2>2, <3>3 DEF IsInjective
    <3>5. q = n
      BY <1>1, <1>5, <3>3 DEF IsInjective
    <3>. QED  BY <3>3, <3>4, <3>5
  <2>. QED  BY <2>5, <2>6
<1>8. Max(P) = n
  <2>1. P \subseteq Int
    OBVIOUS
  <2>. QED  BY <1>6, <1>7, <2>1, MaxIs
<1>9. RemoveFirst(r, v) = RemoveAt(r, n)
  <2>1. \E i \in 1..Len(r) : r[i] = v
    BY <1>5
  <2>2. SelectInSeq(r, LAMBDA x : x = v) = n
    <3> DEFINE I == {i \in 1..Len(r) : r[i] = v}
    <3>1. I = {n}
      BY <1>1, <1>5 DEF IsInjective
    <3>2. Min(I) = n
      BY <3>1 DEF Min
    <3>. QED  BY <2>1, <3>2 DEF SelectInSeq
  <2>. QED  BY <2>1, <2>2 DEF RemoveFirst
<1>. QED  BY <1>2, <1>5, <1>8, <1>9

\* The index the constructor leaves.
LEMMA EmptyIndexSound == Sound(EmptyIndex) /\ Ordered(EmptyIndex, << >>)
<1>1. PICK c : c = EmptyIndex
  OBVIOUS
<1>2. /\ c.keyMap = << >> /\ c.freqBuckets = << >> /\ c.minFreq = 0
      /\ DOMAIN c.keyMap = {} /\ DOMAIN c.freqBuckets = {}
  BY <1>1 DEF EmptyIndex
<1>3. 0 \in Frequencies
  BY IntMaxAssumption DEF Frequencies
<1>4. IndexType(c)
  BY <1>2, <1>3 DEF IndexType
<1>5. \A f : Bucket(c.freqBuckets, f) = << >>
  BY <1>2 DEF Bucket
<1>6. /\ << >> \in Seq(Keys) /\ IsInjective(<< >>)
      /\ \A k : ~Contains(<< >>, k)
      /\ \A x, y : ~Before(<< >>, x, y)
  BY DEF IsInjective, Contains, Before
<1>7. BucketsMatchKeys(c)
  BY <1>2, <1>5, <1>6 DEF BucketsMatchKeys
<1>8. Sound(c)
  BY <1>2, <1>4, <1>7 DEF Sound
<1>9. Ordered(c, << >>)
  BY <1>2, <1>5, <1>6 DEF Ordered
<1>. QED  BY <1>1, <1>8, <1>9

=============================================================================
