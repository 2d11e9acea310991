------------------------------ MODULE DataLemmas ------------------------------
(***************************************************************************)
(* Lemmas about sets of integers, about sequences that hold nothing twice  *)
(* and about remainders, on which the theorems about the components rest.  *)
(***************************************************************************)
EXTENDS Integers, Sequences, FiniteSets, SequencesExt,
        TLAPS, FiniteSetTheorems, SequenceTheorems, WellFoundedInduction

(***************************************************************************)
(* A non-empty set of integers between two bounds has a least element, and *)
(* Min is it: a scan for the minimum is well defined.  The intervals that  *)
(* end at an element of S are well-founded under inclusion.                *)
(***************************************************************************)
LEMMA MinOfInterval ==
  ASSUME NEW a \in Int, NEW b \in Int, NEW S, S \subseteq a..b, S # {}
  PROVE  Min(S) \in S /\ \A y \in S : Min(S) <= y
<1> DEFINE T == {a..x : x \in S}
<1>1. IsWellFoundedOn(StrictSubsetOrdering(a..b), SUBSET (a..b))
  <2>1. IsWellFoundedOn(StrictSubsetOrdering(a..b), FiniteSubsetsOf(a..b))
    BY FS_StrictSubsetOrderingWellFounded
  <2>. QED  BY <2>1, FS_Interval, FS_FiniteSubsetsOfFinite
<1>2. T \subseteq SUBSET (a..b) /\ T # {}
  <2>1. ASSUME NEW x \in S  PROVE a..x \in SUBSET (a..b)
    OBVIOUS
  <2>2. PICK x \in S : TRUE
    OBVIOUS
  <2>. QED  BY <2>1, <2>2
<1>3. PICK i \in T : \A j \in T : <<j, i>> \notin StrictSubsetOrdering(a..b)
  <2>. HIDE DEF T
  <2>. QED  BY <1>1, <1>2, WFMin
<1>4. PICK x \in S : i = a..x
  OBVIOUS
<1>5. \A y \in S : x <= y
  <2>. SUFFICES ASSUME NEW y \in S, y < x  PROVE FALSE
    OBVIOUS
  <2>1. a..y \in T /\ a..y \subseteq a..x /\ x \in a..x /\ x \notin a..y
    OBVIOUS
  <2>2. <<a..y, a..x>> \in StrictSubsetOrdering(a..b)
    BY <2>1 DEF StrictSubsetOrdering
  <2>. QED  BY <1>3, <1>4, <2>1, <2>2
<1>6. Min(S) = CHOOSE z \in S : \A y \in S : z <= y
  BY DEF Min
<1>. QED  BY <1>5, <1>6

-----------------------------------------------------------------------------
\* A sequence is empty exactly if it contains nothing.
LEMMA EmptyContains ==
  ASSUME NEW S, NEW s \in Seq(S)
  PROVE  (s = << >>) <=> \A x \in S : ~Contains(s, x)
<1>1. ASSUME s # << >>  PROVE Contains(s, s[1]) /\ s[1] \in S
  BY <1>1, EmptySeq DEF Contains
<1>. QED  BY <1>1 DEF Contains

\* RemoveFirst(s, e) is s without the place of the first e.
LEMMA RemoveFirstElements ==
  ASSUME NEW S, NEW s \in Seq(S), NEW e, Contains(s, e)
  PROVE  \E n \in 1..Len(s) :
           /\ s[n] = e
           /\ RemoveFirst(s, e) \in Seq(S) /\ Len(RemoveFirst(s, e)) = Len(s) - 1
           /\ \A i \in 1..Len(RemoveFirst(s, e)) :
                RemoveFirst(s, e)[i] = IF i < n THEN s[i] ELSE s[i + 1]
<1> DEFINE I == {i \in 1..Len(s) : s[i] = e}
           n == Min(I)
           r == RemoveFirst(s, e)
<1>1. n \in 1..Len(s) /\ s[n] = e
  <2>1. I \subseteq 1..Len(s) /\ I # {} /\ 1 \in Int /\ Len(s) \in Int
    BY DEF Contains
  <2>. HIDE DEF I
  <2>2. Min(I) \in I
    BY <2>1, MinOfInterval, Zenon
  <2>. QED  BY <2>2 DEF I
<1>2. r = SubSeq(s, 1, n - 1) \o SubSeq(s, n + 1, Len(s))
  <2>1. SelectInSeq(s, LAMBDA v : v = e) = n
    BY DEF SelectInSeq, Contains
  <2>. QED  BY <2>1 DEF RemoveFirst, RemoveAt, Contains
<1>. HIDE DEF n
<1>. HIDE DEF r
<1>3. /\ r \in Seq(S) /\ Len(r) = Len(s) - 1
      /\ \A i \in 1..Len(r) : r[i] = IF i < n THEN s[i] ELSE s[i + 1]
  <2> DEFINE head == SubSeq(s, 1, n - 1)
             rest == SubSeq(s, n + 1, Len(s))
  <2>1. /\ head \in Seq(S) /\ Len(head) = n - 1
        /\ \A i \in 1..n - 1 : head[i] = s[i]
    BY <1>1
  <2>2. /\ rest \in Seq(S) /\ Len(rest) = Len(s) - n
        /\ \A i \in 1..Len(s) - n : rest[i] = s[n + i]
    BY <1>1
  <2>3. r = head \o rest
    BY <1>2
  <2>. HIDE DEF head, rest
  <2>4. /\ r \in Seq(S) /\ Len(r) = Len(head) + Len(rest)
        /\ \A i \in 1..Len(head) + Len(rest) :
             r[i] = IF i <= Len(head) THEN head[i] ELSE rest[i - Len(head)]
    BY <2>1, <2>2, <2>3, ConcatProperties
  <2>5. ASSUME NEW i \in 1..Len(r)
        PROVE  r[i] = IF i < n THEN s[i] ELSE s[i + 1]
    <3>1. CASE i < n
      BY <1>1, <2>1, <2>2, <2>4, <3>1
    <3>2. CASE i >= n
      <4>1. i - (n - 1) \in 1..Len(s) - n
        BY <1>1, <2>1, <2>2, <2>4, <3>2
      <4>2. rest[i - (n - 1)] = s[n + (i - (n - 1))]
        BY <2>2, <4>1
      <4>3. n + (i - (n - 1)) = i + 1 /\ i - (n - 1) = i - Len(head)
        BY <1>1, <2>1
      <4>4. r[i] = rest[i - Len(head)]
        BY <1>1, <2>1, <2>2, <2>4, <3>2
      <4>. QED  BY <1>1, <3>2, <4>2, <4>3, <4>4
    <3>. QED  BY <1>1, <3>1, <3>2
  <2>. QED  BY <1>1, <2>1, <2>2, <2>4, <2>5
<1>. QED  BY <1>1, <1>3 DEF r

\* An element removed by RemoveFirst is gone, and nothing else is.
LEMMA RemoveFirstProperties ==
  ASSUME NEW S, NEW s \in Seq(S), NEW e, IsInjective(s)
  PROVE  /\ RemoveFirst(s, e) \in Seq(S)
         /\ IsInjective(RemoveFirst(s, e))
         /\ \A x : Contains(RemoveFirst(s, e), x) <=> x # e /\ Contains(s, x)
<1>1. CASE ~Contains(s, e)
  BY <1>1 DEF Contains, RemoveFirst
<1>2. CASE Contains(s, e)
  <2> DEFINE r == RemoveFirst(s, e)
  <2>1. PICK n \in 1..Len(s) :
          /\ s[n] = e
          /\ r \in Seq(S) /\ Len(r) = Len(s) - 1
          /\ \A i \in 1..Len(r) : r[i] = IF i < n THEN s[i] ELSE s[i + 1]
    BY <1>2, RemoveFirstElements
  <2>. HIDE DEF r
  <2>3. /\ r \in Seq(S) /\ Len(r) = Len(s) - 1
        /\ \A i \in 1..Len(r) : r[i] = IF i < n THEN s[i] ELSE s[i + 1]
    BY <2>1
  <2>5. IsInjective(r)
    <3>. SUFFICES ASSUME NEW i \in 1..Len(r), NEW j \in 1..Len(r), r[i] = r[j]
                  PROVE  i = j
      BY <2>3 DEF IsInjective
    <3>1. PICK p \in 1..Len(s) : r[i] = s[p] /\ p = IF i < n THEN i ELSE i + 1
      BY <2>1, <2>3
    <3>2. PICK q \in 1..Len(s) : r[j] = s[q] /\ q = IF j < n THEN j ELSE j + 1
      BY <2>1, <2>3
    <3>3. s[p] = s[q] => p = q
      BY DEF IsInjective
    <3>4. i \in Int /\ j \in Int /\ n \in Int
      BY <2>1, <2>3
    <3>5. p = q
      BY <3>1, <3>2, <3>3, Zenon
    <3>. QED  BY <3>1, <3>2, <3>4, <3>5
  <2>6. ASSUME NEW x, Contains(r, x)  PROVE x # e /\ Contains(s, x)
    <3>1. PICK i \in 1..Len(r) : r[i] = x
      BY <2>6 DEF Contains
    <3>2. \/ i < n /\ r[i] = s[i] /\ i \in 1..Len(s)
          \/ i >= n /\ r[i] = s[i + 1] /\ i + 1 \in 1..Len(s)
      <4>1. CASE i < n
        BY <2>1, <2>3, <4>1
      <4>2. CASE i >= n
        BY <2>1, <2>3, <4>2
      <4>. QED  BY <2>1, <4>1, <4>2
    <3>3. PICK p \in 1..Len(s) : s[p] = x /\ p # n
      <4>1. CASE i < n /\ r[i] = s[i] /\ i \in 1..Len(s)
        BY <2>1, <3>1, <4>1
      <4>2. CASE i >= n /\ r[i] = s[i + 1] /\ i + 1 \in 1..Len(s)
        <5>1. i + 1 # n
          BY <2>1, <4>2
        <5>. QED  BY <3>1, <4>2, <5>1
      <4>. QED  BY <3>2, <4>1, <4>2
    <3>. QED  BY <2>1, <3>3 DEF Contains, IsInjective
  <2>7. ASSUME NEW x, x # e, Contains(s, x)  PROVE Contains(r, x)
    <3>1. PICK i \in 1..Len(s) : s[i] = x
      BY <2>7 DEF Contains
    <3>2. CASE i < n
      <4>1. i \in 1..Len(r) /\ r[i] = x
        BY <2>1, <2>3, <3>1, <3>2
      <4>. QED  BY <4>1 DEF Contains
    <3>3. CASE i > n
      <4>1. i - 1 \in 1..Len(r) /\ r[i - 1] = x
        BY <2>1, <2>3, <3>1, <3>3
      <4>. QED  BY <4>1 DEF Contains
    <3>. QED  BY <2>1, <2>7, <3>1, <3>2, <3>3
  <2>. QED  BY <2>3, <2>5, <2>6, <2>7 DEF r
<1>. QED  BY <1>1, <1>2

\* push_front of a new element.
LEMMA PushFrontProperties ==
  ASSUME NEW S, NEW s \in Seq(S), NEW e \in S, IsInjective(s), ~Contains(s, e)
  PROVE  /\ <<e>> \o s \in Seq(S)
         /\ IsInjective(<<e>> \o s)
         /\ \A x : Contains(<<e>> \o s, x) <=> x = e \/ Contains(s, x)
<1> DEFINE r == <<e>> \o s
<1>1. r \in Seq(S) /\ Len(r) = Len(s) + 1
  OBVIOUS
<1>2. \A i \in 1..Len(r) : r[i] = IF i = 1 THEN e ELSE s[i - 1]
  BY <1>1
<1>3. \A i \in 1..Len(s) : r[i + 1] = s[i]
  BY <1>1, <1>2
<1>. HIDE DEF r
<1>4. IsInjective(r)
  <2>. SUFFICES ASSUME NEW i \in 1..Len(r), NEW j \in 1..Len(r), r[i] = r[j]
                PROVE  i = j
    BY <1>1 DEF IsInjective
  <2>1. \A p \in 2..Len(r) : p - 1 \in 1..Len(s) /\ r[p] = s[p - 1] /\ r[p] # e
    BY <1>1, <1>2 DEF Contains
  <2>2. CASE i = 1 \/ j = 1
    BY <1>1, <1>2, <2>1, <2>2
  <2>3. CASE i # 1 /\ j # 1
    <3>1. i - 1 = j - 1
      BY <1>1, <2>1, <2>3 DEF IsInjective
    <3>. QED  BY <3>1
  <2>. QED  BY <2>2, <2>3
<1>5. ASSUME NEW x  PROVE Contains(r, x) <=> x = e \/ Contains(s, x)
  <2>1. ASSUME Contains(r, x)  PROVE x = e \/ Contains(s, x)
    <3>1. PICK i \in 1..Len(r) : r[i] = x
      BY <2>1 DEF Contains
    <3>2. CASE i = 1
      BY <1>2, <3>1, <3>2
    <3>3. CASE i # 1
      <4>1. i - 1 \in 1..Len(s) /\ s[i - 1] = x
        BY <1>1, <1>2, <3>1, <3>3
      <4>. QED  BY <4>1 DEF Contains
    <3>. QED  BY <3>2, <3>3
  <2>2. ASSUME x = e  PROVE Contains(r, x)
    <3>1. 1 \in 1..Len(r) /\ r[1] = x
      BY <1>1, <1>2, <2>2
    <3>. QED  BY <3>1 DEF Contains
  <2>3. ASSUME Contains(s, x)  PROVE Contains(r, x)
    <3>1. PICK i \in 1..Len(s) : s[i] = x
      BY <2>3 DEF Contains
    <3>2. i + 1 \in 1..Len(r) /\ r[i + 1] = x
      BY <1>1, <1>3, <3>1
    <3>. QED  BY <3>2 DEF Contains
  <2>. QED  BY <2>1, <2>2, <2>3
<1>. QED  BY <1>1, <1>4, <1>5 DEF r

\* Front(s) is s without its last place.
LEMMA FrontElements ==
  ASSUME NEW S, NEW s \in Seq(S), s # << >>
  PROVE  /\ Front(s) \in Seq(S) /\ Len(Front(s)) = Len(s) - 1
         /\ \A i \in 1..Len(Front(s)) : Front(s)[i] = s[i]
<1> DEFINE r == Front(s)
<1>1. Len(s) \in Nat /\ Len(s) >= 1
  BY EmptySeq
<1>2. r \in Seq(S) /\ Len(r) = Len(s) - 1 /\ \A i \in 1..Len(r) : r[i] = s[i]
  <2>1. \A i \in 1..Len(s) - 1 : s[i] \in S
    OBVIOUS
  <2>2. r = SubSeq(s, 1, Len(s) - 1) /\ Len(s) - 1 \in Int
    BY <1>1 DEF Front
  <2>. HIDE DEF r
  <2>3. /\ r \in Seq(S) /\ Len(r) = IF 1 <= Len(s) - 1 THEN Len(s) - 1 - 1 + 1 ELSE 0
        /\ \A i \in 1..Len(s) - 1 - 1 + 1 : r[i] = s[1 + i - 1]
    BY <2>1, <2>2, SubSeqProperties
  <2>4. Len(r) = Len(s) - 1
    <3>1. \A n \in Nat : n >= 1 => (IF 1 <= n - 1 THEN n - 1 - 1 + 1 ELSE 0) = n - 1
      OBVIOUS
    <3>. QED  BY <1>1, <2>3, <3>1, Zenon
  <2>5. ASSUME NEW i \in 1..Len(r)  PROVE r[i] = s[i]
    <3>1. i \in 1..Len(s) - 1 - 1 + 1 /\ 1 + i - 1 = i
      BY <1>1, <2>4
    <3>. QED  BY <2>3, <3>1
  <2>. QED  BY <2>3, <2>4, <2>5
<1>. QED  BY <1>2 DEF r

\* pop_back: the last element is gone, and nothing else is.
LEMMA PopBackProperties ==
  ASSUME NEW S, NEW s \in Seq(S), s # << >>, IsInjective(s)
  PROVE  /\ Front(s) \in Seq(S)
         /\ Last(s) \in S /\ Contains(s, Last(s))
         /\ IsInjective(Front(s))
         /\ \A x : Contains(Front(s), x) <=> x # Last(s) /\ Contains(s, x)
<1> DEFINE r == Front(s)
<1>1. Len(s) \in Nat /\ Len(s) >= 1
  BY EmptySeq
<1>2. r \in Seq(S) /\ Len(r) = Len(s) - 1 /\ \A i \in 1..Len(r) : r[i] = s[i]
  BY FrontElements
<1>3. Last(s) = s[Len(s)] /\ Last(s) \in S /\ Contains(s, Last(s))
  BY <1>1 DEF Last, Contains
<1>. HIDE DEF r
<1>4. IsInjective(r)
  BY <1>1, <1>2 DEF IsInjective
<1>5. ASSUME NEW x  PROVE Contains(r, x) <=> x # Last(s) /\ Contains(s, x)
  BY <1>1, <1>2, <1>3 DEF Contains, IsInjective
<1>. QED  BY <1>2, <1>3, <1>4, <1>5 DEF r

\* ToSet and Contains say the same of a sequence.
LEMMA ContainsIsToSet ==
  ASSUME NEW S, NEW s \in Seq(S)
  PROVE  \A x : x \in ToSet(s) <=> Contains(s, x)
<1>1. DOMAIN s = 1..Len(s)
  OBVIOUS
<1>. QED  BY <1>1 DEF ToSet, Contains

\* pop_front: the first element is gone, and nothing else is.
LEMMA PopFrontProperties ==
  ASSUME NEW S, NEW s \in Seq(S), s # << >>, IsInjective(s)
  PROVE  /\ Tail(s) \in Seq(S)
         /\ Head(s) \in S /\ Contains(s, Head(s))
         /\ IsInjective(Tail(s))
         /\ \A x : Contains(Tail(s), x) <=> x # Head(s) /\ Contains(s, x)
<1> DEFINE r == Tail(s)
<1>1. Len(s) \in Nat /\ Len(s) >= 1
  BY EmptySeq
<1>2. /\ r \in Seq(S) /\ Len(r) = Len(s) - 1
      /\ \A i \in 1..Len(r) : r[i] = s[i + 1]
  BY HeadTailProperties
<1>3. Head(s) = s[1] /\ Head(s) \in S /\ Contains(s, Head(s))
  BY <1>1 DEF Contains
<1>. HIDE DEF r
<1>4. IsInjective(r)
  <2>. SUFFICES ASSUME NEW i \in 1..Len(r), NEW j \in 1..Len(r), r[i] = r[j]
                PROVE  i = j
    BY <1>2 DEF IsInjective
  <2>1. i + 1 \in 1..Len(s) /\ j + 1 \in 1..Len(s) /\ s[i + 1] = s[j + 1]
    BY <1>1, <1>2
  <2>2. i + 1 = j + 1
    BY <2>1 DEF IsInjective
  <2>. QED  BY <2>2
<1>5. ASSUME NEW x, Contains(r, x)  PROVE x # Head(s) /\ Contains(s, x)
  <2>1. PICK i \in 1..Len(r) : r[i] = x
    BY <1>5 DEF Contains
  <2>2. i + 1 \in 1..Len(s) /\ s[i + 1] = x /\ i + 1 # 1 /\ 1 \in 1..Len(s)
    BY <1>1, <1>2, <2>1
  <2>3. s[1] # x
    BY <2>2 DEF IsInjective
  <2>. QED  BY <1>3, <2>2, <2>3 DEF Contains
<1>6. ASSUME NEW x, x # Head(s), Contains(s, x)  PROVE Contains(r, x)
  <2>1. PICK i \in 1..Len(s) : s[i] = x
    BY <1>6 DEF Contains
  <2>2. i # 1
    BY <1>3, <1>6, <2>1
  <2>3. i - 1 \in 1..Len(r) /\ (i - 1) + 1 = i
    BY <1>1, <1>2, <2>2
  <2>4. r[i - 1] = x
    BY <1>2, <2>1, <2>3
  <2>. QED  BY <2>3, <2>4 DEF Contains
<1>. QED  BY <1>2, <1>3, <1>4, <1>5, <1>6 DEF r

\* push_back of a new element.
LEMMA PushBackProperties ==
  ASSUME NEW S, NEW s \in Seq(S), NEW e \in S, IsInjective(s), ~Contains(s, e)
  PROVE  /\ Append(s, e) \in Seq(S)
         /\ IsInjective(Append(s, e))
         /\ \A x : Contains(Append(s, e), x) <=> x = e \/ Contains(s, x)
<1> DEFINE r == Append(s, e)
<1>1. r \in Seq(S) /\ Len(r) = Len(s) + 1 /\ Len(s) \in Nat
  BY AppendProperties
<1>2. /\ \A i \in 1..Len(s) : r[i] = s[i]
      /\ r[Len(s) + 1] = e
  BY AppendProperties
<1>. HIDE DEF r
<1>3. \A i \in 1..Len(s) : s[i] # e
  BY DEF Contains
<1>4. \A i \in 1..Len(r) : i = Len(s) + 1 \/ i \in 1..Len(s)
  BY <1>1
<1>5. IsInjective(r)
  <2>. SUFFICES ASSUME NEW i \in 1..Len(r), NEW j \in 1..Len(r), r[i] = r[j]
                PROVE  i = j
    BY <1>1 DEF IsInjective
  <2>1. i \in 1..Len(s) /\ j \in 1..Len(s) => i = j
    BY <1>2 DEF IsInjective
  <2>. QED  BY <1>2, <1>3, <1>4, <2>1
<1>6. ASSUME NEW x  PROVE Contains(r, x) <=> x = e \/ Contains(s, x)
  <2>1. Len(s) + 1 \in 1..Len(r) /\ \A i \in 1..Len(s) : i \in 1..Len(r)
    BY <1>1
  <2>. QED  BY <1>2, <1>4, <2>1 DEF Contains
<1>. QED  BY <1>1, <1>5, <1>6 DEF r
-----------------------------------------------------------------------------
(***************************************************************************)
(* The order of the elements of a sequence that holds nothing twice.       *)
(***************************************************************************)
Before(s, x, y) == \E i, j \in 1..Len(s) : i < j /\ s[i] = x /\ s[j] = y

\* Only elements of the sequence have an order, one element none with itself.
LEMMA BeforeContains ==
  ASSUME NEW S, NEW s \in Seq(S), IsInjective(s), NEW x, NEW y, Before(s, x, y)
  PROVE  Contains(s, x) /\ Contains(s, y) /\ x # y
<1>1. PICK i, j \in 1..Len(s) : i < j /\ s[i] = x /\ s[j] = y
  BY DEF Before
<1>2. i # j
  BY <1>1
<1>. QED  BY <1>1, <1>2 DEF Contains, IsInjective

\* Every other element is before the last one.
LEMMA LastIsLast ==
  ASSUME NEW S, NEW s \in Seq(S), s # << >>, NEW x, Contains(s, x), x # Last(s)
  PROVE  Before(s, x, Last(s))
<1>1. Len(s) \in 1..Len(s) /\ Last(s) = s[Len(s)]
  BY EmptySeq DEF Last
<1>2. PICK i \in 1..Len(s) : s[i] = x
  BY DEF Contains
<1>3. i # Len(s)
  BY <1>1, <1>2
<1>4. i < Len(s)
  BY <1>3
<1>. QED  BY <1>1, <1>2, <1>4 DEF Before

\* pop_back leaves the order of the others alone.
LEMMA PopBackOrder ==
  ASSUME NEW S, NEW s \in Seq(S), s # << >>, NEW x, NEW y, Before(Front(s), x, y)
  PROVE  Before(s, x, y)
<1> DEFINE r == Front(s)
<1>1. Len(s) \in Nat /\ Len(s) >= 1
  BY EmptySeq
<1>2. Len(r) = Len(s) - 1 /\ \A i \in 1..Len(r) : r[i] = s[i]
  BY FrontElements
<1>. HIDE DEF r
<1>3. PICK i, j \in 1..Len(r) : i < j /\ r[i] = x /\ r[j] = y
  BY DEF Before, r
<1>4. i \in 1..Len(s) /\ j \in 1..Len(s)
  BY <1>1, <1>2
<1>. QED  BY <1>2, <1>3, <1>4 DEF Before

\* RemoveFirst leaves the order of the others alone.
LEMMA RemoveFirstOrder ==
  ASSUME NEW S, NEW s \in Seq(S), NEW e, IsInjective(s), NEW x, NEW y
  PROVE  Before(RemoveFirst(s, e), x, y) <=> x # e /\ y # e /\ Before(s, x, y)
<1>1. CASE ~Contains(s, e)
  <2>1. RemoveFirst(s, e) = s
    BY <1>1 DEF Contains, RemoveFirst
  <2>2. Before(s, x, y) => x # e /\ y # e
    BY <1>1, BeforeContains
  <2>. QED  BY <2>1, <2>2
<1>2. CASE Contains(s, e)
  <2> DEFINE r == RemoveFirst(s, e)
  <2>1. PICK n \in 1..Len(s) :
          /\ s[n] = e
          /\ r \in Seq(S) /\ Len(r) = Len(s) - 1
          /\ \A i \in 1..Len(r) : r[i] = IF i < n THEN s[i] ELSE s[i + 1]
    BY <1>2, RemoveFirstElements
  <2>. HIDE DEF r
  <2>2. ASSUME Before(r, x, y)  PROVE x # e /\ y # e /\ Before(s, x, y)
    <3>1. PICK i, j \in 1..Len(r) : i < j /\ r[i] = x /\ r[j] = y
      BY <2>2 DEF Before
    <3>2. PICK p \in 1..Len(s) : p = IF i < n THEN i ELSE i + 1
      BY <2>1
    <3>3. PICK q \in 1..Len(s) : q = IF j < n THEN j ELSE j + 1
      BY <2>1
    <3>4. s[p] = x /\ s[q] = y
      BY <2>1, <3>1, <3>2, <3>3
    <3>5. p < q /\ p # n /\ q # n
      BY <2>1, <3>1, <3>2, <3>3
    <3>6. s[p] # s[n] /\ s[q] # s[n]
      BY <3>5 DEF IsInjective
    <3>7. Before(s, x, y)
      BY <3>4, <3>5 DEF Before
    <3>. QED  BY <2>1, <3>4, <3>6, <3>7
  <2>3. ASSUME x # e, y # e, Before(s, x, y)  PROVE Before(r, x, y)
    <3>1. PICK p, q \in 1..Len(s) : p < q /\ s[p] = x /\ s[q] = y
      BY <2>3 DEF Before
    <3>2. p # n /\ q # n
      BY <2>1, <2>3, <3>1
    <3>3. PICK i \in 1..Len(r) : i = IF p < n THEN p ELSE p - 1
      BY <2>1, <3>2
    <3>4. PICK j \in 1..Len(r) : j = IF q < n THEN q ELSE q - 1
      BY <2>1, <3>2
    <3>5. i < j
      BY <2>1, <3>1, <3>2, <3>3, <3>4
    <3>6. /\ (IF i < n THEN i ELSE i + 1) = p
          /\ (IF j < n THEN j ELSE j + 1) = q
      BY <2>1, <3>2, <3>3, <3>4
    <3>7. r[i] = s[p] /\ r[j] = s[q]
      BY <2>1, <3>6
    <3>. QED  BY <3>1, <3>5, <3>7 DEF Before
  <2>. QED  BY <2>2, <2>3 DEF r
<1>. QED  BY <1>1, <1>2

\* push_front puts an element before all the others, whose order stays.
LEMMA PushFrontOrder ==
  ASSUME NEW S, NEW s \in Seq(S), NEW e \in S, ~Contains(s, e), NEW x, NEW y
  PROVE  Before(<<e>> \o s, x, y) <=> (x = e /\ Contains(s, y)) \/ Before(s, x, y)
<1> DEFINE r == <<e>> \o s
<1>1. r \in Seq(S) /\ Len(r) = Len(s) + 1 /\ Len(s) \in Nat
  OBVIOUS
<1>2. \A i \in 1..Len(r) : r[i] = IF i = 1 THEN e ELSE s[i - 1]
  BY <1>1
<1>3. \A i \in 1..Len(s) : r[i + 1] = s[i] /\ i + 1 \in 1..Len(r)
  BY <1>1, <1>2
<1>. HIDE DEF r
<1>4. PICK n \in 1..Len(r) : n = 1 /\ r[n] = e
  BY <1>1, <1>2
<1>5. ASSUME Before(r, x, y)  PROVE (x = e /\ Contains(s, y)) \/ Before(s, x, y)
  <2>1. PICK i, j \in 1..Len(r) : i < j /\ r[i] = x /\ r[j] = y
    BY <1>5 DEF Before
  <2>2. PICK q \in 1..Len(s) : q = j - 1 /\ s[q] = y
    BY <1>1, <1>2, <2>1
  <2>3. CASE i = 1
    BY <1>2, <2>1, <2>2, <2>3 DEF Contains
  <2>4. CASE i # 1
    <3>1. PICK p \in 1..Len(s) : p = i - 1 /\ s[p] = x
      BY <1>1, <1>2, <2>1, <2>4
    <3>2. p < q
      BY <2>1, <2>2, <3>1
    <3>. QED  BY <2>2, <3>1, <3>2 DEF Before
  <2>. QED  BY <2>3, <2>4
<1>6. ASSUME x = e, Contains(s, y)  PROVE Before(r, x, y)
  <2>1. PICK q \in 1..Len(s) : s[q] = y
    BY <1>6 DEF Contains
  <2>2. n < q + 1 /\ r[q + 1] = y /\ q + 1 \in 1..Len(r)
    BY <1>3, <1>4, <2>1
  <2>. QED  BY <1>4, <1>6, <2>2 DEF Before
<1>7. ASSUME Before(s, x, y)  PROVE Before(r, x, y)
  <2>1. PICK p, q \in 1..Len(s) : p < q /\ s[p] = x /\ s[q] = y
    BY <1>7 DEF Before
  <2>2. /\ p + 1 \in 1..Len(r) /\ r[p + 1] = x
        /\ q + 1 \in 1..Len(r) /\ r[q + 1] = y
        /\ p + 1 < q + 1
    BY <1>3, <2>1
  <2>. QED  BY <2>2 DEF Before
<1>. QED  BY <1>5, <1>6, <1>7 DEF r

\* s with e, new or not, at the front.
MovedToFront(s, e) == <<e>> \o RemoveFirst(s, e)

\* An element moved, or added, to the front is the first, once, and the order of
\* the others stays.
LEMMA MovedToFrontProperties ==
  ASSUME NEW S, NEW s \in Seq(S), IsInjective(s), NEW e \in S
  PROVE  /\ MovedToFront(s, e) \in Seq(S) /\ IsInjective(MovedToFront(s, e))
         /\ \A x : Contains(MovedToFront(s, e), x) <=> x = e \/ Contains(s, x)
         /\ \A x, y : Before(MovedToFront(s, e), x, y)
                       <=> /\ y # e
                           /\ \/ x = e /\ Contains(s, y)
                              \/ x # e /\ Before(s, x, y)
<1> DEFINE r == RemoveFirst(s, e)
<1>1. /\ r \in Seq(S) /\ IsInjective(r)
      /\ \A x : Contains(r, x) <=> x # e /\ Contains(s, x)
  BY RemoveFirstProperties
<1>2. \A x, y : Before(r, x, y) <=> x # e /\ y # e /\ Before(s, x, y)
  BY RemoveFirstOrder
<1>3. MovedToFront(s, e) = <<e>> \o r /\ ~Contains(r, e)
  BY <1>1 DEF MovedToFront
<1>. HIDE DEF r
<1>4. /\ MovedToFront(s, e) \in Seq(S) /\ IsInjective(MovedToFront(s, e))
      /\ \A x : Contains(MovedToFront(s, e), x) <=> x = e \/ Contains(r, x)
  <2>1. /\ <<e>> \o r \in Seq(S) /\ IsInjective(<<e>> \o r)
        /\ \A x : Contains(<<e>> \o r, x) <=> x = e \/ Contains(r, x)
    BY <1>1, <1>3, PushFrontProperties
  <2>. QED  BY <1>3, <2>1, Zenon
<1>5. \A x, y : Before(MovedToFront(s, e), x, y)
                <=> (x = e /\ Contains(r, y)) \/ Before(r, x, y)
  <2>1. \A x, y : Before(<<e>> \o r, x, y) <=> (x = e /\ Contains(r, y)) \/ Before(r, x, y)
    BY <1>1, <1>3, PushFrontOrder
  <2>. QED  BY <1>3, <2>1, Zenon
<1>. QED  BY <1>1, <1>2, <1>4, <1>5

\* Max of a set of integers is the one that no other exceeds.
LEMMA MaxIs ==
  ASSUME NEW S, S \subseteq Int, NEW m \in S, \A x \in S : x <= m
  PROVE  Max(S) = m
<1>1. Max(S) \in S /\ \A x \in S : Max(S) >= x
  BY DEF Max
<1>2. Max(S) >= m /\ Max(S) <= m /\ Max(S) \in Int
  BY <1>1
<1>. QED  BY <1>2

(***************************************************************************)
(* The places of a sequence without repetition, counted from 0, as the     *)
(* positions in a list are.                                                *)
(***************************************************************************)
Place(s, e) == CHOOSE i \in 0 .. Len(s) - 1 : s[i + 1] = e

\* An element has one place.
LEMMA PlaceIs ==
  ASSUME NEW S, NEW s \in Seq(S), IsInjective(s), NEW e, Contains(s, e)
  PROVE  /\ Place(s, e) \in 0 .. Len(s) - 1 /\ s[Place(s, e) + 1] = e
         /\ \A i \in 1 .. Len(s) : s[i] = e => i = Place(s, e) + 1
<1>1. PICK j \in 1 .. Len(s) : s[j] = e
  BY DEF Contains
<1>2. j - 1 \in 0 .. Len(s) - 1 /\ (j - 1) + 1 = j
  BY <1>1
<1>3. \E i \in 0 .. Len(s) - 1 : s[i + 1] = e
  BY <1>1, <1>2
<1>4. Place(s, e) \in 0 .. Len(s) - 1 /\ s[Place(s, e) + 1] = e
  BY <1>3 DEF Place
<1>5. Place(s, e) + 1 \in 1 .. Len(s)
  BY <1>4
<1>6. \A i \in 1 .. Len(s) : s[i] = e => i = Place(s, e) + 1
  BY <1>4, <1>5 DEF IsInjective
<1>. QED  BY <1>4, <1>6

\* The places are in the order of the sequence.
LEMMA PlacesInOrder ==
  ASSUME NEW S, NEW s \in Seq(S), IsInjective(s), NEW x, Contains(s, x), NEW y, Contains(s, y)
  PROVE  Place(s, x) < Place(s, y) <=> Before(s, x, y)
<1>1. /\ Place(s, x) \in 0 .. Len(s) - 1 /\ s[Place(s, x) + 1] = x
      /\ \A i \in 1 .. Len(s) : s[i] = x => i = Place(s, x) + 1
  BY PlaceIs
<1>2. /\ Place(s, y) \in 0 .. Len(s) - 1 /\ s[Place(s, y) + 1] = y
      /\ \A i \in 1 .. Len(s) : s[i] = y => i = Place(s, y) + 1
  BY PlaceIs
<1> DEFINE a == Place(s, x)
           b == Place(s, y)
<1>3. a \in Nat /\ b \in Nat /\ a + 1 \in 1 .. Len(s) /\ b + 1 \in 1 .. Len(s)
  BY <1>1, <1>2
<1>. HIDE DEF a, b
<1>4. ASSUME a < b  PROVE Before(s, x, y)
  <2>1. a + 1 < b + 1
    BY <1>3, <1>4
  <2>. QED  BY <1>1, <1>2, <1>3, <2>1 DEF Before, a, b
<1>5. ASSUME Before(s, x, y)  PROVE a < b
  <2>1. PICK i, j \in 1 .. Len(s) : i < j /\ s[i] = x /\ s[j] = y
    BY <1>5 DEF Before
  <2>2. i = a + 1 /\ j = b + 1
    BY <1>1, <1>2, <2>1 DEF a, b
  <2>. QED  BY <1>3, <2>1, <2>2
<1>. QED  BY <1>4, <1>5 DEF a, b

\* A place is the number of elements before it.
LEMMA PlaceCounts ==
  ASSUME NEW S, NEW s \in Seq(S), IsInjective(s), NEW e, Contains(s, e),
         NEW D, IsFiniteSet(D), NEW f,
         \A x \in D : Contains(s, f[x]),
         \A x, y \in D : f[x] = f[y] => x = y,
         \A n : Contains(s, n) => \E x \in D : f[x] = n
  PROVE  Place(s, e) = Cardinality({x \in D : Before(s, f[x], e)})
<1> DEFINE B == {x \in D : Before(s, f[x], e)}
           p == Place(s, e)
           g == [x \in B |-> Place(s, f[x]) + 1]
<1>1. p \in Nat /\ p + 1 \in 1 .. Len(s)
  BY PlaceIs
<1>2. \A x \in D : /\ Place(s, f[x]) \in Nat /\ Place(s, f[x]) + 1 \in 1 .. Len(s)
                   /\ s[Place(s, f[x]) + 1] = f[x]
                   /\ Place(s, f[x]) < p <=> Before(s, f[x], e)
  <2>. SUFFICES ASSUME NEW x \in D
                PROVE  /\ Place(s, f[x]) \in Nat /\ Place(s, f[x]) + 1 \in 1 .. Len(s)
                       /\ s[Place(s, f[x]) + 1] = f[x]
                       /\ Place(s, f[x]) < p <=> Before(s, f[x], e)
    OBVIOUS
  <2>1. Place(s, f[x]) \in 0 .. Len(s) - 1 /\ s[Place(s, f[x]) + 1] = f[x]
    BY PlaceIs
  <2>2. Place(s, f[x]) < p <=> Before(s, f[x], e)
    BY PlacesInOrder
  <2>. QED  BY <2>1, <2>2
<1>3. \A x \in B : x \in D /\ g[x] = Place(s, f[x]) + 1
  OBVIOUS
<1>. HIDE DEF p
<1>4. g \in [B -> 1 .. p]
  <2>1. \A x \in B : Place(s, f[x]) + 1 \in 1 .. p
    BY <1>1, <1>2
  <2>. QED  BY <2>1
<1>5. \A x, y \in B : g[x] = g[y] => x = y
  <2>. SUFFICES ASSUME NEW x \in B, NEW y \in B, g[x] = g[y]  PROVE x = y
    OBVIOUS
  <2>1. s[g[x]] = f[x] /\ s[g[y]] = f[y]
    BY <1>2, <1>3
  <2>. QED  BY <2>1
<1>6. \A i \in 1 .. p : \E x \in B : g[x] = i
  <2>. SUFFICES ASSUME NEW i \in 1 .. p  PROVE \E x \in B : g[x] = i
    OBVIOUS
  <2>1. i \in 1 .. Len(s) /\ i - 1 < p /\ i - 1 \in Nat
    BY <1>1
  <2>2. PICK x \in D : f[x] = s[i]
    BY <2>1 DEF Contains
  <2>3. i = Place(s, f[x]) + 1
    BY <2>1, <2>2, PlaceIs
  <2>4. x \in B
    BY <1>2, <2>1, <2>3
  <2>. QED  BY <2>3, <2>4
<1>7. g \in Bijection(B, 1 .. p)
  BY <1>4, <1>5, <1>6 DEF Bijection, Injection, Surjection, IsInjective
<1>8. IsFiniteSet(B) /\ Cardinality(1 .. p) = p
  <2>1. IsFiniteSet(B)
    BY FS_Subset
  <2>2. Cardinality(1 .. p) = p
    BY <1>1, FS_Interval
  <2>. QED  BY <2>1, <2>2
<1>9. Cardinality(1 .. p) = Cardinality(B)
  <2>1. ExistsBijection(B, 1 .. p)
    BY <1>7 DEF ExistsBijection
  <2>. QED  BY <1>8, <2>1, FS_Bijection
<1>. QED  BY <1>8, <1>9 DEF p

\* pop_back leaves the order of the others alone: nothing else comes before.
LEMMA PopBackOrderKept ==
  ASSUME NEW S, NEW s \in Seq(S), s # << >>, IsInjective(s), NEW x, NEW y, y # Last(s)
  PROVE  Before(Front(s), x, y) <=> Before(s, x, y)
<1> DEFINE r == Front(s)
<1>1. Len(s) \in Nat /\ Len(s) >= 1 /\ Last(s) = s[Len(s)]
  BY EmptySeq DEF Last
<1>2. Len(r) = Len(s) - 1 /\ \A i \in 1..Len(r) : r[i] = s[i]
  BY FrontElements
<1>. HIDE DEF r
<1>3. ASSUME Before(s, x, y)  PROVE Before(r, x, y)
  <2>1. PICK i, j \in 1..Len(s) : i < j /\ s[i] = x /\ s[j] = y
    BY <1>3 DEF Before
  <2>2. j # Len(s)
    BY <1>1, <2>1
  <2>3. i \in 1..Len(r) /\ j \in 1..Len(r)
    BY <1>1, <1>2, <2>1, <2>2
  <2>. QED  BY <1>2, <2>1, <2>3 DEF Before
<1>. QED  BY <1>3, PopBackOrder DEF r

\* One element of a sequence changes.
LEMMA ElementChanged ==
  ASSUME NEW S, NEW s \in Seq(S), NEW i \in 1 .. Len(s), NEW r \in S,
         NEW w, w = [s EXCEPT ![i] = r]
  PROVE  /\ w \in Seq(S) /\ Len(w) = Len(s) /\ w[i] = r
         /\ \A d \in 1 .. Len(s) : d # i => w[d] = s[d]
<1>1. w \in Seq(S) /\ Len(w) = Len(s)
  BY ExceptSeq
<1>2. DOMAIN s = 1 .. Len(s)
  BY LenProperties
<1>. QED  BY <1>1, <1>2

\* A sequence of one element, without it.
LEMMA FrontOfOne ==
  ASSUME NEW S, NEW s \in Seq(S), s # << >>, NEW n \in Nat, n = Len(s), n = 1,
         NEW u, u = Front(s)
  PROVE  u \in Seq(S) /\ u = << >>
<1>1. u \in Seq(S) /\ Len(u) = Len(s) - 1
  BY FrontElements
<1>2. Len(u) = n - 1
  BY <1>1
<1>3. PICK m \in Nat : m = Len(u)
  BY <1>1, LenProperties
<1>4. ~(m \in Nat \ {0})
  BY <1>2, <1>3
<1>. QED  BY <1>1, <1>3, <1>4, EmptySeq

\* A sequence of one element.
LEMMA OneElement ==
  ASSUME NEW S, NEW v \in S
  PROVE  <<v>> \in Seq(S) /\ Len(<<v>>) = 1 /\ <<v>>[1] = v
OBVIOUS

\* A sequence with another element.
LEMMA AppendElements ==
  ASSUME NEW S, NEW s \in Seq(S), NEW n \in Nat, n = Len(s), NEW e \in S,
         NEW u, u = Append(s, e)
  PROVE  /\ u \in Seq(S) /\ Len(u) = n + 1 /\ u[n + 1] = e
         /\ \A i \in 1 .. n : u[i] = s[i]
<1>1. /\ u \in Seq(S) /\ Len(u) = Len(s) + 1 /\ u[Len(s) + 1] = e
      /\ \A i \in 1 .. Len(s) : u[i] = s[i]
  BY AppendProperties
<1>. QED  BY <1>1

\* Two sequences that share nothing, one after the other.
LEMMA ConcatElements ==
  ASSUME NEW S, NEW s \in Seq(S), NEW t \in Seq(S), IsInjective(s), IsInjective(t),
         \A x : ~(Contains(s, x) /\ Contains(t, x))
  PROVE  /\ s \o t \in Seq(S) /\ IsInjective(s \o t)
         /\ \A x : Contains(s \o t, x) <=> Contains(s, x) \/ Contains(t, x)
<1>1. PICK r \in Seq(S) : r = s \o t
  BY ConcatProperties
<1>2. PICK m \in Nat : m = Len(s)
  BY LenProperties
<1>3. PICK n \in Nat : n = Len(t)
  BY LenProperties
<1>4. Len(r) = m + n /\ \A i \in 1 .. m + n : r[i] = IF i <= m THEN s[i] ELSE t[i - m]
  BY <1>1, <1>2, <1>3, ConcatProperties
<1>5. /\ \A i \in 1 .. m : i \in 1 .. m + n /\ r[i] = s[i]
      /\ \A i \in 1 .. n : m + i \in 1 .. m + n /\ r[m + i] = t[i]
      /\ \A i \in 1 .. m + n : i \in 1 .. m \/ \E k \in 1 .. n : i = m + k
  <2>1. \A i \in 1 .. m : i \in 1 .. m + n /\ r[i] = s[i]
    BY <1>4
  <2>2. ASSUME NEW i \in 1 .. n  PROVE m + i \in 1 .. m + n /\ r[m + i] = t[i]
    <3>1. m + i \in 1 .. m + n /\ ~(m + i <= m) /\ (m + i) - m = i
      OBVIOUS
    <3>. QED  BY <1>4, <3>1
  <2>3. ASSUME NEW i \in 1 .. m + n, i \notin 1 .. m  PROVE \E k \in 1 .. n : i = m + k
    <3>1. i - m \in 1 .. n /\ i = m + (i - m)
      BY <2>3
    <3>. QED  BY <3>1
  <2>. QED  BY <2>1, <2>2, <2>3
<1>6. \A x : Contains(r, x) <=> Contains(s, x) \/ Contains(t, x)
  <2>. SUFFICES ASSUME NEW x  PROVE Contains(r, x) <=> Contains(s, x) \/ Contains(t, x)
    OBVIOUS
  <2>1. ASSUME Contains(r, x)  PROVE Contains(s, x) \/ Contains(t, x)
    <3>1. PICK i \in 1 .. m + n : r[i] = x
      BY <1>4, <2>1 DEF Contains
    <3>2. CASE i \in 1 .. m
      BY <1>2, <1>5, <3>1, <3>2 DEF Contains
    <3>3. CASE i \notin 1 .. m
      <4>1. PICK k \in 1 .. n : i = m + k
        BY <1>5, <3>3
      <4>2. t[k] = x
        BY <1>5, <3>1, <4>1
      <4>. QED  BY <1>3, <4>2 DEF Contains
    <3>. QED  BY <3>2, <3>3
  <2>2. ASSUME Contains(s, x)  PROVE Contains(r, x)
    BY <1>2, <1>4, <1>5, <2>2 DEF Contains
  <2>3. ASSUME Contains(t, x)  PROVE Contains(r, x)
    BY <1>3, <1>4, <1>5, <2>3 DEF Contains
  <2>. QED  BY <2>1, <2>2, <2>3
<1>7. IsInjective(r)
  <2>. SUFFICES ASSUME NEW i \in 1 .. m + n, NEW j \in 1 .. m + n, r[i] = r[j]  PROVE i = j
    BY <1>4, LenProperties DEF IsInjective
  <2>1. DOMAIN s = 1 .. m /\ DOMAIN t = 1 .. n
    BY <1>2, <1>3, LenProperties
  <2>2. ASSUME NEW k \in 1 .. m, NEW l \in 1 .. n  PROVE r[k] # r[m + l]
    <3>1. r[k] = s[k] /\ r[m + l] = t[l]
      BY <1>5
    <3>2. Contains(s, s[k]) /\ Contains(t, t[l])
      BY <1>2, <1>3 DEF Contains
    <3>. QED  BY <3>1, <3>2
  <2>3. CASE i \in 1 .. m /\ j \in 1 .. m
    <3>1. s[i] = s[j]
      BY <1>5, <2>3
    <3>. QED  BY <2>1, <2>3, <3>1 DEF IsInjective
  <2>4. CASE i \in 1 .. m /\ j \notin 1 .. m
    <3>1. PICK l \in 1 .. n : j = m + l
      BY <1>5, <2>4
    <3>. QED  BY <2>2, <2>4, <3>1
  <2>5. CASE i \notin 1 .. m /\ j \in 1 .. m
    <3>1. PICK k \in 1 .. n : i = m + k
      BY <1>5, <2>5
    <3>. QED  BY <2>2, <2>5, <3>1
  <2>6. CASE i \notin 1 .. m /\ j \notin 1 .. m
    <3>1. PICK k \in 1 .. n : i = m + k
      BY <1>5, <2>6
    <3>2. PICK l \in 1 .. n : j = m + l
      BY <1>5, <2>6
    <3>3. t[k] = t[l]
      BY <1>5, <3>1, <3>2
    <3>4. k = l
      BY <2>1, <3>3 DEF IsInjective
    <3>. QED  BY <3>1, <3>2, <3>4
  <2>. QED  BY <2>3, <2>4, <2>5, <2>6
<1>. QED  BY <1>1, <1>6, <1>7

-----------------------------------------------------------------------------
(***************************************************************************)
(* Remainders.                                                             *)
(***************************************************************************)
\* A number, from its quotient and its remainder.
LEMMA ModOf ==
  ASSUME NEW b \in Nat, b > 0, NEW q \in Int, NEW r \in 0..(b - 1)
  PROVE  (b * q + r) % b = r
BY SMT

\* A count to a modulus never stands still.
LEMMA ModNext ==
  ASSUME NEW a \in Int, NEW b \in Nat, b > 1
  PROVE  (a + 1) % b # a % b
<1> DEFINE q == a \div b
           r == a % b
<1>1. a = b * q + r /\ q \in Int /\ r \in 0..(b - 1)
  BY Z3
<1>. HIDE DEF q, r
<1>2. CASE r + 1 < b
  <2>1. r + 1 \in 0..(b - 1) /\ a + 1 = b * q + (r + 1)
    BY <1>1, <1>2
  <2>2. (a + 1) % b = r + 1
    BY <1>1, <2>1, ModOf
  <2>. QED  BY <1>1, <2>2 DEF r
<1>3. CASE r + 1 = b
  <2>1. 0 \in 0..(b - 1) /\ a + 1 = b * (q + 1) + 0
    BY <1>1, <1>3, Z3
  <2>2. (a + 1) % b = 0
    BY <1>1, <2>1, ModOf
  <2>. QED  BY <1>1, <1>3, <2>2 DEF r
<1>. QED  BY <1>1, <1>2, <1>3
=============================================================================
