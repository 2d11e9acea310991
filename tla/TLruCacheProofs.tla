---------------------------- MODULE TLruCacheProofs ---------------------------
(***************************************************************************)
(* Theorems about TLruCache, for every set of keys, values and addresses   *)
(* and every SizeLimit.                                                    *)
(***************************************************************************)
EXTENDS TLruCache, DataLemmas

\* The inductive invariant: the map and the list agree, and the cache is within its
\* limit.  The limit is inductive only together with the agreement: it is a node of
\* the list that an eviction removes, and a key of the map that it has to.
IInv == TypeOK /\ MapMatchesList

\* What the invariant says of one key.
LEMMA KeysAndNodes ==
  ASSUME IInv
  PROVE  /\ \A k \in DOMAIN Data : /\ k \in Keys /\ Data[k] \in Addresses
                                   /\ Data[k] \in ToSet(CacheList) /\ node[Data[k]].key = k
         /\ \A k, x \in DOMAIN Data : Data[k] = Data[x] => k = x
         /\ \A n \in ToSet(CacheList) : /\ node[n].key \in DOMAIN Data
                                        /\ Data[node[n].key] = n
         /\ \A n : n \in ToSet(CacheList) <=> Contains(CacheList, n)
         /\ DOMAIN node = ToSet(CacheList) /\ ToSet(CacheList) \subseteq Addresses
         /\ IsFiniteSet(DOMAIN Data) /\ Cardinality(DOMAIN Data) \in Nat
<1>1. \A k \in DOMAIN Data : /\ k \in Keys /\ Data[k] \in Addresses
                             /\ Data[k] \in ToSet(CacheList) /\ node[Data[k]].key = k
  BY DEF IInv, TypeOK, MapMatchesList
<1>2. \A k, x \in DOMAIN Data : Data[k] = Data[x] => k = x
  BY <1>1
<1>3. ASSUME NEW n \in ToSet(CacheList)  PROVE node[n].key \in DOMAIN Data /\ Data[node[n].key] = n
  <2>1. PICK k \in DOMAIN Data : n = Data[k]
    BY DEF IInv, MapMatchesList
  <2>. QED  BY <1>1, <2>1
<1>4. \A n : n \in ToSet(CacheList) <=> Contains(CacheList, n)
  BY ContainsIsToSet DEF IInv, TypeOK
<1>5. DOMAIN node = ToSet(CacheList) /\ ToSet(CacheList) \subseteq Addresses
  <2>1. DOMAIN node = ToSet(CacheList)
    BY DEF IInv, TypeOK
  <2>. QED  BY <2>1 DEF IInv, TypeOK, ToSet
<1>6. IsFiniteSet(DOMAIN Data)
  BY LruAssumption, FS_Subset DEF IInv, TypeOK
<1>. QED  BY <1>1, <1>2, <1>3, <1>4, <1>5, <1>6, FS_CardinalityType

\* A node that is moved to the front, or put there, is in the list once.
LEMMA ToFrontProperties ==
  ASSUME NEW S, NEW s \in Seq(S), NEW e \in S, IsInjective(s)
  PROVE  /\ ToFront(s, e) \in Seq(S) /\ IsInjective(ToFront(s, e))
         /\ ToSet(ToFront(s, e)) = ToSet(s) \cup {e}
<1>1. /\ RemoveFirst(s, e) \in Seq(S) /\ IsInjective(RemoveFirst(s, e))
      /\ \A x : Contains(RemoveFirst(s, e), x) <=> x # e /\ Contains(s, x)
  BY RemoveFirstProperties
<1>2. /\ ToFront(s, e) \in Seq(S) /\ IsInjective(ToFront(s, e))
      /\ \A x : Contains(ToFront(s, e), x) <=> x = e \/ Contains(RemoveFirst(s, e), x)
  BY <1>1, PushFrontProperties DEF ToFront
<1>3. /\ \A x : x \in ToSet(s) <=> Contains(s, x)
      /\ \A x : x \in ToSet(ToFront(s, e)) <=> Contains(ToFront(s, e), x)
  BY <1>2, ContainsIsToSet
<1>. QED  BY <1>1, <1>2, <1>3

\* An empty cache has the invariant.
LEMMA InitInvariant == Init => IInv
<1>. SUFFICES ASSUME Init  PROVE IInv
  OBVIOUS
<1>1. /\ CacheList \in Seq(Addresses) /\ IsInjective(CacheList) /\ ToSet(CacheList) = {}
  BY DEF Init, IsInjective, ToSet
<1>2. DOMAIN node = {} /\ DOMAIN Data = {}
  BY DEF Init
<1>3. node \in [{} -> [key : Keys, val : Values]] /\ Data \in [{} -> Addresses]
  BY DEF Init
<1>4. Cardinality(DOMAIN Data) <= SizeLimit
  BY <1>2, FS_EmptySet, LruAssumption
<1>5. TypeOK
  BY <1>1, <1>2, <1>3, <1>4 DEF TypeOK
<1>6. MapMatchesList
  BY <1>1, <1>2 DEF MapMatchesList
<1>. QED  BY <1>5, <1>6 DEF IInv

\* TryGet and the Set of a key that is there: its node moves, and may get a value.
LEMMA UseInvariant ==
  ASSUME IInv, NEW k \in DOMAIN Data,
         CacheList' = ToFront(CacheList, Data[k]), Data' = Data,
         node' = node \/ \E v \in Values : node' = [node EXCEPT ![Data[k]].val = v]
  PROVE  IInv' /\ \A n \in ToSet(CacheList) : node'[n].key = node[n].key
<1>1. /\ CacheList' \in Seq(Addresses) /\ IsInjective(CacheList')
      /\ ToSet(CacheList') = ToSet(CacheList)
  <2>1. CacheList \in Seq(Addresses) /\ IsInjective(CacheList)
    BY DEF IInv, TypeOK, MapMatchesList
  <2>2. Data[k] \in Addresses /\ Data[k] \in ToSet(CacheList)
    BY KeysAndNodes
  <2>3. /\ CacheList' \in Seq(Addresses) /\ IsInjective(CacheList')
        /\ ToSet(CacheList') = ToSet(CacheList) \cup {Data[k]}
    BY <2>1, <2>2, ToFrontProperties
  <2>. QED  BY <2>2, <2>3
<1>2. /\ node' \in [ToSet(CacheList) -> [key : Keys, val : Values]]
      /\ \A n \in ToSet(CacheList) : node'[n].key = node[n].key
  <2>1. node \in [ToSet(CacheList) -> [key : Keys, val : Values]]
    BY DEF IInv, TypeOK
  <2>. QED  BY <2>1
<1>3. TypeOK'
  BY <1>1, <1>2 DEF IInv, TypeOK
<1>4. MapMatchesList'
  <2>1. \A x \in DOMAIN Data : node'[Data[x]].key = x
    BY <1>2, KeysAndNodes
  <2>. QED  BY <1>1, <2>1 DEF IInv, MapMatchesList
<1>. QED  BY <1>2, <1>3, <1>4 DEF IInv

\* Erase, and the eviction of the last node.
LEMMA RemovalProperties ==
  ASSUME IInv, NEW n \in ToSet(CacheList), NEW data, NEW list,
         ToSet(list) = ToSet(CacheList) \ {n},
         DOMAIN data = DOMAIN Data \ {node[n].key},
         \A x \in DOMAIN data : data[x] = Data[x]
  PROVE  /\ \A x \in DOMAIN data : Data[x] # n
         /\ \A m : m \in ToSet(list) <=> \E x \in DOMAIN data : m = data[x]
         /\ Cardinality(DOMAIN data) = Cardinality(DOMAIN Data) - 1
<1>1. /\ DOMAIN data = DOMAIN Data \ {node[n].key}
      /\ \A x \in DOMAIN data : data[x] = Data[x]
  OBVIOUS
<1>2. \A x \in DOMAIN data : Data[x] # n
  BY <1>1, KeysAndNodes
<1>3. \A m : m \in ToSet(list) <=> \E x \in DOMAIN data : m = data[x]
  <2>1. ASSUME NEW m \in ToSet(list)  PROVE \E x \in DOMAIN data : m = data[x]
    <3>1. m \in ToSet(CacheList) /\ m # n
      OBVIOUS
    <3>2. node[m].key \in DOMAIN Data /\ Data[node[m].key] = m /\ node[m].key # node[n].key
      BY <3>1, KeysAndNodes
    <3>. QED  BY <1>1, <3>2
  <2>2. \A x \in DOMAIN data : data[x] \in ToSet(list)
    BY <1>1, <1>2, KeysAndNodes
  <2>. QED  BY <2>1, <2>2
<1>4. Cardinality(DOMAIN data) = Cardinality(DOMAIN Data) - 1
  <2>1. PICK e : e = node[n].key
    OBVIOUS
  <2>2. e \in DOMAIN Data /\ IsFiniteSet(DOMAIN Data)
    BY <2>1, KeysAndNodes
  <2>3. Cardinality(DOMAIN Data \ {e}) = Cardinality(DOMAIN Data) - 1
    BY <2>2, FS_RemoveElement
  <2>. QED  BY <1>1, <2>1, <2>3
<1>. QED  BY <1>1, <1>2, <1>3, <1>4

\* Erase of a key that is there.
LEMMA EraseInvariant ==
  ASSUME IInv, NEW k \in DOMAIN Data, Erase(k)
  PROVE  /\ IInv'
         /\ \A x \in DOMAIN Data' : Data'[x] = Data[x] /\ node'[Data[x]] = node[Data[x]]
<1>0. PICK n \in ToSet(CacheList) : n = Data[k] /\ node[n].key = k
  BY KeysAndNodes
<1>1. /\ CacheList' \in Seq(Addresses) /\ IsInjective(CacheList')
      /\ ToSet(CacheList') = ToSet(CacheList) \ {n}
  <2>1. /\ CacheList' = RemoveFirst(CacheList, n)
        /\ CacheList \in Seq(Addresses) /\ IsInjective(CacheList)
    BY <1>0 DEF Erase, IInv, TypeOK, MapMatchesList
  <2>2. /\ CacheList' \in Seq(Addresses) /\ IsInjective(CacheList')
        /\ \A x : Contains(CacheList', x) <=> x # n /\ Contains(CacheList, x)
    BY <2>1, RemoveFirstProperties
  <2>3. \A x : x \in ToSet(CacheList') <=> Contains(CacheList', x)
    BY <2>2, ContainsIsToSet
  <2>. QED  BY <2>2, <2>3, KeysAndNodes
<1>2. /\ DOMAIN Data' = DOMAIN Data \ {k}
      /\ \A x \in DOMAIN Data' : Data'[x] = Data[x] /\ Data[x] # n
      /\ \A m : m \in ToSet(CacheList') <=> \E x \in DOMAIN Data' : m = Data'[x]
      /\ Cardinality(DOMAIN Data') = Cardinality(DOMAIN Data) - 1
  <2>1. PICK data, list : data = Data' /\ list = CacheList'
    OBVIOUS
  <2>2. /\ DOMAIN data = DOMAIN Data \ {node[n].key}
        /\ \A x \in DOMAIN data : data[x] = Data[x]
    BY <1>0, <2>1 DEF Erase, Without, Restrict
  <2>3. list \in Seq(Addresses) /\ IsInjective(list) /\ ToSet(list) = ToSet(CacheList) \ {n}
    BY <1>1, <2>1
  <2>4. /\ \A x \in DOMAIN data : Data[x] # n
        /\ \A m : m \in ToSet(list) <=> \E x \in DOMAIN data : m = data[x]
        /\ Cardinality(DOMAIN data) = Cardinality(DOMAIN Data) - 1
    BY <2>2, <2>3, RemovalProperties
  <2>. QED  BY <1>0, <2>1, <2>2, <2>4
<1>3. /\ DOMAIN node' = ToSet(CacheList') /\ node' = [x \in ToSet(CacheList') |-> node[x]]
      /\ \A x \in ToSet(CacheList') : node'[x] = node[x]
  <2>1. node' = [x \in DOMAIN node \ {n} |-> node[x]]
    BY <1>0 DEF Erase, Without, Restrict
  <2>2. DOMAIN node = ToSet(CacheList)
    BY KeysAndNodes
  <2>. QED  BY <1>1, <2>1, <2>2
<1>4. TypeOK'
  <2>1. node' \in [ToSet(CacheList') -> [key : Keys, val : Values]]
    BY <1>1, <1>3 DEF IInv, TypeOK
  <2>2. DOMAIN Data' \subseteq Keys /\ \A x \in DOMAIN Data' : Data'[x] \in Addresses
    BY <1>2, KeysAndNodes
  <2>3. Data' = [x \in DOMAIN Data' |-> Data'[x]]
    BY DEF Erase, Without, Restrict
  <2>4. Data' \in [DOMAIN Data' -> Addresses]
    BY <2>2, <2>3
  <2>5. Cardinality(DOMAIN Data') <= SizeLimit
    BY <1>2, KeysAndNodes, LruAssumption DEF IInv, TypeOK
  <2>. QED  BY <1>1, <2>1, <2>2, <2>4, <2>5 DEF TypeOK
<1>5. MapMatchesList'
  <2>1. \A x \in DOMAIN Data' : node'[Data'[x]].key = x
    BY <1>2, <1>3, KeysAndNodes
  <2>. QED  BY <1>1, <1>2, <2>1 DEF MapMatchesList
<1>6. \A x \in DOMAIN Data' : Data'[x] = Data[x] /\ node'[Data[x]] = node[Data[x]]
  BY <1>2, <1>3
<1>. QED  BY <1>4, <1>5, <1>6 DEF IInv

\* What an eviction from a full cache, or none, leaves: list and data agree, with a
\* place for one more, and the keys that stay keep their nodes and their order.
RoomFor(list, data) ==
  /\ list \in Seq(Addresses) /\ IsInjective(list) /\ ToSet(list) \subseteq ToSet(CacheList)
  /\ DOMAIN data = DOMAIN Data \ IF Full THEN {node[Last(CacheList)].key} ELSE {}
  /\ DOMAIN data \subseteq DOMAIN Data /\ \A x \in DOMAIN data : data[x] = Data[x]
  /\ \A m : m \in ToSet(list) <=> \E x \in DOMAIN data : m = data[x]
  /\ Cardinality(DOMAIN data) < SizeLimit /\ Cardinality(DOMAIN data) \in Nat
  /\ IsFiniteSet(DOMAIN data)
  /\ Full => CacheList # << >>
  /\ \A x, y \in DOMAIN data :
       Before(list, Data[x], Data[y]) <=> Before(CacheList, Data[x], Data[y])

\* Set makes room before it inserts.
LEMMA RoomMade ==
  ASSUME IInv, SizeLimit > 0, NEW list, NEW data,
         list = IF Full THEN Front(CacheList) ELSE CacheList,
         data = IF Full THEN DataAfterEviction ELSE Data
  PROVE  RoomFor(list, data)
<1>0. /\ SizeLimit \in Nat /\ CacheList \in Seq(Addresses) /\ IsInjective(CacheList)
      /\ Cardinality(DOMAIN Data) <= SizeLimit /\ Cardinality(DOMAIN Data) \in Nat
  BY KeysAndNodes, LruAssumption DEF IInv, TypeOK, MapMatchesList
<1>1. CASE ~Full
  <2>1. list = CacheList /\ data = Data
    BY <1>1
  <2>2. ToSet(CacheList) = {Data[x] : x \in DOMAIN Data}
    BY DEF IInv, MapMatchesList
  <2>3. Cardinality(DOMAIN Data) < SizeLimit
    BY <1>0, <1>1 DEF Full
  <2>. QED  BY <1>0, <1>1, <2>1, <2>2, <2>3, KeysAndNodes DEF RoomFor
<1>2. CASE Full
  <2>1. CacheList # << >>
    <3>1. DOMAIN Data # {}
      <4>1. Cardinality({}) = 0 /\ Cardinality(DOMAIN Data) > 0
        BY <1>0, <1>2, FS_EmptySet DEF Full
      <4>. QED  BY <4>1
    <3>2. PICK x \in DOMAIN Data : TRUE
      BY <3>1
    <3>3. Contains(CacheList, Data[x])
      BY <3>2, KeysAndNodes
    <3>. QED  BY <3>3 DEF Contains
  <2>2. PICK last : last = Last(CacheList)
    OBVIOUS
  <2>3. /\ list \in Seq(Addresses) /\ IsInjective(list) /\ Contains(CacheList, last)
        /\ \A x : Contains(list, x) <=> x # last /\ Contains(CacheList, x)
    BY <1>0, <1>2, <2>1, <2>2, PopBackProperties
  <2>4. last \in ToSet(CacheList) /\ ToSet(list) = ToSet(CacheList) \ {last}
    <3>1. \A x : x \in ToSet(list) <=> Contains(list, x)
      BY <2>3, ContainsIsToSet
    <3>. QED  BY <2>3, <3>1, KeysAndNodes
  <2>5. /\ DOMAIN data = DOMAIN Data \ {node[last].key}
        /\ \A x \in DOMAIN data : data[x] = Data[x]
    BY <1>2, <2>2 DEF DataAfterEviction, Without, Restrict
  <2>6. /\ \A x \in DOMAIN data : Data[x] # last
        /\ \A m : m \in ToSet(list) <=> \E x \in DOMAIN data : m = data[x]
        /\ Cardinality(DOMAIN data) = Cardinality(DOMAIN Data) - 1
    BY <2>4, <2>5, RemovalProperties
  <2>7. IsFiniteSet(DOMAIN data) /\ Cardinality(DOMAIN data) \in Nat
    BY <2>5, KeysAndNodes, FS_Subset, FS_CardinalityType
  <2>8. \A x, y \in DOMAIN data :
          Before(list, Data[x], Data[y]) <=> Before(CacheList, Data[x], Data[y])
    BY <1>0, <1>2, <2>1, <2>2, <2>6, PopBackOrderKept
  <2>9. Cardinality(DOMAIN data) < SizeLimit
    BY <1>0, <1>2, <2>6 DEF Full
  <2>. QED  BY <1>2, <2>1, <2>2, <2>3, <2>4, <2>5, <2>6, <2>7, <2>8, <2>9 DEF RoomFor
<1>. QED  BY <1>1, <1>2

\* Set of a new key, after an eviction where the cache is full.
LEMMA SetAbsentInvariant ==
  ASSUME IInv, NEW k \in Keys, NEW v \in Values, SetAbsent(k, v)
  PROVE  /\ IInv'
         /\ \A x \in DOMAIN Data \cap DOMAIN Data' :
              Data'[x] = Data[x] /\ node'[Data[x]] = node[Data[x]]
<1>0. /\ SizeLimit > 0 /\ k \notin DOMAIN Data /\ SizeLimit \in Nat
      /\ CacheList \in Seq(Addresses) /\ IsInjective(CacheList)
      /\ Cardinality(DOMAIN Data) <= SizeLimit /\ Cardinality(DOMAIN Data) \in Nat
  BY KeysAndNodes, LruAssumption DEF SetAbsent, Present, IInv, TypeOK, MapMatchesList
<1> DEFINE list == IF Full THEN Front(CacheList) ELSE CacheList
           data == IF Full THEN DataAfterEviction ELSE Data
<1>1. PICK n \in Addresses \ ToSet(list) :
        /\ CacheList' = <<n>> \o list
        /\ node' = [x \in ToSet(list) \cup {n} |->
                      IF x = n THEN [key |-> k, val |-> v] ELSE node[x]]
        /\ Data' = [x \in DOMAIN data \cup {k} |-> IF x = k THEN n ELSE data[x]]
  BY DEF SetAbsent
<1>2. RoomFor(list, data)
  BY <1>0, RoomMade
<1>. HIDE DEF list, data
<1>3. /\ CacheList' \in Seq(Addresses) /\ IsInjective(CacheList')
      /\ ToSet(CacheList') = ToSet(list) \cup {n}
  <2>1. /\ \A x : x \in ToSet(list) <=> Contains(list, x)
        /\ n \in Addresses
    BY <1>1, <1>2, ContainsIsToSet DEF RoomFor
  <2>2. ~Contains(list, n)
    BY <1>1, <2>1
  <2>3. /\ <<n>> \o list \in Seq(Addresses) /\ IsInjective(<<n>> \o list)
        /\ \A x : Contains(<<n>> \o list, x) <=> x = n \/ Contains(list, x)
    BY <1>2, <2>1, <2>2, PushFrontProperties DEF RoomFor
  <2>4. \A x : x \in ToSet(<<n>> \o list) <=> Contains(<<n>> \o list, x)
    BY <2>3, ContainsIsToSet
  <2>5. ToSet(<<n>> \o list) = ToSet(list) \cup {n}
    BY <2>1, <2>3, <2>4
  <2>. QED  BY <1>1, <2>3, <2>5
<1>4. /\ DOMAIN Data' = DOMAIN data \cup {k} /\ k \notin DOMAIN data
      /\ Data'[k] = n /\ \A x \in DOMAIN data : Data'[x] = Data[x] /\ Data[x] \in ToSet(list)
  BY <1>0, <1>1, <1>2 DEF RoomFor
<1>5. /\ DOMAIN node' = ToSet(list) \cup {n}
      /\ node'[n] = [key |-> k, val |-> v] /\ \A m \in ToSet(list) : node'[m] = node[m]
  BY <1>1
<1>6. \A x \in DOMAIN Data \cap DOMAIN Data' :
        Data'[x] = Data[x] /\ node'[Data[x]] = node[Data[x]]
  BY <1>0, <1>4, <1>5
<1>7. TypeOK'
  <2>1. node' \in [ToSet(CacheList') -> [key : Keys, val : Values]]
    <3>1. \A m \in ToSet(list) : node[m] \in [key : Keys, val : Values]
      BY <1>2 DEF IInv, TypeOK, RoomFor
    <3>2. [key |-> k, val |-> v] \in [key : Keys, val : Values]
      OBVIOUS
    <3>. QED  BY <1>1, <1>3, <3>1, <3>2
  <2>2. DOMAIN Data' \subseteq Keys /\ \A x \in DOMAIN Data' : Data'[x] \in Addresses
    BY <1>1, <1>2, <1>4, KeysAndNodes DEF RoomFor
  <2>3. Data' \in [DOMAIN Data' -> Addresses]
    BY <1>1, <2>2
  <2>4. Cardinality(DOMAIN Data') <= SizeLimit
    <3>1. /\ IsFiniteSet(DOMAIN data) /\ Cardinality(DOMAIN data) \in Nat
          /\ Cardinality(DOMAIN data) < SizeLimit
      BY <1>2 DEF RoomFor
    <3>2. Cardinality(DOMAIN data \cup {k}) = Cardinality(DOMAIN data) + 1
      BY <1>4, <3>1, FS_AddElement
    <3>. QED  BY <1>0, <1>4, <3>1, <3>2
  <2>. QED  BY <1>3, <2>1, <2>2, <2>3, <2>4 DEF TypeOK
<1>8. MapMatchesList'
  <2>1. \A x \in DOMAIN Data' : node'[Data'[x]].key = x
    BY <1>2, <1>4, <1>5, KeysAndNodes DEF RoomFor
  <2>2. ToSet(CacheList') = {Data'[x] : x \in DOMAIN Data'}
    <3>1. \A x \in DOMAIN Data' : Data'[x] \in ToSet(CacheList')
      BY <1>3, <1>4
    <3>2. ASSUME NEW m \in ToSet(CacheList')  PROVE \E x \in DOMAIN Data' : m = Data'[x]
      <4>1. m = n \/ \E x \in DOMAIN data : m = data[x]
        BY <1>2, <1>3 DEF RoomFor
      <4>. QED  BY <1>2, <1>4, <4>1 DEF RoomFor
    <3>. QED  BY <3>1, <3>2
  <2>. QED  BY <1>3, <2>1, <2>2 DEF MapMatchesList
<1>. QED  BY <1>6, <1>7, <1>8 DEF IInv

\* Every operation preserves the invariant, and leaves the nodes of the keys that
\* stay where they are.
LEMMA NextInvariant ==
  ASSUME IInv, [Next]_vars
  PROVE  /\ IInv'
         /\ \A k \in DOMAIN Data \cap DOMAIN Data' :
              /\ Data'[k] = Data[k]
              /\ node'[Data[k]] = node[Data[k]] \/ \E v \in Values : SetPresent(k, v)
<1>1. ASSUME NEW k \in Keys, TryGet(k)
      PROVE  IInv' /\ Data' = Data /\ node' = node
  BY <1>1, UseInvariant DEF TryGet, Present
<1>2. ASSUME NEW k \in Keys, NEW v \in Values, SetPresent(k, v)
      PROVE  /\ IInv' /\ Data' = Data
             /\ \A x \in DOMAIN Data : x # k => node'[Data[x]] = node[Data[x]]
  <2>1. /\ k \in DOMAIN Data /\ CacheList' = ToFront(CacheList, Data[k]) /\ Data' = Data
        /\ node' = [node EXCEPT ![Data[k]].val = v]
    BY <1>2 DEF SetPresent, Present, Target
  <2>2. \A x \in DOMAIN Data : x # k => node'[Data[x]] = node[Data[x]]
    BY <2>1, KeysAndNodes
  <2>. QED  BY <2>1, <2>2, UseInvariant
<1>3. CASE UNCHANGED vars
  BY <1>3 DEF vars, IInv, TypeOK, MapMatchesList
<1>4. ASSUME NEW k \in Keys, Erase(k)
      PROVE  IInv' /\ \A x \in DOMAIN Data' : Data'[x] = Data[x] /\ node'[Data[x]] = node[Data[x]]
  BY <1>4, EraseInvariant DEF Erase, Present
<1>. QED  BY <1>1, <1>2, <1>3, <1>4, SetAbsentInvariant DEF Next

\* The invariant holds for ever.
THEOREM Invariant == Spec => []IInv
<1>1. IInv /\ [Next]_vars => IInv'
  BY NextInvariant
<1>. QED  BY <1>1, InitInvariant, PTL DEF Spec

-----------------------------------------------------------------------------
\* The members keep their types, and the cache its limit.
THEOREM TypeCorrect == Spec => []TypeOK
<1>1. IInv => TypeOK
  BY DEF IInv
<1>. QED  BY <1>1, Invariant, PTL

\* Every position in the map is that of a live node with its key, and every node is
\* in the map: no operation goes through an iterator to a node that is gone.
THEOREM MapAlwaysMatchesList == Spec => []MapMatchesList
<1>1. IInv => MapMatchesList
  BY DEF IInv
<1>. QED  BY <1>1, Invariant, PTL

\* The pointer that TryGet returns stays the address of the key's value until the
\* key leaves the cache.
THEOREM PointersAlwaysStay == Spec => PointersStay
<1>1. IInv /\ [Next]_vars =>
        [\A k \in DOMAIN Data \cap DOMAIN Data' :
           /\ Data'[k] = Data[k]
           /\ \/ node'[Data[k]] = node[Data[k]]
              \/ \E v \in Values : SetPresent(k, v)]_vars
  BY NextInvariant
<1>. QED  BY <1>1, Invariant, PTL DEF Spec, PointersStay
-----------------------------------------------------------------------------
(***************************************************************************)
(* The refinement.  The age of a key in the policy, the number of keys     *)
(* used after it, is the position of its node in the list: the operations  *)
(* keep the list in the order of use.                                      *)
(***************************************************************************)
\* The instance brings the library's operators under names of its own: they are
\* the same operators.
LEMMA PolicyOperators == \A S : Policy!Cardinality(S) = Cardinality(S)
BY DEF Policy!Cardinality, Cardinality, Policy!IsFiniteSet, IsFiniteSet

\* The keys of D used after k, where list is the list and data the map.
UsedAfter(list, data, D, k) == Cardinality({y \in D : Before(list, data[y], data[k])})

\* The position of a node is the number of keys used after its own, and positions are
\* in the order of the list.
LEMMA PositionsOf ==
  ASSUME NEW list \in Seq(Addresses), IsInjective(list), NEW data,
         IsFiniteSet(DOMAIN data), ToSet(list) = {data[x] : x \in DOMAIN data},
         \A x, y \in DOMAIN data : data[x] = data[y] => x = y
  PROVE  /\ \A x \in DOMAIN data : /\ Place(list, data[x]) \in Nat
                                   /\ Place(list, data[x]) = UsedAfter(list, data, DOMAIN data, x)
         /\ \A x, y \in DOMAIN data :
              Place(list, data[x]) < Place(list, data[y]) <=> Before(list, data[x], data[y])
<1>1. \A x : x \in ToSet(list) <=> Contains(list, x)
  BY ContainsIsToSet
<1>2. /\ \A x \in DOMAIN data : Contains(list, data[x])
      /\ \A n : Contains(list, n) => \E x \in DOMAIN data : data[x] = n
  BY <1>1
<1>3. ASSUME NEW x \in DOMAIN data
      PROVE  /\ Place(list, data[x]) \in Nat
             /\ Place(list, data[x]) = UsedAfter(list, data, DOMAIN data, x)
  <2>1. Contains(list, data[x])
    BY <1>2
  <2>2. Place(list, data[x]) = Cardinality({y \in DOMAIN data : Before(list, data[y], data[x])})
    BY <1>2, <2>1, PlaceCounts
  <2>3. Place(list, data[x]) \in 0 .. Len(list) - 1
    BY <2>1, PlaceIs
  <2>. QED  BY <2>2, <2>3 DEF UsedAfter
<1>4. ASSUME NEW x \in DOMAIN data, NEW y \in DOMAIN data
      PROVE  Place(list, data[x]) < Place(list, data[y]) <=> Before(list, data[x], data[y])
  BY <1>2, PlacesInOrder
<1>. QED  BY <1>3, <1>4

\* The same of the cache, now and after a step.
LEMMA Positions ==
  /\ IInv => /\ \A x \in DOMAIN Data : Position(x) = UsedAfter(CacheList, Data, DOMAIN Data, x)
             /\ \A x \in DOMAIN Data : Position(x) \in Nat
             /\ \A x, y \in DOMAIN Data :
                  Position(x) < Position(y) <=> Before(CacheList, Data[x], Data[y])
  /\ IInv' => \A x \in DOMAIN Data' :
                Position(x)' = UsedAfter(CacheList', Data', DOMAIN Data', x)
<1>1. ASSUME IInv
      PROVE  /\ \A x \in DOMAIN Data : Position(x) = UsedAfter(CacheList, Data, DOMAIN Data, x)
             /\ \A x \in DOMAIN Data : Position(x) \in Nat
             /\ \A x, y \in DOMAIN Data :
                  Position(x) < Position(y) <=> Before(CacheList, Data[x], Data[y])
  <2>1. /\ CacheList \in Seq(Addresses) /\ IsInjective(CacheList)
        /\ ToSet(CacheList) = {Data[x] : x \in DOMAIN Data}
    BY <1>1 DEF IInv, TypeOK, MapMatchesList
  <2>2. IsFiniteSet(DOMAIN Data) /\ \A x, y \in DOMAIN Data : Data[x] = Data[y] => x = y
    BY <1>1, KeysAndNodes
  <2>3. \A x : Position(x) = Place(CacheList, Data[x])
    BY DEF Position, Place
  <2>. QED  BY <2>1, <2>2, <2>3, PositionsOf
<1>2. ASSUME IInv'
      PROVE  \A x \in DOMAIN Data' :
               Position(x)' = UsedAfter(CacheList', Data', DOMAIN Data', x)
  <2>1. /\ CacheList' \in Seq(Addresses) /\ IsInjective(CacheList')
        /\ ToSet(CacheList') = {Data'[x] : x \in DOMAIN Data'}
    BY <1>2 DEF IInv, TypeOK, MapMatchesList
  <2>2. IsFiniteSet(DOMAIN Data')
    BY <1>2, LruAssumption, FS_Subset DEF IInv, TypeOK
  <2>3. \A x, y \in DOMAIN Data' : Data'[x] = Data'[y] => x = y
    <3>1. \A x \in DOMAIN Data' : node'[Data'[x]].key = x
      BY <1>2 DEF IInv, MapMatchesList
    <3>. QED  BY <3>1
  <2>4. \A x : Position(x)' = Place(CacheList', Data'[x])
    BY DEF Position, Place
  <2>. QED  BY <2>1, <2>2, <2>3, <2>4, PositionsOf
<1>. QED  BY <1>1, <1>2

\* TryGet, Set: a key is used, and drop leaves.  The others keep their nodes and their
\* order, and come after it.
LEMMA UseIsPolicyUse ==
  ASSUME IInv, IInv', NEW k, NEW v, NEW drop, NEW kept,
         kept = (DOMAIN Data \ drop) \cup {k}, DOMAIN Data' = kept,
         \A x \in kept \ {k} : Data'[x] = Data[x] /\ node'[Data[x]].val = node[Data[x]].val,
         node'[Data'[k]].val = v,
         \A x, y \in kept : Before(CacheList', Data'[x], Data'[y]) <=>
                              y # k /\ (x = k \/ Before(CacheList, Data[x], Data[y]))
  PROVE  Policy!Use(k, v, drop)
<1> DEFINE store == [x \in DOMAIN Data |-> node[Data[x]].val]
           age   == [x \in DOMAIN Data |-> Position(x)]
           After(x) == {y \in kept \ {k} : age[y] < age[x]}
<1>1. /\ kept \ {k} \subseteq DOMAIN Data /\ k \in kept
      /\ IsFiniteSet(kept) /\ kept \subseteq Keys
  <2>1. kept \ {k} \subseteq DOMAIN Data /\ k \in kept
    OBVIOUS
  <2>2. kept \subseteq Keys
    BY DEF IInv, TypeOK
  <2>. QED  BY <2>1, <2>2, LruAssumption, FS_Subset
<1>2. [x \in kept |-> node'[Data'[x]].val] = [x \in kept |-> IF x = k THEN v ELSE store[x]]
  <2>1. \A x \in kept : node'[Data'[x]].val = IF x = k THEN v ELSE store[x]
    BY <1>1
  <2>. QED  BY <2>1
<1>3. \A x \in kept \ {k} : \A y \in kept \ {k} :
        age[y] < age[x] <=> Before(CacheList, Data[y], Data[x])
  BY <1>1, Positions
<1>4. \A x \in kept :
        Position(x)' = Cardinality({y \in kept : Before(CacheList', Data'[y], Data'[x])})
  BY Positions DEF UsedAfter
<1>5. Position(k)' = 0
  <2>1. {y \in kept : Before(CacheList', Data'[y], Data'[k])} = {}
    BY <1>1
  <2>. QED  BY <1>1, <1>4, <2>1, FS_EmptySet
<1>6. ASSUME NEW x \in kept \ {k}  PROVE Position(x)' = 1 + Cardinality(After(x))
  <2>1. {y \in kept : Before(CacheList', Data'[y], Data'[x])} = After(x) \cup {k}
    BY <1>1, <1>3
  <2>2. IsFiniteSet(After(x)) /\ k \notin After(x)
    BY <1>1, FS_Subset
  <2>3. Cardinality(After(x) \cup {k}) = Cardinality(After(x)) + 1 /\ Cardinality(After(x)) \in Nat
    BY <2>2, FS_AddElement, FS_CardinalityType
  <2>4. Position(x)' = Cardinality(After(x) \cup {k})
    BY <1>4, <2>1
  <2>. QED  BY <2>3, <2>4
<1>7. [x \in kept |-> Position(x)'] =
        [x \in kept |-> IF x = k THEN 0 ELSE 1 + Cardinality(After(x))]
  <2>1. \A x \in kept : Position(x)' = IF x = k THEN 0 ELSE 1 + Cardinality(After(x))
    BY <1>5, <1>6
  <2>. QED  BY <2>1, Zenon
<1>8. DOMAIN store = DOMAIN Data
  OBVIOUS
<1>. QED  BY <1>2, <1>7, <1>8, PolicyOperators, Zenon DEF Policy!Use

\* TryGet and the Set of a key that is there.
LEMMA UseRefines ==
  ASSUME IInv, NEW k \in DOMAIN Data, NEW v,
         CacheList' = ToFront(CacheList, Data[k]), Data' = Data,
         \/ node' = node /\ v = node[Data[k]].val
         \/ v \in Values /\ node' = [node EXCEPT ![Data[k]].val = v]
  PROVE  Policy!Use(k, v, {})
<1>1. IInv'
  BY UseInvariant
<1>2. /\ node'[Data[k]].val = v
      /\ \A x \in DOMAIN Data \ {k} : node'[Data[x]].val = node[Data[x]].val
  <2>1. node \in [ToSet(CacheList) -> [key : Keys, val : Values]]
    BY DEF IInv, TypeOK
  <2>2. \A x \in DOMAIN Data : Data[x] \in ToSet(CacheList)
    BY KeysAndNodes
  <2>3. \A x \in DOMAIN Data : Data[x] = Data[k] => x = k
    BY KeysAndNodes
  <2>. QED  BY <2>1, <2>2, <2>3
<1>3. \A x, y \in DOMAIN Data : Before(CacheList', Data[x], Data[y]) <=>
                                  y # k /\ (x = k \/ Before(CacheList, Data[x], Data[y]))
  <2>1. CacheList \in Seq(Addresses) /\ IsInjective(CacheList) /\ Data[k] \in Addresses
    BY KeysAndNodes DEF IInv, TypeOK, MapMatchesList
  <2>2. CacheList' = MovedToFront(CacheList, Data[k])
    BY DEF ToFront, MovedToFront
  <2>3. \A m, n : Before(CacheList', m, n)
                    <=> /\ n # Data[k]
                        /\ \/ m = Data[k] /\ Contains(CacheList, n)
                           \/ m # Data[k] /\ Before(CacheList, m, n)
    BY <2>1, <2>2, MovedToFrontProperties
  <2>4. \A x \in DOMAIN Data : Contains(CacheList, Data[x]) /\ (Data[x] = Data[k] <=> x = k)
    BY KeysAndNodes
  <2>. QED  BY <2>3, <2>4
<1>4. DOMAIN Data = (DOMAIN Data \ {}) \cup {k}
  OBVIOUS
<1>. QED  BY <1>1, <1>2, <1>3, <1>4, UseIsPolicyUse

\* The key of the last node is the policy's oldest, and the only one.
LEMMA LastIsOldest ==
  ASSUME IInv, CacheList # << >>
  PROVE  Policy!Oldest = {node[Last(CacheList)].key}
<1>1. PICK n, last : n = Last(CacheList) /\ last = node[n].key
  OBVIOUS
<1>2. CacheList \in Seq(Addresses) /\ IsInjective(CacheList)
  BY DEF IInv, TypeOK, MapMatchesList
<1>3. Contains(CacheList, n)
  BY <1>1, <1>2, PopBackProperties
<1>4. last \in DOMAIN Data /\ Data[last] = n
  BY <1>1, <1>3, KeysAndNodes
<1>5. ASSUME NEW x \in DOMAIN Data, x # last  PROVE Position(x) < Position(last)
  <2>1. Contains(CacheList, Data[x]) /\ Data[x] # n
    BY <1>4, <1>5, KeysAndNodes
  <2>2. Before(CacheList, Data[x], Data[last])
    BY <1>1, <1>2, <1>4, <2>1, LastIsLast
  <2>. QED  BY <1>4, <2>2, Positions
<1>6. \A x \in DOMAIN Data : Position(x) \in Nat
  BY Positions
<1> DEFINE age == [x \in DOMAIN Data |-> Position(x)]
<1>7. Policy!Oldest = {x \in DOMAIN Data : \A y \in DOMAIN Data : age[y] <= age[x]}
  BY DEF Policy!Oldest
<1>8. {x \in DOMAIN Data : \A y \in DOMAIN Data : age[y] <= age[x]} = {last}
  <2>1. \A x \in DOMAIN Data : age[x] = Position(x)
    OBVIOUS
  <2>. HIDE DEF age
  <2>2. \A y \in DOMAIN Data : age[y] <= age[last]
    BY <1>4, <1>5, <1>6, <2>1
  <2>3. ASSUME NEW x \in DOMAIN Data, x # last  PROVE ~(age[last] <= age[x])
    BY <1>4, <1>5, <1>6, <2>1, <2>3
  <2>. QED  BY <1>4, <2>2, <2>3
<1>. QED  BY <1>1, <1>7, <1>8

\* Set of a new key: where the cache is full the last node makes room, and its key is
\* the one the policy displaces.
LEMMA SetAbsentRefines ==
  ASSUME IInv, NEW k \in Keys, NEW v \in Values, SetAbsent(k, v)
  PROVE  Policy!Add(k, v)
<1>1. IInv' /\ SizeLimit > 0 /\ k \notin DOMAIN Data
  BY SetAbsentInvariant DEF SetAbsent, Present
<1>2. PICK drop : drop = IF Full THEN {node[Last(CacheList)].key} ELSE {}
  OBVIOUS
<1> DEFINE list == IF Full THEN Front(CacheList) ELSE CacheList
           data == IF Full THEN DataAfterEviction ELSE Data
<1>3. PICK n \in Addresses \ ToSet(list) :
        /\ CacheList' = <<n>> \o list
        /\ node' = [x \in ToSet(list) \cup {n} |->
                      IF x = n THEN [key |-> k, val |-> v] ELSE node[x]]
        /\ Data' = [x \in DOMAIN data \cup {k} |-> IF x = k THEN n ELSE data[x]]
  BY DEF SetAbsent
<1>4. RoomFor(list, data)
  BY <1>1, RoomMade
<1>. HIDE DEF list, data
<1>5. /\ DOMAIN Data' = DOMAIN data \cup {k} /\ Data'[k] = n /\ node'[n].val = v
      /\ \A x \in DOMAIN data : Data'[x] = Data[x] /\ Data[x] \in ToSet(list) /\ Data[x] # n
  BY <1>1, <1>3, <1>4 DEF RoomFor
<1>6. \A x \in DOMAIN data : node'[Data[x]].val = node[Data[x]].val
  BY <1>3, <1>5
<1>7. \A x, y \in DOMAIN Data' : Before(CacheList', Data'[x], Data'[y]) <=>
                                   y # k /\ (x = k \/ Before(CacheList, Data[x], Data[y]))
  <2>1. /\ list \in Seq(Addresses) /\ IsInjective(list) /\ n \in Addresses
        /\ \A m : m \in ToSet(list) <=> Contains(list, m)
    BY <1>3, <1>4, ContainsIsToSet DEF RoomFor
  <2>2. ~Contains(list, n)
    BY <1>3, <2>1
  <2>3. \A m, p : Before(CacheList', m, p) <=> (m = n /\ Contains(list, p)) \/ Before(list, m, p)
    BY <1>3, <2>1, <2>2, PushFrontOrder
  <2>4. \A m, p : Before(list, m, p) => Contains(list, m) /\ Contains(list, p)
    BY <2>1, BeforeContains
  <2>5. \A x, y \in DOMAIN data :
          Before(list, Data[x], Data[y]) <=> Before(CacheList, Data[x], Data[y])
    BY <1>4 DEF RoomFor
  <2>6. ASSUME NEW x \in DOMAIN Data', NEW y \in DOMAIN Data'
        PROVE  Before(CacheList', Data'[x], Data'[y]) <=>
                 y # k /\ (x = k \/ Before(CacheList, Data[x], Data[y]))
    <3>1. CASE y = k
      BY <1>5, <2>2, <2>3, <2>4, <3>1
    <3>2. CASE y # k /\ x = k
      BY <1>5, <2>1, <2>3, <3>2
    <3>3. CASE y # k /\ x # k
      BY <1>5, <2>3, <2>5, <3>3
    <3>. QED  BY <3>1, <3>2, <3>3
  <2>. QED  BY <2>6
<1>8. DOMAIN data = DOMAIN Data \ drop
  BY <1>4, <1>2 DEF RoomFor
<1>9. Policy!Use(k, v, drop)
  <2>1. k \notin DOMAIN data
    BY <1>1, <1>8
  <2>2. \A x \in DOMAIN Data' \ {k} : Data'[x] = Data[x] /\ node'[Data[x]].val = node[Data[x]].val
    BY <1>5, <1>6
  <2>3. PICK kept : kept = DOMAIN Data'
    OBVIOUS
  <2>4. kept = (DOMAIN Data \ drop) \cup {k} /\ node'[Data'[k]].val = v
    BY <1>5, <1>8, <2>3
  <2>. QED  BY <1>1, <1>7, <2>2, <2>3, <2>4, UseIsPolicyUse
<1>10. drop = IF Policy!Cardinality(DOMAIN Data) >= SizeLimit THEN Policy!Oldest ELSE {}
  <2>1. Full <=> Cardinality(DOMAIN Data) >= SizeLimit
    BY KeysAndNodes, LruAssumption DEF Full, IInv, TypeOK
  <2>2. Full => Policy!Oldest = {node[Last(CacheList)].key}
    BY <1>4, LastIsOldest DEF RoomFor
  <2>. QED  BY <1>2, <2>1, <2>2, PolicyOperators
<1>11. DOMAIN [x \in DOMAIN Data |-> node[Data[x]].val] = DOMAIN Data
  OBVIOUS
<1>. QED  BY <1>1, <1>9, <1>10, <1>11, Zenon DEF Policy!Add, Policy!Use

\* Erase: the others keep their nodes and their order.
LEMMA EraseRefines ==
  ASSUME IInv, NEW k \in DOMAIN Data, Erase(k)
  PROVE  Policy!Erase(k)
<1> DEFINE kept  == DOMAIN Data \ {k}
           store == [x \in DOMAIN Data |-> node[Data[x]].val]
           age   == [x \in DOMAIN Data |-> Position(x)]
           After(x) == {y \in kept : age[y] < age[x]}
<1>1. /\ IInv' /\ DOMAIN Data' = kept
      /\ \A x \in kept : Data'[x] = Data[x] /\ node'[Data[x]] = node[Data[x]]
  BY EraseInvariant DEF Erase, Without, Restrict
<1>2. [x \in kept |-> node'[Data'[x]].val] = [x \in kept |-> store[x]]
  <2>1. \A x \in kept : node'[Data'[x]].val = store[x]
    BY <1>1
  <2>. QED  BY <2>1
<1>3. \A x, y \in kept :
        Before(CacheList', Data[y], Data[x]) <=> Before(CacheList, Data[y], Data[x])
  <2>1. CacheList \in Seq(Addresses) /\ IsInjective(CacheList)
        /\ CacheList' = RemoveFirst(CacheList, Data[k])
    BY DEF IInv, TypeOK, MapMatchesList, Erase
  <2>2. \A m, n : Before(CacheList', m, n) <=>
                    m # Data[k] /\ n # Data[k] /\ Before(CacheList, m, n)
    BY <2>1, RemoveFirstOrder
  <2>. QED  BY <2>2, KeysAndNodes
<1>4. \A x, y \in kept : age[y] < age[x] <=> Before(CacheList, Data[y], Data[x])
  BY Positions
<1>5. ASSUME NEW x \in kept  PROVE Position(x)' = Cardinality(After(x))
  <2>1. Position(x)' = Cardinality({y \in kept : Before(CacheList', Data'[y], Data'[x])})
    BY <1>1, Positions DEF UsedAfter
  <2>2. {y \in kept : Before(CacheList', Data'[y], Data'[x])} = After(x)
    BY <1>1, <1>3, <1>4
  <2>. QED  BY <2>1, <2>2
<1>6. [x \in kept |-> Position(x)'] = [x \in kept |-> Cardinality(After(x))]
  <2>1. \A x \in kept : Position(x)' = Cardinality(After(x))
    BY <1>5
  <2>. QED  BY <2>1, Zenon
<1>7. DOMAIN store = DOMAIN Data
  OBVIOUS
<1>. QED  BY <1>1, <1>2, <1>6, <1>7, PolicyOperators, Zenon DEF Policy!Erase

\* The cache implements the abstract LRU cache.
THEOREM ImplementsLruPolicy == Spec => ImplementsPolicy
<1>1. Init => Policy!Init
  <2>. SUFFICES ASSUME Init  PROVE Policy!Init
    OBVIOUS
  <2>1. DOMAIN Data = {}
    BY DEF Init
  <2>. QED  BY <2>1 DEF Policy!Init
<1>2. ASSUME IInv, [Next]_vars  PROVE [Policy!Next]_Policy!vars
  <2>1. ASSUME NEW k \in Keys, TryGet(k)  PROVE Policy!Read(k)
    <3>1. /\ k \in DOMAIN Data /\ CacheList' = ToFront(CacheList, Data[k])
          /\ Data' = Data /\ node' = node
      BY <2>1 DEF TryGet, Present
    <3>2. Policy!Use(k, node[Data[k]].val, {})
      BY <1>2, <3>1, UseRefines
    <3>. QED  BY <3>1, <3>2 DEF Policy!Read
  <2>2. ASSUME NEW k \in Keys, NEW v \in Values, SetPresent(k, v)  PROVE Policy!Write(k, v)
    <3>1. /\ k \in DOMAIN Data /\ CacheList' = ToFront(CacheList, Data[k])
          /\ Data' = Data /\ node' = [node EXCEPT ![Data[k]].val = v]
      BY <2>2 DEF SetPresent, Present, Target
    <3>2. Policy!Use(k, v, {})
      BY <1>2, <3>1, UseRefines
    <3>. QED  BY <3>1, <3>2 DEF Policy!Write
  <2>3. ASSUME NEW k \in Keys, NEW v \in Values, SetAbsent(k, v)  PROVE Policy!Add(k, v)
    BY <1>2, <2>3, SetAbsentRefines
  <2>4. ASSUME NEW k \in Keys, Erase(k)  PROVE Policy!Erase(k)
    BY <1>2, <2>4, EraseRefines DEF Erase, Present
  <2>5. CASE UNCHANGED vars
    BY <2>5 DEF vars, Policy!vars, Position
  <2>6. CASE Next
    BY <2>1, <2>2, <2>3, <2>4, <2>6 DEF Next, Policy!Next
  <2>. QED  BY <1>2, <2>5, <2>6
<1>. QED  BY <1>1, <1>2, Invariant, PTL DEF Spec, ImplementsPolicy, Policy!Spec
=============================================================================
