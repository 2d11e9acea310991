------------------------------- MODULE TLruCache ------------------------------
(***************************************************************************)
(* The single-threaded LRU cache, LRUCache/TLruCache.h: a std::list of     *)
(* nodes, the one used last at the front, and a map from keys to positions *)
(* in it.  A node has an address, which is what an iterator and the        *)
(* pointers that TryGet returns refer to; an address can be used again     *)
(* once its node is gone.  Exist, and the early returns of the other       *)
(* operations, change nothing.                                             *)
(***************************************************************************)
EXTENDS Integers, Sequences, FiniteSets, SequencesExt

CONSTANTS Keys, Values,
          SizeLimit,  \* the constructor's argument
          Addresses   \* where nodes may be

ASSUME LruAssumption ==
  /\ SizeLimit \in Nat /\ IsFiniteSet(Keys)
  /\ IsFiniteSet(Addresses) /\ SizeLimit <= Cardinality(Addresses)

VARIABLES CacheList,  \* the addresses of the nodes, front first
          node,       \* address -> [key, val], for the nodes of the list
          Data        \* key -> address

vars == <<CacheList, node, Data>>

Init == CacheList = << >> /\ node = << >> /\ Data = << >>

Present(k) == k \in DOMAIN Data

\* Mutant: one key more than the limit is let in.
FullOffByOne == Cardinality(DOMAIN Data) = SizeLimit + 1

\* Data.size() == SizeLimit
Full == Cardinality(DOMAIN Data) = SizeLimit

\* Mutant: the node stays where it is.
ToFrontNever(list, n) == list

\* CacheList.splice(CacheList.begin(), CacheList, n): the node itself moves.
ToFront(list, n) == <<n>> \o RemoveFirst(list, n)

Without(map, x) == Restrict(map, DOMAIN map \ {x})

-----------------------------------------------------------------------------
\* TryGet of a key that is there; it returns the address of the value.
TryGet(k) ==
  /\ Present(k)
  /\ CacheList' = ToFront(CacheList, Data[k])
  /\ UNCHANGED <<node, Data>>

\* Mutant: the last node, not that of the key, gets the value.
TargetLast(k) == Last(CacheList)

\* The node that a Set of a key that is there writes to.
Target(k) == Data[k]

SetPresent(k, v) ==
  /\ SizeLimit > 0
  /\ Present(k)
  /\ node' = [node EXCEPT ![Target(k)].val = v]
  /\ CacheList' = ToFront(CacheList, Data[k])
  /\ UNCHANGED Data

\* Mutant: the wrong end of the list.
DataAfterEvictionOfFirst == Without(Data, node[Head(CacheList)].key)

\* Data.erase(lastNode.key)
DataAfterEviction == Without(Data, node[Last(CacheList)].key)

\* Set of a new key: its node is made at any free address, that of the node just
\* evicted included.
SetAbsent(k, v) ==
  /\ SizeLimit > 0
  /\ ~Present(k)
  /\ LET list == IF Full THEN Front(CacheList) ELSE CacheList
         data == IF Full THEN DataAfterEviction ELSE Data
     IN  \E n \in Addresses \ ToSet(list) :
           /\ CacheList' = <<n>> \o list
           /\ node' = [x \in ToSet(list) \cup {n} |->
                         IF x = n THEN [key |-> k, val |-> v] ELSE node[x]]
           /\ Data' = [x \in DOMAIN data \cup {k} |-> IF x = k THEN n ELSE data[x]]

\* Erase of a key that is there.
Erase(k) ==
  /\ Present(k)
  /\ CacheList' = RemoveFirst(CacheList, Data[k])
  /\ node' = Without(node, Data[k])
  /\ Data' = Without(Data, k)

Next ==
  \E k \in Keys :
    TryGet(k) \/ Erase(k) \/ \E v \in Values : SetPresent(k, v) \/ SetAbsent(k, v)

Spec == Init /\ [][Next]_vars

-----------------------------------------------------------------------------
(***************************************************************************)
(* Properties.                                                             *)
(***************************************************************************)

\* The types, and the limit, which the constructor has reserved the map for.
TypeOK ==
  /\ CacheList \in Seq(Addresses)
  /\ node \in [ToSet(CacheList) -> [key : Keys, val : Values]]
  /\ DOMAIN Data \subseteq Keys /\ Data \in [DOMAIN Data -> Addresses]
  /\ Cardinality(DOMAIN Data) <= SizeLimit

\* The map and the list describe the same cache: every position in the map is that
\* of a live node, which has that key, and every node is in the map, at one place
\* of the list.  So no operation goes through an iterator to a node that is gone.
MapMatchesList ==
  /\ IsInjective(CacheList)
  /\ ToSet(CacheList) = {Data[k] : k \in DOMAIN Data}
  /\ \A k \in DOMAIN Data : node[Data[k]].key = k

\* The pointer that TryGet has returned for k stays the address of the value of k
\* until k leaves the cache, whatever is read, stored, evicted or erased meanwhile.
\* Only a Set of k changes what is there.
PointersStay ==
  [][\A k \in DOMAIN Data \cap DOMAIN Data' :
       /\ Data'[k] = Data[k]
       /\ \/ node'[Data[k]] = node[Data[k]]
          \/ \E v \in Values : SetPresent(k, v)]_vars

\* The position of k in the list, from 0.
Position(k) == CHOOSE i \in 0 .. Len(CacheList) - 1 : CacheList[i + 1] = Data[k]

\* The cache is an LRU cache: each operation is one of the policy's and evicts the
\* key unused for longest.
Policy ==
  INSTANCE LruPolicy
    WITH store <- [k \in DOMAIN Data |-> node[Data[k]].val],
         age   <- [k \in DOMAIN Data |-> Position(k)]
ImplementsPolicy == Policy!Spec
=============================================================================
