------------------------------- MODULE LfuPolicy ------------------------------
(***************************************************************************)
(* What an LFU cache promises (LRUCache/README.md, version 2): it maps at  *)
(* most limit keys to the last value stored under them, and a new key      *)
(* that finds it full displaces, among the keys used least often, the one  *)
(* whose last use is the oldest.  There are no buckets and no MinFreq here:*)
(* the victim is found by looking at every key.                            *)
(***************************************************************************)
EXTENDS Integers, Sequences, FiniteSets, SequencesExt

CONSTANTS Keys, Values

VARIABLES store,    \* key -> [value, freq]
          recency,  \* the keys of store, the one used last at the front
          limit     \* how many keys it may hold, which never changes

vars == <<store, recency, limit>>

Init == store = << >> /\ recency = << >> /\ limit \in Nat

\* The recency order after a use of k.
Promote(order, k) == <<k>> \o RemoveFirst(order, k)

\* Every key's frequency is at least f.
NoneRarer(f) == \A k \in DOMAIN store : f <= store[k].freq

\* The position in recency of the key to displace.
VictimPosition ==
  Max({i \in 1..Len(recency) : NoneRarer(store[recency[i]].freq)})

\* A use of a stored key, which may replace its value.
Use(k, v) ==
  /\ k \in DOMAIN store
  /\ store' = [store EXCEPT ![k] = [value |-> v, freq |-> @.freq + 1]]
  /\ recency' = Promote(recency, k)

Read(k) == k \in DOMAIN store /\ Use(k, store[k].value)

Write(k, v) == Use(k, v)

\* A new key enters with frequency 1, in place of the victim if there is no room.
Add(k, v) ==
  /\ limit > 0 /\ k \notin DOMAIN store
  /\ LET full == Cardinality(DOMAIN store) >= limit
         kept == IF full THEN DOMAIN store \ {recency[VictimPosition]} ELSE DOMAIN store
     IN  /\ store' = [x \in kept \cup {k} |->
                        IF x = k THEN [value |-> v, freq |-> 1] ELSE store[x]]
         /\ recency' = Promote(IF full THEN RemoveAt(recency, VictimPosition)
                               ELSE recency, k)

Erase(k) ==
  /\ k \in DOMAIN store
  /\ store' = Restrict(store, DOMAIN store \ {k})
  /\ recency' = RemoveFirst(recency, k)

Next ==
  /\ limit' = limit
  /\ \E k \in Keys :
       \/ Read(k)
       \/ Erase(k)
       \/ \E v \in Values : Write(k, v) \/ Add(k, v)

Spec == Init /\ [][Next]_vars
=============================================================================
