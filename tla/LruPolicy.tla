------------------------------- MODULE LruPolicy ------------------------------
(***************************************************************************)
(* What an LRU cache promises: it maps at most SizeLimit keys to the last  *)
(* value stored under them, and a new key that finds it full displaces the *)
(* key whose last use is the oldest.  There is no list and there are no    *)
(* nodes here: a key has the number of keys used since it was.             *)
(***************************************************************************)
EXTENDS Integers, FiniteSets

CONSTANTS Keys, Values, SizeLimit

VARIABLES store,  \* key -> value
          age     \* key -> how many of the keys of store have been used after it

vars == <<store, age>>

Init == store = << >> /\ age = << >>

\* Put k -> v in place of the entries of drop, k being the key used last.
Use(k, v, drop) ==
  LET kept == (DOMAIN store \ drop) \cup {k}
  IN  /\ store' = [x \in kept |-> IF x = k THEN v ELSE store[x]]
      /\ age' = [x \in kept |->
                   IF x = k THEN 0 ELSE 1 + Cardinality({y \in kept \ {k} : age[y] < age[x]})]

Read(k) == k \in DOMAIN store /\ Use(k, store[k], {})

Write(k, v) == k \in DOMAIN store /\ Use(k, v, {})

\* The key to displace: every other key has been used after it.
Oldest == {k \in DOMAIN store : \A x \in DOMAIN store : age[x] <= age[k]}

Add(k, v) ==
  /\ k \notin DOMAIN store
  /\ Use(k, v, IF Cardinality(DOMAIN store) >= SizeLimit THEN Oldest ELSE {})

Erase(k) ==
  /\ k \in DOMAIN store
  /\ LET kept == DOMAIN store \ {k}
     IN  /\ store' = [x \in kept |-> store[x]]
         /\ age' = [x \in kept |-> Cardinality({y \in kept : age[y] < age[x]})]

Next ==
  \E k \in Keys :
    Read(k) \/ Erase(k) \/ \E v \in Values : Write(k, v) \/ Add(k, v)

Spec == Init /\ [][Next]_vars
=============================================================================
