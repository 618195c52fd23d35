----------------------------- MODULE BoundedMap -----------------------------
(***************************************************************************)
(* What the blocking form of LRWCache promises its user: a map that never  *)
(* holds more than Capacity entries and from which an entry may go at any  *)
(* time (its TTL passed, or it was taken out by GetAndRemove).  Waiting    *)
(* for room is the absence of a Put step.                                  *)
(***************************************************************************)
EXTENDS Integers, FiniteSets

CONSTANTS Keys,      \* the keys, of type K in LRWCache[K, V]
          Vals,      \* the stored entries
          Capacity,  \* the bound on the number of entries
          NoEntry    \* marks a key that has no entry

VARIABLE map         \* key -> entry, or NoEntry

Present == {k \in Keys : map[k] # NoEntry}

Init == map = [k \in Keys |-> NoEntry]

\* Storing an entry, possibly over an older one of the same key.
Put(k, v) ==
  /\ Cardinality(Present \cup {k}) <= Capacity
  /\ map' = [map EXCEPT ![k] = v]

Drop(k) ==
  /\ map[k] # NoEntry
  /\ map' = [map EXCEPT ![k] = NoEntry]

Next ==
  \E k \in Keys : Drop(k) \/ \E v \in Vals : Put(k, v)

Spec == Init /\ [][Next]_map
=============================================================================
