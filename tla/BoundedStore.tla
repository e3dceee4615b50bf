---------------------------- MODULE BoundedStore ----------------------------
(***************************************************************************)
(* What a cache with max_entries promises, whatever its eviction policy:   *)
(* entries are added one at a time; an addition that finds the store below *)
(* its capacity removes nothing, and one that finds it full first removes  *)
(* the entries of exactly one key; anything else only removes.             *)
(***************************************************************************)
EXTENDS Integers, FiniteSets

CONSTANTS
    Entry,          \* entries, records with a field "key"
    Capacity        \* 0: no limit

VARIABLE entries

Limited == Capacity # 0 /\ Cardinality(entries) >= Capacity

Add(e) ==
    /\ ~Limited
    /\ entries' = entries \cup {e}

Replace(e) ==
    /\ Limited
    /\ \E victim \in entries :
          entries' = {x \in entries : x.key # victim.key} \cup {e}

Drop == \E gone \in SUBSET entries : entries' = entries \ gone

Init == entries = {}

Next ==
    \/ \E e \in Entry : Add(e) \/ Replace(e)
    \/ Drop

Spec == Init /\ [][Next]_entries
=============================================================================
