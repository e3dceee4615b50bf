---------------------------- MODULE CacheHistory ----------------------------
(***************************************************************************)
(* Cache with two history variables, to say what LRU and LFU are for:      *)
(* used[k], when key k was last stored or hit, and hits[k], how often it   *)
(* was hit since it was last stored.  The program keeps neither; the       *)
(* policy's cells only approximate them.                                   *)
(***************************************************************************)
EXTENDS Cache

VARIABLES used, hits

hvars == <<vars, used, hits>>

HInit ==
    /\ Init
    /\ used = [k \in Key |-> 0]
    /\ hits = [k \in Key |-> 0]

(* Each history is kept under the policy whose property needs it *)
Used(k) == IF policy = "lru" THEN [used EXCEPT ![k] = clock] ELSE used

HStore(q, c, mode) ==
    /\ AnyStore(q, c, mode)
    /\ used' = Used(<<q, c>>)
    /\ hits' = [hits EXCEPT ![<<q, c>>] = 0]

HLookup(q, c, mode) ==
    /\ "lookup" \in Workload
    /\ \E r \in Search(q, c, mode) :
         /\ Hit(r)
         /\ used' = Used(r.key)
         /\ hits' = IF policy = "lfu" THEN [hits EXCEPT ![r.key] = @ + 1] ELSE hits

HNext ==
    \/ \E q \in Query, c \in Context, mode \in Modes :
          HStore(q, c, mode) \/ HLookup(q, c, mode)
    \/ /\ Withdraw \/ Tick
       /\ UNCHANGED <<used, hits>>

HSpec == HInit /\ [][HNext]_hvars

(* What the policy of the cache minimises *)
History == IF policy = "lru" THEN used ELSE hits

(* What the policies go by is the history itself: the cell of a key holds, *)
(* under LRU, the moment of its last store or hit, and under LFU its hits  *)
(* since it was last stored; and the policy tracks exactly what is stored  *)
(* (lru.py:30, 47, lfu.py:30, 46, storage_ops.py:188, lookup.py:272-274).  *)
HistoryInv ==
    /\ IInv
    /\ used \in [Key -> Nat] /\ hits \in [Key -> Nat]
    /\ \A k \in Key, e \in tracked : e.id = EntryId(k) => e.val = History[k]

Evicts == rows' \ rows # {} /\ rows \ rows' # {}

(* Under LRU a store deletes a key that no kept key has gone unused longer *)
(* than.                                                                   *)
EvictsLeastRecentlyUsed ==
    [][Evicts /\ policy = "lru" =>
         \A gone \in rows \ rows', kept \in rows \cap rows' :
            used[gone.key] <= used[kept.key]]_hvars

(* Under LFU a store deletes a key that no kept key has had fewer hits     *)
(* than since it was stored.                                               *)
EvictsLeastFrequentlyUsed ==
    [][Evicts /\ policy = "lfu" =>
         \A gone \in rows \ rows', kept \in rows \cap rows' :
            hits[gone.key] <= hits[kept.key]]_hvars
=============================================================================
