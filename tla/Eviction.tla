------------------------------ MODULE Eviction ------------------------------
(***************************************************************************)
(* The eviction policies of reminiscence/eviction: FIFOPolicy (a list of   *)
(* entry ids), LRUPolicy (a dict from id to time of last use) and          *)
(* LFUPolicy (a dict from id to number of hits).                           *)
(*                                                                         *)
(* All three are one set of cells [id, val, at].  "at" is the moment the   *)
(* cell was created, so it carries the order of the list, or of the keys   *)
(* of the dict; "val" is what the policy minimises (always 0 for FIFO).    *)
(* The list may hold an id more than once, a dict may not.                 *)
(***************************************************************************)
EXTENDS Integers, FiniteSets

(* config.eviction_policy; the first argument of the operators below *)
Policy == {"fifo", "lru", "lfu"}

Ids(cells) == {e.id : e \in cells}

CellsOf(cells, id) == {e \in cells : e.id = id}

(* dict[id] = val: a key already present keeps its place *)
Put(cells, id, val, now) ==
    IF id \in Ids(cells)
    THEN {IF e.id = id THEN [e EXCEPT !.val = val] ELSE e : e \in cells}
    ELSE cells \cup {[id |-> id, val |-> val, at |-> now]}

(* Mutant of OnInsert: a dict that appends, as the list of FIFO does *)
OnInsertAppends(p, cells, id, now) ==
    cells \cup {[id |-> id, val |-> IF p = "lru" THEN now ELSE 0, at |-> now]}

OnInsert(p, cells, id, now) ==
    CASE p = "fifo" -> cells \cup {[id |-> id, val |-> 0, at |-> now]}
      [] p = "lru"  -> Put(cells, id, now, now)
      [] p = "lfu"  -> Put(cells, id, 0, now)

(* Mutant of OnAccess: a hit goes unnoticed *)
OnAccessNothing(p, cells, id, now) == cells

(* LRU and LFU start tracking an id they did not know *)
OnAccess(p, cells, id, now) ==
    CASE p = "fifo" -> cells
      [] p = "lru"  -> Put(cells, id, now, now)
      [] p = "lfu"  -> IF id \in Ids(cells)
                            THEN {IF e.id = id THEN [e EXCEPT !.val = @ + 1] ELSE e
                                    : e \in cells}
                            ELSE Put(cells, id, 1, now)

(* Mutant of Victims: the first cell, whatever its value *)
VictimsFirst(cells) == {e \in cells : \A f \in cells : e.at <= f.at}

(* The candidates of select_victim: least val, ties to the earliest cell. *)
(* The set is empty exactly when select_victim raises ValueError.         *)
Victims(cells) ==
    {e \in cells : \A f \in cells : \/ e.val < f.val
                                    \/ e.val = f.val /\ e.at <= f.at}

(* on_evict(id) called times[id] times for each id: every call drops the   *)
(* first cell of that id, if there is one.                                 *)
OnEvictMany(cells, times) ==
    {e \in cells :
        Cardinality({f \in CellsOf(cells, e.id) : f.at <= e.at}) > times[e.id]}

OnEvict(cells, id) == OnEvictMany(cells, [i \in Ids(cells) |-> IF i = id THEN 1 ELSE 0])

=============================================================================
