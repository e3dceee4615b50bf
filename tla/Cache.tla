-------------------------------- MODULE Cache --------------------------------
(***************************************************************************)
(* The cache as one caller sees it: operations/storage_ops.py, lookup.py,  *)
(* invalidation.py and maintenance.py over storage/lancedb.py and the      *)
(* eviction policy.  Each action is one whole call.  The interleaving of   *)
(* calls of several threads is the subject of CacheThreads.                *)
(*                                                                         *)
(* The state is the rows of the two tables, the cells of the eviction      *)
(* policy, which policy it is, and the clock.  Metrics and logging are     *)
(* left out; a call that only touches them (a miss, a rejected error       *)
(* result, a query-based invalidate) is a stuttering step.                 *)
(***************************************************************************)
EXTENDS Sequences, EntryIds, Eviction

CONSTANTS
    None,           \* Python's None
    Modes,          \* query modes the client uses: "exact", "semantic", "auto"
    AutoExact,      \* queries for which should_use_exact_mode answers True
    Similarity,     \* Similarity[q, r]: how close the embeddings of q and r are
    Threshold,      \* similarity_threshold, on the scale of Similarity
    MaxEntries,     \* config.max_entries (0 or None: no limit)
    TTL,            \* config.ttl_seconds, in ticks, or None
    Serializable,   \* whether results serialise: {TRUE} or BOOLEAN
    LookupFails,    \* whether a lookup may fail, and so count as a miss
    Policies,       \* values of config.eviction_policy to consider
    Workload,       \* names of the operations the client calls
    MaxClock,       \* bound on the clock, hence on stores and ticks
    MaxFreq,        \* bound on the LFU counters
    MaxBatch        \* bound on the length of a batch

Operations ==
    {"store", "store_on_miss", "store_batch", "store_aborted", "lookup",
     "invalidate_context", "invalidate_age", "invalidate_bulk", "cleanup_expired", "clear",
     "clear_all", "restart"}

ASSUME CacheAssumption ==
    /\ Modes \subseteq {"exact", "semantic", "auto"}
    /\ MaxEntries \in Nat
    /\ None \notin Nat
    /\ TTL \in Nat \cup {None}
    /\ Policies \subseteq Policy
    /\ Workload \subseteq Operations
    /\ Serializable \subseteq BOOLEAN
    /\ LookupFails \in BOOLEAN
    /\ MaxClock \in Nat
    /\ MaxFreq \in Nat
    /\ MaxBatch \in Nat

VARIABLES
    rows,           \* rows of exact_table and semantic_table
    tracked,        \* cells of the eviction policy
    clock,          \* time.time(), in ticks
    policy          \* config.eviction_policy: chosen once

vars == <<rows, tracked, clock, policy>>

Table == {"exact", "semantic"}
Row == [key : Key, table : Table, ts : Nat]

(* Mutant of RowId: the name is not cut *)
RowKey(r) == r.key

RowId(r) == EntryId(r.key)

-----------------------------------------------------------------------------
(* Reading the tables *)

(* "auto" is resolved by a heuristic on the query text alone *)
TableOf(q, mode) ==
    IF mode = "exact" \/ (mode = "auto" /\ q \in AutoExact) THEN "exact" ELSE "semantic"

Age(r) == clock - r.ts

Expired(r) == TTL # None /\ Age(r) > TTL

SearchExact(q, c) == {r \in rows : r.table = "exact" /\ r.key = <<q, c>>}

SearchSemantic(q, c) ==
    LET near == {r \in rows : r.table = "semantic" /\ r.key[2] = c}
        sim(r) == Similarity[<<q, r.key[1]>>]
    IN  {r \in near : sim(r) >= Threshold /\ \A s \in near : sim(s) <= sim(r)}

(* The rows that search(..., limit=1) may return: the query states no      *)
(* order, so any of the equally good rows.  {} is a miss.                  *)
Search(q, c, mode) ==
    IF TableOf(q, mode) = "exact" THEN SearchExact(q, c) ELSE SearchSemantic(q, c)

-----------------------------------------------------------------------------
(* Deleting rows *)

(* Mutant of DeleteById: the rows of the whole context go *)
DeleteContextOf(k) == {r \in rows : r.key[2] # k[2]}

(* delete_by_id removes every row of the key, in both tables *)
DeleteById(k) == {r \in rows : r.key # k}

(* on_evict is called once for each row of gone *)
Forget(gone) ==
    OnEvictMany(tracked,
        [id \in Ids(tracked) |-> Cardinality({r \in gone : RowId(r) = id})])

First(S) == {r \in S : \A s \in S : r.ts <= s.ts}

(* The row _evict_one finds for a victim: the first of the table that has  *)
(* any.  {} if neither has.                                                *)
Located(id) ==
    LET In(t) == {r \in rows : r.table = t /\ r.key \in Resolves(id)}
    IN  IF In("exact") # {} THEN First(In("exact")) ELSE First(In("semantic"))

Unchanged == [rows |-> rows, tracked |-> tracked]

(* Mutant of EvictionsOf: every row the search finds is deleted *)
EvictionsOfMatches(id) ==
    {[rows |-> {r \in rows : r.key \notin Resolves(id)}, tracked |-> OnEvict(tracked, id)]}

(* _evict_one: with no victim (ValueError), or with a victim that no row   *)
(* answers to, the call gives up and the victim stays tracked.             *)
EvictionsOf(id) ==
    IF Located(id) = {}
    THEN {Unchanged}
    ELSE {[rows |-> DeleteById(r.key), tracked |-> OnEvict(tracked, id)] : r \in Located(id)}

Evictions ==
    IF tracked = {}
    THEN {Unchanged}
    ELSE UNION {EvictionsOf(v.id) : v \in Victims(tracked)}

(* Mutant of Full: one row too late *)
FullLate == MaxEntries # 0 /\ Cardinality(rows) > MaxEntries

Full == MaxEntries # 0 /\ Cardinality(rows) >= MaxEntries

MakeRoom == IF Full THEN Evictions ELSE {Unchanged}

-----------------------------------------------------------------------------
Init ==
    /\ rows = {}
    /\ tracked = {}
    /\ clock = 1
    /\ policy \in Policies

(* backend.add: when a result cannot be serialised it returns silently,    *)
(* and adds none of the rows                                               *)
Added(new, serializes) == IF serializes THEN new ELSE {}

(* store: evict if full, add the row, tell the policy, be it added or not *)
StoreEntry(q, c, mode, serializes) ==
    /\ clock < MaxClock
    /\ LET row == [key |-> <<q, c>>, table |-> TableOf(q, mode), ts |-> clock]
       IN  \E room \in MakeRoom :
              /\ rows' = room.rows \cup Added({row}, serializes)
              /\ tracked' = OnInsert(policy, room.tracked, RowId(row), clock)
    /\ clock' = clock + 1
    /\ UNCHANGED policy

Store(q, c, mode, serializes) ==
    /\ "store" \in Workload
    /\ StoreEntry(q, c, mode, serializes)

(* lookup answers that there is nothing: no row was found, an expired one  *)
(* was, or something failed - the embedder, the search, reading the row    *)
(* back - and the exception was swallowed.                                 *)
Misses(q, c, mode) ==
    \/ Search(q, c, mode) = {}
    \/ \E r \in Search(q, c, mode) : Expired(r)
    \/ LookupFails

(* The cycle of the decorator with batch_mode off: store what a lookup has *)
(* just missed                                                             *)
StoreOnMiss(q, c, mode, serializes) ==
    /\ "store_on_miss" \in Workload
    /\ Misses(q, c, mode)
    /\ StoreEntry(q, c, mode, serializes)

(* A store whose query cannot be embedded: the exception is swallowed when *)
(* the room has already been made                                          *)
StoreAborted(q, mode) ==
    /\ "store_aborted" \in Workload
    /\ TableOf(q, mode) = "semantic"
    /\ \E room \in MakeRoom : rows' = room.rows /\ tracked' = room.tracked
    /\ UNCHANGED <<clock, policy>>

(* store_batch adds its rows and does nothing else.  Each entry has a      *)
(* metadata dict of its own.                                               *)
StoreBatch(batch, mode, serializes) ==
    /\ "store_batch" \in Workload
    /\ clock + Len(batch) <= MaxClock
    /\ LET new == {[key |-> batch[i], table |-> TableOf(batch[i][1], mode), ts |-> clock + i - 1]
                     : i \in DOMAIN batch}
       IN  rows' = rows \cup Added(new, serializes)
    /\ clock' = clock + Len(batch)
    /\ UNCHANGED <<tracked, policy>>

(* _process_hit on the row the search returned *)
Hit(r) ==
    /\ ~Expired(r)
    /\ \A e \in tracked : policy = "lfu" => e.val < MaxFreq
    /\ tracked' = OnAccess(policy, tracked, RowId(r), clock)
    /\ UNCHANGED <<rows, clock, policy>>

(* lookup, and each entry of lookup_batch; check_availability only reads *)
Lookup(q, c, mode) ==
    /\ "lookup" \in Workload
    /\ \E r \in Search(q, c, mode) : Hit(r)

Remove(gone) ==
    /\ rows' = rows \ gone
    /\ tracked' = Forget(gone)
    /\ UNCHANGED <<clock, policy>>

(* Mutants: invalidate does not tell the policy *)
InvalidateContextSilently(c) ==
    /\ "invalidate_context" \in Workload
    /\ rows' = {r \in rows : r.key[2] # c}
    /\ UNCHANGED <<tracked, clock, policy>>

InvalidateAgeSilently(age) ==
    /\ "invalidate_age" \in Workload
    /\ rows' = {r \in rows : r.ts > clock - age}
    /\ UNCHANGED <<tracked, clock, policy>>

InvalidateContext(c) ==
    /\ "invalidate_context" \in Workload
    /\ Remove({r \in rows : r.key[2] = c})

InvalidateAge(age) ==
    /\ "invalidate_age" \in Workload
    /\ Remove({r \in rows : r.ts <= clock - age})

(* A bulk pattern selects queries, contexts and, when an age is given, the *)
(* rows older than it.                                                     *)
Matched(qs, cs, age) ==
    {r \in rows : /\ r.key[1] \in qs
                  /\ r.key[2] \in cs
                  /\ age # None => Age(r) > age}

(* Mutant of InvalidateBulk: the policy forgets the newer rows as well *)
InvalidateBulkForgets(qs, cs, age) ==
    /\ "invalidate_bulk" \in Workload
    /\ LET matched == Matched(qs, cs, age)
       IN  /\ matched # {}
           /\ rows' = {r \in rows : \A m \in matched : r.key # m.key}
           /\ tracked' = Forget(Matched(qs, cs, None))
    /\ UNCHANGED <<clock, policy>>

InvalidateBulk(qs, cs, age) ==
    /\ "invalidate_bulk" \in Workload
    /\ LET matched == Matched(qs, cs, age)
       IN  /\ matched # {}
           /\ rows' = {r \in rows : \A m \in matched : r.key # m.key}
           /\ tracked' = Forget(matched)
    /\ UNCHANGED <<clock, policy>>

CleanupExpired ==
    /\ "cleanup_expired" \in Workload
    /\ TTL # None
    /\ Remove({r \in rows : r.ts <= clock - TTL})

(* Reminiscence.clear: the tables only *)
Clear ==
    /\ "clear" \in Workload
    /\ rows' = {}
    /\ UNCHANGED <<tracked, clock, policy>>

(* clear_all empties the dicts of LRU and LFU; the list of FIFO is named   *)
(* "queue", not "order", and is left as it is.                             *)
ClearAll ==
    /\ "clear_all" \in Workload
    /\ rows' = {}
    /\ tracked' = IF policy = "fifo" THEN tracked ELSE {}
    /\ UNCHANGED <<clock, policy>>

(* Mutants of Synced: the other table is read; the order is lost *)
SyncedExact ==
    {[id |-> RowId(r), val |-> 0, at |-> r.ts] : r \in {s \in rows : s.table = "exact"}}

SyncedUnordered ==
    {[id |-> RowId(r), val |-> 0, at |-> clock] : r \in {s \in rows : s.table = "semantic"}}

(* A new Reminiscence over the stored rows: _sync_eviction_state reads the *)
(* semantic table, in insertion order.                                     *)
Synced ==
    LET seen == {r \in rows : r.table = "semantic"}
        Same(r) == {s \in seen : RowId(s) = RowId(r)}
        first == UNION {First(Same(r)) : r \in seen}
        last == {r \in seen : \A s \in Same(r) : r.ts >= s.ts}
    IN  CASE policy = "fifo" -> {[id |-> RowId(r), val |-> 0, at |-> r.ts] : r \in seen}
          [] policy = "lru"  -> UNION {{[id |-> RowId(r), val |-> s.ts, at |-> r.ts]
                                          : s \in last \cap Same(r)} : r \in first}
          [] policy = "lfu"  -> {[id |-> RowId(r), val |-> 0, at |-> r.ts] : r \in first}

Restart ==
    /\ "restart" \in Workload
    /\ tracked' = Synced
    /\ UNCHANGED <<rows, clock, policy>>

Tick ==
    /\ clock < MaxClock
    /\ clock' = clock + 1
    /\ UNCHANGED <<rows, tracked, policy>>

Batches == UNION {[1..n -> Key] : n \in 1..MaxBatch}

Ages == 1..MaxClock

AnyStore(q, c, mode) ==
    \E serializes \in Serializable :
        Store(q, c, mode, serializes) \/ StoreOnMiss(q, c, mode, serializes)

(* The calls that add no row *)
Withdraw ==
    \/ \E q \in Query, mode \in Modes : StoreAborted(q, mode)
    \/ \E c \in Context : InvalidateContext(c)
    \/ \E age \in Ages : InvalidateAge(age)
    \/ \E qs \in SUBSET Query, cs \in SUBSET Context, age \in Ages \cup {None} :
          InvalidateBulk(qs, cs, age)
    \/ CleanupExpired
    \/ Clear
    \/ ClearAll

Next ==
    \/ \E q \in Query, c \in Context, mode \in Modes :
          AnyStore(q, c, mode) \/ Lookup(q, c, mode)
    \/ \E batch \in Batches, mode \in Modes, serializes \in Serializable :
          StoreBatch(batch, mode, serializes)
    \/ Withdraw
    \/ Restart
    \/ Tick

Spec == Init /\ [][Next]_vars

-----------------------------------------------------------------------------
(* Properties *)

Cell == [id : {EntryId(k) : k \in Key}, val : Nat, at : Nat]

(* Rows, cells and clock have their types. *)
TypeOK ==
    /\ rows \subseteq Row
    /\ tracked \subseteq Cell
    /\ clock \in Nat
    /\ policy \in Policies

(* The policy tracks no entry the tables have lost: a victim can always be *)
(* found, so _evict_one never gives up (storage_ops.py:483).               *)
TrackedStored == \A e \in tracked : \E r \in rows : RowId(r) = e.id

(* Every stored row is known to the policy, so it can be evicted. *)
StoredTracked == \A r \in rows : \E e \in tracked : RowId(r) = e.id

(* The tables never hold more than max_entries rows, which store checks    *)
(* before it adds (storage_ops.py:132-140).                                *)
Bounded == MaxEntries # 0 => Cardinality(rows) <= MaxEntries

(* The policy tracks every stored entry once and nothing else *)
Agree ==
    /\ \A e, f \in tracked : e.id = f.id => e = f
    /\ Ids(tracked) = {RowId(r) : r \in rows}

(* An inductive invariant, for a client that is disciplined: it names its  *)
(* entries faithfully, uses a policy that is a dict, stores what can be    *)
(* serialised, and calls only operations that keep rows and cells in step. *)
(* It may store a key again, also because a lookup failed.                 *)
IInv == TypeOK /\ IsFiniteSet(rows) /\ Agree /\ Bounded

Disciplined ==
    /\ PlainKeys
    /\ Policies \subseteq {"lru", "lfu"}
    /\ Serializable \subseteq {TRUE}
    /\ Workload \subseteq {"store", "store_on_miss", "store_aborted", "lookup",
                           "invalidate_context", "invalidate_bulk", "clear_all"}

(* A client that stores in the semantic table what a lookup has missed,    *)
(* and whose lookups do not fail: after one that does, a key that is there *)
(* would be stored again.  Rows do not expire, and no query is closer to q *)
(* than q is.                                                              *)
StoresOnMiss ==
    /\ PlainKeys
    /\ ~LookupFails
    /\ Modes \subseteq {"semantic"}
    /\ TTL = None
    /\ Serializable \subseteq {TRUE}
    /\ \A q, r \in Query :
          /\ Similarity[<<q, r>>] \in Int /\ Threshold \in Int
          /\ Similarity[<<q, q>>] >= Threshold
          /\ Similarity[<<q, r>>] <= Similarity[<<q, q>>]
    /\ Workload \subseteq {"store_on_miss", "store_aborted", "lookup", "invalidate_context",
                           "invalidate_age", "invalidate_bulk", "restart"}

(* The list that tracks R: one cell for each row, in the order of the rows *)
Queue(R) == {[id |-> RowId(r), val |-> 0, at |-> r.ts] : r \in R}

(* Rows are semantic, of different keys, and older than the clock *)
Lined(R) ==
    /\ \A r \in R : r.table = "semantic" /\ r.ts < clock
    /\ \A r, s \in R : r.key = s.key => r = s

(* The inductive invariant for a client that stores on a miss, under any   *)
(* policy, while lookups do not fail (StoresOnMiss): no key is stored      *)
(* twice, so that FIFO's list, too, has one cell for each row, and a       *)
(* removal by age takes all rows of a key.                                 *)
OnMissInv ==
    /\ IInv
    /\ Lined(rows)
    /\ policy = "fifo" => tracked = Queue(rows)

(* A store that has to evict under FIFO takes the oldest rows: no row it   *)
(* leaves is older than one it deletes.  So for a client that stores on a  *)
(* miss, while lookups do not fail (StoresOnMiss): of a key stored again   *)
(* FIFO deletes the newest row with the oldest (fifo.py:32, 46-64).        *)
EvictsOldest ==
    [][policy = "fifo" /\ rows' \ rows # {} =>
         \A gone \in rows \ rows', kept \in rows \cap rows' : gone.ts <= kept.ts]_vars

(* A store that finds the cache below max_entries deletes nothing, and one  *)
(* that evicts never deletes the rows of two keys, whatever state the      *)
(* policy is in (the early exit at storage_ops.py:481).                    *)
OneKeyPerEviction ==
    [][rows' \ rows # {} =>
         /\ rows \ rows' # {} => Full
         /\ \A r, s \in rows \ rows' : r.key = s.key]_vars

(* The rows as a bounded store *)
Promise == INSTANCE BoundedStore
    WITH entries <- rows, Capacity <- MaxEntries,
         Entry <- [key : Key, table : Table, ts : 0..MaxClock]

(* Seen from its rows, the cache is a store that keeps within max_entries  *)
(* and evicts one key at a time, and only when it has to                   *)
(* (storage_ops.py:131-140, 413-504).                                      *)
KeepsPromise == Promise!Spec
=============================================================================
