----------------------------- MODULE VictimProofs -----------------------------
(***************************************************************************)
(* Proofs about which rows an eviction takes: under LRU and LFU, from what *)
(* their dicts recall of the past; under FIFO, from the order of its list. *)
(***************************************************************************)
EXTENDS CacheHistory, CacheProofs

-----------------------------------------------------------------------------
(* A client that stores what it missed, under any policy.  No key is       *)
(* stored twice then, so FIFO's list has no id twice either, and removals  *)
(* by age, which Disciplined leaves out, keep policy and rows in step.     *)

(* Different rows have different ids. *)
LEMMA RowIds ==
    ASSUME PlainKeys, OnMissInv, NEW r \in rows, NEW s \in rows, RowId(r) = RowId(s)
    PROVE  r = s
<1>1. r.key \in Key /\ s.key \in Key
    BY DEF OnMissInv, IInv, TypeOK, Row
<1>2. r.key = s.key
    BY <1>1, EntryIdInjective DEF RowId
<1> QED BY <1>2 DEF OnMissInv, Lined

(* The queue of rows of different keys has one cell for each. *)
LEMMA QueueAgrees ==
    ASSUME PlainKeys, NEW R, \A r \in R : r.key \in Key, \A r, s \in R : r.key = s.key => r = s
    PROVE  Unique(Queue(R)) /\ Ids(Queue(R)) = {RowId(r) : r \in R}
<1> DEFINE cell(r) == [id |-> RowId(r), val |-> 0, at |-> r.ts]
<1>1. \A r \in R : cell(r) \in Queue(R) /\ cell(r).id = RowId(r)
    BY DEF Queue
<1>2. \A e \in Queue(R) : \E r \in R : e = cell(r) /\ e.id = RowId(r)
    BY DEF Queue
<1>3. \A r, s \in R : RowId(r) = RowId(s) => r = s
    BY EntryIdInjective DEF RowId
<1> HIDE DEF cell
<1>4. Unique(Queue(R))
    BY <1>2, <1>3 DEF Unique
<1>5. Ids(Queue(R)) = {RowId(r) : r \in R}
    BY <1>1, <1>2 DEF Ids
<1> QED BY <1>4, <1>5

(* Dropping the cells of the rows that go leaves the queue of the others. *)
LEMMA QueueWithout ==
    ASSUME PlainKeys, OnMissInv, NEW gone \in SUBSET rows
    PROVE  {e \in Queue(rows) : \A r \in gone : RowId(r) # e.id} = Queue(rows \ gone)
<1>1. ASSUME NEW e \in Queue(rows), \A r \in gone : RowId(r) # e.id
      PROVE  e \in Queue(rows \ gone)
    BY <1>1 DEF Queue
<1>2. ASSUME NEW e \in Queue(rows \ gone)
      PROVE  e \in Queue(rows) /\ \A r \in gone : RowId(r) # e.id
    <2>1. PICK s \in rows \ gone : e = [id |-> RowId(s), val |-> 0, at |-> s.ts]
        BY <1>2 DEF Queue
    <2>2. \A r \in gone : RowId(r) # RowId(s)
        BY <2>1, RowIds
    <2> QED BY <2>1, <2>2 DEF Queue
<1> QED BY <1>1, <1>2

(* Under FIFO an eviction takes the oldest row, and its cell. *)
LEMMA FifoRoom ==
    ASSUME PlainKeys, OnMissInv, policy = "fifo", NEW room \in MakeRoom
    PROVE  /\ room.tracked = Queue(room.rows)
           /\ \A gone \in rows \ room.rows, kept \in rows : gone.ts <= kept.ts
<1> USE DEF OnMissInv
<1>1. CASE ~Full
    BY <1>1 DEF MakeRoom, Unchanged
<1>2. CASE Full
    <2>1. rows # {}
        <3>1. Cardinality(rows) # 0
            BY <1>2, CacheAssumption DEF Full
        <3> QED BY <3>1, FS_EmptySet
    <2>2. tracked # {}
        BY <2>1 DEF Queue
    <2>3. PICK v \in Victims(tracked) : room \in EvictionsOf(v.id)
        BY <1>2, <2>2 DEF MakeRoom, Evictions
    <2>4. PICK r \in rows : v = [id |-> RowId(r), val |-> 0, at |-> r.ts]
        BY DEF Victims, Queue
    <2>5. \A s \in rows : r.ts <= s.ts
        <3> SUFFICES ASSUME NEW s \in rows
                     PROVE  r.ts <= s.ts
            OBVIOUS
        <3> DEFINE f == [id |-> RowId(s), val |-> 0, at |-> s.ts]
        <3>1. f \in tracked
            BY DEF Queue
        <3>2. v.val < f.val \/ (v.val = f.val /\ v.at <= f.at)
            BY <3>1 DEF Victims
        <3>3. v.val = 0 /\ v.at = r.ts /\ f.val = 0 /\ f.at = s.ts
            BY <2>4
        <3> HIDE DEF f
        <3> QED BY <3>2, <3>3
    <2>6. PICK s \in Located(v.id) :
              room = [rows |-> DeleteById(s.key), tracked |-> OnEvict(tracked, v.id)]
        BY <2>3, <2>4, LocatedNamed DEF EvictionsOf, IInv
    <2>7. s.key = r.key
        BY <2>4, <2>6, LocatedNamed DEF IInv
    <2>8. room.rows = rows \ {r}
        <3>1. \A x \in rows : x.key = r.key <=> x = r
            BY DEF Lined
        <3> QED BY <2>6, <2>7, <3>1 DEF DeleteById
    <2>9. room.tracked = {e \in tracked : e.id # RowId(r)}
        BY <2>4, <2>6, OnEvictDrops DEF IInv, TypeOK, Agree, Unique
    <2>10. room.tracked = Queue(rows \ {r})
        BY <2>9, QueueWithout
    <2> QED BY <2>5, <2>8, <2>10
<1> QED BY <1>1, <1>2

(* After a miss that is no failure, no row has the key. *)
LEMMA MissedKey ==
    ASSUME StoresOnMiss, OnMissInv, NEW q \in Query, NEW c \in Context, NEW mode \in Modes,
           NEW serializes, StoreOnMiss(q, c, mode, serializes)
    PROVE  \A r \in rows : r.key # <<q, c>>
<1> SUFFICES ASSUME NEW r \in rows, r.key = <<q, c>>
             PROVE  FALSE
    OBVIOUS
<1>1. mode = "semantic"
    BY DEF StoresOnMiss
<1>2. Search(q, c, mode) = SearchSemantic(q, c)
    BY <1>1 DEF Search, TableOf, StoresOnMiss
<1>3. Search(q, c, mode) = {}
    BY DEF StoreOnMiss, Misses, Expired, StoresOnMiss
<1>4. \A s \in rows : s.key[1] \in Query
    BY DEF OnMissInv, IInv, TypeOK, Row, Key
<1>5. r.table = "semantic" /\ r.key[1] = q /\ r.key[2] = c
    BY DEF OnMissInv, Lined
<1>6. r \in SearchSemantic(q, c)
    BY <1>4, <1>5 DEF SearchSemantic, StoresOnMiss
<1> QED BY <1>2, <1>3, <1>6

(* The queue is an agreement of policy and rows. *)
LEMMA QueuedAgree ==
    ASSUME PlainKeys, TypeOK', Lined(rows)', tracked' = Queue(rows')
    PROVE  Agree'
<1>1. \A r \in rows' : r.key \in Key
    BY DEF TypeOK, Row
<1>2. \A r, s \in rows' : r.key = s.key => r = s
    BY DEF Lined
<1>3. Unique(tracked') /\ Ids(tracked') = {RowId(r) : r \in rows'}
    BY <1>1, <1>2, QueueAgrees
<1> QED BY <1>3 DEF Unique, Agree, Ids, RowId

(* Queue, Ids and names do not depend on the state. *)
LEMMA QueueRigid == Queue(rows)' = Queue(rows')
BY DEF Queue, RowId

(* A store adds one row of a new key; under FIFO it appends its cell. *)
LEMMA OnMissStore ==
    ASSUME StoresOnMiss, OnMissInv, NEW q \in Query, NEW c \in Context, NEW mode \in Modes,
           AnyStore(q, c, mode)
    PROVE  /\ OnMissInv'
           /\ policy = "fifo" =>
                 \A gone \in rows \ rows', kept \in rows : gone.ts <= kept.ts
<1> DEFINE row == [key |-> <<q, c>>, table |-> "semantic", ts |-> clock]
<1>1. StoreOnMiss(q, c, mode, TRUE)
    BY DEF StoresOnMiss, AnyStore, Store
<1>2. StoreEntry(q, c, mode, TRUE) /\ \A r \in rows : r.key # <<q, c>>
    BY <1>1, MissedKey DEF StoreOnMiss
<1>3. TableOf(q, mode) = "semantic" /\ clock \in Nat /\ PlainKeys /\ IInv
    BY DEF TableOf, StoresOnMiss, OnMissInv, IInv, TypeOK
<1>4. PICK room \in MakeRoom :
          /\ rows' = room.rows \cup {row}
          /\ tracked' = OnInsert(policy, room.tracked, RowId(row), clock)
    BY <1>2, <1>3 DEF StoreEntry, Added
<1>5. row.key = <<q, c>> /\ row.table = "semantic" /\ row.ts = clock
    OBVIOUS
<1> HIDE DEF row
<1>6. Room(room) /\ (MaxEntries # 0 => Cardinality(room.rows) < MaxEntries)
    BY <1>3, MakeRoomKeeps
<1>7. clock' = clock + 1 /\ policy' = policy
    BY <1>2 DEF StoreEntry
<1>8. Lined(rows)'
    <2>1. \A r \in room.rows : r.table = "semantic" /\ r.ts < clock /\ r.ts \in Nat
        BY <1>6 DEF Room, OnMissInv, IInv, Lined, TypeOK, Row
    <2>2. \A r, s \in room.rows : r.key = s.key => r = s
        BY <1>6 DEF Room, OnMissInv, Lined
    <2>3. \A r \in room.rows : r.key # row.key
        BY <1>2, <1>5, <1>6 DEF Room
    <2> QED BY <1>3, <1>4, <1>5, <1>7, <2>1, <2>2, <2>3 DEF Lined
<1>9. CASE policy # "fifo"
    BY <1>2, <1>3, <1>7, <1>8, <1>9, StoreEntryKeeps DEF OnMissInv
<1>10. CASE policy = "fifo"
    <2>1. /\ room.tracked = Queue(room.rows)
          /\ \A gone \in rows \ room.rows, kept \in rows : gone.ts <= kept.ts
        BY <1>3, <1>10, FifoRoom
    <2>2. tracked' = Queue(room.rows) \cup {[id |-> RowId(row), val |-> 0, at |-> row.ts]}
        BY <1>4, <1>5, <1>10, <2>1 DEF OnInsert
    <2>3. tracked' = Queue(rows')
        BY <1>4, <2>2 DEF Queue
    <2>4. TypeOK'
        BY <1>2, <1>3, StoreEntryType DEF IInv
    <2>5. Agree'
        BY <1>3, <1>8, <2>3, <2>4, QueuedAgree
    <2>6. IsFiniteSet(room.rows) /\ Cardinality(room.rows) \in Nat
        BY <1>3, <1>6, FS_Subset, FS_CardinalityType DEF Room, IInv
    <2>7. IsFiniteSet(rows') /\ Bounded'
        <3>1. /\ IsFiniteSet(rows')
              /\ Cardinality(rows') = IF row \in room.rows THEN Cardinality(room.rows)
                                      ELSE Cardinality(room.rows) + 1
            BY <1>4, <2>6, FS_AddElement
        <3> QED BY <1>6, <2>6, <3>1, CacheAssumption DEF Bounded
    <2>8. OnMissInv'
        BY <1>8, <2>3, <2>4, <2>5, <2>7, QueueRigid DEF OnMissInv, IInv
    <2> QED BY <1>4, <2>1, <2>8
<1> QED BY <1>9, <1>10

(* Rows that go, whole keys as they are, take their cells along. *)
LEMMA OnMissRemoves ==
    ASSUME PlainKeys, OnMissInv, NEW gone \in SUBSET rows,
           rows' = rows \ gone, tracked' = Forget(gone), UNCHANGED <<clock, policy>>
    PROVE  OnMissInv'
<1>1. rows' = {r \in rows : \A m \in gone : r.key # m.key}
    BY DEF OnMissInv, Lined
<1>2. IInv'
    BY <1>1, WithdrawKeeps DEF OnMissInv
<1>3. Lined(rows)'
    BY DEF OnMissInv, Lined
<1>4. ASSUME policy = "fifo"
      PROVE  tracked' = Queue(rows')
    <2>1. Unique(tracked) /\ IsFiniteSet(gone) /\ TypeOK
        BY FS_Subset DEF OnMissInv, IInv, Agree, Unique
    <2>2. tracked' = {e \in tracked : \A r \in gone : RowId(r) # e.id}
        BY <2>1, ForgetDrops
    <2> QED BY <1>4, <2>2, QueueWithout DEF OnMissInv
<1> QED BY <1>2, <1>3, <1>4, QueueRigid DEF OnMissInv

(* The calls that add no row keep the invariant. *)
LEMMA OnMissWithdraw ==
    ASSUME StoresOnMiss, OnMissInv, Withdraw
    PROVE  OnMissInv' /\ rows' \subseteq rows
<1> USE DEF StoresOnMiss
<1>1. ASSUME NEW q, NEW mode, StoreAborted(q, mode)
      PROVE  OnMissInv' /\ rows' \subseteq rows
    <2>1. PICK room \in MakeRoom : rows' = room.rows /\ tracked' = room.tracked
        BY <1>1 DEF StoreAborted
    <2>2. Room(room) /\ UNCHANGED <<clock, policy>>
        BY <1>1, MakeRoomKeeps DEF OnMissInv, StoreAborted
    <2>3. IInv'
        BY <1>1, StoreAbortedKeeps DEF OnMissInv
    <2>4. Lined(rows)' /\ rows' \subseteq rows
        BY <2>1, <2>2 DEF Room, OnMissInv, Lined
    <2>5. policy = "fifo" => tracked' = Queue(rows')
        BY <2>1, FifoRoom
    <2> QED BY <2>2, <2>3, <2>4, <2>5, QueueRigid DEF OnMissInv
<1>2. ASSUME NEW c, InvalidateContext(c)
      PROVE  OnMissInv' /\ rows' \subseteq rows
    <2> DEFINE gone == {r \in rows : r.key[2] = c}
    <2>1. /\ gone \in SUBSET rows
          /\ rows' = rows \ gone /\ tracked' = Forget(gone) /\ UNCHANGED <<clock, policy>>
        BY <1>2 DEF InvalidateContext, Remove
    <2> HIDE DEF gone
    <2> QED BY <2>1, OnMissRemoves
<1>3. ASSUME NEW age, InvalidateAge(age)
      PROVE  OnMissInv' /\ rows' \subseteq rows
    <2> DEFINE gone == {r \in rows : r.ts <= clock - age}
    <2>1. /\ gone \in SUBSET rows
          /\ rows' = rows \ gone /\ tracked' = Forget(gone) /\ UNCHANGED <<clock, policy>>
        BY <1>3 DEF InvalidateAge, Remove
    <2> HIDE DEF gone
    <2> QED BY <2>1, OnMissRemoves
<1>4. ASSUME NEW qs, NEW cs, NEW age, InvalidateBulk(qs, cs, age)
      PROVE  OnMissInv' /\ rows' \subseteq rows
    <2> DEFINE gone == Matched(qs, cs, age)
    <2>1. gone \in SUBSET rows
        BY DEF Matched
    <2>2. /\ rows' = {r \in rows : \A m \in gone : r.key # m.key}
          /\ tracked' = Forget(gone) /\ UNCHANGED <<clock, policy>>
        BY <1>4 DEF InvalidateBulk
    <2> HIDE DEF gone
    <2>3. rows' = rows \ gone
        BY <2>1, <2>2 DEF OnMissInv, Lined
    <2> QED BY <2>1, <2>2, <2>3, OnMissRemoves
<1> QED BY <1>1, <1>2, <1>3, <1>4 DEF Withdraw, CleanupExpired, Clear, ClearAll

(* A hit changes what LRU and LFU remember, and nothing else. *)
LEMMA OnMissLookup ==
    ASSUME OnMissInv, NEW q, NEW c, NEW mode, Lookup(q, c, mode)
    PROVE  OnMissInv' /\ rows' = rows
<1>1. PICK r \in rows : Hit(r)
    BY DEF Lookup, Search, SearchExact, SearchSemantic
<1>2. UNCHANGED <<rows, clock, policy>> /\ tracked' = OnAccess(policy, tracked, RowId(r), clock)
    BY <1>1 DEF Hit
<1>3. Lined(rows)'
    BY <1>2 DEF OnMissInv, Lined
<1>4. CASE policy # "fifo"
    BY <1>1, <1>2, <1>3, <1>4, LookupKeeps DEF OnMissInv
<1>5. CASE policy = "fifo"
    <2>1. tracked' = tracked
        BY <1>2, <1>5 DEF OnAccess
    <2> QED BY <1>2, <1>3, <2>1 DEF OnMissInv, IInv, TypeOK, Agree, Bounded, Ids, RowId, Queue
<1> QED BY <1>4, <1>5

(* A restart finds every key once, in the table it reads. *)
LEMMA OnMissRestart ==
    ASSUME StoresOnMiss, OnMissInv, Restart
    PROVE  OnMissInv' /\ rows' = rows
<1>1. /\ UNCHANGED <<rows, clock, policy>> /\ tracked' = Synced
      /\ PlainKeys /\ policy \in {"fifo", "lru", "lfu"}
    BY CacheAssumption DEF Restart, OnMissInv, IInv, TypeOK, Policy, StoresOnMiss
<1>2. \A r \in rows : r.key \in Key /\ r.ts \in Nat /\ r.table = "semantic"
    BY DEF OnMissInv, IInv, Lined, TypeOK, Row
<1> DEFINE seen == {r \in rows : r.table = "semantic"}
           Same(r) == {s \in seen : RowId(s) = RowId(r)}
           first == UNION {First(Same(r)) : r \in seen}
           last == {r \in seen : \A s \in Same(r) : r.ts >= s.ts}
<1>3. seen = rows /\ \A r \in rows : Same(r) = {r}
    BY <1>1, <1>2, RowIds
<1>4. \A r \in rows : First({r}) = {r}
    BY <1>2 DEF First
<1>5. first = rows /\ last = rows
    <2>1. \A r \in rows : First(Same(r)) = {r}
        BY <1>3, <1>4
    <2>2. \A r \in rows : \A s \in Same(r) : r.ts >= s.ts
        BY <1>2, <1>3
    <2> HIDE DEF Same
    <2> QED BY <1>3, <2>1, <2>2
<1>6. Synced = CASE policy = "fifo" -> {[id |-> RowId(r), val |-> 0, at |-> r.ts] : r \in seen}
                 [] policy = "lru" -> UNION {{[id |-> RowId(r), val |-> s.ts, at |-> r.ts]
                                                : s \in last \cap Same(r)} : r \in first}
                 [] policy = "lfu" -> {[id |-> RowId(r), val |-> 0, at |-> r.ts] : r \in first}
    BY DEF Synced
<1> HIDE DEF seen, Same, first, last
<1>7. Synced = IF policy = "lru" THEN {[id |-> RowId(r), val |-> r.ts, at |-> r.ts] : r \in rows}
               ELSE Queue(rows)
    <2>1. CASE policy = "lru"
        <3>1. \A r \in rows : last \cap Same(r) = {r}
            BY <1>3, <1>5
        <3>2. Synced = UNION {{[id |-> RowId(r), val |-> s.ts, at |-> r.ts]
                                 : s \in last \cap Same(r)} : r \in rows}
            BY <1>5, <1>6, <2>1
        <3> QED BY <2>1, <3>1, <3>2
    <2>2. CASE policy # "lru"
        BY <1>1, <1>3, <1>5, <1>6, <2>2 DEF Queue
    <2> QED BY <2>1, <2>2
<1>8. Lined(rows)' /\ TypeOK'
    <2>1. \A r \in rows : RowId(r) = EntryId(r.key)
        BY DEF RowId
    <2>2. tracked' \subseteq Cell
        BY <1>1, <1>2, <1>7, <2>1 DEF Queue, Cell
    <2> QED BY <1>1, <2>2 DEF OnMissInv, IInv, Lined, TypeOK
<1>9. Agree'
    <2>1. CASE policy = "lru"
        <3> DEFINE cell(r) == [id |-> RowId(r), val |-> r.ts, at |-> r.ts]
        <3>1. tracked' = {cell(r) : r \in rows} /\ \A r \in rows : cell(r).id = RowId(r)
            BY <1>1, <1>7, <2>1
        <3> HIDE DEF cell
        <3>2. \A r, s \in rows : RowId(r) = RowId(s) => r = s
            BY <1>1, RowIds
        <3>3. Unique(tracked') /\ Ids(tracked') = {RowId(r) : r \in rows}
            BY <3>1, <3>2 DEF Unique, Ids
        <3> QED BY <1>1, <3>3 DEF Unique, Agree, Ids, RowId
    <2>2. CASE policy # "lru"
        BY <1>1, <1>7, <1>8, <2>2, QueuedAgree
    <2> QED BY <2>1, <2>2
<1>10. policy' = "fifo" => Queue(rows)' = tracked'
    BY <1>1, <1>7, QueueRigid
<1> QED BY <1>1, <1>8, <1>9, <1>10 DEF OnMissInv, IInv, Bounded

(* A step adds a row only when it stores. *)
LEMMA OnMissStep ==
    ASSUME StoresOnMiss, OnMissInv, [Next]_vars
    PROVE  /\ OnMissInv'
           /\ policy = "fifo" /\ rows' \ rows # {} =>
                 \A gone \in rows \ rows', kept \in rows : gone.ts <= kept.ts
<1>1. ASSUME NEW q \in Query, NEW c \in Context, NEW mode \in Modes, AnyStore(q, c, mode)
      PROVE  /\ OnMissInv'
             /\ policy = "fifo" =>
                   \A gone \in rows \ rows', kept \in rows : gone.ts <= kept.ts
    BY <1>1, OnMissStore
<1>2. ASSUME NEW q, NEW c, NEW mode, Lookup(q, c, mode)
      PROVE  OnMissInv' /\ rows' = rows
    BY <1>2, OnMissLookup
<1>3. CASE Withdraw
    BY <1>3, OnMissWithdraw
<1>4. CASE Restart
    BY <1>4, OnMissRestart
<1>5. CASE Tick
    <2>1. \A r \in rows : r.ts \in Nat /\ clock \in Nat
        BY DEF OnMissInv, IInv, TypeOK, Row
    <2> QED BY <1>5, <2>1
            DEF Tick, OnMissInv, IInv, TypeOK, Agree, Ids, Bounded, Lined, Queue, RowId
<1>6. CASE UNCHANGED vars
    BY <1>6 DEF vars, OnMissInv, IInv, TypeOK, Agree, Ids, Bounded, Lined, Queue, RowId
<1> QED BY <1>1, <1>2, <1>3, <1>4, <1>5, <1>6 DEF Next, StoreBatch, StoresOnMiss

(* Under store-on-miss, with lookups that do not fail (a failed one is a   *)
(* miss too: lookup.py:222-239), no key is stored twice and the policy,    *)
(* whichever it is, tracks the rows one by one: FIFO's list holds them in  *)
(* the order they were stored.  Evictions, invalidations by context, age   *)
(* and pattern, failed stores and restarts keep it so (fifo.py:32-58,      *)
(* invalidation.py:122-179, lookup.py:51-92).                              *)
THEOREM OnMissInductive ==
    ASSUME StoresOnMiss
    PROVE  Spec => []OnMissInv
<1>1. Init => OnMissInv
    BY FS_EmptySet, CacheAssumption
       DEF Init, OnMissInv, IInv, TypeOK, Agree, Ids, Bounded, Lined, Queue
<1>2. OnMissInv /\ [Next]_vars => OnMissInv'
    BY OnMissStep
<1> QED BY <1>1, <1>2, PTL DEF Spec

(* So every victim is found, every row can be evicted, and the cache stays *)
(* within max_entries (storage_ops.py:132-140), as long as no lookup fails. *)
THEOREM OnMissInStep ==
    ASSUME StoresOnMiss
    PROVE  Spec => [](TrackedStored /\ StoredTracked /\ Bounded)
<1>1. OnMissInv => TrackedStored /\ StoredTracked /\ Bounded
    BY DEF OnMissInv, IInv, Agree, TrackedStored, StoredTracked, Ids
<1> QED BY <1>1, OnMissInductive, PTL

(* And under FIFO a store that evicts takes the oldest row of all, if no   *)
(* lookup has failed (fifo.py:36-48, lookup.py:222-239).                   *)
THEOREM FifoEvictsOldest ==
    ASSUME StoresOnMiss
    PROVE  Spec => EvictsOldest
<1>1. OnMissInv /\ [Next]_vars =>
         (policy = "fifo" /\ rows' \ rows # {} =>
             \A gone \in rows \ rows', kept \in rows \cap rows' : gone.ts <= kept.ts)
    BY OnMissStep
<1> QED BY <1>1, OnMissInductive, PTL DEF Spec, EvictsOldest

(* Seen from its rows, such a cache is a bounded store as well, under      *)
(* every policy: a store evicts only when full, and then one key           *)
(* (storage_ops.py:131-140).                                               *)
THEOREM OnMissImplements ==
    ASSUME StoresOnMiss
    PROVE  Spec => KeepsPromise
<1>1. Init => Promise!Init
    BY DEF Init, Promise!Init
<1>2. OnMissInv /\ [Next]_vars => [Promise!Next]_rows
    BY PromiseStep DEF OnMissInv, StoresOnMiss
<1> QED BY <1>1, <1>2, OnMissInductive, PTL DEF Spec, KeepsPromise, Promise!Spec

-----------------------------------------------------------------------------
(* LRU and LFU, for a disciplined client and for one that stores what it   *)
(* missed.  No operation between a store or hit and the next touches the   *)
(* cell of a key that stays, so what the dicts hold is the past.           *)

Remembered ==
    /\ Policies \subseteq {"lru", "lfu"}
    /\ Disciplined \/ StoresOnMiss

(* What both clients have in common *)
LEMMA RememberedMeans ==
    ASSUME Remembered, TypeOK
    PROVE  PlainKeys /\ Serializable \subseteq {TRUE} /\ policy \in {"lru", "lfu"}
BY DEF Remembered, Disciplined, StoresOnMiss, TypeOK

(* The cells hold, for each key they track, what the past says of it *)
Recall(cells, past) ==
    \A k \in Key, e \in cells : e.id = EntryId(k) => e.val = past[k]

(* Assigning a dict key the value that its past now has. *)
LEMMA PutRecalls ==
    ASSUME PlainKeys, NEW cells \in SUBSET Cell, NEW past, NEW new,
           NEW k \in Key, NEW now,
           Recall(cells, past), \A l \in Key \ {k} : new[l] = past[l]
    PROVE  Recall(Put(cells, EntryId(k), new[k], now), new)
<1> DEFINE put == Put(cells, EntryId(k), new[k], now)
<1>1. ASSUME NEW e \in put
      PROVE  \/ e.id = EntryId(k) /\ e.val = new[k]
             \/ e \in cells /\ e.id # EntryId(k)
    BY <1>1 DEF Put, Cell, Ids
<1> HIDE DEF put
<1>2. ASSUME NEW l \in Key, NEW e \in put, e.id = EntryId(l)
      PROVE  e.val = new[l]
    <2>1. CASE l = k
        BY <1>1, <1>2, <2>1
    <2>2. CASE l # k
        <3>1. EntryId(l) # EntryId(k)
            BY <2>2, EntryIdInjective
        <3> QED BY <1>1, <1>2, <2>2, <3>1 DEF Recall
    <2> QED BY <2>1, <2>2
<1> QED BY <1>2 DEF Recall, put

(* The victim of a full cache has the least past of all stored keys. *)
LEMMA VictimLeast ==
    ASSUME PlainKeys, IInv, NEW past, Recall(tracked, past), \A k \in Key : past[k] \in Nat,
           NEW room \in MakeRoom,
           NEW gone \in rows \ room.rows, NEW kept \in rows
    PROVE  past[gone.key] <= past[kept.key]
<1>1. Full /\ room \in Evictions
    BY DEF MakeRoom, Unchanged
<1>2. PICK f \in tracked : f.id = RowId(kept)
    BY DEF IInv, Agree, Ids
<1>3. PICK v \in Victims(tracked) : room \in EvictionsOf(v.id)
    BY <1>1, <1>2 DEF Evictions
<1>4. v \in tracked /\ v.val <= f.val
    <2>1. v \in tracked /\ v \in Cell /\ f \in Cell
        BY <1>3 DEF Victims, IInv, TypeOK
    <2>2. v.val < f.val \/ v.val = f.val
        BY <1>2, <1>3 DEF Victims
    <2> QED BY <2>1, <2>2 DEF Cell
<1>5. PICK r \in rows : v.id = RowId(r)
    BY <1>4 DEF IInv, Agree, Ids
<1>6. PICK s \in Located(v.id) :
          room = [rows |-> DeleteById(s.key), tracked |-> OnEvict(tracked, v.id)]
    BY <1>3, <1>5, LocatedNamed DEF EvictionsOf, IInv
<1>7. gone.key = r.key
    <2>1. s.key = r.key
        BY <1>5, <1>6, LocatedNamed DEF IInv
    <2> QED BY <1>6, <2>1 DEF DeleteById
<1>8. r.key \in Key /\ kept.key \in Key
    BY DEF IInv, TypeOK, Row
<1>9. v.val = past[r.key] /\ f.val = past[kept.key]
    BY <1>2, <1>4, <1>5, <1>8 DEF Recall, RowId
<1> QED BY <1>4, <1>7, <1>9

(* A step of CacheHistory, seen without the history, is one of Cache. *)
LEMMA HistoryStep ==
    ASSUME [HNext]_hvars
    PROVE  [Next]_vars
<1>1. CASE UNCHANGED hvars
    BY <1>1 DEF hvars
<1>2. ASSUME NEW q \in Query, NEW c \in Context, NEW mode \in Modes,
             HStore(q, c, mode) \/ HLookup(q, c, mode)
      PROVE  Next
    BY <1>2 DEF HStore, HLookup, Lookup, Next
<1> QED BY <1>1, <1>2 DEF HNext, Next

(* A store, of which the policy is told, is recalled; and before it a      *)
(* store that had to evict took what had the least past.                   *)
LEMMA StoreRecalled ==
    ASSUME Remembered, HistoryInv, NEW q \in Query, NEW c \in Context, NEW mode \in Modes,
           HStore(q, c, mode)
    PROVE  /\ used' \in [Key -> Nat] /\ hits' \in [Key -> Nat]
           /\ Recall(tracked', History')
           /\ \A gone \in rows \ rows', kept \in rows : History[gone.key] <= History[kept.key]
<1> DEFINE k == <<q, c>>
<1>1. k \in Key /\ clock \in Nat /\ policy \in {"lru", "lfu"} /\ PlainKeys
    BY RememberedMeans DEF Key, HistoryInv, IInv, TypeOK
<1>2. StoreEntry(q, c, mode, TRUE)
    BY RememberedMeans DEF HStore, AnyStore, Store, StoreOnMiss, HistoryInv, IInv
<1>3. /\ policy' = policy
      /\ used' = Used(k) /\ hits' = [hits EXCEPT ![k] = 0]
    BY <1>2 DEF HStore, StoreEntry
<1>4. PICK room \in MakeRoom :
          /\ room.rows \subseteq rows'
          /\ tracked' = OnInsert(policy, room.tracked, EntryId(k), clock)
    BY <1>2 DEF StoreEntry, RowId
<1> HIDE DEF k
<1>5. used' \in [Key -> Nat] /\ hits' \in [Key -> Nat]
    BY <1>1, <1>3 DEF Used, HistoryInv
<1>6. Recall(tracked, History) /\ \A l \in Key : History[l] \in Nat
    BY DEF HistoryInv, Recall, History
<1>7. room.tracked \in SUBSET Cell /\ Recall(room.tracked, History)
    BY <1>6, MakeRoomShrinks DEF HistoryInv, IInv, TypeOK, Recall
<1>8. Recall(tracked', History')
    <2>1. \A l \in Key \ {k} : History'[l] = History[l]
        BY <1>3, <1>5 DEF History, Used, HistoryInv
    <2>2. tracked' = Put(room.tracked, EntryId(k), History'[k], clock)
        BY <1>1, <1>3, <1>4 DEF OnInsert, History, Used, HistoryInv
    <2> HIDE DEF History
    <2> QED BY <1>1, <1>7, <2>1, <2>2, PutRecalls
<1>9. ASSUME NEW gone \in rows \ rows', NEW kept \in rows
      PROVE  History[gone.key] <= History[kept.key]
    BY <1>1, <1>4, <1>6, VictimLeast DEF HistoryInv
<1> QED BY <1>5, <1>8, <1>9

(* A hit is recalled. *)
LEMMA LookupRecalled ==
    ASSUME Remembered, HistoryInv, NEW q \in Query, NEW c \in Context, NEW mode \in Modes,
           HLookup(q, c, mode)
    PROVE  /\ used' \in [Key -> Nat] /\ hits' \in [Key -> Nat]
           /\ Recall(tracked', History')
<1>1. PICK r \in Search(q, c, mode) :
          /\ Hit(r)
          /\ used' = Used(r.key)
          /\ hits' = IF policy = "lfu" THEN [hits EXCEPT ![r.key] = @ + 1] ELSE hits
    BY DEF HLookup
<1>2. r \in rows /\ r.key \in Key
    BY DEF Search, SearchExact, SearchSemantic, HistoryInv, IInv, TypeOK, Row
<1>3. /\ policy' = policy /\ policy \in {"lru", "lfu"} /\ clock \in Nat /\ PlainKeys
      /\ tracked' = OnAccess(policy, tracked, EntryId(r.key), clock)
    BY <1>1, RememberedMeans DEF Hit, RowId, HistoryInv, IInv, TypeOK
<1>4. used' \in [Key -> Nat] /\ hits' \in [Key -> Nat]
    BY <1>1, <1>2, <1>3 DEF Used, HistoryInv
<1>5. Recall(tracked, History) /\ tracked \in SUBSET Cell
    BY DEF HistoryInv, Recall, IInv, TypeOK
<1>6. Recall(tracked', History')
    <2>1. CASE policy = "lru"
        <3>1. \A l \in Key \ {r.key} : History'[l] = History[l]
            BY <1>1, <1>3, <1>4, <2>1 DEF History, Used, HistoryInv
        <3>2. tracked' = Put(tracked, EntryId(r.key), History'[r.key], clock)
            BY <1>1, <1>2, <1>3, <2>1 DEF OnAccess, History, Used, HistoryInv
        <3> HIDE DEF History
        <3> QED BY <1>2, <1>3, <1>5, <3>1, <3>2, PutRecalls
    <2>2. CASE policy = "lfu"
        <3>1. EntryId(r.key) \in Ids(tracked)
            BY <1>2 DEF HistoryInv, IInv, Agree, RowId
        <3>2. tracked' = {IF e.id = EntryId(r.key) THEN [e EXCEPT !.val = @ + 1] ELSE e
                             : e \in tracked}
            BY <1>3, <2>2, <3>1 DEF OnAccess
        <3>3. hits' = [hits EXCEPT ![r.key] = @ + 1] /\ History = hits /\ History' = hits'
            BY <1>1, <1>3, <2>2 DEF History
        <3>4. ASSUME NEW l \in Key, NEW e \in tracked', e.id = EntryId(l)
              PROVE  e.val = hits'[l]
            <4>1. PICK f \in tracked :
                      e = IF f.id = EntryId(r.key) THEN [f EXCEPT !.val = @ + 1] ELSE f
                BY <3>2, <3>4
            <4>2. f \in Cell /\ f.id = EntryId(l)
                BY <1>5, <3>4, <4>1 DEF Cell
            <4>3. f.val = hits[l]
                BY <1>5, <3>3, <4>2 DEF Recall
            <4>4. CASE l = r.key
                BY <1>2, <3>3, <4>1, <4>2, <4>3, <4>4 DEF Cell, HistoryInv
            <4>5. CASE l # r.key
                <5>1. EntryId(l) # EntryId(r.key)
                    BY <1>2, <1>3, <4>5, EntryIdInjective
                <5> QED BY <3>3, <4>1, <4>2, <4>3, <4>5, <5>1 DEF HistoryInv
            <4> QED BY <4>4, <4>5
        <3> QED BY <3>3, <3>4 DEF Recall
    <2> QED BY <1>3, <2>1, <2>2
<1> QED BY <1>4, <1>6

(* The other calls make the policy forget, and write nothing new. *)
LEMMA WithdrawForgets ==
    ASSUME Remembered, HistoryInv, Withdraw \/ Tick
    PROVE  tracked' \subseteq tracked /\ policy' = policy
<1>1. ASSUME NEW gone
      PROVE  Forget(gone) \subseteq tracked
    BY DEF Forget, OnEvictMany
<1>2. policy # "fifo"
    BY RememberedMeans DEF HistoryInv, IInv
<1> QED BY <1>1, <1>2, MakeRoomShrinks
        DEF Withdraw, StoreAborted, InvalidateContext, InvalidateAge, InvalidateBulk,
            CleanupExpired, Clear, ClearAll, Remove, Tick

(* Such a client's LRU and LFU cells are the true past of what is stored:  *)
(* nothing is forgotten that is still there, and nothing is recalled       *)
(* wrongly (lru.py:23-48, lfu.py:23-47).  A restart is not in HSpec, as it *)
(* replaces the past by the times of the rows.                             *)
THEOREM HistoryInductive ==
    ASSUME Remembered
    PROVE  HSpec => []HistoryInv
<1>1. HInit => HistoryInv
    <2>1. HInit => IInv
        BY FS_EmptySet, CacheAssumption DEF HInit, Init, IInv, TypeOK, Agree, Ids, Bounded
    <2> QED BY <2>1 DEF HInit, Init, HistoryInv
<1>2. HistoryInv /\ IInv' /\ [HNext]_hvars => HistoryInv'
    <2> SUFFICES ASSUME HistoryInv, IInv', [HNext]_hvars
                 PROVE  /\ used' \in [Key -> Nat] /\ hits' \in [Key -> Nat]
                        /\ Recall(tracked', History')
        BY DEF HistoryInv, Recall
    <2>1. ASSUME NEW q \in Query, NEW c \in Context, NEW mode \in Modes,
                 HStore(q, c, mode) \/ HLookup(q, c, mode)
          PROVE  /\ used' \in [Key -> Nat] /\ hits' \in [Key -> Nat]
                 /\ Recall(tracked', History')
        BY <2>1, StoreRecalled, LookupRecalled
    <2>2. CASE (Withdraw \/ Tick) /\ UNCHANGED <<used, hits>>
        BY <2>2, WithdrawForgets DEF HistoryInv, Recall, History
    <2>3. CASE UNCHANGED hvars
        BY <2>3 DEF hvars, vars, HistoryInv, Recall, History
    <2> QED BY <2>1, <2>2, <2>3 DEF HNext
<1>3. HSpec => Spec
    BY HistoryStep, PTL DEF HSpec, HInit, Spec
<1>4. Spec => []IInv
    <2>1. ASSUME StoresOnMiss
          PROVE  Spec => []IInv
        <3>1. OnMissInv => IInv
            BY DEF OnMissInv
        <3> QED BY <2>1, <3>1, OnMissInductive, PTL
    <2> QED BY <2>1, Inductive DEF Remembered
<1> QED BY <1>1, <1>2, <1>3, <1>4, PTL DEF HSpec

(* A store that evicts takes what has the least past of all stored keys. *)
LEMMA EvictsLeast ==
    ASSUME Remembered, HistoryInv, [HNext]_hvars, Evicts
    PROVE  \A gone \in rows \ rows', kept \in rows : History[gone.key] <= History[kept.key]
<1>1. CASE Withdraw \/ Tick
    BY <1>1, MakeRoomShrinks
       DEF Evicts, Withdraw, StoreAborted, InvalidateContext, InvalidateAge, InvalidateBulk,
           CleanupExpired, Clear, ClearAll, Remove, Tick
<1> QED BY <1>1, StoreRecalled DEF HNext, HLookup, Hit, hvars, vars, Evicts

(* Under LRU the evicted key is one that has gone unused the longest, for  *)
(* any vocabulary and any max_entries (lru.py:63, storage_ops.py:413-504). *)
THEOREM LruEvictsLeastRecent ==
    ASSUME Remembered
    PROVE  HSpec => EvictsLeastRecentlyUsed
<1>1. HistoryInv /\ [HNext]_hvars =>
         (Evicts /\ policy = "lru" =>
             \A gone \in rows \ rows', kept \in rows \cap rows' :
                used[gone.key] <= used[kept.key])
    BY EvictsLeast DEF History
<1> QED BY <1>1, HistoryInductive, PTL DEF HSpec, EvictsLeastRecentlyUsed

(* Under LFU the evicted key is one with the fewest hits since it was      *)
(* stored (lfu.py:62, storage_ops.py:413-504).                             *)
THEOREM LfuEvictsLeastFrequent ==
    ASSUME Remembered
    PROVE  HSpec => EvictsLeastFrequentlyUsed
<1>1. HistoryInv /\ [HNext]_hvars =>
         (Evicts /\ policy = "lfu" =>
             \A gone \in rows \ rows', kept \in rows \cap rows' :
                hits[gone.key] <= hits[kept.key])
    BY EvictsLeast DEF History
<1> QED BY <1>1, HistoryInductive, PTL DEF HSpec, EvictsLeastFrequentlyUsed
=============================================================================
