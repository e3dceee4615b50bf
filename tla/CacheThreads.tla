---------------------------- MODULE CacheThreads ----------------------------
(***************************************************************************)
(* The cache under several threads: callers of store, lookup and           *)
(* invalidate, and the cleanup thread of scheduler.py.  Nothing is locked, *)
(* so a call is a series of steps, each one read or write of a table or of *)
(* the eviction policy, and the steps of different calls interleave.       *)
(*                                                                         *)
(* The backend deletes in one of two ways.  On disk a delete is a          *)
(* statement of the database.  In memory the code reads the whole table,   *)
(* filters it, and creates the table anew from what it kept.               *)
(*                                                                         *)
(* One table stands for the two, which every operation treats alike, one   *)
(* after the other.  Names are faithful: a key is its own entry id.  A     *)
(* call of create_table and the assignment of its result are one step.     *)
(***************************************************************************)
EXTENDS Eviction

CONSTANTS
    Client,         \* threads that call the cache
    Cleaner,        \* the cleanup thread
    EvictionPolicy, \* config.eviction_policy
    Key,            \* entries
    MaxEntries,     \* config.max_entries
    TTL,            \* config.ttl_seconds, in ticks
    Memory,         \* whether config.db_uri = "memory://": FALSE, TRUE, or both tried
    Calls,          \* calls the clients make: "store", "lookup", "invalidate"
    NoKey,          \* no entry
    MaxClock        \* no store starts and no tick happens after this

ASSUME ThreadsAssumption ==
    /\ Cleaner \notin Client
    /\ EvictionPolicy \in Policy
    /\ NoKey \notin Key
    /\ MaxEntries \in Nat \ {0}
    /\ TTL \in Nat
    /\ Memory \subseteq BOOLEAN
    /\ Calls \subseteq {"store", "lookup", "invalidate"}
    /\ MaxClock \in Nat

VARIABLES
    table,          \* rows [key, ts] of the tables
    tracked,        \* cells of the eviction policy
    clock,          \* time.time()
    pc,             \* the next step of each thread
    key,            \* the entry a thread's call is about
    victim,         \* what select_victim returned to it
    snap,           \* the rows it has read with to_arrow
    before,         \* the count it took before deleting
    memory          \* the storage is in memory: chosen once

tvars == <<table, tracked, clock, pc, key, victim, snap, before, memory>>

Thread == Client \cup {Cleaner}
Row == [key : Key, ts : Nat]

RowsOf(S, k) == {r \in S : r.key = k}

(* Mutant of Old: a row whose time is just up stays *)
OldStrict(S, cutoff) == {r \in S : r.ts < cutoff}

Old(S, cutoff) == {r \in S : r.ts <= cutoff}

Forget(gone) ==
    OnEvictMany(tracked, [k \in Ids(tracked) |-> Cardinality(RowsOf(gone, k))])

Init ==
    /\ table = {}
    /\ tracked = {}
    /\ clock = TTL + 1
    /\ pc = [t \in Thread |-> "idle"]
    /\ key = [t \in Thread |-> NoKey]
    /\ victim = [t \in Thread |-> NoKey]
    /\ snap = [t \in Thread |-> {}]
    /\ before = [t \in Thread |-> 0]
    /\ memory \in Memory

Goto(t, label) == pc' = [pc EXCEPT ![t] = label]

(* The call returns; its local variables are gone *)
Return(t) ==
    /\ Goto(t, "idle")
    /\ key' = [key EXCEPT ![t] = NoKey]
    /\ victim' = [victim EXCEPT ![t] = NoKey]
    /\ snap' = [snap EXCEPT ![t] = {}]
    /\ before' = [before EXCEPT ![t] = 0]

locals == <<key, victim, snap, before>>

-----------------------------------------------------------------------------
(* store *)

StartStore(t) ==
    /\ "store" \in Calls
    /\ pc[t] = "idle"
    /\ clock < MaxClock
    /\ \E k \in Key : key' = [key EXCEPT ![t] = k]
    /\ Goto(t, "count")
    /\ UNCHANGED <<table, tracked, clock, victim, snap, before, memory>>

Count(t) ==
    /\ pc[t] = "count"
    /\ Goto(t, IF Cardinality(table) >= MaxEntries THEN "select" ELSE "add")
    /\ UNCHANGED <<table, tracked, clock, locals, memory>>

(* Mutant of Select: the cell is taken for its id *)
SelectCell(t) ==
    /\ pc[t] = "select"
    /\ \E v \in Victims(tracked) : victim' = [victim EXCEPT ![t] = v]
    /\ Goto(t, "find")
    /\ UNCHANGED <<table, tracked, clock, key, snap, before, memory>>

(* Another thread is about to change the policy *)
Disturbed(t) ==
    \E u \in Thread \ {t} : pc[u] \in {"insert", "access", "evict", "notify", "untrack"}

(* select_victim raises when there is nothing to evict, and may raise when *)
(* the list or dict changes under it; the store then goes on.              *)
Select(t) ==
    /\ pc[t] = "select"
    /\ \/ /\ tracked = {} \/ Disturbed(t)
          /\ Goto(t, "add")
          /\ UNCHANGED victim
       \/ \E v \in Victims(tracked) :
             /\ victim' = [victim EXCEPT ![t] = v.id]
             /\ Goto(t, "find")
    /\ UNCHANGED <<table, tracked, clock, key, snap, before, memory>>

(* A victim that is not found stays tracked, and the store goes on *)
Find(t) ==
    /\ pc[t] = "find"
    /\ Goto(t, IF RowsOf(table, victim[t]) = {} THEN "add"
               ELSE IF memory THEN "read" ELSE "before")
    /\ UNCHANGED <<table, tracked, clock, locals, memory>>

(* delete_by_id in memory *)
ReadTable(t) ==
    /\ pc[t] = "read"
    /\ snap' = [snap EXCEPT ![t] = table]
    /\ Goto(t, IF RowsOf(table, victim[t]) = {} THEN "add" ELSE "overwrite")
    /\ UNCHANGED <<table, tracked, clock, key, victim, before, memory>>

Overwrite(t) ==
    /\ pc[t] = "overwrite"
    /\ table' = snap[t] \ RowsOf(snap[t], victim[t])
    /\ Goto(t, "evict")
    /\ UNCHANGED <<tracked, clock, locals, memory>>

(* delete_by_id on disk: it counts the rows before and after, and reports  *)
(* a deletion when there are fewer                                         *)
CountBefore(t) ==
    /\ pc[t] = "before"
    /\ before' = [before EXCEPT ![t] = Cardinality(table)]
    /\ Goto(t, "delete")
    /\ UNCHANGED <<table, tracked, clock, key, victim, snap, memory>>

Delete(t) ==
    /\ pc[t] = "delete"
    /\ table' = table \ RowsOf(table, victim[t])
    /\ Goto(t, "after")
    /\ UNCHANGED <<tracked, clock, locals, memory>>

CountAfter(t) ==
    /\ pc[t] = "after"
    /\ Goto(t, IF before[t] > Cardinality(table) THEN "evict" ELSE "add")
    /\ UNCHANGED <<table, tracked, clock, locals, memory>>

Evict(t) ==
    /\ pc[t] = "evict"
    /\ tracked' = OnEvict(tracked, victim[t])
    /\ Goto(t, "add")
    /\ UNCHANGED <<table, clock, locals, memory>>

Add(t) ==
    /\ pc[t] = "add"
    /\ table' = table \cup {[key |-> key[t], ts |-> clock]}
    /\ clock' = clock + 1
    /\ Goto(t, "insert")
    /\ UNCHANGED <<tracked, locals, memory>>

Insert(t) ==
    /\ pc[t] = "insert"
    /\ tracked' = OnInsert(EvictionPolicy, tracked, key[t], clock)
    /\ Return(t)
    /\ UNCHANGED <<table, clock, memory>>

-----------------------------------------------------------------------------
(* lookup: a hit tells the policy after the search *)

Lookup(t) ==
    /\ "lookup" \in Calls
    /\ pc[t] = "idle"
    /\ \E r \in table :
          /\ clock - r.ts <= TTL
          /\ key' = [key EXCEPT ![t] = r.key]
    /\ Goto(t, "access")
    /\ UNCHANGED <<table, tracked, clock, victim, snap, before, memory>>

Access(t) ==
    /\ pc[t] = "access"
    /\ tracked' = OnAccess(EvictionPolicy, tracked, key[t], clock)
    /\ Return(t)
    /\ UNCHANGED <<table, clock, memory>>

-----------------------------------------------------------------------------
(* invalidate by context; a key stands for the context it is stored in *)

Invalidate(t) ==
    /\ "invalidate" \in Calls
    /\ pc[t] = "idle"
    /\ table # {}
    /\ \E k \in Key : key' = [key EXCEPT ![t] = k]
    /\ snap' = [snap EXCEPT ![t] = table]
    /\ Goto(t, "withdraw")
    /\ UNCHANGED <<table, tracked, clock, victim, before, memory>>

(* Mutant of Withdraw: on disk, too, the table is rewritten from what was  *)
(* read                                                                    *)
WithdrawSnapshot(t) ==
    /\ pc[t] = "withdraw"
    /\ table' = snap[t] \ RowsOf(snap[t], key[t])
    /\ Goto(t, "notify")
    /\ UNCHANGED <<tracked, clock, locals, memory>>

Withdraw(t) ==
    /\ pc[t] = "withdraw"
    /\ LET from == IF memory THEN snap[t] ELSE table
       IN  table' = from \ RowsOf(from, key[t])
    /\ Goto(t, "notify")
    /\ UNCHANGED <<tracked, clock, locals, memory>>

Notify(t) ==
    /\ pc[t] = "notify"
    /\ tracked' = Forget(RowsOf(snap[t], key[t]))
    /\ Return(t)
    /\ UNCHANGED <<table, clock, memory>>

-----------------------------------------------------------------------------
(* cleanup_expired, called again and again by the cleanup thread.  The     *)
(* cutoff is kept in "before".  The number of rows it reports is left out: *)
(* it is the rows read at the start less those left at the end.            *)

CleanNothing ==
    /\ pc[Cleaner] = "idle"
    /\ table = {}
    /\ UNCHANGED tvars

Snapshot ==
    /\ pc[Cleaner] = "idle"
    /\ table # {}
    /\ snap' = [snap EXCEPT ![Cleaner] = table]
    /\ before' = [before EXCEPT ![Cleaner] = clock - TTL]
    /\ Goto(Cleaner, "untrack")
    /\ UNCHANGED <<table, tracked, clock, key, victim, memory>>

Untrack ==
    /\ pc[Cleaner] = "untrack"
    /\ tracked' = Forget(Old(snap[Cleaner], before[Cleaner]))
    /\ Goto(Cleaner, "expire")
    /\ UNCHANGED <<table, clock, locals, memory>>

(* Mutant of Expire: likewise *)
ExpireSnapshot ==
    /\ pc[Cleaner] = "expire"
    /\ table' = snap[Cleaner] \ Old(snap[Cleaner], before[Cleaner])
    /\ Return(Cleaner)
    /\ UNCHANGED <<tracked, clock, memory>>

Expire ==
    /\ pc[Cleaner] = "expire"
    /\ LET from == IF memory THEN snap[Cleaner] ELSE table
       IN  table' = from \ Old(from, before[Cleaner])
    /\ Return(Cleaner)
    /\ UNCHANGED <<tracked, clock, memory>>

CleanerStep == CleanNothing \/ Snapshot \/ Untrack \/ Expire

-----------------------------------------------------------------------------
Tick ==
    /\ clock < MaxClock
    /\ clock' = clock + 1
    /\ UNCHANGED <<table, tracked, pc, locals, memory>>

Call(t) == StartStore(t) \/ Lookup(t) \/ Invalidate(t)

Continue(t) ==
    \/ Count(t) \/ Select(t) \/ Find(t) \/ ReadTable(t) \/ Overwrite(t)
    \/ CountBefore(t) \/ Delete(t) \/ CountAfter(t) \/ Evict(t) \/ Add(t) \/ Insert(t)
    \/ Access(t) \/ Withdraw(t) \/ Notify(t)

Next ==
    \/ \E t \in Client : Call(t) \/ Continue(t)
    \/ CleanerStep
    \/ Tick

(* A client calls when it likes, but a call that has begun goes on, and    *)
(* the cleanup thread runs for ever: the threads are preemptive, and _run  *)
(* loops whatever the cleanup does.                                        *)
Spec ==
    /\ Init /\ [][Next]_tvars
    /\ \A t \in Client : WF_tvars(Continue(t))
    /\ WF_tvars(CleanerStep)

-----------------------------------------------------------------------------
(* Properties *)

Label == {"idle", "count", "select", "find", "read", "overwrite", "before", "delete",
          "after", "evict", "add", "insert", "access", "withdraw", "notify", "untrack",
          "expire"}

(* Every variable has its type. *)
TypeOK ==
    /\ table \subseteq Row
    /\ tracked \subseteq [id : Key, val : Nat, at : Nat]
    /\ clock \in Nat
    /\ pc \in [Thread -> Label]
    /\ key \in [Thread -> Key \cup {NoKey}]
    /\ victim \in [Thread -> Key \cup {NoKey}]
    /\ snap \in [Thread -> SUBSET Row]
    /\ before \in [Thread -> Nat]
    /\ memory \in Memory

(* What a step of t that deletes is meant to delete *)
Meant(t, r) ==
    CASE pc[t] \in {"overwrite", "delete"} -> r.key = victim[t]
      [] pc[t] = "withdraw"                -> r.key = key[t]
      [] pc[t] = "expire"                  -> r.ts <= before[t]
      [] OTHER                             -> FALSE

RemovesAsMeant == \A r \in table \ table' : \E t \in Thread : pc'[t] # pc[t] /\ Meant(t, r)

AddsNew ==
    \A r \in table' \ table :
        \E t \in Client : pc[t] = "add" /\ r.key = key[t] /\ r.ts = clock

(* A row leaves the table only by a step meant to delete it: the eviction  *)
(* of its key, the invalidation of its context, or its expiry.  A row just *)
(* stored is not lost.                                                     *)
OnlyMeantRemoved == [][RemovesAsMeant]_tvars

(* Of the storage on disk (lancedb.py:679-705, invalidation.py:157,        *)
(* maintenance.py:101 and 139).                                            *)
DiskLosesNoRow == [][~memory => RemovesAsMeant]_tvars

(* On disk a row that was deleted does not come back: the only row a step  *)
(* adds is the new one of a store.                                         *)
DiskRevivesNoRow == [][~memory => AddsNew]_tvars

(* An expired row is deleted in the end, wherever the storage is, though   *)
(* in memory a caller may bring it back for a while (maintenance.py:46-153 *)
(* called by scheduler.py:110-138).  No two rows have the same timestamp.  *)
ExpiredRemoved ==
    \A n \in (TTL + 1)..(MaxClock + Cardinality(Client)) :
        (n <= clock - TTL /\ \E r \in table : r.ts = n) ~> (\A r \in table : r.ts # n)
=============================================================================
