-------------------------- MODULE CacheThreadsProofs --------------------------
(***************************************************************************)
(* Proofs about CacheThreads, for any number of client threads, any keys,  *)
(* every policy and any max_entries and TTL.                               *)
(***************************************************************************)
EXTENDS CacheThreads, FiniteSetTheorems, TLAPS

(* Types, and what they need to be kept: tables and copies are finite, the *)
(* clock is past the TTL, a thread in a store or in a hit has a key, and   *)
(* on disk no thread is about to rewrite the table from a copy.            *)
IInv ==
    /\ TypeOK
    /\ IsFiniteSet(table) /\ \A t \in Thread : IsFiniteSet(snap[t])
    /\ clock > TTL
    /\ \A t \in Thread :
          pc[t] \in {"count", "select", "find", "read", "overwrite", "before", "delete",
                     "after", "evict", "add", "insert", "access"} => key[t] \in Key
    /\ \A t \in Thread : pc[t] \in {"read", "overwrite"} => memory

(* on_insert and on_access keep the policy's cells well formed. *)
LEMMA PolicyTypes ==
    ASSUME NEW p \in Policy, NEW cells \in SUBSET [id : Key, val : Nat, at : Nat],
           NEW k \in Key, NEW now \in Nat
    PROVE  /\ OnInsert(p, cells, k, now) \in SUBSET [id : Key, val : Nat, at : Nat]
           /\ OnAccess(p, cells, k, now) \in SUBSET [id : Key, val : Nat, at : Nat]
<1>1. \A n \in Nat : Put(cells, k, n, now) \in SUBSET [id : Key, val : Nat, at : Nat]
    BY DEF Put, Ids
<1>2. OnInsert(p, cells, k, now) \in SUBSET [id : Key, val : Nat, at : Nat]
    BY <1>1 DEF OnInsert, Policy
<1>3. CASE p = "lfu" /\ k \in Ids(cells)
    BY <1>2, <1>3 DEF OnAccess
<1>4. CASE p # "lfu" \/ k \notin Ids(cells)
    BY <1>1, <1>2, <1>4 DEF OnAccess, Policy
<1> QED BY <1>2, <1>3, <1>4

(* on_evict only removes cells, however often it is called. *)
LEMMA OnEvictShrinks ==
    ASSUME NEW cells, NEW id, NEW times
    PROVE  OnEvict(cells, id) \subseteq cells /\ OnEvictMany(cells, times) \subseteq cells
BY DEF OnEvict, OnEvictMany

(* A step of a client's call keeps the invariant. *)
LEMMA ContinueKeeps ==
    ASSUME IInv, NEW t \in Thread, Continue(t)
    PROVE  IInv'
<1> USE DEF Goto, Return, locals, Label
<1>1. CASE Count(t)
    BY <1>1 DEF Count, IInv, TypeOK
<1>2. CASE Select(t)
    BY <1>2 DEF Select, Victims, IInv, TypeOK
<1>3. CASE Find(t)
    BY <1>3 DEF Find, IInv, TypeOK
<1>4. CASE ReadTable(t)
    BY <1>4 DEF ReadTable, IInv, TypeOK
<1>5. CASE Overwrite(t)
    <2>1. table' \subseteq snap[t] /\ IsFiniteSet(table')
        BY <1>5, FS_Subset DEF Overwrite, IInv
    <2> QED BY <1>5, <2>1 DEF Overwrite, IInv, TypeOK
<1>6. CASE CountBefore(t)
    <2>1. Cardinality(table) \in Nat
        BY FS_CardinalityType DEF IInv
    <2> QED BY <1>6, <2>1 DEF CountBefore, IInv, TypeOK
<1>7. CASE Delete(t)
    <2>1. table' \subseteq table /\ IsFiniteSet(table')
        BY <1>7, FS_Subset DEF Delete, IInv
    <2> QED BY <1>7, <2>1 DEF Delete, IInv, TypeOK
<1>8. CASE CountAfter(t)
    BY <1>8 DEF CountAfter, IInv, TypeOK
<1>9. CASE Evict(t)
    BY <1>9, OnEvictShrinks DEF Evict, IInv, TypeOK
<1>10. CASE Add(t)
    <2>1. IsFiniteSet(table')
        BY <1>10, FS_AddElement DEF Add, IInv
    <2> QED BY <1>10, <2>1, ThreadsAssumption DEF Add, ThreadsAssumption, Row, IInv, TypeOK
<1>11. CASE Insert(t)
    <2>1. tracked' \in SUBSET [id : Key, val : Nat, at : Nat]
        BY <1>11, PolicyTypes, ThreadsAssumption DEF Insert, ThreadsAssumption, IInv, TypeOK
    <2> QED BY <1>11, <2>1, FS_EmptySet DEF Insert, IInv, TypeOK
<1>12. CASE Access(t)
    <2>1. tracked' \in SUBSET [id : Key, val : Nat, at : Nat]
        BY <1>12, PolicyTypes, ThreadsAssumption DEF Access, ThreadsAssumption, IInv, TypeOK
    <2> QED BY <1>12, <2>1, FS_EmptySet DEF Access, IInv, TypeOK
<1>13. CASE Withdraw(t)
    <2>1. (table' \subseteq snap[t] \/ table' \subseteq table) /\ IsFiniteSet(table')
        BY <1>13, FS_Subset DEF Withdraw, IInv
    <2> QED BY <1>13, <2>1 DEF Withdraw, IInv, TypeOK
<1>14. CASE Notify(t)
    <2>1. tracked' \subseteq tracked
        BY <1>14, OnEvictShrinks DEF Notify, Forget
    <2> QED BY <1>14, <2>1, FS_EmptySet DEF Notify, IInv, TypeOK
<1> QED BY <1>1, <1>2, <1>3, <1>4, <1>5, <1>6, <1>7, <1>8, <1>9, <1>10, <1>11, <1>12, <1>13, <1>14
        DEF Continue

(* So does every step. *)
LEMMA StepKeeps ==
    ASSUME IInv, [Next]_tvars
    PROVE  IInv'
<1>1. ASSUME NEW t \in Client, Call(t)
      PROVE  IInv'
    <2> USE DEF Goto, locals, Label
    <2>1. CASE StartStore(t)
        BY <2>1 DEF StartStore, Thread, IInv, TypeOK
    <2>2. CASE Lookup(t)
        BY <2>2 DEF Lookup, Thread, Row, IInv, TypeOK
    <2>3. CASE Invalidate(t)
        BY <2>3 DEF Invalidate, Thread, IInv, TypeOK
    <2> QED BY <1>1, <2>1, <2>2, <2>3 DEF Call
<1>2. ASSUME NEW t \in Client, Continue(t)
      PROVE  IInv'
    BY <1>2, ContinueKeeps DEF Thread
<1>3. CASE CleanerStep
    <2> USE DEF Goto, Return, locals, Label
    <2>1. CASE CleanNothing
        BY <2>1 DEF CleanNothing, tvars, IInv, TypeOK
    <2>2. CASE Snapshot
        <3>1. clock - TTL \in Nat /\ Cleaner \in Thread
            BY ThreadsAssumption DEF ThreadsAssumption, Thread, IInv, TypeOK
        <3> QED BY <2>2, <3>1 DEF Snapshot, IInv, TypeOK
    <2>3. CASE Untrack
        BY <2>3, OnEvictShrinks DEF Untrack, Forget, IInv, TypeOK
    <2>4. CASE Expire
        <3>1. Cleaner \in Thread
            BY DEF Thread
        <3>2. /\ table' \subseteq snap[Cleaner] \/ table' \subseteq table
              /\ IsFiniteSet(table')
            BY <2>4, <3>1, FS_Subset DEF Expire, Old, IInv
        <3> QED BY <2>4, <3>1, <3>2, FS_EmptySet DEF Expire, IInv, TypeOK
    <2> QED BY <1>3, <2>1, <2>2, <2>3, <2>4 DEF CleanerStep
<1>4. CASE Tick
    BY <1>4, ThreadsAssumption DEF Tick, ThreadsAssumption, locals, IInv, TypeOK
<1>5. CASE UNCHANGED tvars
    BY <1>5 DEF tvars, IInv, TypeOK
<1> QED BY <1>1, <1>2, <1>3, <1>4, <1>5 DEF Next

(* It holds at the start. *)
LEMMA InitiallyKept == Init => IInv
BY ThreadsAssumption, FS_EmptySet DEF ThreadsAssumption, Init, Label, IInv, TypeOK

(* The invariant holds at every moment, however the threads interleave. *)
THEOREM Inductive == Spec => []IInv
<1>1. IInv /\ [Next]_tvars => IInv'
    BY StepKeeps
<1> QED BY <1>1, InitiallyKept, PTL DEF Spec

(* Every variable keeps its type. *)
THEOREM TypeCorrect == Spec => []TypeOK
<1>1. IInv => TypeOK
    BY DEF IInv
<1> QED BY <1>1, Inductive, PTL

-----------------------------------------------------------------------------
(* What a step does to the table on disk *)

(* Few steps write the table. *)
LEMMA TableWriters ==
    ASSUME [Next]_tvars, table' # table
    PROVE  \/ Expire
           \/ \E t \in Client : Add(t) \/ Overwrite(t) \/ Delete(t) \/ Withdraw(t)
<1>1. ASSUME NEW t \in Client, Call(t) \/ Continue(t)
      PROVE  Add(t) \/ Overwrite(t) \/ Delete(t) \/ Withdraw(t)
    BY <1>1 DEF Call, StartStore, Lookup, Invalidate, Continue, Count, Select, Find, ReadTable,
                CountBefore, CountAfter, Evict, Insert, Access, Notify
<1>2. CleanerStep \/ Tick => Expire
    BY DEF CleanerStep, CleanNothing, Snapshot, Untrack, Tick, tvars
<1> QED BY <1>1, <1>2 DEF Next, tvars

(* A step either leaves the table alone, or adds the row of a store, or    *)
(* deletes rows it is meant to delete.                                     *)
LEMMA DiskStep ==
    ASSUME IInv, ~memory, [Next]_tvars
    PROVE  RemovesAsMeant /\ AddsNew
<1>1. CASE table' = table
    BY <1>1 DEF RemovesAsMeant, AddsNew
<1>2. ASSUME NEW t \in Client, Add(t) \/ Overwrite(t) \/ Delete(t) \/ Withdraw(t)
      PROVE  RemovesAsMeant /\ AddsNew
    <2>1. t \in Thread /\ pc[t] # "overwrite" /\ pc \in [Thread -> Label]
        BY DEF Thread, IInv, TypeOK
    <2>2. CASE Add(t)
        BY <1>2, <2>2 DEF Add, RemovesAsMeant, AddsNew
    <2>3. CASE Delete(t)
        BY <2>1, <2>3 DEF Delete, Goto, RowsOf, Meant, RemovesAsMeant, AddsNew
    <2>4. CASE Withdraw(t)
        BY <2>1, <2>4 DEF Withdraw, Goto, RowsOf, Meant, RemovesAsMeant, AddsNew
    <2> QED BY <1>2, <2>1, <2>2, <2>3, <2>4 DEF Overwrite
<1>3. CASE Expire
    <2>1. Cleaner \in Thread /\ pc \in [Thread -> Label]
        BY DEF Thread, IInv, TypeOK
    <2> QED BY <1>3, <2>1 DEF Expire, Return, Goto, Old, Meant, RemovesAsMeant, AddsNew
<1> QED BY <1>1, <1>2, <1>3, TableWriters

(* On disk, with any number of callers beside the cleanup thread and no    *)
(* lock, a row leaves the table only by a step that is meant to delete it  *)
(* (lancedb.py:679-705, invalidation.py:157, maintenance.py:101 and 139).  *)
THEOREM NoRowLost == Spec => DiskLosesNoRow
<1>1. IInv /\ [Next]_tvars => (~memory => RemovesAsMeant)
    BY DiskStep
<1> QED BY <1>1, Inductive, PTL DEF Spec, DiskLosesNoRow

(* On disk no row that was deleted comes back: only a store adds a row,    *)
(* its own, with the time of the store.                                    *)
THEOREM NoRowRevived == Spec => DiskRevivesNoRow
<1>1. IInv /\ [Next]_tvars => (~memory => AddsNew)
    BY DiskStep
<1> QED BY <1>1, Inductive, PTL DEF Spec, DiskRevivesNoRow

-----------------------------------------------------------------------------
(* Calls that do not overlap *)

Stored(R) == {r.key : r \in R}

(* At most one call is under way, the cleanup included *)
Alone == \A t, u \in Thread : pc[t] # "idle" /\ pc[u] # "idle" => t = u

(* No two calls overlap, and a store is of an entry that is not there *)
SerialNext ==
    /\ Next
    /\ Alone'
    /\ \A t \in Client : pc[t] = "idle" /\ pc'[t] = "count" => key'[t] \notin Stored(table)

SerialSpec == Init /\ [][SerialNext]_tvars

Unique(R) == \A r, s \in R : r.key = s.key => r = s
OneCell(cells) == \A e, f \in cells : e.id = f.id => e = f

(* What holds while t is in a call *)
InCall(t) ==
    /\ pc[t] \in {"count", "select", "find", "read", "overwrite", "before", "delete", "after",
                  "evict", "add"} => key[t] \notin Stored(table)
    /\ pc[t] \in {"find", "read", "overwrite", "before", "delete"} => victim[t] \in Stored(table)
    /\ pc[t] = "select" => table # {}
    /\ pc[t] \in {"overwrite", "withdraw", "untrack", "expire"} => snap[t] = table
    /\ pc[t] = "delete" => before[t] = Cardinality(table)
    /\ pc[t] = "after" => before[t] > Cardinality(table)
    /\ pc[t] \in {"after", "evict", "add"} => Cardinality(table) < MaxEntries
    /\ pc[t] \in {"after", "evict"} => /\ victim[t] \notin Stored(table)
                                       /\ Ids(tracked) = Stored(table) \cup {victim[t]}
    /\ pc[t] = "insert" => /\ key[t] \notin Ids(tracked)
                           /\ Stored(table) = Ids(tracked) \cup {key[t]}
    /\ pc[t] = "access" => key[t] \in Stored(table)
    /\ pc[t] = "notify" => /\ table = snap[t] \ RowsOf(snap[t], key[t])
                           /\ Ids(tracked) = Stored(snap[t])
    /\ pc[t] = "expire" => Ids(tracked) = Stored(table \ Old(table, before[t]))

(* Between two writes of one call, policy and table differ *)
Ahead == {"after", "evict", "insert", "notify", "expire"}

(* No thread but t is in a call; no entry has two rows or two cells *)
Solo(t) ==
    /\ \A u \in Thread \ {t} : pc[u] = "idle"
    /\ Unique(table)
    /\ OneCell(tracked)
    /\ Cardinality(table) <= MaxEntries
    /\ InCall(t)
    /\ pc[t] \notin Ahead => Ids(tracked) = Stored(table)

SerialInv == IInv /\ \E t \in Thread : Solo(t)

(* A new entry gets one cell, under every policy. *)
LEMMA InsertNew ==
    ASSUME NEW p \in Policy, NEW cells, OneCell(cells), NEW k, k \notin Ids(cells), NEW now
    PROVE  /\ OneCell(OnInsert(p, cells, k, now))
           /\ Ids(OnInsert(p, cells, k, now)) = Ids(cells) \cup {k}
<1>1. PICK n : OnInsert(p, cells, k, now) = cells \cup {[id |-> k, val |-> n, at |-> now]}
    BY DEF OnInsert, Policy, Put
<1> DEFINE new == [id |-> k, val |-> n, at |-> now]
<1>2. new.id = k /\ \A e \in cells : e.id # k
    BY DEF Ids
<1> HIDE DEF new
<1>3. OneCell(cells \cup {new}) /\ Ids(cells \cup {new}) = Ids(cells) \cup {k}
    BY <1>2 DEF OneCell, Ids
<1> QED BY <1>1, <1>3 DEF new

(* A hit on an entry that is tracked adds and drops no cell. *)
LEMMA AccessKnown ==
    ASSUME NEW p \in Policy, NEW cells \in SUBSET [id : Key, val : Nat, at : Nat],
           OneCell(cells), NEW k \in Ids(cells), NEW now
    PROVE  /\ OneCell(OnAccess(p, cells, k, now))
           /\ Ids(OnAccess(p, cells, k, now)) = Ids(cells)
<1>1. ASSUME NEW f, \A e \in cells : f[e].id = e.id
      PROVE  LET new == {f[e] : e \in cells}
             IN  OneCell(new) /\ Ids(new) = Ids(cells)
    <2> DEFINE new == {f[e] : e \in cells}
    <2>1. Ids(new) = {f[e].id : e \in cells}
        BY DEF Ids
    <2>2. ASSUME NEW x \in new, NEW y \in new, x.id = y.id
          PROVE  x = y
        BY <1>1, <2>2 DEF OneCell
    <2> QED BY <1>1, <2>1, <2>2 DEF OneCell, Ids
<1> DEFINE used == [e \in cells |-> IF e.id = k THEN [e EXCEPT !.val = now] ELSE e]
           hit == [e \in cells |-> IF e.id = k THEN [e EXCEPT !.val = @ + 1] ELSE e]
<1>2. \A e \in cells : used[e].id = e.id /\ hit[e].id = e.id
    OBVIOUS
<1>3. \/ OnAccess(p, cells, k, now) = cells
      \/ OnAccess(p, cells, k, now) = {used[e] : e \in cells}
      \/ OnAccess(p, cells, k, now) = {hit[e] : e \in cells}
    BY DEF OnAccess, Policy, Put
<1> HIDE DEF used, hit
<1>4. /\ OneCell({used[e] : e \in cells}) /\ Ids({used[e] : e \in cells}) = Ids(cells)
      /\ OneCell({hit[e] : e \in cells}) /\ Ids({hit[e] : e \in cells}) = Ids(cells)
    BY <1>1, <1>2
<1> QED BY <1>3, <1>4

(* Being told of an id once is enough to forget it. *)
LEMMA ToldOnce ==
    ASSUME NEW cells \in SUBSET [id : Key, val : Nat, at : Nat], OneCell(cells),
           NEW times, \A e \in cells : times[e.id] \in Nat
    PROVE  OnEvictMany(cells, times) = {e \in cells : times[e.id] = 0}
<1> SUFFICES ASSUME NEW e \in cells
             PROVE  Cardinality({f \in CellsOf(cells, e.id) : f.at <= e.at}) = 1
    BY DEF OnEvictMany
<1>1. {f \in CellsOf(cells, e.id) : f.at <= e.at} = {e}
    BY DEF CellsOf, OneCell
<1> QED BY <1>1, FS_Singleton

(* What the policy forgets: the victim of an eviction, or the ids of the   *)
(* rows that are gone.                                                     *)
LEMMA Forgotten ==
    ASSUME TypeOK, OneCell(tracked)
    PROVE  /\ \A id : /\ OneCell(OnEvict(tracked, id))
                      /\ Ids(OnEvict(tracked, id)) = Ids(tracked) \ {id}
           /\ \A R : IsFiniteSet(R) => /\ OneCell(Forget(R))
                                       /\ Ids(Forget(R)) = Ids(tracked) \ Stored(R)
<1>1. tracked \in SUBSET [id : Key, val : Nat, at : Nat]
    BY DEF TypeOK
<1>2. ASSUME NEW id
      PROVE  OneCell(OnEvict(tracked, id)) /\ Ids(OnEvict(tracked, id)) = Ids(tracked) \ {id}
    <2> DEFINE times == [i \in Ids(tracked) |-> IF i = id THEN 1 ELSE 0]
    <2>1. \A e \in tracked : times[e.id] = IF e.id = id THEN 1 ELSE 0
        BY DEF Ids
    <2> HIDE DEF times
    <2>2. OnEvictMany(tracked, times) = {e \in tracked : times[e.id] = 0}
        BY <1>1, <2>1, ToldOnce
    <2>3. OnEvictMany(tracked, times) = {e \in tracked : e.id # id}
        BY <2>1, <2>2
    <2> QED BY <2>3 DEF OnEvict, times, Ids, OneCell
<1>3. ASSUME NEW R, IsFiniteSet(R)
      PROVE  OneCell(Forget(R)) /\ Ids(Forget(R)) = Ids(tracked) \ Stored(R)
    <2> DEFINE times == [k \in Ids(tracked) |-> Cardinality(RowsOf(R, k))]
    <2>1. ASSUME NEW k
          PROVE  Cardinality(RowsOf(R, k)) \in Nat /\ (Cardinality(RowsOf(R, k)) = 0 <=> k \notin Stored(R))
        <3>1. IsFiniteSet(RowsOf(R, k))
            BY <1>3, FS_Subset DEF RowsOf
        <3>2. RowsOf(R, k) = {} <=> k \notin Stored(R)
            BY DEF RowsOf, Stored
        <3> QED BY <3>1, <3>2, FS_CardinalityType, FS_EmptySet
    <2>2. \A e \in tracked : times[e.id] \in Nat /\ (times[e.id] = 0 <=> e.id \notin Stored(R))
        BY <2>1 DEF Ids
    <2> HIDE DEF times
    <2>3. OnEvictMany(tracked, times) = {e \in tracked : times[e.id] = 0}
        BY <1>1, <2>2, ToldOnce
    <2>4. Forget(R) = {e \in tracked : e.id \notin Stored(R)}
        BY <2>2, <2>3 DEF Forget, times
    <2> QED BY <2>4 DEF Ids, OneCell
<1> QED BY <1>2, <1>3

(* The thread that is in a call is the one that goes on, or that begins.   *)
LEMMA SoloActs ==
    ASSUME SerialInv, NEW t \in Thread,
           \/ pc[t] # "idle"
           \/ pc'[t] # "idle" /\ Alone' /\ \A u \in Thread \ {t} : pc'[u] = pc[u]
    PROVE  Solo(t)
<1>1. PICK s \in Thread : Solo(s)
    BY DEF SerialInv
<1>2. CASE s # t
    <2>1. pc[t] = "idle"
        BY <1>1, <1>2 DEF Solo
    <2>2. pc[s] = "idle"
        BY <1>2, <2>1 DEF Alone
    <2> QED BY <1>1, <2>1, <2>2 DEF Solo, InCall, Ahead
<1> QED BY <1>1, <1>2

(* Deleting the rows of a key that is there makes the table smaller. *)
LEMMA Smaller ==
    ASSUME IsFiniteSet(table), NEW k \in Stored(table),
           NEW rest, rest = table \ RowsOf(table, k)
    PROVE  /\ Cardinality(rest) \in Nat /\ Cardinality(table) \in Nat
           /\ Cardinality(rest) < Cardinality(table)
           /\ Stored(rest) = Stored(table) \ {k}
           /\ Unique(table) => Unique(rest)
<1>1. rest \subseteq table /\ rest # table
    BY DEF RowsOf, Stored
<1>2. /\ Cardinality(rest) <= Cardinality(table)
      /\ Cardinality(rest) # Cardinality(table)
      /\ IsFiniteSet(rest)
    BY <1>1, FS_Subset
<1>3. Cardinality(rest) \in Nat /\ Cardinality(table) \in Nat
    BY <1>2, FS_CardinalityType
<1>4. Stored(rest) = Stored(table) \ {k}
    BY DEF Stored, RowsOf
<1> QED BY <1>1, <1>2, <1>3, <1>4 DEF Unique

(* A store leads from one of these labels to the next with the table in    *)
(* step: nothing is written.                                               *)
LEMMA StoreReads ==
    ASSUME IInv, NEW t \in Thread, Solo(t),
           Count(t) \/ Select(t) \/ Find(t) \/ ReadTable(t) \/ CountBefore(t) \/ CountAfter(t)
    PROVE  Solo(t)'
<1> USE DEF Goto, locals, Ahead
<1>1. pc \in [Thread -> Label] /\ Cardinality(table) \in Nat /\ MaxEntries \in Nat \ {0}
    BY FS_CardinalityType, ThreadsAssumption DEF IInv, TypeOK, ThreadsAssumption
<1>2. \A u \in Thread \ {t} : pc'[u] = "idle"
    BY <1>1 DEF Solo, Count, Select, Find, ReadTable, CountBefore, CountAfter
<1>3. CASE Count(t)
    <2>1. table = {} => Cardinality(table) = 0
        BY FS_EmptySet
    <2> QED BY <1>1, <1>2, <1>3, <2>1 DEF Count, Solo, InCall
<1>4. CASE Select(t)
    <2>1. tracked # {} /\ ~Disturbed(t)
        BY <1>4 DEF Select, Solo, InCall, Ids, Stored, Disturbed
    <2>2. PICK v \in tracked : victim' = [victim EXCEPT ![t] = v.id] /\ pc' = [pc EXCEPT ![t] = "find"]
        BY <1>4, <2>1 DEF Select, Victims
    <2>3. v.id \in Stored(table)
        BY <1>4 DEF Select, Solo, Ids
    <2>4. victim'[t] = v.id
        BY <2>2 DEF IInv, TypeOK
    <2> QED BY <1>1, <1>2, <1>4, <2>2, <2>3, <2>4 DEF Select, Solo, InCall
<1>5. CASE Find(t)
    <2>1. RowsOf(table, victim[t]) # {}
        BY <1>5 DEF Find, Solo, InCall, RowsOf, Stored
    <2> QED BY <1>1, <1>2, <1>5, <2>1 DEF Find, Solo, InCall
<1>6. CASE ReadTable(t)
    <2>1. RowsOf(table, victim[t]) # {}
        BY <1>6 DEF ReadTable, Solo, InCall, RowsOf, Stored
    <2>2. snap'[t] = table
        BY <1>6 DEF ReadTable, IInv, TypeOK
    <2> QED BY <1>1, <1>2, <1>6, <2>1, <2>2 DEF ReadTable, Solo, InCall
<1>7. CASE CountBefore(t)
    <2>1. before'[t] = Cardinality(table)
        BY <1>7 DEF CountBefore, IInv, TypeOK
    <2> QED BY <1>1, <1>2, <1>7, <2>1 DEF CountBefore, Solo, InCall
<1>8. CASE CountAfter(t)
    BY <1>1, <1>2, <1>8 DEF CountAfter, Solo, InCall
<1> QED BY <1>3, <1>4, <1>5, <1>6, <1>7, <1>8

(* The writes of a store, one by one: the victim's rows, its cell, the new *)
(* row, the new cell.                                                      *)
LEMMA StoreWrites ==
    ASSUME IInv, NEW t \in Thread, Solo(t),
           Overwrite(t) \/ Delete(t) \/ Evict(t) \/ Add(t) \/ Insert(t)
    PROVE  Solo(t)'
<1> USE DEF Goto, locals, Ahead
<1>1. /\ pc \in [Thread -> Label] /\ Cardinality(table) \in Nat /\ MaxEntries \in Nat \ {0}
      /\ IsFiniteSet(table)
    BY FS_CardinalityType, ThreadsAssumption DEF IInv, TypeOK, ThreadsAssumption
<1>2. \A u \in Thread \ {t} : pc'[u] = "idle"
    BY <1>1 DEF Solo, Overwrite, Delete, Evict, Add, Insert, Return
<1>3. CASE Overwrite(t) \/ Delete(t)
    <2>1. victim[t] \in Stored(table) /\ key[t] \notin Stored(table)
        BY <1>3 DEF Overwrite, Delete, Solo, InCall
    <2>2. table' = table \ RowsOf(table, victim[t]) /\ UNCHANGED <<key, victim, before, tracked>>
        BY <1>3 DEF Overwrite, Delete, Solo, InCall
    <2>3. /\ Cardinality(table') \in Nat /\ Cardinality(table') < Cardinality(table)
          /\ Stored(table') = Stored(table) \ {victim[t]} /\ Unique(table')
        BY <1>1, <2>1, <2>2, Smaller DEF Solo
    <2>4. Ids(tracked') = Stored(table)
        BY <1>3, <2>2 DEF Overwrite, Delete, Solo
    <2>5. OneCell(tracked') /\ Cardinality(table) <= MaxEntries
        BY <2>2 DEF Solo
    <2>6. CASE Overwrite(t)
        <3>1. pc'[t] = "evict"
            BY <1>1, <2>6 DEF Overwrite
        <3> QED BY <1>1, <1>2, <2>1, <2>2, <2>3, <2>4, <2>5, <3>1 DEF Solo, InCall
    <2>7. CASE Delete(t)
        <3>1. pc'[t] = "after" /\ before'[t] = Cardinality(table)
            BY <1>1, <2>7 DEF Delete, Solo, InCall
        <3> QED BY <1>1, <1>2, <2>1, <2>2, <2>3, <2>4, <2>5, <3>1 DEF Solo, InCall
    <2> QED BY <1>3, <2>6, <2>7
<1>4. CASE Evict(t)
    <2>1. OneCell(tracked') /\ Ids(tracked') = Ids(tracked) \ {victim[t]}
        BY <1>4, Forgotten DEF Evict, Solo, IInv
    <2>2. Ids(tracked') = Stored(table)
        BY <1>4, <2>1 DEF Evict, Solo, InCall
    <2> QED BY <1>1, <1>2, <1>4, <2>1, <2>2 DEF Evict, Solo, InCall
<1>5. CASE Add(t)
    <2> DEFINE new == [key |-> key[t], ts |-> clock]
    <2>1. table' = table \cup {new} /\ pc'[t] = "insert" /\ UNCHANGED <<key, tracked>>
        BY <1>1, <1>5 DEF Add
    <2>2. key[t] \notin Stored(table) /\ Cardinality(table) < MaxEntries
        BY <1>5 DEF Add, Solo, InCall
    <2>3. new.key = key[t] /\ new \notin table
        BY <2>2 DEF Stored
    <2> HIDE DEF new
    <2>4. Cardinality(table') = Cardinality(table) + 1
        BY <1>1, <2>1, <2>3, FS_AddElement
    <2>5. Stored(table') = Stored(table) \cup {key[t]} /\ Unique(table')
        BY <2>1, <2>2, <2>3 DEF Stored, Unique, Solo
    <2>6. Ids(tracked') = Stored(table) /\ OneCell(tracked')
        BY <1>5, <2>1 DEF Add, Solo
    <2> QED BY <1>1, <1>2, <2>1, <2>2, <2>4, <2>5, <2>6 DEF Solo, InCall
<1>6. CASE Insert(t)
    <2>1. key[t] \notin Ids(tracked) /\ Stored(table) = Ids(tracked) \cup {key[t]}
        BY <1>6 DEF Insert, Solo, InCall
    <2>2. OneCell(tracked') /\ Ids(tracked') = Stored(table)
        BY <1>6, <2>1, InsertNew, ThreadsAssumption DEF Insert, Solo, ThreadsAssumption
    <2>3. pc'[t] = "idle" /\ table' = table
        BY <1>1, <1>6 DEF Insert, Return
    <2> QED BY <1>2, <2>2, <2>3 DEF Solo, InCall
<1> QED BY <1>3, <1>4, <1>5, <1>6

(* A hit, and an invalidation. *)
LEMMA OthersWrite ==
    ASSUME IInv, NEW t \in Thread, Solo(t), Access(t) \/ Withdraw(t) \/ Notify(t)
    PROVE  Solo(t)'
<1> USE DEF Goto, locals, Ahead
<1>1. /\ pc \in [Thread -> Label] /\ Cardinality(table) \in Nat /\ MaxEntries \in Nat \ {0}
      /\ IsFiniteSet(table) /\ IsFiniteSet(snap[t])
    BY FS_CardinalityType, ThreadsAssumption DEF IInv, TypeOK, ThreadsAssumption
<1>2. \A u \in Thread \ {t} : pc'[u] = "idle"
    BY <1>1 DEF Solo, Access, Withdraw, Notify, Return
<1>3. CASE Access(t)
    <2>1. key[t] \in Ids(tracked) /\ Ids(tracked) = Stored(table)
        BY <1>3 DEF Access, Solo, InCall
    <2>2. OneCell(tracked') /\ Ids(tracked') = Stored(table)
        BY <1>3, <2>1, AccessKnown, ThreadsAssumption DEF Access, Solo, ThreadsAssumption, IInv, TypeOK
    <2>3. pc'[t] = "idle" /\ table' = table
        BY <1>1, <1>3 DEF Access, Return
    <2> QED BY <1>2, <2>2, <2>3 DEF Solo, InCall
<1>4. CASE Withdraw(t)
    <2>1. /\ table' = snap[t] \ RowsOf(snap[t], key[t]) /\ snap[t] = table
          /\ pc'[t] = "notify" /\ UNCHANGED <<key, snap, tracked>>
        BY <1>1, <1>4 DEF Withdraw, Solo, InCall
    <2>2. Cardinality(table') <= MaxEntries /\ Unique(table')
        <3>1. Cardinality(table') <= Cardinality(table) /\ Cardinality(table') \in Nat
            BY <1>1, <2>1, FS_Subset, FS_CardinalityType
        <3> QED BY <1>1, <2>1, <3>1 DEF Solo, Unique
    <2>3. Ids(tracked') = Stored(table) /\ OneCell(tracked')
        BY <1>4, <2>1 DEF Withdraw, Solo
    <2> QED BY <1>2, <2>1, <2>2, <2>3 DEF Solo, InCall
<1>5. CASE Notify(t)
    <2>1. table = snap[t] \ RowsOf(snap[t], key[t]) /\ Ids(tracked) = Stored(snap[t])
        BY <1>5 DEF Notify, Solo, InCall
    <2>2. IsFiniteSet(RowsOf(snap[t], key[t]))
        BY <1>1, FS_Subset DEF RowsOf
    <2>3. OneCell(tracked') /\ Ids(tracked') = Ids(tracked) \ Stored(RowsOf(snap[t], key[t]))
        BY <1>5, <2>2, Forgotten DEF Notify, Solo, IInv
    <2>4. Ids(tracked') = Stored(table)
        BY <2>1, <2>3 DEF Stored, RowsOf
    <2>5. pc'[t] = "idle" /\ table' = table
        BY <1>1, <1>5 DEF Notify, Return
    <2> QED BY <1>2, <2>3, <2>4, <2>5 DEF Solo, InCall
<1> QED BY <1>3, <1>4, <1>5

(* A call begins, of a client or of the cleanup thread. *)
LEMMA CallBegins ==
    ASSUME SerialInv, SerialNext, NEW t \in Thread,
           (t \in Client /\ Call(t)) \/ (t = Cleaner /\ Snapshot)
    PROVE  Solo(t)'
<1> USE DEF Goto, Ahead
<1>1. /\ pc \in [Thread -> Label] /\ key \in [Thread -> Key \cup {NoKey}]
      /\ snap \in [Thread -> SUBSET Row]
    BY DEF SerialInv, IInv, TypeOK
<1>2. /\ pc[t] = "idle" /\ pc'[t] \in {"count", "access", "withdraw", "untrack"}
      /\ \A u \in Thread \ {t} : pc'[u] = pc[u]
      /\ UNCHANGED <<table, tracked>>
    BY <1>1 DEF Call, StartStore, Lookup, Invalidate, Snapshot
<1>3. Solo(t)
    BY <1>2, SoloActs DEF SerialNext
<1>4. pc'[t] = "count" => key'[t] \notin Stored(table)
    <2>1. CASE t \in Client
        BY <1>2, <2>1 DEF SerialNext
    <2>2. CASE t = Cleaner /\ Snapshot
        BY <1>1, <2>2 DEF Snapshot
    <2> QED BY <2>1, <2>2
<1>5. pc'[t] = "access" => key'[t] \in Stored(table)
    BY <1>1 DEF Call, StartStore, Lookup, Invalidate, Snapshot, Stored
<1>6. pc'[t] \in {"withdraw", "untrack"} => snap'[t] = table
    BY <1>1 DEF Call, StartStore, Lookup, Invalidate, Snapshot
<1> QED BY <1>2, <1>3, <1>4, <1>5, <1>6 DEF Solo, InCall

(* The cleanup goes on. *)
LEMMA CleanupWrites ==
    ASSUME IInv, Solo(Cleaner), Untrack \/ Expire
    PROVE  Solo(Cleaner)'
<1> USE DEF Goto, locals, Ahead
<1>1. /\ pc \in [Thread -> Label] /\ Cardinality(table) \in Nat /\ MaxEntries \in Nat \ {0}
      /\ IsFiniteSet(table) /\ Cleaner \in Thread
    BY FS_CardinalityType, ThreadsAssumption DEF IInv, TypeOK, ThreadsAssumption, Thread
<1>2. \A u \in Thread \ {Cleaner} : pc'[u] = "idle"
    BY <1>1 DEF Solo, Untrack, Expire, Return
<1>3. CASE Untrack
    <2> DEFINE old == Old(table, before[Cleaner])
    <2>1. snap[Cleaner] = table /\ Ids(tracked) = Stored(table) /\ Unique(table)
        BY <1>3 DEF Untrack, Solo, InCall
    <2>2. IsFiniteSet(old)
        BY <1>1, FS_Subset DEF Old
    <2>3. OneCell(tracked') /\ Ids(tracked') = Stored(table) \ Stored(old)
        BY <1>3, <2>1, <2>2, Forgotten DEF Untrack, Solo, IInv
    <2>4. Ids(tracked') = Stored(table \ old)
        BY <2>1, <2>3 DEF Stored, Unique, Old
    <2>5. pc'[Cleaner] = "expire" /\ UNCHANGED <<table, snap, before>>
        BY <1>1, <1>3 DEF Untrack
    <2> QED BY <1>2, <2>1, <2>3, <2>4, <2>5 DEF Solo, InCall
<1>4. CASE Expire
    <2>1. table' = table \ Old(table, before[Cleaner]) /\ tracked' = tracked /\ pc'[Cleaner] = "idle"
        BY <1>1, <1>4 DEF Expire, Solo, InCall, Return
    <2>2. Cardinality(table') <= MaxEntries /\ Unique(table')
        <3>1. Cardinality(table') <= Cardinality(table) /\ Cardinality(table') \in Nat
            BY <1>1, <2>1, FS_Subset, FS_CardinalityType
        <3> QED BY <1>1, <2>1, <3>1 DEF Solo, Unique
    <2>3. Ids(tracked') = Stored(table') /\ OneCell(tracked')
        BY <1>4, <2>1 DEF Expire, Solo, InCall
    <2> QED BY <1>2, <2>1, <2>2, <2>3 DEF Solo, InCall
<1> QED BY <1>3, <1>4

(* Nothing happens to the thread that may be in a call. *)
LEMMA NothingHappens ==
    ASSUME NEW t \in Thread, Solo(t), UNCHANGED <<table, tracked, pc, locals>>
    PROVE  Solo(t)'
BY DEF Solo, InCall, locals

(* Every step keeps the invariant, if calls do not overlap. *)
LEMMA SerialStep ==
    ASSUME SerialInv, [SerialNext]_tvars
    PROVE  SerialInv'
<1>1. IInv'
    BY StepKeeps DEF SerialInv, SerialNext
<1>2. CASE UNCHANGED <<table, tracked, pc, locals>>
    <2>1. PICK t \in Thread : Solo(t)
        BY DEF SerialInv
    <2> QED BY <1>1, <1>2, <2>1, NothingHappens DEF SerialInv
<1>3. ASSUME NEW t \in Client, SerialNext, Call(t)
      PROVE  SerialInv'
    BY <1>1, <1>3, CallBegins DEF Thread, SerialInv
<1>4. ASSUME NEW t \in Client, Continue(t)
      PROVE  SerialInv'
    <2>1. t \in Thread /\ pc[t] # "idle"
        BY <1>4 DEF Thread, Continue, Count, Select, Find, ReadTable, Overwrite, CountBefore, Delete,
                    CountAfter, Evict, Add, Insert, Access, Withdraw, Notify
    <2>2. Solo(t) /\ IInv
        BY <2>1, SoloActs DEF SerialInv
    <2>3. Solo(t)'
        BY <1>4, <2>1, <2>2, StoreReads, StoreWrites, OthersWrite DEF Continue
    <2> QED BY <1>1, <2>1, <2>3 DEF SerialInv
<1>5. CASE SerialNext /\ Snapshot
    BY <1>1, <1>5, CallBegins DEF Thread, SerialInv
<1>6. CASE Untrack \/ Expire
    <2>1. Cleaner \in Thread /\ pc[Cleaner] # "idle"
        BY <1>6 DEF Thread, Untrack, Expire
    <2>2. Solo(Cleaner) /\ IInv
        BY <2>1, SoloActs DEF SerialInv
    <2> QED BY <1>1, <1>6, <2>1, <2>2, CleanupWrites DEF SerialInv
<1> QED BY <1>2, <1>3, <1>4, <1>5, <1>6
        DEF SerialNext, Next, CleanerStep, CleanNothing, Tick, tvars, locals

(* The invariant holds at every moment, if calls do not overlap. *)
LEMMA SerialInductive == SerialSpec => []SerialInv
<1>1. Init => SerialInv
    <2> SUFFICES ASSUME Init PROVE SerialInv
        OBVIOUS
    <2>1. Cardinality(table) = 0 /\ MaxEntries \in Nat /\ Cleaner \in Thread
        BY FS_EmptySet, ThreadsAssumption DEF Init, ThreadsAssumption, Thread
    <2>2. Solo(Cleaner)
        BY <2>1 DEF Init, Solo, InCall, Ahead, Unique, OneCell, Ids, Stored
    <2> QED BY <2>1, <2>2, InitiallyKept DEF SerialInv
<1>2. SerialInv /\ [SerialNext]_tvars => SerialInv'
    BY SerialStep
<1> QED BY <1>1, <1>2, PTL DEF SerialSpec

(* If calls do not overlap, that of the cleanup thread included, and a     *)
(* store is of an entry that is not there, the steps of each call add up   *)
(* to what Cache makes of it at once: under every policy, on disk and in   *)
(* memory, the table never holds more than max_entries rows, and between   *)
(* calls the policy tracks what is stored (storage_ops.py:131-140,         *)
(* 413-504).  So what goes wrong under threads is due to their overlap.    *)
THEOREM SerialBounded ==
    SerialSpec => [](/\ Cardinality(table) <= MaxEntries
                     /\ (\A t \in Thread : pc[t] = "idle") => Ids(tracked) = Stored(table))
<1>1. SerialInv => /\ Cardinality(table) <= MaxEntries
                   /\ (\A t \in Thread : pc[t] = "idle") => Ids(tracked) = Stored(table)
    BY DEF SerialInv, Solo, Ahead
<1> QED BY <1>1, SerialInductive, PTL

(* The rows as a bounded store *)
Promise == INSTANCE BoundedStore WITH entries <- table, Capacity <- MaxEntries, Entry <- Row

(* Such calls implement BoundedStore step by step: room is made in one     *)
(* step, and the row that is added later finds it still there.             *)
THEOREM SerialImplements == SerialSpec => Promise!Spec
<1>1. Init => Promise!Init
    BY DEF Init, Promise!Init
<1>2. SerialInv /\ [SerialNext]_tvars => [Promise!Next]_table
    <2> SUFFICES ASSUME SerialInv, SerialNext, table' # table
                 PROVE  Promise!Next
        BY DEF tvars
    <2>1. ASSUME NEW gone, table' = table \ gone
          PROVE  Promise!Next
        <3>1. table' = table \ (gone \cap table) /\ gone \cap table \in SUBSET table
            BY <2>1
        <3> QED BY <3>1 DEF Promise!Next, Promise!Drop
    <2>2. ASSUME NEW t \in Client, Add(t)
          PROVE  Promise!Next
        <3>1. t \in Thread /\ pc[t] = "add"
            BY <2>2 DEF Thread, Add
        <3>2. Solo(t)
            BY <3>1, SoloActs
        <3>3. /\ Cardinality(table) < MaxEntries /\ Cardinality(table) \in Nat
              /\ MaxEntries \in Nat \ {0}
            BY <3>1, <3>2, FS_CardinalityType, ThreadsAssumption
               DEF Solo, InCall, SerialInv, IInv, ThreadsAssumption
        <3>4. [key |-> key[t], ts |-> clock] \in Row
            BY <3>1 DEF SerialInv, IInv, TypeOK, Row
        <3>5. Promise!Limited <=> MaxEntries # 0 /\ Cardinality(table) >= MaxEntries
            BY DEF Promise!Limited, Promise!Cardinality, Cardinality
        <3>6. ~Promise!Limited
            BY <3>3, <3>5
        <3> QED BY <2>2, <3>4, <3>6 DEF Add, Promise!Next, Promise!Add
    <2>3. ASSUME NEW t \in Client, Overwrite(t) \/ Delete(t) \/ Withdraw(t)
          PROVE  Promise!Next
        <3>1. t \in Thread /\ pc[t] # "idle"
            BY <2>3 DEF Thread, Overwrite, Delete, Withdraw
        <3>2. Solo(t)
            BY <3>1, SoloActs
        <3>3. \E gone : table' = table \ gone
            BY <2>3, <3>2 DEF Overwrite, Delete, Withdraw, Solo, InCall
        <3> QED BY <2>1, <3>3
    <2>4. CASE Expire
        <3>1. Cleaner \in Thread /\ pc[Cleaner] # "idle"
            BY <2>4 DEF Thread, Expire
        <3>2. Solo(Cleaner)
            BY <3>1, SoloActs
        <3>3. \E gone : table' = table \ gone
            BY <2>4, <3>2 DEF Expire, Solo, InCall
        <3> QED BY <2>1, <3>3
    <2> QED BY <2>2, <2>3, <2>4, TableWriters DEF SerialNext
<1> QED BY <1>1, <1>2, SerialInductive, PTL DEF SerialSpec, Promise!Spec

(* Such calls lose no row in memory either, where every delete rewrites    *)
(* the table: what memory_loses_store shows needs a store that falls       *)
(* between the read of the table and its rewriting (lancedb.py:679-705,    *)
(* maintenance.py:101-139).                                                *)
THEOREM SerialLosesNoRow == SerialSpec => OnlyMeantRemoved
<1>1. SerialInv /\ [SerialNext]_tvars => RemovesAsMeant
    <2> SUFFICES ASSUME SerialInv, SerialNext, table' # table
                 PROVE  RemovesAsMeant
        BY DEF RemovesAsMeant, tvars
    <2> USE DEF RemovesAsMeant
    <2>1. pc \in [Thread -> Label]
        BY DEF SerialInv, IInv, TypeOK
    <2>2. ASSUME NEW t \in Client, Add(t)
          PROVE  RemovesAsMeant
        BY <2>2 DEF Add
    <2>3. ASSUME NEW t \in Client, Overwrite(t) \/ Delete(t) \/ Withdraw(t)
          PROVE  RemovesAsMeant
        <3>1. t \in Thread /\ pc[t] \in {"overwrite", "delete", "withdraw"}
            BY <2>3 DEF Thread, Overwrite, Delete, Withdraw
        <3>2. Solo(t)
            BY <3>1, SoloActs
        <3>3. CASE Overwrite(t)
            BY <2>1, <3>1, <3>2, <3>3 DEF Overwrite, Goto, Solo, InCall, RowsOf, Meant
        <3>4. CASE Delete(t)
            BY <2>1, <3>1, <3>4 DEF Delete, Goto, RowsOf, Meant
        <3>5. CASE Withdraw(t)
            BY <2>1, <3>1, <3>2, <3>5 DEF Withdraw, Goto, Solo, InCall, RowsOf, Meant
        <3> QED BY <2>3, <3>3, <3>4, <3>5
    <2>4. CASE Expire
        <3>1. Cleaner \in Thread /\ pc[Cleaner] = "expire"
            BY <2>4 DEF Thread, Expire
        <3>2. Solo(Cleaner)
            BY <3>1, SoloActs
        <3> QED BY <2>1, <2>4, <3>1, <3>2 DEF Expire, Return, Goto, Solo, InCall, Old, Meant
    <2> HIDE DEF RemovesAsMeant
    <2> QED BY <2>2, <2>3, <2>4, TableWriters DEF SerialNext
<1> QED BY <1>1, SerialInductive, PTL DEF SerialSpec, OnlyMeantRemoved
=============================================================================
