----------------------------- MODULE CacheProofs -----------------------------
(***************************************************************************)
(* Proofs about Cache for every value of its constants.                    *)
(*                                                                         *)
(* TypeOK holds for any client.  The rest holds for a disciplined one,     *)
(* which avoids what the runs that expect a violation show to be harmful.  *)
(***************************************************************************)
EXTENDS Cache, FiniteSetTheorems, WellFoundedInduction, TLAPS

-----------------------------------------------------------------------------
(* Type correctness *)

(* on_insert and on_access keep the cells well formed, under every policy. *)
LEMMA PolicyTypes ==
    ASSUME NEW p \in Policy, NEW cells \in SUBSET Cell, NEW k \in Key, NEW now \in Nat
    PROVE  /\ OnInsert(p, cells, EntryId(k), now) \in SUBSET Cell
           /\ OnAccess(p, cells, EntryId(k), now) \in SUBSET Cell
<1> DEFINE id == EntryId(k)
<1>1. \A n \in Nat : Put(cells, id, n, now) \in SUBSET Cell
    BY DEF Put, Ids, Cell
<1>2. OnInsert(p, cells, id, now) \in SUBSET Cell
    BY <1>1 DEF OnInsert, Cell, Policy
<1>3. CASE p = "lfu" /\ id \in Ids(cells)
    BY <1>2, <1>3 DEF OnAccess, Cell
<1>4. CASE p # "lfu" \/ id \notin Ids(cells)
    BY <1>1, <1>2, <1>4 DEF OnAccess, Policy
<1> QED BY <1>2, <1>3, <1>4

(* on_evict only removes cells, however often it is called. *)
LEMMA OnEvictShrinks ==
    ASSUME NEW cells, NEW id, NEW times
    PROVE  OnEvict(cells, id) \subseteq cells /\ OnEvictMany(cells, times) \subseteq cells
BY DEF OnEvict, OnEvictMany

(* Making room only takes rows and cells away *)
LEMMA MakeRoomShrinks ==
    ASSUME NEW room \in MakeRoom
    PROVE  room.rows \subseteq rows /\ room.tracked \subseteq tracked
<1>1. Unchanged.rows = rows /\ Unchanged.tracked = tracked
    BY DEF Unchanged
<1>2. ASSUME NEW id, NEW r, NEW x \in {[rows |-> DeleteById(r.key), tracked |-> OnEvict(tracked, id)]}
      PROVE  x.rows \subseteq rows /\ x.tracked \subseteq tracked
    <2>1. OnEvict(tracked, id) \subseteq tracked
        BY OnEvictShrinks
    <2> QED BY <1>2, <2>1 DEF DeleteById
<1>3. ASSUME NEW id, NEW x \in EvictionsOf(id)
      PROVE  x.rows \subseteq rows /\ x.tracked \subseteq tracked
    BY <1>1, <1>2 DEF EvictionsOf
<1>4. ASSUME NEW x \in Evictions
      PROVE  x.rows \subseteq rows /\ x.tracked \subseteq tracked
    BY <1>1, <1>3 DEF Evictions
<1> QED BY <1>1, <1>4 DEF MakeRoom

(* What makes room takes the rows of one key, and only from a full cache. *)
LEMMA MakeRoomTakesOneKey ==
    ASSUME NEW room \in MakeRoom
    PROVE  /\ rows \ room.rows # {} => Full
           /\ \A r, s \in rows \ room.rows : r.key = s.key
<1>1. Unchanged.rows = rows
    BY DEF Unchanged
<1>2. ASSUME NEW id, NEW x \in EvictionsOf(id)
      PROVE  \A r, s \in rows \ x.rows : r.key = s.key
    <2>1. x = Unchanged \/ \E l \in Located(id) : x.rows = DeleteById(l.key)
        BY <1>2 DEF EvictionsOf
    <2> QED BY <1>1, <2>1 DEF DeleteById
<1>3. ASSUME NEW x \in Evictions
      PROVE  \A r, s \in rows \ x.rows : r.key = s.key
    BY <1>1, <1>2 DEF Evictions
<1>4. CASE Full
    BY <1>3, <1>4 DEF MakeRoom
<1>5. CASE ~Full
    BY <1>1, <1>5 DEF MakeRoom
<1> QED BY <1>4, <1>5

(* A store keeps the types: it adds one row and one cell. *)
LEMMA StoreEntryType ==
    ASSUME TypeOK, NEW q \in Query, NEW c \in Context, NEW mode, NEW serializes,
           StoreEntry(q, c, mode, serializes)
    PROVE  TypeOK'
<1> DEFINE row == [key |-> <<q, c>>, table |-> TableOf(q, mode), ts |-> clock]
<1>1. row \in Row
    BY DEF Row, Key, Table, TableOf, TypeOK
<1>2. PICK room \in MakeRoom :
        /\ rows' = room.rows \cup Added({row}, serializes)
        /\ tracked' = OnInsert(policy, room.tracked, RowId(row), clock)
    BY DEF StoreEntry
<1>3. room.rows \subseteq Row /\ room.tracked \in SUBSET Cell
    BY MakeRoomShrinks DEF TypeOK
<1>4. RowId(row) = EntryId(<<q, c>>) /\ <<q, c>> \in Key
    BY DEF RowId, Key
<1>5. tracked' \in SUBSET Cell
    <2> HIDE DEF row
    <2> QED BY <1>2, <1>3, <1>4, PolicyTypes, CacheAssumption DEF TypeOK
<1>6. rows' \subseteq Row
    BY <1>1, <1>2, <1>3 DEF Added
<1>7. clock' \in Nat /\ policy' \in Policies
    BY DEF StoreEntry, TypeOK
<1> QED BY <1>5, <1>6, <1>7 DEF TypeOK

(* A batch keeps the types: it adds rows and no cell. *)
LEMMA StoreBatchType ==
    ASSUME TypeOK, NEW batch \in Batches, NEW mode, NEW serializes,
           StoreBatch(batch, mode, serializes)
    PROVE  TypeOK'
<1>1. PICK n \in 1..MaxBatch : batch \in [1..n -> Key]
    BY DEF Batches
<1>2. Len(batch) = n /\ DOMAIN batch = 1..n
    BY <1>1
<1>3. rows' \subseteq Row
    <2>1. ASSUME NEW i \in 1..n
          PROVE  [key |-> batch[i], table |-> TableOf(batch[i][1], mode), ts |-> clock + i - 1]
                    \in Row
        BY <1>1 DEF Row, Table, TableOf, TypeOK
    <2> QED BY <1>2, <2>1 DEF StoreBatch, Added, TypeOK
<1>4. clock' \in Nat
    BY <1>2 DEF StoreBatch, TypeOK
<1> QED BY <1>3, <1>4 DEF StoreBatch, TypeOK

(* Rows, cells and clock keep their types, whatever the client does. *)
THEOREM TypeCorrect == Spec => []TypeOK
<1>1. Init => TypeOK
    BY DEF Init, TypeOK
<1>2. TypeOK /\ [Next]_vars => TypeOK'
    <2> SUFFICES ASSUME TypeOK, [Next]_vars PROVE TypeOK'
        OBVIOUS
    <2>1. ASSUME NEW q \in Query, NEW c \in Context, NEW mode \in Modes, AnyStore(q, c, mode)
          PROVE  TypeOK'
        BY <2>1, StoreEntryType DEF AnyStore, Store, StoreOnMiss
    <2>2. ASSUME NEW q \in Query, NEW c \in Context, NEW mode \in Modes, Lookup(q, c, mode)
          PROVE  TypeOK'
        <3>1. PICK r \in Search(q, c, mode) : Hit(r)
            BY <2>2 DEF Lookup
        <3>2. r.key \in Key
            BY DEF Search, SearchExact, SearchSemantic, TypeOK, Row
        <3> QED BY <3>1, <3>2, PolicyTypes, CacheAssumption DEF Hit, RowId, TypeOK
    <2>3. ASSUME NEW batch \in Batches, NEW mode \in Modes, NEW serializes,
                 StoreBatch(batch, mode, serializes)
          PROVE  TypeOK'
        BY <2>3, StoreBatchType
    <2>4. ASSUME NEW gone, Remove(gone)
          PROVE  TypeOK'
        BY <2>4 DEF Remove, Forget, OnEvictMany, TypeOK
    <2>5. ASSUME NEW q, NEW mode, StoreAborted(q, mode)
          PROVE  TypeOK'
        BY <2>5, MakeRoomShrinks DEF StoreAborted, TypeOK
    <2>6. CASE Withdraw
        BY <2>4, <2>5, <2>6 DEF Withdraw, InvalidateContext, InvalidateAge, InvalidateBulk,
                          CleanupExpired, Clear, ClearAll, Forget, OnEvictMany, TypeOK
    <2>7. CASE Restart
        BY <2>7, CacheAssumption DEF Restart, Synced, First, RowId, Cell, TypeOK, Row, Policy
    <2>8. CASE Tick
        BY <2>8 DEF Tick, TypeOK
    <2>9. CASE UNCHANGED vars
        BY <2>9 DEF vars, TypeOK
    <2> QED BY <2>1, <2>2, <2>3, <2>6, <2>7, <2>8, <2>9 DEF Next
<1> QED BY <1>1, <1>2, PTL DEF Spec

-----------------------------------------------------------------------------
(* Dict cells: each id has at most one *)

Unique(cells) == \A e, f \in cells : e.id = f.id => e = f

(* Changing cells but not their ids *)
LEMMA UpdateKeeps ==
    ASSUME NEW cells, Unique(cells), NEW f, \A e \in cells : f[e].id = e.id
    PROVE  /\ Unique({f[e] : e \in cells})
           /\ Ids({f[e] : e \in cells}) = Ids(cells)
<1>1. Ids({f[e] : e \in cells}) = Ids(cells)
    <2>1. Ids({f[e] : e \in cells}) = {f[e].id : e \in cells}
        BY DEF Ids
    <2> QED BY <2>1 DEF Ids
<1>2. ASSUME NEW x \in {f[e] : e \in cells}, NEW y \in {f[e] : e \in cells}, x.id = y.id
      PROVE  x = y
    BY <1>2 DEF Unique
<1> QED BY <1>1, <1>2 DEF Unique

(* A dict stays a dict: assigning a key adds that key and no duplicate. *)
LEMMA PutKeeps ==
    ASSUME NEW cells \in SUBSET Cell, Unique(cells), NEW id, NEW val, NEW now
    PROVE  /\ Unique(Put(cells, id, val, now))
           /\ Ids(Put(cells, id, val, now)) = Ids(cells) \cup {id}
<1>1. CASE id \in Ids(cells)
    <2> DEFINE f == [e \in cells |-> IF e.id = id THEN [e EXCEPT !.val = val] ELSE e]
    <2>1. \A e \in cells : f[e].id = e.id
        BY DEF Cell
    <2>2. Put(cells, id, val, now) = {f[e] : e \in cells}
        BY <1>1 DEF Put
    <2> HIDE DEF f
    <2> QED BY <1>1, <2>1, <2>2, UpdateKeeps
<1>2. CASE id \notin Ids(cells)
    <2> DEFINE new == [id |-> id, val |-> val, at |-> now]
    <2>1. Put(cells, id, val, now) = cells \cup {new} /\ new.id = id
        BY <1>2 DEF Put
    <2> HIDE DEF new
    <2>2. \A e \in cells : e.id # id
        BY <1>2 DEF Ids
    <2>3. Ids(cells \cup {new}) = Ids(cells) \cup {new.id}
        BY DEF Ids
    <2> QED BY <2>1, <2>2, <2>3 DEF Unique
<1> QED BY <1>1, <1>2

(* on_insert of LRU and LFU adds the id and leaves one cell per id. *)
LEMMA OnInsertKeeps ==
    ASSUME NEW p \in {"lru", "lfu"}, NEW cells \in SUBSET Cell, Unique(cells), NEW id, NEW now
    PROVE  /\ Unique(OnInsert(p, cells, id, now))
           /\ Ids(OnInsert(p, cells, id, now)) = Ids(cells) \cup {id}
<1>1. CASE p = "lru"
    BY <1>1, PutKeeps DEF OnInsert
<1>2. CASE p = "lfu"
    BY <1>2, PutKeeps DEF OnInsert
<1> QED BY <1>1, <1>2

(* on_access of a tracked id changes neither ids nor uniqueness. *)
LEMMA OnAccessKeeps ==
    ASSUME NEW p \in {"lru", "lfu"}, NEW cells \in SUBSET Cell, Unique(cells), NEW id, NEW now
    PROVE  /\ Unique(OnAccess(p, cells, id, now))
           /\ Ids(OnAccess(p, cells, id, now)) = Ids(cells) \cup {id}
<1>1. CASE p = "lru"
    BY <1>1, PutKeeps DEF OnAccess
<1>2. CASE p = "lfu"
    <2>1. CASE id \in Ids(cells)
        <3> DEFINE f == [e \in cells |-> IF e.id = id THEN [e EXCEPT !.val = @ + 1] ELSE e]
        <3>1. \A e \in cells : f[e].id = e.id
            BY DEF Cell
        <3>2. OnAccess(p, cells, id, now) = {f[e] : e \in cells}
            BY <1>2, <2>1 DEF OnAccess
        <3> HIDE DEF f
        <3> QED BY <2>1, <3>1, <3>2, UpdateKeeps
    <2>2. CASE id \notin Ids(cells)
        BY <1>2, <2>2, PutKeeps DEF OnAccess
    <2> QED BY <2>1, <2>2
<1> QED BY <1>1, <1>2

(* Under a unique cell per id, the rank of a cell among its namesakes is 1 *)
LEMMA RankOne ==
    ASSUME NEW cells \in SUBSET Cell, Unique(cells), NEW e \in cells
    PROVE  Cardinality({f \in CellsOf(cells, e.id) : f.at <= e.at}) = 1
<1>1. {f \in CellsOf(cells, e.id) : f.at <= e.at} = {e}
    BY DEF CellsOf, Unique, Cell
<1> QED BY <1>1, FS_Singleton

(* In a dict, on_evict drops the whole id. *)
LEMMA OnEvictDrops ==
    ASSUME NEW cells \in SUBSET Cell, Unique(cells), NEW id
    PROVE  OnEvict(cells, id) = {e \in cells : e.id # id}
BY RankOne DEF OnEvict, OnEvictMany, Ids

(* In a dict, forgetting rows drops exactly their ids. *)
LEMMA ForgetDrops ==
    ASSUME TypeOK, Unique(tracked), NEW gone, IsFiniteSet(gone)
    PROVE  Forget(gone) = {e \in tracked : \A r \in gone : RowId(r) # e.id}
<1>1. ASSUME NEW id
      PROVE  LET named == {r \in gone : RowId(r) = id}
             IN  /\ Cardinality(named) \in Nat
                 /\ Cardinality(named) = 0 <=> \A r \in gone : RowId(r) # id
    <2> DEFINE named == {r \in gone : RowId(r) = id}
    <2>1. IsFiniteSet(named)
        BY FS_Subset
    <2>2. Cardinality(named) = 0 <=> named = {}
        BY <2>1, FS_EmptySet
    <2>3. Cardinality(named) \in Nat
        BY <2>1, FS_CardinalityType
    <2> QED BY <2>2, <2>3
<1>2. ASSUME NEW e \in tracked
      PROVE  1 > Cardinality({r \in gone : RowId(r) = e.id})
                <=> \A r \in gone : RowId(r) # e.id
    BY <1>1
<1> QED BY <1>2, RankOne DEF Forget, OnEvictMany, Ids, TypeOK

-----------------------------------------------------------------------------
(* Faithful names *)

(* JSON of at most 30 characters is shown whole, and {} is that short *)
ShownWhole ==
    /\ EmptyContext \notin LongContext
    /\ \A c, d \in Context \ LongContext : Shown[c] = Shown[d] => c = d

(* Which clients name their entries faithfully: no query may begin like    *)
(* another one's preview up to its first colon; and outside the empty      *)
(* context, no preview may hold a colon and no context be longer than 30   *)
(* characters (storage_ops.py:34-37, 431-468).                             *)
THEOREM FaithfulNames ==
    ASSUME ShownWhole
    PROVE  PlainKeys <=>
               \A q \in Query, c \in Context :
                   /\ \A p \in Query : <<BeforeColon[Preview[q]], p>> \in IsPrefix <=> p = q
                   /\ c = EmptyContext \/ (BeforeColon[Preview[q]] = Preview[q] /\ c \notin LongContext)
<1> DEFINE Named(q, c) == Resolves(EntryId(<<q, c>>))
           Colonless(q) == BeforeColon[Preview[q]] = Preview[q]
           Unmistaken(q) == \A p \in Query : <<BeforeColon[Preview[q]], p>> \in IsPrefix <=> p = q
<1>1. ASSUME NEW q \in Query, NEW c \in Context
      PROVE  ParsedContext(EntryId(<<q, c>>)) = c
                 <=> c = EmptyContext \/ (Colonless(q) /\ c \notin LongContext)
    <2> DEFINE short == Context \ LongContext
    <2>1. EntryId(<<q, c>>)[1] = Preview[q] /\ EntryId(<<q, c>>)[2] = Shown[c]
        BY DEF EntryId
    <2>2. ParsedContext(EntryId(<<q, c>>)) =
             IF Colonless(q) /\ \E d \in short : Shown[d] = Shown[c]
             THEN CHOOSE d \in short : Shown[d] = Shown[c]
             ELSE EmptyContext
        BY <2>1 DEF ParsedContext
    <2>3. (\E d \in short : Shown[d] = Shown[c])
              => /\ (CHOOSE d \in short : Shown[d] = Shown[c]) \in short
                 /\ c \in short => (CHOOSE d \in short : Shown[d] = Shown[c]) = c
        BY DEF ShownWhole
    <2> QED BY <2>2, <2>3 DEF ShownWhole
<1>2. ASSUME NEW q \in Query, NEW c \in Context
      PROVE  Named(q, c) = {k \in Key : /\ k[2] = ParsedContext(EntryId(<<q, c>>))
                                        /\ <<BeforeColon[Preview[q]], k[1]>> \in IsPrefix}
    BY DEF Resolves, EntryId
<1>3. ASSUME NEW q \in Query, NEW c \in Context
      PROVE  Named(q, c) = {<<q, c>>} <=> Unmistaken(q) /\ ParsedContext(EntryId(<<q, c>>)) = c
    <2>1. ASSUME Named(q, c) = {<<q, c>>}
          PROVE  Unmistaken(q) /\ ParsedContext(EntryId(<<q, c>>)) = c
        <3>1. <<q, c>> \in Named(q, c)
            BY <2>1
        <3>2. ParsedContext(EntryId(<<q, c>>)) = c /\ <<BeforeColon[Preview[q]], q>> \in IsPrefix
            BY <1>2, <3>1
        <3>3. ASSUME NEW p \in Query, <<BeforeColon[Preview[q]], p>> \in IsPrefix
              PROVE  p = q
            <4>1. <<p, c>> \in Key /\ <<p, c>>[1] = p /\ <<p, c>>[2] = c
                BY DEF Key
            <4>2. <<p, c>> \in Named(q, c)
                BY <1>2, <3>2, <3>3, <4>1
            <4> QED BY <2>1, <4>2
        <3> QED BY <3>2, <3>3
    <2>2. ASSUME Unmistaken(q), ParsedContext(EntryId(<<q, c>>)) = c
          PROVE  Named(q, c) = {<<q, c>>}
        <3>1. \A k \in Key : k[1] \in Query /\ k = <<k[1], k[2]>>
            BY DEF Key
        <3>2. <<q, c>> \in Key /\ <<q, c>>[1] = q /\ <<q, c>>[2] = c
            BY DEF Key
        <3>3. <<q, c>> \in Named(q, c)
            BY <1>2, <2>2, <3>2
        <3>4. ASSUME NEW k \in Named(q, c)
              PROVE  k = <<q, c>>
            <4>1. k \in Key /\ k[2] = c /\ <<BeforeColon[Preview[q]], k[1]>> \in IsPrefix
                BY <1>2, <2>2
            <4>2. k[1] = q
                BY <2>2, <3>1, <4>1
            <4> QED BY <3>1, <4>1, <4>2
        <3> HIDE DEF Named
        <3> QED BY <3>3, <3>4
    <2> QED BY <2>1, <2>2
<1>4. PlainKeys <=> \A q \in Query, c \in Context : Named(q, c) = {<<q, c>>}
    BY DEF PlainKeys, Key
<1>5. ASSUME NEW q \in Query, NEW c \in Context
      PROVE  Named(q, c) = {<<q, c>>} <=>
                 Unmistaken(q) /\ (c = EmptyContext \/ (Colonless(q) /\ c \notin LongContext))
    <2> HIDE DEF Named, Colonless, Unmistaken
    <2> QED BY <1>1, <1>3
<1> HIDE DEF Named
<1> QED BY <1>4, <1>5

(* Under faithful names no two keys share an entry id. *)
LEMMA EntryIdInjective ==
    ASSUME PlainKeys, NEW k \in Key, NEW l \in Key, EntryId(k) = EntryId(l)
    PROVE  k = l
BY DEF PlainKeys

(* A non-empty set of naturals has a least member. *)
LEMMA LeastNumber ==
    ASSUME NEW T \in SUBSET Nat, T # {}
    PROVE  \E x \in T : \A y \in T : x <= y
<1> DEFINE less == OpToRel(<, Nat)
<1>1. IsWellFoundedOn(less, Nat)
    BY NatLessThanWellFounded
<1>2. less = {ss \in Nat \X Nat : ss[1] < ss[2]}
    BY DEF OpToRel
<1> HIDE DEF less
<1>3. PICK x \in T : \A y \in T : ~ (<<y, x>> \in less)
    BY <1>1, WFMin
<1>4. ASSUME NEW y \in T
      PROVE  x <= y
    <2>1. <<y, x>> \notin less
        BY <1>3
    <2>2. ~ (y < x)
        BY <1>2, <2>1
    <2> QED BY <2>2
<1> QED BY <1>4

(* A non-empty set of rows has a first one. *)
LEMMA FirstExists ==
    ASSUME NEW S, S # {}, \A r \in S : r.ts \in Nat
    PROVE  First(S) # {}
<1>1. {r.ts : r \in S} \in SUBSET Nat /\ {r.ts : r \in S} # {}
    OBVIOUS
<1>2. PICK x \in {r.ts : r \in S} : \A y \in {r.ts : r \in S} : x <= y
    BY <1>1, LeastNumber
<1> QED BY <1>2 DEF First

(* _evict_one finds the rows of the key its victim names, when there are   *)
(* any.                                                                    *)
LEMMA LocatedNamed ==
    ASSUME PlainKeys, TypeOK, NEW r \in rows
    PROVE  /\ Located(RowId(r)) # {}
           /\ \A s \in Located(RowId(r)) : s \in rows /\ s.key = r.key
<1>1. r.key \in Key /\ r.table \in Table
    BY DEF TypeOK, Row
<1>2. Resolves(RowId(r)) = {r.key}
    BY <1>1 DEF PlainKeys, RowId
<1> DEFINE In(t) == {s \in rows : s.table = t /\ s.key \in Resolves(RowId(r))}
<1>3. In("exact") # {} \/ In("semantic") # {}
    BY <1>1, <1>2 DEF Table
<1>4. \A t : In(t) # {} => First(In(t)) # {}
    <2> SUFFICES ASSUME NEW t, In(t) # {} PROVE First(In(t)) # {}
        OBVIOUS
    <2>1. \A s \in In(t) : s.ts \in Nat
        BY DEF TypeOK, Row
    <2> QED BY <2>1, FirstExists
<1>5. \A t : First(In(t)) \subseteq In(t)
    BY DEF First
<1>6. Located(RowId(r)) =
        IF In("exact") # {} THEN First(In("exact")) ELSE First(In("semantic"))
    BY DEF Located
<1> HIDE DEF In
<1>7. Located(RowId(r)) # {}
    BY <1>3, <1>4, <1>6
<1>8. \A s \in Located(RowId(r)) : s \in In("exact") \/ s \in In("semantic")
    BY <1>5, <1>6
<1> QED BY <1>2, <1>7, <1>8 DEF In

(* Making room leaves rows and cells in step, and fewer rows than the limit *)
Room(room) ==
    /\ room.rows \subseteq rows
    /\ room.tracked \in SUBSET Cell
    /\ Unique(room.tracked)
    /\ Ids(room.tracked) = {RowId(r) : r \in room.rows}

(* An eviction that finds the policy in step with the rows removes one     *)
(* key, from both.                                                         *)
LEMMA EvictionRoom ==
    ASSUME PlainKeys, IInv, Full, NEW room \in Evictions
    PROVE  Room(room) /\ \E victim \in rows : room.rows = {x \in rows : x.key # victim.key}
<1> USE DEF IInv, Agree
<1>1. tracked # {}
    <2>1. Cardinality(rows) # 0
        BY CacheAssumption DEF Full
    <2>2. rows # {}
        BY <2>1, FS_EmptySet
    <2> QED BY <2>2 DEF Ids
<1>2. PICK v \in Victims(tracked) : room \in EvictionsOf(v.id)
    BY <1>1 DEF Evictions
<1>3. v.id \in Ids(tracked)
    BY DEF Victims, Ids
<1>4. PICK r \in rows : v.id = RowId(r)
    BY <1>3
<1>5. PICK s \in Located(v.id) :
        room = [rows |-> DeleteById(s.key), tracked |-> OnEvict(tracked, v.id)]
    BY <1>2, <1>4, LocatedNamed DEF EvictionsOf
<1>6. s.key = r.key
    BY <1>4, <1>5, LocatedNamed
<1>7. room.rows = {t \in rows : t.key # r.key}
    BY <1>5, <1>6 DEF DeleteById
<1>8. room.tracked = {e \in tracked : e.id # v.id}
    BY <1>5, OnEvictDrops DEF TypeOK, Unique
<1>9. Unique(room.tracked) /\ room.tracked \in SUBSET Cell
    BY <1>8 DEF Unique, TypeOK
<1>10. Ids(room.tracked) = {RowId(t) : t \in room.rows}
    <2>1. Ids(room.tracked) = Ids(tracked) \ {v.id}
        BY <1>8 DEF Ids
    <2>2. \A t \in rows : RowId(t) = v.id <=> t.key = r.key
        BY <1>4, EntryIdInjective DEF RowId, TypeOK, Row
    <2> QED BY <1>7, <2>1, <2>2
<1> QED BY <1>7, <1>9, <1>10 DEF Room

(* Making room leaves the policy in step and the rows below max_entries. *)
LEMMA MakeRoomKeeps ==
    ASSUME PlainKeys, IInv, NEW room \in MakeRoom
    PROVE  /\ Room(room)
           /\ MaxEntries # 0 => Cardinality(room.rows) < MaxEntries
<1>1. CASE Full
    <2>1. Room(room) /\ room.rows # rows
        BY <1>1, EvictionRoom DEF MakeRoom
    <2>2. Cardinality(room.rows) \in Nat /\ Cardinality(rows) \in Nat
        BY <2>1, FS_Subset, FS_CardinalityType DEF Room, IInv
    <2>3. Cardinality(room.rows) < Cardinality(rows)
        BY <2>1, <2>2, FS_Subset DEF Room, IInv
    <2> QED BY <2>1, <2>2, <2>3, CacheAssumption DEF IInv, Bounded
<1>2. CASE ~Full
    <2>1. room.rows = rows /\ room.tracked = tracked
        BY <1>2 DEF MakeRoom, Unchanged
    <2>2. Cardinality(rows) \in Nat
        BY FS_CardinalityType DEF IInv
    <2> QED BY <1>2, <2>1, <2>2, CacheAssumption DEF Room, IInv, Agree, Unique, TypeOK, Full
<1> QED BY <1>1, <1>2

-----------------------------------------------------------------------------
(* The steps of a disciplined client *)

(* A store keeps the invariant, where the policy is a dict. *)
LEMMA StoreEntryKeeps ==
    ASSUME PlainKeys, policy # "fifo", IInv, NEW q \in Query, NEW c \in Context, NEW mode,
           StoreEntry(q, c, mode, TRUE)
    PROVE  IInv'
<1> DEFINE row == [key |-> <<q, c>>, table |-> TableOf(q, mode), ts |-> clock]
<1>1. PICK room \in MakeRoom :
        /\ rows' = room.rows \cup {row}
        /\ tracked' = OnInsert(policy, room.tracked, RowId(row), clock)
    BY DEF StoreEntry, Added
<1> HIDE DEF row
<1>2. Room(room) /\ (MaxEntries # 0 => Cardinality(room.rows) < MaxEntries)
    BY MakeRoomKeeps
<1>3. IsFiniteSet(room.rows) /\ Cardinality(room.rows) \in Nat
    BY <1>2, FS_Subset, FS_CardinalityType DEF Room, IInv
<1>4. TypeOK'
    BY StoreEntryType DEF IInv
<1>5. IsFiniteSet(rows')
    BY <1>1, <1>3, FS_AddElement
<1>6. Agree'
    <2>0. policy \in {"lru", "lfu"}
        BY CacheAssumption DEF IInv, TypeOK, Policy
    <2>1. Unique(tracked') /\ Ids(tracked') = Ids(room.tracked) \cup {RowId(row)}
        BY <1>1, <1>2, <2>0, OnInsertKeeps DEF Room
    <2>2. {RowId(r) : r \in rows'} = {RowId(r) : r \in room.rows} \cup {RowId(row)}
        BY <1>1
    <2>3. Ids(tracked') = {RowId(r) : r \in rows'}
        BY <1>2, <2>1, <2>2 DEF Room
    <2> QED BY <2>1, <2>3 DEF Agree, Unique, RowId, Ids
<1>7. Bounded'
    <2>1. Cardinality(rows') =
            IF row \in room.rows THEN Cardinality(room.rows) ELSE Cardinality(room.rows) + 1
        BY <1>1, <1>3, FS_AddElement
    <2>2. Cardinality(rows') <= Cardinality(room.rows) + 1
        BY <1>3, <2>1
    <2>3. Cardinality(rows') \in Nat
        BY <1>5, FS_CardinalityType
    <2> QED BY <1>2, <1>3, <2>2, <2>3, CacheAssumption DEF Bounded
<1> QED BY <1>4, <1>5, <1>6, <1>7 DEF IInv

(* So does a store that fails after making room. *)
LEMMA StoreAbortedKeeps ==
    ASSUME PlainKeys, IInv, NEW q, NEW mode, StoreAborted(q, mode)
    PROVE  IInv'
<1>1. PICK room \in MakeRoom : rows' = room.rows /\ tracked' = room.tracked
    BY DEF StoreAborted
<1>2. Room(room)
    BY MakeRoomKeeps
<1>3. IsFiniteSet(rows') /\ Cardinality(rows') <= Cardinality(rows)
      /\ Cardinality(rows') \in Nat /\ Cardinality(rows) \in Nat
    BY <1>1, <1>2, FS_Subset, FS_CardinalityType DEF Room, IInv
<1>4. TypeOK'
    BY <1>1, <1>2 DEF StoreAborted, Room, IInv, TypeOK
<1>5. Agree'
    BY <1>1, <1>2 DEF Room, Unique, Agree, Ids, RowId
<1>6. Bounded'
    BY <1>3, CacheAssumption DEF IInv, Bounded
<1> QED BY <1>3, <1>4, <1>5, <1>6 DEF IInv

(* The removals a disciplined client asks for take whole keys: every row   *)
(* of a key that loses one (gone) goes, and the policy is told of some.    *)
LEMMA WithdrawKeeps ==
    ASSUME PlainKeys, IInv, NEW told, told \subseteq rows,
           rows' = {r \in rows : \A m \in told : r.key # m.key},
           tracked' = Forget(told),
           UNCHANGED <<clock, policy>>
    PROVE  IInv'
<1>1. IsFiniteSet(told) /\ IsFiniteSet(rows')
    BY FS_Subset DEF IInv
<1>2. tracked' = {e \in tracked : \A m \in told : RowId(m) # e.id}
    BY <1>1, ForgetDrops DEF IInv, Agree, Unique
<1>3. TypeOK'
    BY <1>2 DEF IInv, TypeOK
<1>4. Agree'
    <2>1. \A r \in rows, m \in told : RowId(r) = RowId(m) <=> r.key = m.key
        BY EntryIdInjective DEF RowId, IInv, TypeOK, Row
    <2>2. \A e, f \in tracked' : e.id = f.id => e = f
        BY <1>2 DEF IInv, Agree
    <2>3. Ids(tracked') = {i \in Ids(tracked) : \A m \in told : RowId(m) # i}
        BY <1>2 DEF Ids
    <2>4. {RowId(r) : r \in rows'} = {i \in {RowId(r) : r \in rows} : \A m \in told : RowId(m) # i}
        BY <2>1
    <2>5. Ids(tracked') = {RowId(r) : r \in rows'}
        BY <2>3, <2>4 DEF IInv, Agree
    <2> QED BY <2>2, <2>5 DEF Agree, RowId, Ids
<1>5. Bounded'
    <2>1. Cardinality(rows') \in Nat /\ Cardinality(rows) \in Nat
        BY <1>1, FS_CardinalityType DEF IInv
    <2>2. Cardinality(rows') <= Cardinality(rows)
        BY FS_Subset DEF IInv
    <2> QED BY <2>1, <2>2, CacheAssumption DEF IInv, Bounded
<1> QED BY <1>1, <1>3, <1>4, <1>5 DEF IInv

(* A hit keeps the invariant: the row it found is tracked already. *)
LEMMA LookupKeeps ==
    ASSUME policy # "fifo", IInv, NEW r \in rows, Hit(r)
    PROVE  IInv'
<1>1. rows' = rows /\ tracked' = OnAccess(policy, tracked, RowId(r), clock)
      /\ UNCHANGED <<clock, policy>>
    BY DEF Hit
<1>2. r.key \in Key
    BY DEF IInv, TypeOK, Row
<1>3. TypeOK'
    BY <1>1, <1>2, PolicyTypes, CacheAssumption DEF IInv, TypeOK, RowId
<1>4. Unique(tracked') /\ Ids(tracked') = Ids(tracked) \cup {RowId(r)}
    <2>1. policy \in {"lru", "lfu"}
        BY CacheAssumption DEF IInv, TypeOK, Policy
    <2> QED BY <1>1, <2>1, OnAccessKeeps DEF IInv, TypeOK, Agree, Unique
<1>5. Agree'
    BY <1>1, <1>4 DEF IInv, Agree, Unique, RowId, Ids
<1> QED BY <1>1, <1>3, <1>5 DEF IInv, Bounded

(* The invariant holds of every behaviour of a disciplined client: policy  *)
(* and rows agree key by key, within max_entries (storage_ops.py:131-192,  *)
(* invalidation.py:122-179, lookup.py:272-274).                            *)
THEOREM Inductive ==
    ASSUME Disciplined
    PROVE  Spec => []IInv
<1>1. Init => IInv
    BY FS_EmptySet, CacheAssumption DEF Init, IInv, TypeOK, Agree, Ids, Bounded
<1>2. IInv /\ [Next]_vars => IInv'
    <2> SUFFICES ASSUME IInv, [Next]_vars PROVE IInv'
        OBVIOUS
    <2> USE DEF Disciplined
    <2>0. policy # "fifo"
        BY DEF IInv, TypeOK
    <2>1. ASSUME NEW q \in Query, NEW c \in Context, NEW mode \in Modes, AnyStore(q, c, mode)
          PROVE  IInv'
        BY <2>0, <2>1, StoreEntryKeeps DEF AnyStore, Store, StoreOnMiss
    <2>2. ASSUME NEW q \in Query, NEW c \in Context, NEW mode \in Modes, Lookup(q, c, mode)
          PROVE  IInv'
        <3>1. Search(q, c, mode) \subseteq rows
            BY DEF Search, SearchExact, SearchSemantic
        <3> QED BY <2>0, <2>2, <3>1, LookupKeeps DEF Lookup
    <2>3. ASSUME NEW c \in Context, InvalidateContext(c)
          PROVE  IInv'
        <3> DEFINE gone == {r \in rows : r.key[2] = c}
        <3>1. rows \ gone = {r \in rows : \A m \in gone : r.key # m.key}
            OBVIOUS
        <3>2. rows' = rows \ gone /\ tracked' = Forget(gone) /\ UNCHANGED <<clock, policy>>
            BY <2>3 DEF InvalidateContext, Remove
        <3>3. gone \subseteq rows
            OBVIOUS
        <3> HIDE DEF gone
        <3> QED BY <3>1, <3>2, <3>3, WithdrawKeeps
    <2>4. ASSUME NEW qs, NEW cs, NEW age, InvalidateBulk(qs, cs, age)
          PROVE  IInv'
        <3>1. Matched(qs, cs, age) \subseteq rows
            BY DEF Matched
        <3> QED BY <2>4, <3>1, WithdrawKeeps DEF InvalidateBulk
    <2>5. CASE ClearAll
        <3>1. rows' = {} /\ tracked' = {} /\ UNCHANGED <<clock, policy>>
            BY <2>5 DEF ClearAll, IInv, TypeOK
        <3> QED BY <3>1, FS_EmptySet, CacheAssumption
                DEF IInv, TypeOK, Agree, Ids, Bounded
    <2>6. CASE Withdraw
        BY <2>3, <2>4, <2>5, <2>6, StoreAbortedKeeps DEF Withdraw, InvalidateAge, CleanupExpired, Clear
    <2>7. CASE Tick
        BY <2>7 DEF Tick, IInv, TypeOK, Agree, Ids, RowId, Bounded
    <2>8. CASE UNCHANGED vars
        BY <2>8 DEF vars, IInv, TypeOK, Agree, Ids, RowId, Bounded
    <2> QED BY <2>1, <2>2, <2>6, <2>7, <2>8 DEF Next, StoreBatch, Restart
<1> QED BY <1>1, <1>2, PTL DEF Spec

(* The rows never exceed max_entries (the check of storage_ops.py:132-140 *)
(* is enough as long as every eviction succeeds).                          *)
THEOREM StaysBounded ==
    ASSUME Disciplined
    PROVE  Spec => []Bounded
<1>1. IInv => Bounded
    BY DEF IInv
<1> QED BY <1>1, Inductive, PTL

(* The policy tracks exactly what is stored, so _evict_one always finds    *)
(* its victim (storage_ops.py:455-483) and every row can be evicted.       *)
THEOREM InStep ==
    ASSUME Disciplined
    PROVE  Spec => [](TrackedStored /\ StoredTracked)
<1>1. IInv => TrackedStored /\ StoredTracked
    BY DEF IInv, Agree, TrackedStored, StoredTracked, Ids
<1> QED BY <1>1, Inductive, PTL

(* Every stored row can be evicted: the policy knows it. *)
THEOREM EverythingTracked ==
    ASSUME Disciplined
    PROVE  Spec => []StoredTracked
BY InStep, PTL

(* Where policy and rows agree, every step is one of the bounded store:    *)
(* a store removes rows only if the cache is full, and then one key's.     *)
LEMMA PromiseStep ==
    ASSUME PlainKeys, IInv, Serializable \subseteq {TRUE}, "store_batch" \notin Workload,
           [Next]_vars
    PROVE  [Promise!Next]_rows
<1> SUFFICES ASSUME rows' # rows
             PROVE  Promise!Next
    OBVIOUS
<1>1. ASSUME NEW q \in Query, NEW c \in Context, NEW mode \in Modes, AnyStore(q, c, mode)
      PROVE  Promise!Next
    <2> DEFINE row == [key |-> <<q, c>>, table |-> TableOf(q, mode), ts |-> clock]
    <2>1. StoreEntry(q, c, mode, TRUE)
        BY <1>1 DEF AnyStore, Store, StoreOnMiss
    <2>2. PICK room \in MakeRoom : rows' = room.rows \cup {row}
        BY <2>1 DEF StoreEntry, Added
    <2>3. row \in [key : Key, table : Table, ts : 0..MaxClock]
        BY <2>1, CacheAssumption DEF StoreEntry, Key, Table, TableOf, IInv, TypeOK
    <2> HIDE DEF row
    <2>4. Promise!Limited <=> Full
        BY DEF Promise!Limited, Full, Promise!Cardinality, Cardinality
    <2>5. CASE Full
        <3>1. \E victim \in rows : rows' = {x \in rows : x.key # victim.key} \cup {row}
            BY <2>2, <2>5, EvictionRoom DEF MakeRoom
        <3> QED BY <2>4, <2>3, <2>5, <3>1 DEF Promise!Next, Promise!Replace
    <2>6. CASE ~Full
        <3>1. rows' = rows \cup {row}
            BY <2>2, <2>6 DEF MakeRoom, Unchanged
        <3> QED BY <2>4, <2>3, <2>6, <3>1 DEF Promise!Next, Promise!Add
    <2> QED BY <2>5, <2>6
<1>2. ASSUME rows' \subseteq rows
      PROVE  Promise!Next
    <2>1. rows' = rows \ (rows \ rows')
        BY <1>2
    <2> QED BY <2>1 DEF Promise!Next, Promise!Drop
<1>3. ASSUME NEW q \in Query, NEW c \in Context, NEW mode \in Modes, Lookup(q, c, mode)
      PROVE  FALSE
    BY <1>3 DEF Lookup, Hit
<1>4. CASE Withdraw
    BY <1>2, <1>4, MakeRoomShrinks
       DEF Withdraw, StoreAborted, InvalidateContext, InvalidateAge, InvalidateBulk,
           CleanupExpired, Clear, ClearAll, Remove
<1> QED BY <1>1, <1>3, <1>4 DEF Next, StoreBatch, Restart, Tick, vars

(* Seen from its rows, the cache implements the bounded store: a store     *)
(* evicts only when full, and then exactly one key.                        *)
THEOREM ImplementsBoundedStore ==
    ASSUME Disciplined
    PROVE  Spec => KeepsPromise
<1>1. Init => Promise!Init
    BY DEF Init, Promise!Init
<1>2. IInv /\ [Next]_vars => [Promise!Next]_rows
    BY PromiseStep DEF Disciplined
<1> QED BY <1>1, <1>2, Inductive, PTL DEF Spec, KeepsPromise, Promise!Spec

(* Whatever the client does and however its names look, a store deletes    *)
(* rows of one key at most, and none if there is room: a policy that has   *)
(* lost touch with the tables does no more harm (storage_ops.py:131-140,   *)
(* 481).                                                                   *)
THEOREM EvictsOneKey == Spec => OneKeyPerEviction
<1> DEFINE Small == rows' \ rows # {} =>
                        /\ rows \ rows' # {} => Full
                        /\ \A r, s \in rows \ rows' : r.key = s.key
<1>1. [Next]_vars => Small
    <2> SUFFICES ASSUME [Next]_vars PROVE Small
        OBVIOUS
    <2>1. ASSUME NEW room \in MakeRoom, room.rows \subseteq rows'
          PROVE  Small
        BY <2>1, MakeRoomTakesOneKey
    <2>2. ASSUME NEW q, NEW c, NEW mode, NEW serializes, StoreEntry(q, c, mode, serializes)
          PROVE  Small
        <3>1. \E room \in MakeRoom : room.rows \subseteq rows'
            BY <2>2 DEF StoreEntry
        <3> HIDE DEF Small
        <3> QED BY <2>1, <3>1
    <2>3. ASSUME NEW batch, NEW mode, NEW serializes, StoreBatch(batch, mode, serializes)
          PROVE  Small
        BY <2>3 DEF StoreBatch
    <2>4. CASE rows' \subseteq rows
        BY <2>4
    <2>5. CASE Withdraw
        <3>1. rows' \subseteq rows
            BY <2>5, MakeRoomShrinks
               DEF Withdraw, StoreAborted, InvalidateContext, InvalidateAge, InvalidateBulk,
                   CleanupExpired, Clear, ClearAll, Remove
        <3> HIDE DEF Small
        <3> QED BY <2>4, <3>1
    <2> HIDE DEF Small
    <2> QED BY <2>2, <2>3, <2>4, <2>5
            DEF Next, AnyStore, Store, StoreOnMiss, Lookup, Hit, Restart, Tick, vars
<1> QED BY <1>1, PTL DEF Spec, OneKeyPerEviction

(* A name leads only to rows whose context is short, or empty. *)
LEMMA LocatedShort ==
    ASSUME EmptyContext \notin LongContext, NEW id, NEW r \in Located(id)
    PROVE  r.key[2] \notin LongContext
<1>1. r.key \in Resolves(id)
    BY DEF Located, First
<1>2. ParsedContext(id) \notin LongContext
    BY DEF ParsedContext
<1> QED BY <1>1, <1>2 DEF Resolves

(* The row of a context longer than 30 characters is never evicted,        *)
(* whatever the client and the policy: its name is cut, does not parse,    *)
(* and leads to the empty context (storage_ops.py:413-504).  With nothing  *)
(* but such contexts a store never evicts, which is how the cache of       *)
(* long_context outgrows max_entries.                                      *)
THEOREM LongContextsStay ==
    ASSUME EmptyContext \notin LongContext
    PROVE  Spec => [][rows' \ rows # {} =>
                        \A r \in rows \ rows' : r.key[2] \notin LongContext]_vars
<1> DEFINE Stay == rows' \ rows # {} => \A r \in rows \ rows' : r.key[2] \notin LongContext
<1>1. ASSUME NEW room \in MakeRoom
      PROVE  \A r \in rows \ room.rows : r.key[2] \notin LongContext
    <2>1. ASSUME NEW id, NEW x \in EvictionsOf(id)
          PROVE  \A r \in rows \ x.rows : r.key[2] \notin LongContext
        <3>1. x = Unchanged \/ \E l \in Located(id) : x.rows = DeleteById(l.key)
            BY <2>1 DEF EvictionsOf
        <3> QED BY <3>1, LocatedShort DEF DeleteById, Unchanged
    <2>2. Unchanged.rows = rows
        BY DEF Unchanged
    <2> QED BY <2>1, <2>2 DEF MakeRoom, Evictions
<1>2. [Next]_vars => Stay
    <2> SUFFICES ASSUME [Next]_vars PROVE Stay
        OBVIOUS
    <2>1. ASSUME NEW q, NEW c, NEW mode, NEW serializes, StoreEntry(q, c, mode, serializes)
          PROVE  Stay
        <3>1. \E room \in MakeRoom : room.rows \subseteq rows'
            BY <2>1 DEF StoreEntry
        <3> QED BY <1>1, <3>1
    <2>2. CASE rows \subseteq rows' \/ rows' \subseteq rows
        BY <2>2
    <2>3. ASSUME NEW batch, NEW mode, NEW serializes, StoreBatch(batch, mode, serializes)
          PROVE  rows \subseteq rows'
        BY <2>3 DEF StoreBatch
    <2>4. Withdraw => rows' \subseteq rows
        BY MakeRoomShrinks
           DEF Withdraw, StoreAborted, InvalidateContext, InvalidateAge, InvalidateBulk,
               CleanupExpired, Clear, ClearAll, Remove
    <2> HIDE DEF Stay
    <2> QED BY <2>1, <2>2, <2>3, <2>4
            DEF Next, AnyStore, Store, StoreOnMiss, Lookup, Hit, Restart, Tick, vars
<1> QED BY <1>2, PTL DEF Spec
=============================================================================
