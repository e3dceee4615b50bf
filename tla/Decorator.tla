------------------------------ MODULE Decorator ------------------------------
(***************************************************************************)
(* Functions decorated with @cached (decorators.py) and called by several  *)
(* threads or tasks at once.  A call is a series of steps: it looks its    *)
(* queries up, runs the function for those that missed, stores what the    *)
(* function returned and merges.  Nothing is held between the steps.       *)
(*                                                                         *)
(* The cache appears as its rows; what policy and storage do inside one    *)
(* lookup or store is the subject of Cache and CacheThreads.  A result is  *)
(* the record of how it was computed.  Two variables are history only:     *)
(* calls[t].known and spoiled.  The asynchronous wrappers take the same    *)
(* steps: their only await is the run of the function.                     *)
(***************************************************************************)
EXTENDS Integers, Sequences, FiniteSets

CONSTANTS
    Caller,         \* threads or tasks that call decorated functions
    Func,           \* decorated functions
    Query,          \* values of the query parameter
    Arg,            \* values of the other parameter, the one context_params may name
    None,           \* Python's None: an element of Arg
    Default,        \* the other parameter's default value
    HasDefault,     \* functions whose other parameter has that default
    Keyed,          \* functions with context_params naming the other parameter
    Static,         \* Static[f]: static_context, a set of pairs
    Serialized,     \* Serialized[a]: _serialize_strict(a)
    Mode,           \* Mode[f]: query_mode
    AutoExact,      \* queries for which should_use_exact_mode answers True
    Similarity,     \* Similarity[q, r]: how close two queries are
    Threshold,      \* the similarity from which a search returns a row
    Batched,        \* functions decorated with batch_mode=True
    AllowErrors,    \* functions decorated with allow_errors=True
    Kinds,          \* what a function may return: see Result
    MaxEntries,     \* config.max_entries
    TTL,            \* config.ttl_seconds, in ticks
    Asks,           \* the calls a caller may make: see Ask
    MaxCalls,       \* bound on the number of calls
    MaxClock        \* bound on the clock

(* A call as it is written: the function, the other argument, the query    *)
(* or list of queries, and whether the other argument is given by position *)
Ask ==
    [func : Func, arg : Arg, queries : Seq(Query), single : BOOLEAN, positional : BOOLEAN]

ASSUME DecoratorAssumption ==
    /\ Asks \subseteq Ask
    /\ \A c \in Asks : IF c.single THEN Len(c.queries) = 1 ELSE c.func \in Batched
    /\ None \in Arg /\ Default \in Arg
    /\ HasDefault \subseteq Func /\ Keyed \subseteq Func
    /\ Batched \subseteq Func /\ AllowErrors \subseteq Func
    /\ Mode \in [Func -> {"exact", "semantic", "auto"}]
    /\ Kinds \subseteq {"value", "error", "unserialisable", "unreadable"}
    /\ MaxEntries \in Nat /\ TTL \in Nat
    /\ MaxCalls \in Nat /\ MaxClock \in Nat

VARIABLES
    rows,           \* rows of the two tables
    clock,          \* time.time(), in ticks
    calls,          \* calls[t]: the call caller t is in, or its last one
    begun,          \* number of calls begun
    spoiled         \* history: contexts a function broke its part for

vars == <<rows, clock, calls, begun, spoiled>>

-----------------------------------------------------------------------------
(* Naming an answer *)

(* build_context: a None argument is left out, and only a context that     *)
(* would be empty names the function.                                      *)
Key(f, a) ==
    LET own == IF f \in Keyed /\ a # None THEN {<<"param", Serialized[a]>>} ELSE {}
        params == Static[f] \cup own
    IN  IF params = {} THEN {<<"__function__", f>>} ELSE params

TableOf(f, q) ==
    IF Mode[f] = "exact" \/ (Mode[f] = "auto" /\ q \in AutoExact) THEN "exact" ELSE "semantic"

(* A result says which function computed it, from which query and          *)
(* argument, and whether it is a value, an error that the function returns *)
(* (_is_error_result), something no serialiser takes, or something that is *)
(* stored and cannot be read back.                                         *)
Result(f, q, a, kind) == [func |-> f, query |-> q, arg |-> a, kind |-> kind]

Unseen == [kind |-> "unseen"]
Miss == [kind |-> "miss"]

-----------------------------------------------------------------------------
(* The rows a lookup may find *)

(* Mutant of Expired: a row of exactly the TTL has expired *)
ExpiredEarly(r) == clock - r.ts >= TTL

Expired(r) == clock - r.ts > TTL

(* _arrow_row_to_cache_entry makes an entry of the row, and not None *)
Readable(r) == r.result.kind # "unreadable"

Search(f, q, key) ==
    LET near == {r \in rows : r.table = TableOf(f, q) /\ r.key = key}
        sim(r) == Similarity[<<q, r.query>>]
    IN  IF TableOf(f, q) = "exact"
        THEN {r \in near : r.query = q}
        ELSE {r \in near : sim(r) >= Threshold /\ \A s \in near : sim(s) <= sim(r)}

(* The answer to q is stored, and every row of it can be read and has not  *)
(* expired: a lookup of q that does not fail is a hit, for as long as the  *)
(* rows stay like that.                                                    *)
Certain(R, now, f, q, key) ==
    LET own == {r \in R : r.table = TableOf(f, q) /\ r.key = key /\ r.query = q}
    IN  own # {} /\ \A r \in own : Readable(r) /\ now - r.ts <= TTL

(* calls whose history takes the rows R and the time now into account *)
Aware(cs, R, now) ==
    [t \in Caller |->
        [cs[t] EXCEPT !.known =
            {i \in @ : Certain(R, now, cs[t].func, cs[t].queries[i], Key(cs[t].func, cs[t].arg))}]]

-----------------------------------------------------------------------------
(* A call *)

Idle == [at |-> "idle", known |-> {}, queries |-> <<>>]
Raised == [Idle EXCEPT !.at = "raised"]

Init ==
    /\ rows = {}
    /\ clock = 0
    /\ calls = [t \in Caller |-> Idle]
    /\ begun = 0
    /\ spoiled = {}

Context(c) == Key(c.func, c.arg)
Missing(c) == {i \in DOMAIN c.queries : c.found[i] = Miss}
Pending(c) == {i \in DOMAIN c.queries : c.found[i] = Unseen}

(* Position i is the Rank-th of those that missed *)
Rank(c, i) == Cardinality({j \in Missing(c) : j <= i})

(* missing_queries *)
Missed(c) ==
    [k \in 1..Cardinality(Missing(c)) |->
        c.queries[CHOOSE i \in Missing(c) : Rank(c, i) = k]]

(* The argument the function gets: a list call passes keyword arguments *)
(* only, and drops the ones that were given by position.                   *)
Dropped(c) == ~c.single /\ c.positional
Received(c) == IF Dropped(c) THEN Default ELSE c.arg

(* _normalize_to_batch: one query, or a list of queries, which only the    *)
(* batch wrapper takes apart.                                              *)
Begin(t, ask) ==
    /\ calls[t].at \in {"idle", "returned", "raised"}
    /\ begun < MaxCalls
    /\ calls' = [calls EXCEPT ![t] =
           [at |-> "looking", func |-> ask.func, arg |-> ask.arg, queries |-> ask.queries,
            single |-> ask.single, positional |-> ask.positional,
            found |-> [i \in DOMAIN ask.queries |-> Unseen], outputs |-> <<>>, reply |-> <<>>,
            known |-> {i \in DOMAIN ask.queries :
                          Certain(rows, clock, ask.func, ask.queries[i], Key(ask.func, ask.arg))}]]
    /\ begun' = begun + 1
    /\ UNCHANGED <<rows, clock, spoiled>>

(* lookup_batch looks the semantic queries up first, then the exact ones *)
Turn(c, i) ==
    /\ i \in Pending(c)
    /\ \A j \in Pending(c) :
           IF TableOf(c.func, c.queries[i]) = TableOf(c.func, c.queries[j])
           THEN i <= j
           ELSE TableOf(c.func, c.queries[i]) = "semantic"

(* The search takes one row, and only then is it read back and its age     *)
(* looked at: a row that fails there hides any other.                      *)
LookUp(t, i) ==
    LET c == calls[t]
        hits == Search(c.func, c.queries[i], Context(c))
        found(x) == calls' = [calls EXCEPT ![t].found[i] = x]
    IN  /\ c.at = "looking"
        /\ Turn(c, i)
        /\ rows = {} => Pending(c) # DOMAIN c.queries
        /\ \/ \E r \in hits : Readable(r) /\ ~Expired(r) /\ found(r.result)
           \/ \E r \in hits : (Expired(r) \/ ~Readable(r)) /\ found(Miss)
           \/ hits = {} /\ found(Miss)
        /\ UNCHANGED <<rows, clock, begun, spoiled>>

(* The search, or something before or after it, raises: the exception is   *)
(* swallowed, and whatever is stored, this query misses.                   *)
LookUpFails(t, i) ==
    LET c == calls[t]
    IN  /\ c.at = "looking"
        /\ Turn(c, i)
        /\ rows = {} => Pending(c) # DOMAIN c.queries
        /\ calls' = [calls EXCEPT ![t].found[i] = Miss, ![t].known = @ \ {i}]
        /\ UNCHANGED <<rows, clock, begun, spoiled>>

(* The whole batch misses: the tables are empty, or counting their rows or *)
(* embedding the queries fails.                                            *)
LookUpNothing(t) ==
    LET c == calls[t]
    IN  /\ c.at = "looking"
        /\ Pending(c) = DOMAIN c.queries /\ Pending(c) # {}
        /\ calls' = [calls EXCEPT ![t].found = [i \in DOMAIN c.queries |-> Miss],
                                  ![t].known = {}]
        /\ UNCHANGED <<rows, clock, begun, spoiled>>

(* Every query was a hit: the function does not run *)
AllHits(t) ==
    LET c == calls[t]
    IN  /\ c.at = "looking"
        /\ Pending(c) = {} /\ Missing(c) = {}
        /\ calls' = [calls EXCEPT ![t].at = "returned", ![t].known = {}, ![t].reply = c.found]
        /\ UNCHANGED <<rows, clock, begun, spoiled>>

(* What the function may return for the queries that missed, and whether   *)
(* it keeps its part: one output for each query, in order.  A function     *)
(* given a list may return one output too many, or too few.                *)
Kept(c) ==
    {[k \in DOMAIN Missed(c) |-> Result(c.func, Missed(c)[k], Received(c), kind[k])]
        : kind \in [DOMAIN Missed(c) -> Kinds]}
TooMany(c) == IF c.single THEN {} ELSE {Append(o, o[Len(o)]) : o \in Kept(c)}
TooFew(c) == IF c.single THEN {} ELSE {Tail(o) : o \in Kept(c)}

(* The function runs.  With an argument lost that has no default, the call *)
(* is a TypeError: see Raise.                                              *)
Execute(t) ==
    LET c == calls[t]
    IN  /\ c.at = "looking"
        /\ Pending(c) = {} /\ Missing(c) # {}
        /\ Dropped(c) => c.func \in HasDefault
        /\ \E out \in Kept(c) \cup TooMany(c) \cup TooFew(c) :
               /\ calls' = [calls EXCEPT ![t].at = "computed", ![t].outputs = out]
               /\ spoiled' = IF /\ Key(c.func, Received(c)) = Context(c)
                                /\ out \notin TooFew(c)
                             THEN spoiled
                             ELSE spoiled \cup {Context(c)}
        /\ UNCHANGED <<rows, clock, begun>>

(* The function raises, or the task is cancelled while it waits for it *)
Raise(t) ==
    /\ calls[t].at = "looking"
    /\ Pending(calls[t]) = {} /\ Missing(calls[t]) # {}
    /\ calls' = [calls EXCEPT ![t] = Raised]
    /\ UNCHANGED <<rows, clock, begun, spoiled>>

(* Mutant of Worth: error results are stored for every function *)
WorthAll(c) == DOMAIN c.outputs

(* The outputs that are no errors, or may be errors *)
Worth(c) ==
    {k \in DOMAIN c.outputs : c.func \in AllowErrors \/ c.outputs[k].kind # "error"}

(* Mutant of Added: the outputs are stored under the first queries of the  *)
(* call, not under those that missed                                       *)
AddedInOrder(c) ==
    IF \E k \in Worth(c) : c.outputs[k].kind = "unserialisable"
    THEN {}
    ELSE {[query |-> c.queries[k], key |-> Context(c), ts |-> clock,
           table |-> TableOf(c.func, c.queries[k]), result |-> c.outputs[k]] : k \in Worth(c)}

(* The rows storage.add adds: none if one of the results does not          *)
(* serialise, which the caller is not told.                                *)
Added(c) ==
    IF \E k \in Worth(c) : c.outputs[k].kind = "unserialisable"
    THEN {}
    ELSE {[query |-> Missed(c)[k], key |-> Context(c), ts |-> clock,
           table |-> TableOf(c.func, Missed(c)[k]), result |-> c.outputs[k]] : k \in Worth(c)}

(* Mutant of Merged: the outputs are taken from the last one on *)
MergedFromLast(c) ==
    [i \in DOMAIN c.queries |->
        IF i \in Missing(c) THEN c.outputs[Cardinality(Missing(c)) + 1 - Rank(c, i)] ELSE c.found[i]]

(* The answers of the cache and of the function, in the order of the call *)
Merged(c) ==
    [i \in DOMAIN c.queries |->
        IF i \in Missing(c) THEN c.outputs[Rank(c, i)] ELSE c.found[i]]

(* store_batch, then the merge.  An output too many is an IndexError       *)
(* before anything is stored; one too few is noticed by the merge, after   *)
(* the others were stored.  The embedder may fail, and the caller gets its *)
(* exception in place of the outputs.  Nothing is evicted, but a row added *)
(* may be found in place of one that was there.                            *)
StoreBatch(t) ==
    LET c == calls[t]
        more == Len(c.outputs) > Cardinality(Missing(c))
        fewer == Len(c.outputs) < Cardinality(Missing(c))
        embeds == \E k \in Worth(c) : TableOf(c.func, Missed(c)[k]) = "semantic"
        raised == [calls EXCEPT ![t] = Raised]
    IN  /\ c.at = "computed"
        /\ c.func \in Batched
        /\ \/ /\ more
              /\ calls' = raised /\ rows' = rows
           \/ /\ ~more /\ embeds
              /\ calls' = raised /\ rows' = rows
           \/ /\ ~more
              /\ rows' = rows \cup Added(c)
              /\ calls' = Aware(IF fewer
                                THEN raised
                                ELSE [calls EXCEPT ![t].at = "returned", ![t].known = {},
                                                   ![t].reply = Merged(c)],
                                rows', clock)
        /\ UNCHANGED <<clock, begun, spoiled>>

Without(x) == {r \in rows : <<r.query, r.key>> # <<x.query, x.key>>}

(* What a store may leave of the rows: if the tables are full it evicts an *)
(* entry, unless its victim cannot be found.                               *)
Spared == {rows} \cup (IF Cardinality(rows) >= MaxEntries THEN {Without(x) : x \in rows} ELSE {})

(* The wrapper without batch_mode: store evicts, and swallows every error *)
StoreOne(t) ==
    LET c == calls[t]
    IN  /\ c.at = "computed"
        /\ c.func \notin Batched
        /\ \E left \in (IF Worth(c) = {} THEN {rows} ELSE Spared) :
              \E new \in {{}, Added(c)} :
                 /\ new = {} /\ Added(c) # {} => TableOf(c.func, c.queries[1]) = "semantic"
                 /\ rows' = left \cup new
                 /\ calls' = Aware([calls EXCEPT ![t].at = "returned", ![t].known = {}, ![t].reply = c.outputs],
                                   left \cup new, clock)
        /\ UNCHANGED <<clock, begun, spoiled>>

-----------------------------------------------------------------------------
(* The rest of the program: rows are invalidated or evicted, time passes *)

Drop ==
    /\ \E x \in rows :
          /\ rows' = Without(x)
          /\ calls' = Aware(calls, Without(x), clock)
    /\ UNCHANGED <<clock, begun, spoiled>>

Tick ==
    /\ clock < MaxClock
    /\ clock' = clock + 1
    /\ calls' = Aware(calls, rows, clock + 1)
    /\ UNCHANGED <<rows, begun, spoiled>>

Proceed(t) ==
    \/ \E i \in DOMAIN calls[t].queries : LookUp(t, i) \/ LookUpFails(t, i)
    \/ LookUpNothing(t)
    \/ AllHits(t)
    \/ Execute(t)
    \/ Raise(t)
    \/ StoreBatch(t)
    \/ StoreOne(t)

Next ==
    \/ \E t \in Caller : Proceed(t) \/ \E ask \in Asks : Begin(t, ask)
    \/ Drop
    \/ Tick

Spec == Init /\ [][Next]_vars

-----------------------------------------------------------------------------
(* Properties *)

Returned == {t \in Caller : calls[t].at = "returned"}

(* v answers q in the context of c: it was computed for that context, and  *)
(* for q or for a query a semantic search takes for q.                     *)
Answers(v, q, c) ==
    /\ Key(v.func, v.arg) = Context(c)
    /\ \/ v.query = q
       \/ TableOf(c.func, q) = "semantic" /\ Similarity[<<q, v.query>>] >= Threshold

(* Every answer of a call belongs to the query at its position and to the  *)
(* call's context, whichever mix of cache and function it comes from and   *)
(* whatever other callers do meanwhile (decorators.py:340-365).  Contexts  *)
(* are exempt once a function got another argument than the caller's or    *)
(* returned too few outputs: those results are stored as they come.        *)
Answered ==
    \A t \in Returned :
        LET c == calls[t]
        IN  \/ Context(c) \in spoiled
            \/ /\ DOMAIN c.reply = DOMAIN c.queries
               /\ \A i \in DOMAIN c.queries : Answers(c.reply[i], c.queries[i], c)

(* An error a call returns comes from its own run of the function or from  *)
(* a function that was told to cache errors: never from the cache of one   *)
(* that was not (storage_ops.py:273-286; decorators.py:329).               *)
ErrorsNotShared ==
    \A t \in Returned : \A i \in DOMAIN calls[t].reply :
        LET v == calls[t].reply[i]
        IN  v.kind = "error" => v.func \in AllowErrors \/ \E k \in DOMAIN calls[t].outputs :
                                                             calls[t].outputs[k] = v

(* The function does not run for a query whose answer was in the cache     *)
(* when the call began and has been there since, each of its rows readable *)
(* and unexpired, unless the lookup itself failed (decorators.py:212-260): *)
(* however many rows of however many calls there are, a lookup under the   *)
(* call's names finds them.  Exempt are thus a lookup that raised anywhere *)
(* (lookup.py:452-462, 518-532, lancedb.py:470-482, 554-567) and answers   *)
(* of which some row cannot be read back (lancedb.py:609-617), which are   *)
(* computed again at every call.                                           *)
NoNeedlessRun ==
    [][\A t \in Caller :
          calls[t].at = "looking" /\ calls'[t].at = "computed"
              => Missing(calls[t]) \cap calls[t].known = {}]_vars
-----------------------------------------------------------------------------
(* The inductive invariant behind the three properties *)

Results == [func : Func, query : Query, arg : Arg, kind : Kinds]
Contexts == {Key(f, a) : f \in Func, a \in Arg}

Row ==
    [query : Query, key : Contexts, ts : Nat, table : {"exact", "semantic"}, result : Results]

Resting == [at : {"idle", "raised"}, known : {{}}, queries : {<<>>}]
Active ==
    [at : {"looking", "computed", "returned"}, func : Func, arg : Arg, queries : Seq(Query),
     single : BOOLEAN, positional : BOOLEAN, found : Seq(Results \cup {Unseen, Miss}),
     outputs : Seq(Results), reply : Seq(Results), known : SUBSET Nat]

TypeOK ==
    /\ rows \subseteq Row
    /\ clock \in Nat /\ begun \in Nat
    /\ spoiled \subseteq Contexts
    /\ calls \in [Caller -> Resting \cup Active]

(* v was computed from q in the context key *)
ComputedFrom(v, q, key) == Key(v.func, v.arg) = key /\ v.query = q

(* S is the set of spoiled contexts.  A row holds what its names say, and  *)
(* no error of a function that keeps its errors to itself.                 *)
RowSound(r, S) ==
    /\ r.key \in S \/ ComputedFrom(r.result, r.query, r.key)
    /\ r.result.kind = "error" => r.result.func \in AllowErrors

Shaped(c) ==
    /\ Len(c.found) = Len(c.queries)
    /\ IF c.single THEN Len(c.queries) = 1 ELSE c.func \in Batched
    /\ c.at = "looking" => c.outputs = <<>>
    /\ c.at = "computed" => Pending(c) = {} /\ Missing(c) # {}
    /\ c.at = "computed" /\ c.single => Len(c.outputs) = 1

FoundSound(c, S) ==
    \A i \in DOMAIN c.queries :
        c.found[i] \in Results =>
            /\ Context(c) \in S \/ Answers(c.found[i], c.queries[i], c)
            /\ c.found[i].kind = "error" => c.found[i].func \in AllowErrors

OutputsSound(c, S) ==
    /\ \A k \in DOMAIN c.outputs : c.outputs[k].func = c.func
    /\ \/ Context(c) \in S
       \/ /\ Len(c.outputs) >= Cardinality(Missing(c))
          /\ \A k \in DOMAIN Missed(c) : ComputedFrom(c.outputs[k], Missed(c)[k], Context(c))

ReplySound(c, S) ==
    /\ \/ Context(c) \in S
       \/ /\ DOMAIN c.reply = DOMAIN c.queries
          /\ \A i \in DOMAIN c.queries : Answers(c.reply[i], c.queries[i], c)
    /\ \A i \in DOMAIN c.reply :
           c.reply[i].kind = "error" =>
               \/ c.reply[i].func \in AllowErrors
               \/ \E k \in DOMAIN c.outputs : c.outputs[k] = c.reply[i]

CallSound(c, S) ==
    /\ Shaped(c)
    /\ FoundSound(c, S)
    /\ c.at = "computed" => OutputsSound(c, S)
    /\ c.at = "returned" => ReplySound(c, S)

(* What a call can count on finding has not been missed so far, among the  *)
(* rows R at the time now                                                  *)
KnownSound(c, R, now) ==
    \A i \in c.known :
        /\ i \in DOMAIN c.queries
        /\ Certain(R, now, c.func, c.queries[i], Context(c))
        /\ c.found[i] # Miss

NothingKnownMissed == \A t \in Caller : KnownSound(calls[t], rows, clock)

(* Every row and every call, at each of its steps, is sound, and every     *)
(* variable has its type (decorators.py:193-375 and lookup.py:336-532      *)
(* between the steps).                                                     *)
IInv ==
    /\ TypeOK
    /\ \A r \in rows : RowSound(r, spoiled)
    /\ \A t \in Caller : calls[t] \in Active => CallSound(calls[t], spoiled)
=============================================================================
