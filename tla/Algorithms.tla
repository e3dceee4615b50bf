----------------------------- MODULE Algorithms -----------------------------
(***************************************************************************)
(* The algorithms of Serialization, Patterns, Configuration and Batching,  *)
(* one input at a time: each step takes some input, and the properties say *)
(* what the algorithms make of it.                                         *)
(***************************************************************************)
EXTENDS Serialization, Patterns, Configuration, Batching

CONSTANTS
    Batches,            \* lists of results for store_batch
    Setups,             \* configurations of the serializer
    Lists,              \* calls of store_batch, as Batching has them
    BulkPatterns,       \* patterns of invalidate_bulk
    Pairs,              \* <<key pattern, value pattern>> to add to a pattern
    Ages,               \* values of older_than_seconds to add to a pattern
    StoredRows,         \* rows a pattern is matched against
    Configurations,     \* arguments of ReminiscenceConfig
    Earlier,            \* those of a cache made before for the same db_uri, or None
    ThresholdLists,     \* values of context_thresholds
    Default,            \* similarity_threshold
    LookupContexts      \* contexts to look a threshold up for

(* What a pattern, a context and an optional field are *)
Text(t) == t \in Seq(STRING)
IsContext(c) ==
    /\ c = [k \in DOMAIN c |-> c[k]]
    /\ \A k \in DOMAIN c : Text(k) /\ Text(c[k])
IsPattern(p) ==
    /\ p = [k \in {"query_regex", "query_prefix", "query_suffix",
                    "context_matches", "older_than_seconds"} |-> p[k]]
    /\ IsContext(p.context_matches)

ASSUME AlgorithmsAssumption ==
    /\ Earlier \subseteq Configurations \cup {None}
    /\ None \notin {"age_public", "age_private", Refused}
    /\ \A vs \in Batches : \A i \in DOMAIN vs : vs[i] \in Results
    /\ \A b \in Lists : DOMAIN b.entries = 1..Len(b.entries) /\ Len(b.entries) \in Nat
    /\ \A p \in BulkPatterns : IsPattern(p)
    /\ \A pair \in Pairs : Text(pair[1]) /\ Text(pair[2])
    /\ Ages \subseteq Nat
    /\ \A row \in StoredRows : IsContext(row.context)
    /\ \A thresholds \in ThresholdLists : DOMAIN thresholds \subseteq Nat

VARIABLE input

vars == <<input>>

Init == input = [about |-> "nothing"]

(* A result is written under one configuration and read under another *)
TakeValue ==
    \E v \in Results, w, r \in Setups :
        input' = [about |-> "value", value |-> v, writer |-> w, reader |-> r]

TakeBatch ==
    \E vs \in Batches, w \in Setups :
        input' = [about |-> "batch", values |-> vs, writer |-> w]

TakeList ==
    \E b \in Lists : input' = [about |-> "list", list |-> b]

With(context, key, value) ==
    [k \in DOMAIN context \cup {key} |-> IF k = key THEN value ELSE context[k]]

(* A pattern, and the same pattern with a criterion more *)
TakePattern ==
    \E p \in BulkPatterns, row \in StoredRows :
        \E more \in {[p EXCEPT !.context_matches = With(@, pair[1], pair[2])] :
                        pair \in {x \in Pairs : x[1] \notin DOMAIN p.context_matches}}
                    \cup {[p EXCEPT !.older_than_seconds = a] :
                              a \in IF p.older_than_seconds = None THEN Ages ELSE {}} :
            input' = [about |-> "pattern", pattern |-> p, more |-> more, row |-> row]

TakeConfiguration ==
    \E earlier \in Earlier, cfg \in Configurations :
        input' = [about |-> "configuration", earlier |-> earlier, cfg |-> cfg]

TakeThresholds ==
    \E thresholds \in ThresholdLists, context \in LookupContexts :
        input' = [about |-> "thresholds", thresholds |-> thresholds, context |-> context]

Next ==
    /\ input.about = "nothing"
    /\ \/ TakeValue
       \/ TakeBatch
       \/ TakeList
       \/ TakePattern
       \/ TakeConfiguration
       \/ TakeThresholds

Spec == Init /\ [][Next]_vars

-----------------------------------------------------------------------------
(* Properties *)

(* A result on its way through bytes alone comes back as Reread says, or   *)
(* does not come back; placeholder text in it may lead astray              *)
(* (serializer.py:316-482, 537-603).                                       *)
Faithful(v) ==
    LET b == SerializeToBytes[v]
        back == DeserializeFromBytes(b.type, b.body)
    IN  /\ Serialisable(v) <=> ~Failed(b)
        /\ ~Failed(b) => \/ back = Reread[v]
                         \/ Marked(v) /\ (Failed(back) \/ Confused(v))

EncodesFaithfully == input.about = "value" => Faithful(input.value)

(* A result that can be serialised comes back under every configuration    *)
(* that can undo what the writer's did, stages it has in excess included;  *)
(* one that cannot be is refused.  It comes back as it was, but for what   *)
(* Reread names: tuples as lists and, with orjson, dates and UUIDs as      *)
(* text, dataclasses as dicts, enums as their values, NaN and infinities   *)
(* as None.  Results with placeholder text in them are exempt              *)
(* (serializer.py:101 "Original Python object", 408-458, 488).             *)
RoundTrip ==
    input.about = "value" =>
        LET row == Serialize(input.writer, input.value)
        IN  IF Serialisable(input.value)
            THEN Undoes(input.reader, input.writer) /\ ~Marked(input.value)
                     => Deserialize(input.reader, row) = Reread[input.value]
            ELSE Failed(row)

(* After any change of compression, algorithm or key (the type descriptor  *)
(* names neither) a row reads as its writer could have read it, which is   *)
(* what Reread says, or does not read at all: no change of configuration   *)
(* hands out a third value.  The exception is a dict with a text or a key  *)
(* that leads to another key's value (serializer.py:92-125, 419-430;       *)
(* pipeline.py:156-206).                                                   *)
NeverGarbled ==
    input.about = "value" =>
        LET row == Serialize(input.writer, input.value)
        IN  ~Failed(row) =>
                \/ Failed(Deserialize(input.reader, row))
                \/ Deserialize(input.reader, row) = Reread[input.value]
                \/ Confused(input.value)

(* Batches of more than three take another way through the serializer:     *)
(* stage by stage, each for all results.  Rows and type descriptors are    *)
(* those of storing one by one (serializer.py:161-202), and one result     *)
(* that cannot be serialised costs the whole batch (lancedb.py:225-237).   *)
(* The exception are long batches under zstd, whose threads share one      *)
(* context (serializer.py:164-167, zstd.py:45): what they give may be the  *)
(* rows of storing one by one, an exception, or rows whose types and       *)
(* stages are right and whose data are not.                                *)
BatchLikeSingles ==
    input.about = "batch" =>
        LET vs == input.values
            w == input.writer
            batches == SerializeBatch(w, vs)
            singles == Singles(w, vs)
        IN  IF \A i \in DOMAIN vs : Serialisable(vs[i])
            THEN /\ singles \in batches
                 /\ Len(vs) <= 3 \/ Compressor(w) # "zstd" => batches = {singles}
                 /\ \A batch \in batches \ {<<>>} : Types(batch) = Types(singles)
            ELSE batches = {<<>>}

(* store_batch stores the entries that one store for each would, and puts  *)
(* them into the same tables (storage_ops.py:273-375 against 101-188): one *)
(* that was left out shifts none of the others.  The exception is a dict   *)
(* of metadata shared in auto mode (core.py:346): the last mode is         *)
(* everyone's.                                                             *)
BatchStoredLikeSingles ==
    input.about = "list" =>
        LET b == input.list
            oneMode == \A i, j \in Stored(b) : ActualMode(b, i) = ActualMode(b, j)
        IN  (b.metadata = "shared" => oneMode) =>
                StoredTogether(b) = [i \in Stored(b) |-> StoredAlone(b, i)]

(* A context pair or an age added to a pattern never selects a row the     *)
(* pattern alone does not (types.py:177-202).  Of regular expression,      *)
(* prefix and suffix this is not so: the first one given hides the others. *)
MoreSelectsLess ==
    input.about = "pattern" => (Selects(input.more, input.row) => Selects(input.pattern, input.row))

(* t without the newline that ends it *)
Chomped(t) == IF t # <<>> /\ Last(t) = "newline" THEN Front(t) ELSE t

(* Without wildcards, a context pattern selects the contexts that have its *)
(* keys with its values and no others, up to a newline at the end of a key *)
(* or a value (types.py:182-196, 221-222).                                 *)
LiteralMeansEqual ==
    input.about = "pattern" =>
        LET p == input.pattern.context_matches
            c == input.row.context
            same(pattern, text) == pattern \in {text, Chomped(text)}
        IN  (\A k \in DOMAIN p : ~HasWildcard(k) /\ ~HasWildcard(p[k])) =>
                (MatchesContext(input.pattern, c) <=>
                    \A k \in DOMAIN p :
                        /\ \E x \in DOMAIN c : same(k, x)
                        /\ \A x \in DOMAIN c : same(k, x) => same(p[k], c[x]))

(* The configuration a cache works under is its own or, if that was there  *)
(* first and was not refused, the one of an earlier cache for the same     *)
(* database, whatever its own asks for (lancedb.py:25-51).  If it asks for *)
(* encryption, the backend encrypts or raises, and nothing is stored in    *)
(* the clear (config.py:93-97, lancedb.py:79-93); and every compression it *)
(* may ask for exists (config.py:99-121, compression/factory.py:28-41).    *)
AcceptedApplied ==
    input.about = "configuration" =>
        LET earlier == input.earlier
            cfg == InForce(earlier, input.cfg)
        IN  Valid(input.cfg) =>
                /\ cfg # input.cfg => cfg = earlier /\ Initialises(earlier)
                /\ cfg.encryption_enabled => Encryption(cfg) # None
                /\ cfg.compression_enabled => Compression(cfg) = cfg.compression_algorithm
                /\ ~cfg.compression_enabled => Compression(cfg) = "none"

(* "Returns most specific match or default" (config.py:174) is what one    *)
(* gets from a dict that has its "key:value" entries before its "key"      *)
(* entries; the code itself takes the first that applies.                  *)
MostSpecific ==
    input.about = "thresholds" =>
        LET ts == input.thresholds
            fit == {i \in DOMAIN ts : Applies(ts[i], input.context)}
            best == {i \in fit : ts[i].value # None \/ \A j \in fit : ts[j].value = None}
            sorted == \A i, j \in DOMAIN ts : i < j /\ ts[i].value = None => ts[j].value = None
        IN  sorted => ThresholdFor(ts, Default, input.context) \in
                          IF best = {} THEN {Default} ELSE {ts[i].threshold : i \in best}
=============================================================================
