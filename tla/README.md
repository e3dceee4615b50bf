# Reminiscence in TLA+

Reminiscence is a Python library that caches the results of expensive calls
(LLM prompts, queries) by what they mean: a lookup finds the stored query whose
embedding is close enough, in exactly the same context, or the very same query
text in "exact" mode. Behind that lie two LanceDB tables, an eviction policy in
memory, background threads and a metrics exporter, and none of it is locked.
This directory holds TLA+ models of that machinery, the TLC configurations that
check them on small instances, and TLAPS proofs of the main results.

Paths below are relative to `src/reminiscence/`.

## 1. The system

| Part | State | Operations | Hard behaviour | What makes it correct |
|---|---|---|---|---|
| Eviction policies (`eviction/`) | FIFO: a list of entry ids; LRU: id -> time of last use; LFU: id -> hits | `on_insert`, `on_access`, `select_victim`, `on_evict` | told of changes to the tables by every other part, by name only; lives in memory, the tables may not | tracks exactly what is stored; picks the right victim |
| Entry names (`_generate_entry_id`, `_evict_one`) | none | name an entry, find it again from its name | names are cut at 30 characters and parsed at the first colon | each name leads back to its entry |
| Cache operations (`operations/storage_ops.py`, `lookup.py`, `invalidation.py`, facade `cache.py`) | tables and policy | `store`, `store_batch`, `lookup`, `lookup_batch`, `check_availability`, `invalidate`, `invalidate_bulk`, `clear_all`, `_sync_eviction_state` | several steps on two kinds of state, each of which may fail and be swallowed | no more than `max_entries` rows; eviction of the right row, and of one only |
| Maintenance (`operations/maintenance.py`) | - | `cleanup_expired`, export, import, stats | works on a copy of the tables while callers go on | expired rows go, others stay |
| Storage backend (`storage/lancedb.py`) | exact and semantic table, index flag; one instance per database and dimension | `add`, `search`, `delete_by_id`, `count`, `clear`, `create_index` | on disk a delete is a statement; in memory the table is read, filtered and created anew | a row leaves only when it should |
| Schedulers (`scheduler.py`) | thread, stop event, manager | `start`, `stop`, `_run`, `start_all`, `stop_all` | stop races the loop; join has a timeout | stop stops, start starts, failing jobs go on |
| Metrics and export (`metrics/`) | counters of each cache; baseline of the one exporter | `report`, `reset`, `export` | read-compute-write of the baseline by several threads and caches | the exported counter is the number of events |
| Facade (`core.py`) | owns all of these | delegates; `clear`, `start_scheduler`, `stop_scheduler`, `health_check` | lifecycle | - |
| Decorator (`decorators.py`) | none of its own; each call its queries, hits and outputs | lookup, call the function on a miss, store, merge | concurrent misses; outputs of a batch matched by position; functions that share contexts; default mode stores with `store_batch` | a call returns the results for its own arguments, and computes only what it must |
| Serialization, compression, encryption (`serialization/`, `compression/`, `encryption/`) | none; a type descriptor in each row | serialize, deserialize, serialize_batch, pipeline of stages | the descriptor names neither algorithm nor key; placeholders in results; a second way through for long batches | what is stored comes back, or does not come back |
| Patterns and configuration (`types.py`, `config.py`) | - | wildcards, validation, thresholds, environment | criteria that hide one another; first match instead of most specific; three places that decide about encryption | a pattern selects what it says; what is accepted is applied |
| Query detection, embeddings, logging | - | pure or external | - | - |

How they interact: the decorator (a call of the user's function in a thread or a
task) calls the facade, which calls the operations,
which call the backend and then tell the policy. The policy never sees the
tables; it only knows names. `store` asks it for a victim, turns the name back
into a search of the tables, deletes what it finds, and tells the policy only if
something was deleted. The scheduler's threads call `cleanup_expired` and the
metrics export beside the callers. A restart keeps the tables (on disk) and
rebuilds the policy from one of them.

The list of hazards in `PROJECT.json` gives the line where each of these bites.

## 2. The modules

| Module | Stands for |
|---|---|
| `Eviction` | the three policies, as operators on a set of cells `[id, val, at]` |
| `EntryIds` | naming an entry, and finding entries by name |
| `BoundedStore` | abstract: what a cache with `max_entries` promises |
| `Cache` | all operations of the cache, each call one action; implements `BoundedStore` |
| `CacheHistory` | `Cache` with history variables that say what "recently" and "frequently used" mean |
| `CacheThreads` | the same operations as series of steps of several threads, on disk and in memory |
| `Scheduler` | the background threads and the calls that start and stop them |
| `MetricsExport` | counters, exporting threads and the shared exporter |
| `Decorator` | decorated functions called by several callers at once, with `lookup_batch` and `store_batch` as steps |
| `JobLifecycle` | abstract: what a scheduler's caller may count on; implemented by `Scheduler` |
| `Encoding` | results as terms: the bytes of a result, and the result that bytes hold |
| `Serialization` | on top of `Encoding`, bytes as boxes: compression, encryption and the type descriptor of a row |
| `Patterns`, `Configuration`, `Batching` | which rows a bulk pattern selects; what becomes of a configuration; which entries of a batch go where |
| `Optional` | Python's `None` and an exception, as values these share |
| `Algorithms` | one input of these modules at a time, and what they must make of it |
| `Vocabulary` | the queries and contexts of the instances: plain, and awkward (prefixes, a colon, long contexts) |
| `MC...` | instances for TLC |
| `Recursion` | when a recursive definition defines a function: a theorem that `AlgorithmsProofs` instantiates for the recursions over results and bytes |
| `CacheProofs`, `VictimProofs` | theorems about `Cache`: policy and tables in step, one key for each eviction, what makes names faithful; which row goes, and the client that stores what it missed |
| `CacheThreadsProofs`, `DecoratorProofs`, `SchedulerProofs`, `MetricsExportProofs`, `AlgorithmsProofs` | theorems about the modules of these names |

### Cache

`rows` holds the rows of both tables as `[key, table, ts]`, a key being a query
in a context (the `id` column is a hash of both, taken as injective; the rows'
results play no part in control here: they are the subject of `Decorator`). `tracked` is the policy's state. `clock` is
`time.time()` in ticks: every store takes a tick, so timestamps are distinct, and
`Tick` lets time pass. `policy` is the configured policy, chosen once.

One cell type serves the three policies: `at` is when the cell was created, which
is the order of FIFO's list and the insertion order of a Python dict (whose
`min()` takes the first of equals); `val` is the time or the count that is
minimised. FIFO's list may hold an id more than once, a dict may not: `OnInsert`
differs exactly there. `on_evict` removes the first occurrence, so telling it n
times removes n cells (`OnEvictMany`).

`EntryIds` keeps what the string operations do without strings: the constants
`Preview`, `Shown`, `BeforeColon`, `IsPrefix` and `LongContext` say what cutting
at 30 characters, splitting at a colon, prefix search and JSON parsing give on the
instance's queries and contexts. `Resolves(EntryId(k)) = {k}` for every k is the
condition `PlainKeys`, "names are faithful".

`MakeRoom` is lines 131-140 of `storage_ops.py` with the whole of `_evict_one`:
a victim is selected, located in the exact and then the semantic table, deleted
by id from both, and forgotten; if it cannot be located nothing changes.
`StoreAborted` is a store whose embedding fails after room was made. `Added`
gives the silent return of `add` when a result does not serialise. Searches
return any row of the best similarity, since `limit(1)` orders no further.
`StoreOnMiss` is the cycle of the decorator without `batch_mode`. Its lookup
misses (`Misses`) if it finds no row or an expired one, or, where the constant
`LookupFails` says that lookups may fail, at any time: an exception of the embedder
or of the search, and a row that cannot be read back, are swallowed and count as a
miss, whatever is stored.
`Restart` is a new `Reminiscence` over the same rows: `Synced` is what
`_sync_eviction_state` builds, from the semantic table alone.

The constant `Workload` names the operations a client uses. It is how a property
states its precondition: which client discipline makes it true.

### CacheThreads

Each thread has a program counter and the local variables of the code (`key`,
`victim`, `snap` for a table read with `to_arrow`, `before` for a count or the
cutoff). A label is one access to a table or to the policy; these are the points
where the interpreter may switch threads. `memory` selects between the two ways
of deleting. One table stands for both, which the code treats alike one after the
other, and names are faithful here, so that a violation is due to interleaving
and to nothing else. `min()` over a dict that another thread changes raises
(`Disturbed`); `_evict_one` swallows it and the store goes on without evicting.

### Decorator

`calls[t]` is the call caller t is in: the function, the other argument (the one
`context_params` may name), the queries, and per query what was `found`. The steps
are those between which other callers run: `Begin` (building the context,
`_normalize_to_batch`), one `LookUp` for each query in the order of
`lookup_batch` (`Turn`: semantic ones first), each of which may raise and so miss
(`LookUpFails`), or `LookUpNothing` when the tables
are empty or the embedder fails; `AllHits`, or `Execute` and `Raise` for the
function, then `StoreBatch` with the merge, or `StoreOne` in the wrapper without
`batch_mode`. The asynchronous wrappers are the same code around an await of the
function. The cache is its rows, which other activity may evict or invalidate
(`Drop`) and time may expire (`Tick`).

A result is the record of how it was computed: function, query, argument and kind
(a value, an error, something that does not serialise, something that does but
cannot be read back: `Readable`). That is what lets a
property say whose answer a caller got. The function is external: it returns one
output for each query it is given (`Kept`), one too many, or one too few. It may
get another argument than the caller wrote, since a list call drops positional
arguments (`Dropped`, `Received`). Two variables are history: `calls[t].known`,
the positions whose answer was there when the call began and still is, and
`spoiled`, the contexts for which a function broke its part.

### Encoding, Serialization, Patterns, Configuration, Batching

A value is a term: plain data, NaN and the infinities, what orjson writes as data of
another type (dates, UUIDs, dataclasses, enums), what nothing serialises,
tables and arrays, dicts and lists of values, and the text `"__special__k"`, which
the reader cannot tell from a placeholder. `JsonOf` is what JSON makes of a scalar:
with orjson, NaN and infinities become null; the json module keeps them and refuses
what orjson converts. `SerializeToBytes` writes a container
(`NestedText`) as its base with placeholders and its special entries apart;
`DeserializeFromBytes` puts them back, by the text of the placeholder in a dict and
by the index in a list. `SerializeToBytes`, `ObjectIn` (the reader) and `Reread` (what
a result is meant to come back as) are recursive functions; the body of each is an
operator of its own (`BytesOf`, `ObjectOf`, `RereadOf`) that is given the function.
`Results` are the results and all values inside them, and `Depth` says how deeply each
is nested: a list that contains itself is not a result, as the code cannot write it
(`RecursionError`). Compression
and encryption are boxes that only the same algorithm, or the private half of the
same key pair, opens (`Opened`): undoing a stage on bytes that are in no such box
is a failure. A long batch has several outcomes: the threads of its first
stage share the compressor, and a zstd context is for one thread at a time, so any of
the values may come out `Damaged`, or the batch raise (`Packed`, `Exposed`); gzip and
the encryptor keep nothing between calls. The type descriptor keeps the base type and the names of the stages, as
the code does, and no algorithm or key.

Text in `Patterns` is a sequence of characters over `*` and a newline, the only
ones the translated expressions treat apart; `MatchWildcard` says that the pattern
divides the text: positions cut it into one part for each character of the pattern; a user's regular expression is the set of
queries it matches. `Configuration` follows an encryption key, reduced to what its
text looks like, through the three places that look at it. Backends are shared by
caches with one `db_uri`: `InForce` is the configuration whose serializer they use,
that of the first cache whose backend came up (`Initialises`). `Batching` compares
`store_batch` with one `store` for each entry, by the positions in the batch
that are stored at all. `Algorithms` takes one input of
these modules per step.

### Scheduler

`runner[j]` is where the thread of job j is in `_run`: the initial delay, the test
of the loop, the job, the wait. `event` is the stop event. A stop goes through its
schedulers one by one (`pending`), setting the event and joining (`joining`);
`Joined` may happen while the thread lives only for jobs in `Slow`, those that can
outlast the timeout. `wanted` is a history variable: whether the last call for the
job was a start.

### MetricsExport

`hits` of each cache, the exporter's baseline `last`, and `sent`, the value of the
OpenTelemetry counter. An export is four steps: report, subtract, add, save. The
scheduler's thread and any caller of `export` are threads of the model;
`Of` says whose metrics each exports. `recorded` and `cleared` are history.

## 3. What the runs check

| Run | Instance | Shows |
|---|---|---|
| `cache_dicts` | 3 queries, 1 context, LRU and LFU, `max_entries` 2, clock to 5 | policy and tables in step, what the cells remember is the history, the right victim, `BoundedStore`; repeated stores and failed lookups included |
| `cache_on_miss` | 4 queries, two of them paraphrases, 1 context, FIFO, LRU and LFU, semantic table, `max_entries` 2, clock to 7 | the same under store-on-miss for every policy while lookups do not fail, with age invalidation and restarts; under FIFO the oldest row goes first |
| `cache_full` | 3 queries and 2 contexts with awkward names, every operation, TTL 1, batches of 2, failing serialisation, clock to 4 | an eviction deletes rows of one key at most, and only when full |
| `threads` | 2 clients and the cleaner, 2 keys, `max_entries` 1, LRU, on disk and in memory, clock to 3 | on disk no row is lost and none comes back; expired rows go in the end, in memory too |
| `decorator` | 2 callers, 2 functions that share contexts, 2 queries close to each other, 3 calls, `max_entries` 1, TTL 0, clock to 1 | answers belong to their queries and contexts, errors stay with their callers, nothing that can be read in the cache is computed again unless a lookup fails |
| `algorithms` | results nested two deep, 12 configurations of the serializer as writer and as reader, batches of 4, patterns of two pairs, configurations after one of five earlier ones or none, 3 thresholds | the encoding alone; results come back or do not come back; batches do what single stores do; patterns and configurations mean what they say |
| `scheduler` | 4 jobs: managed or alone, slow or not | stop is complete, stop ends threads, failing jobs go on, no call is taken back; `JobLifecycle` |
| `export_alone` | one cache, one thread, 6 hits | the counter never exceeds the hits, shows after an export exactly what was reported, and catches up |
| `long_context` | violation | contexts over 30 characters: the cache outgrows `max_entries` |
| `memory_loses_store` | violation | in memory, cleanup loses a row stored meanwhile |
| `restart_ignored` | violation | `start_scheduler` after `stop_scheduler` does nothing |
| `export_shared` | violation | two caches on the shared exporter: hits counted twice |

The bounds. `max_entries` 2 with 3 keys is the least at which a policy has a
choice and a victim differs from the newcomer (under store-on-miss a paraphrase of
a stored query is a hit, so `cache_on_miss` has a fourth query); the clock allows at least three
stores more than fit, so an eviction can follow an eviction, a hit, an invalidation and a
restart. In `cache_full` a batch of two fills the cache past its limit and a TTL
of one tick separates the row that has just expired from the one about to. Two
clients and the cleaner on a table of one entry are enough for every pair of
deletions to race with a store; a third client adds no new pair. Two callers of
the decorator and three calls let one caller miss, store and return between any two
steps of the other, and call again; a list of two queries and a list
of none are the shapes in which positions can go wrong (a list that repeats a query
makes the run too long; the theorems have lists of any queries). Batches of four results are
the first that take the other way through the serializer (more than three). Four jobs are the
combinations of managed or alone and of slow or not. `MaxFreq`, `MaxClock` and
`MaxHits` bound counters in guards only. `decorator` is reduced by symmetry over the
callers, which are interchangeable in `Decorator`, and checks safety only; no other
run uses symmetry.

Workloads. `cache_dicts` leaves out what breaks the agreement of policy and
tables: batches (not tracked), `clear` (policy not told), restart (exact table
ignored), age-based invalidation and cleanup (they tell the policy of an old
duplicate row while the fresh row of the same key stays). `cache_on_miss` leaves out
plain stores, since a key stored twice leaves two cells in FIFO's list, and two rows of
different age under LRU and LFU; without them restarts and age-based invalidation are in. For the same reason its
lookups do not fail (`LookupFails = FALSE`): after one that does, the decorator itself
stores a key twice. In `cache_dicts`, where a repeated store does no harm, they may. These
exclusions are findings about the program as much as limits of the runs: outside
them a victim stays behind that no row answers to, eviction stops, and `Bounded`
fails. `cache_full`, which has all of them, checks what still holds.

Exemptions. A property says in its comment what it leaves out, and the model has the
case. `Answered` exempts contexts for which a function got another argument than
the caller's or returned too few outputs: those results are stored for everyone.
`RoundTrip` exempts results that contain placeholder text (`Marked`), as
`EncodesFaithfully` does, and `NeverGarbled` the dicts in which such a text leads to another key's value (`Confused`).
All three measure a result against `Reread`, which says what JSON
makes of it: tuples are lists, and with orjson NaN and infinities are None, dates are text,
dataclasses dicts, enums values. `NoNeedlessRun` speaks of queries all of whose rows can be
read and have not expired, and of lookups that do not fail. `BatchLikeSingles` exempts the data of batches
of more than three under zstd. `AcceptedApplied` speaks of the configuration in force:
another one for the same database is accepted and passed over.
`BatchStoredLikeSingles` exempts metadata shared in auto mode, where the last entry
decides for all. `MostSpecific` speaks of threshold lists that have their pairs before
their keys; for others the code takes the first.

Deadlock is checked in every passing run but two. In the cache, an invalidation
is possible in every state, if only of nothing; in `CacheThreads` the cleaner always
has a step; in `Scheduler` and `MetricsExport` there is always a call. In `decorator`
the calls are used up in the end, and `algorithms` takes one input and stops.

Fairness. `Cache` needs none: its properties are safety. In `CacheThreads` a call
that has begun goes on (threads are preemptive, no step blocks), and the cleaner
runs again and again, because `_run` loops whatever the job does; clients need not
call. In `Scheduler` a thread's own steps are fair (waits end, jobs return: `Slow`
means longer than the timeout, not for ever), and so is a stop in progress, whose
join has a timeout. `Decorator` has no fairness: a function may never return. In `MetricsExport` exporting threads are fair for the same
reason as the cleaner. No caller is ever assumed to call.

## 4. What is proved

For every value of the constants that satisfies the named assumptions:

- `CacheProofs!TypeCorrect` (`Spec => []TypeOK`), `EvictsOneKey`
  (`Spec => OneKeyPerEviction`) and `LongContextsStay` (a store evicts no row of a
  context over 30 characters): for every client, policy and vocabulary.
- `CacheProofs!Inductive`: for a disciplined client of LRU or LFU,
  `Spec => []IInv`. From it `StaysBounded` (`[]Bounded`), `InStep`
  (`[](TrackedStored /\ StoredTracked)`), `EverythingTracked` (`[]StoredTracked`) and
  `ImplementsBoundedStore` (`Spec => KeepsPromise`, the refinement).
- `VictimProofs!HistoryInductive` (`HSpec => []HistoryInv`), `LruEvictsLeastRecent`
  (`HSpec => EvictsLeastRecentlyUsed`) and `LfuEvictsLeastFrequent`
  (`HSpec => EvictsLeastFrequentlyUsed`), for a disciplined client and for
  one that stores what it missed (`Remembered`).
- `VictimProofs`, for a client of any policy that stores what it missed and
  whose lookups do not fail (`StoresOnMiss`): `OnMissInductive` (`Spec => []OnMissInv`), `OnMissInStep`
  (`[](TrackedStored /\ StoredTracked /\ Bounded)`), `FifoEvictsOldest`
  (`Spec => EvictsOldest`) and `OnMissImplements` (`Spec => KeepsPromise`).
- `CacheProofs!FaithfulNames`: which queries and contexts make names faithful
  (`PlainKeys`, a hypothesis of both kinds of client), as an equivalence.
- `CacheThreadsProofs!TypeCorrect` (`Spec => []TypeOK`), `NoRowLost`
  (`Spec => DiskLosesNoRow`) and `NoRowRevived` (`Spec => DiskRevivesNoRow`): for any
  number of clients, any keys, policies and limits, without further hypothesis.
- `CacheThreadsProofs`, for calls that do not overlap and stores of entries that are
  not there (`SerialSpec`), under every policy, on disk and in memory:
  `SerialBounded` (never more than `max_entries` rows, and between calls the policy
  tracks exactly what is stored), `SerialImplements` (`SerialSpec => Promise!Spec`,
  the refinement of `BoundedStore`) and `SerialLosesNoRow`
  (`SerialSpec => OnlyMeantRemoved`).
- `DecoratorProofs!Inductive` (`Spec => []IInv`), `AnswersBelong` (`[]Answered`) and
  `ErrorsStay` (`[]ErrorsNotShared`): for any callers, functions, contexts and lists of
  queries, without further hypothesis; `NoNeedlessRuns` (`Spec => NoNeedlessRun`)
  if no query is closer to q than q itself (`SelfClosest`).
- `SchedulerProofs!TypeCorrect`, `StopIsComplete` (`Spec => []StopWaits`),
  `CallsAreEffective` (`Spec => []CallsTakeEffect`) and `ImplementsJobLifecycle`
  (`Spec => KeepsLifecycle`, a refinement), for any set of jobs; `ManagedRunsOnce` (a
  managed job whose thread has ended never has another).
- `MetricsExportProofs!TypeCorrect`, and for one cache and one exporting thread
  `AloneInductive` (`[]IInv`), `AloneNeverOverstates` (`[]NeverOverstated`) and
  `AloneExact` (`[]ExportsExactly`).
- `AlgorithmsProofs`: all nine invariants of the run, for every input:
  `ResultsEncodedFaithfully` (`[]EncodesFaithfully`), `ResultsComeBack` (`[]RoundTrip`),
  `ResultsNeverGarbled` (`[]NeverGarbled`), `BatchesLikeSingles` (`[]BatchLikeSingles`),
  `BatchesStoredLikeSingles`, `AcceptedIsApplied`, `SortedIsMostSpecific`,
  `MoreCriteriaSelectLess` and `LiteralPatterns`, each the property of nearly the same name.

They rest on lemmas in the same modules; `Recursion` holds one that is about no
code at all: a recursive definition whose uses of itself go down a
well-founded relation defines a function that satisfies it.

The argument for the cache. `Bounded` is not inductive: a store removes a row only
if the victim it is given can be found. So the invariant carries `Agree`: the
policy has one cell for each id, and the ids are exactly those of the rows. Then
the policy is empty only if the tables are (there is a victim whenever the cache
is full), the victim's name belongs to a row, and since names are faithful the
search finds rows of that key and no other (`LocatedNamed`); deleting the key and
the cell keeps both sides equal (`EvictionRoom`). The number of rows falls below
`max_entries` before one is added. Finiteness of `rows` is part of the invariant
because cardinalities are compared.

`Disciplined` is the hypothesis of these, and each conjunct is needed: faithful names
(`long_context` is what happens without), a policy that is a dict (FIFO keeps
duplicates), results that serialise, and a workload of calls that keep both sides
in step. It is an assumption about the client, not about the code.

Which victim is the right one is said by history variables: `used` and `hits` of
`CacheHistory`, which no operation reads. The properties speak of two states of an
eviction; `HistoryInv` makes them inductive by what the policy's cells contain:
the cell of key k holds `used[k]` under LRU and `hits[k]` under LFU, and, by `IInv`,
the tracked keys are the stored ones. A store writes both sides alike
(`StoreRecalled`), so does a hit (`LookupRecalled`), removals only take cells away
(`WithdrawForgets`), and the victim is a cell whose value is minimal (`VictimLeast`),
hence a key whose history is (`EvictsLeast`). All of this needs of the client only
`IInv`, so it holds for both kinds of client (`Remembered`). Restarts are not in `HSpec`:
LRU and LFU start anew from the times of the rows, and the property would be false.

For a client that stores only what it missed, plain stores are gone, and restarts and
removals by age come in. Under FIFO one cell per id does not hold of the list by itself:
it appends. Under LRU and LFU a removal by age would take the cell of a key of which a
younger row stays. `OnMissInv` answers both: no key is stored twice (`Lined`), and
FIFO's list is `Queue(rows)`, one cell for each row in the order of the rows. It rests
on `MissedKey`: where a store follows a miss, no row has the key that is stored, because
a search for q over a row of q finds something (rows do not expire there, and no query
is closer to q than q; and lookups do not fail). Then any set of rows removed is a set of whole keys, under every
policy (`OnMissRemoves`; `QueueWithout` for the list), a restart tracks the same
keys again (`OnMissRestart`), and FIFO's eviction takes the oldest cell, which is that
of the oldest row (`FifoRoom`). `StoresOnMiss` is the hypothesis, an assumption about
the client; the instance of `cache_on_miss` satisfies it.

`PlainKeys`, the part of both hypotheses that speaks of names, is put in terms of the
program by `FaithfulNames`: given that short JSON tells contexts apart (`ShownWhole`),
it holds exactly if no query begins like another's preview up to the first colon and,
outside the empty context, no preview has a colon and no context is longer than 30
characters.

For the threads, the invariant keeps the two ways of deleting apart: on disk no thread
is ever at `read` or `overwrite`, the labels of the in-memory way. What remains of a
step on disk is an add, or a statement evaluated over the table as it is, whose rows
are named by the thread's own `victim`, `key` or `before`, however stale (`DiskStep`).

What the threads cost shows against calls that take turns. `SerialSpec` has the same
steps, one call under way at a time. Its invariant `SerialInv` says label by label how
far policy and table are apart within a call (`InCall`): after the row is deleted and
before the policy is told, one victim more is tracked; after the row is added, one key
less; a table read for rewriting is still the table. Between calls they agree, and
deletes in memory do what statements on disk do. Then room that was made is still there
when the row is added (`SerialBounded`), and every removal is one that was asked
for (`SerialLosesNoRow`): the loss of `memory_loses_store`, overshooting and stale
cells come from overlap alone. The second hypothesis, that an entry is stored only if it
is not there, is the discipline of the decorator. Without it a key has two rows, of
which the cleanup may take the old one and forget the key, and FIFO two cells.

For the decorator, the invariant follows a result on its way: what the function
returned for the k-th missing query (`OutputsSound`) is stored under that query
(`RowSound`), found by others (`FoundSound`) and returned (`ReplySound`). The
merge rests on a fact about counting: `Rank` maps the positions that missed one to
one onto the positions of the outputs (`RankBijective`): ranks grow strictly, and an
injection between finite sets of the same size leaves nothing out. A second
invariant, `NothingKnownMissed`, carries `NoNeedlessRun`: a position whose answer
has been there all along has not been missed so far.

For the scheduler, `StopWaits` speaks only of moments when no stop is under way;
`StopWaitsInv` adds that an unwanted thread is dead, still to be stopped, or being
joined. `CallsInv` says the same of the events: what is not wanted and not told is
still to be told, and only what is not wanted is; a start of a job that was stopped
finds its thread dead by `StopWaitsInv`, and so begins a fresh one. These are the
safety halves of `StopEnds` and `AloneRuns`: what remains for TLC is that a told thread
comes to a test of its event, and that an untold one comes round to its job again.
The refinement maps a dead or absent thread to off, a live one to on or told by its
event. For the exporter, the invariant adds to what was sent what the export
under way and the next one will add; together they never exceed the hits there
were, and a `clear`, at any point, only lowers them. `ExactInv`, the invariant for
`ExportsExactly`, holds until the first `clear`: baseline, report and hits are in
order, and what was sent is the baseline, or the report between `Add` and `Save`.

For the serializer, first one result alone (`AllFaithful`). If some result came back
wrongly, one of the least `Depth` would, and all that is inside it comes back rightly
(`PartsFirst`); what is written of it is then its base and its entries, which are read
as the parts they were written from (`ItemsComeBack`), unless a placeholder among
them names another entry. The recursive functions can be used only through their
equations, and that these hold is itself to be shown: each is an instance of
`Recursion!Defines`, with "is a part of" or, for the reader, "is an entry of" as the
relation (`WritingDefined`, `ReadingDefined`). Given that, the pipeline is proved for every pair of configurations: what
one undoes, the other did or left undone (`UndoTransform`, by the four ways in which
stages can be configured), bytes still in a box are refused, and others are the
bytes that were written (`ReadBack`); and the stages of a batch of any
length write row for row what one transformation writes, but for the data of rows that
another thread harmed (`StageByStage`, `BatchOutcomes`). The configuration in force is
the one given or one that initialised a backend, which only an accepted one does. For
patterns, a text divides along a pattern without a star only one character at a
time (`CutOneByOne`), so it equals the pattern, or does so before a final newline
(`LiteralMatch`). For thresholds, the first entry that applies exists and is least
(`LeastNumber`); if pairs come before keys it is a pair whenever one applies. For
batches, the mode that a shared dict is left with is that of the last entry stored
(`Greatest`), hence everyone's if all modes are one. `Algorithms` has one step, so
each property is a statement about all inputs (`OneInput`) and needs no
strengthening.

Only model-checked: liveness (`ExpiredRemoved`, `StopEnds`, `AloneRuns`,
`HitsExported`), since the prover does not treat fairness. Every other property of a
passing run is proved, under the hypotheses named above. `TrackedStored`, `StoredTracked`, `Bounded`
and `KeepsPromise` are proved for the two kinds of client only, as they are false
for others. The four violations are TLC's.

## 5. Findings

Four runs end in a violation of what a comment or a test of the repository says;
`PROJECT.json` quotes each line. Two of them are proved to be no accident of the
instance: `LongContextsStay` and `ManagedRunsOnce`; for a third, `SerialLosesNoRow`
shows that it takes two overlapping calls. Met on the way, and not made into runs: the
per-entry TTL is dropped when a row is written; `store_batch` (and so a decorated
function in its default batch mode) never evicts; entries of the exact table are
not tracked after a restart; `clear` and, under FIFO, `clear_all` leave stale cells
in the policy; an expired row may hide a fresh one from lookups; concurrent
stores overshoot `max_entries`; the name of the function is left out of every context
that is not empty, so functions with the same parameter answer for each other; a list
call drops arguments given by position; a failing `store_batch` costs the caller a
result that was computed; a lookup that fails makes the decorator store a stored key
again, after which FIFO holds a dead cell and in the end evicts nothing; a row that cannot be read
back is computed again at every call; NaN and infinities in a result come back as None;
a long batch compresses in several threads with one zstd context; a second cache for the same
`db_uri` (`memory://` by default) gets the serializer of the first, so that one which asks for
encryption may store in the clear. They are listed as hazards.

## 6. Not modelled

- Embedding models: a similarity is given, and embedding may fail. Which texts
  query detection takes for exact ones: given.
- The bytes of codecs, ciphers, Arrow tables and arrays: boxes and opaque values.
  What Arrow itself makes of the types in a table, and two callers of one serializer at
  the same time, are left out.
- `deserialize_batch`, `matches_similarity`, `matches_entry_id`, `delete_by_filter`
  and `delete_by_condition`, which nothing calls; `config.load`, which parses
  environment variables.
- Export and import of files; `create_index` and the index flag, which change
  no answer that the models speak of.
- Two caches over one database, and a second thread that starts and stops
  schedulers.
- Logging, latency metrics and percentiles, read-only reports (`health_check`,
  statistics), the HTTP API and key store files (empty).

## 7. Plan

Done: `Eviction`, `EntryIds`, `Cache` with `BoundedStore` and `CacheHistory`,
`CacheThreads`, `Scheduler` with `JobLifecycle`, `MetricsExport`, `Decorator`,
`Encoding`, `Serialization`, `Patterns`,
`Configuration`, `Batching`, and the proofs of section 4.

Left, in this order:

1. Two caches over one backend, each with a policy of its own, as a composition of
   two `Cache`s that share `rows`.
2. A second controller for `Scheduler`; export and import; the index flag.
3. Proofs: larger workloads for the disciplined clients of `Cache` (an agreement of
   policy and tables up to cells without a row, which `clear` and batches leave);
   `Scheduler`'s theorems for two controllers.
