---------------------------- MODULE MetricsExport ----------------------------
(***************************************************************************)
(* The path of a metric from a cache to OpenTelemetry: the counters of     *)
(* CacheMetrics (one object per cache), the threads that export them (the  *)
(* metrics_export job of each cache's scheduler, and callers of export),   *)
(* and the OpenTelemetryExporter, one object for the whole process.        *)
(*                                                                         *)
(* hits, misses and the two error counters are exported alike; "hits"      *)
(* stands for any of them.  The gauge of the hit rate is left out.         *)
(***************************************************************************)
EXTENDS Integers

CONSTANTS
    Cache,          \* the caches of the process
    Thread,         \* the threads that export
    Of,             \* Of[t]: the cache whose metrics thread t exports
    MaxHits         \* bound on the number of hits

ASSUME MetricsAssumption ==
    /\ Of \in [Thread -> Cache]
    /\ MaxHits \in Nat

VARIABLES
    hits,           \* CacheMetrics.hits of each cache
    last,           \* the exporter's _last_hits
    sent,           \* the value of the OpenTelemetry counter
    pc,             \* the next step of each thread
    reported,       \* the hits in the report it exports
    delta,          \* the difference it computed
    recorded,       \* hits of all caches since the start (history)
    cleared         \* some cache has been cleared (history)

vars == <<hits, last, sent, pc, reported, delta, recorded, cleared>>

Init ==
    /\ hits = [c \in Cache |-> 0]
    /\ last = 0
    /\ sent = 0
    /\ pc = [t \in Thread |-> "idle"]
    /\ reported = [t \in Thread |-> 0]
    /\ delta = [t \in Thread |-> 0]
    /\ recorded = 0
    /\ cleared = FALSE

-----------------------------------------------------------------------------
(* What happens to the metrics of a cache *)

Hit(c) ==
    /\ recorded < MaxHits
    /\ hits' = [hits EXCEPT ![c] = @ + 1]
    /\ recorded' = recorded + 1
    /\ UNCHANGED <<last, sent, pc, reported, delta, cleared>>

(* Reminiscence.clear resets the metrics too *)
Clear(c) ==
    /\ hits' = [hits EXCEPT ![c] = 0]
    /\ cleared' = TRUE
    /\ UNCHANGED <<last, sent, pc, reported, delta, recorded>>

-----------------------------------------------------------------------------
(* The steps of an export *)

Goto(t, label) == pc' = [pc EXCEPT ![t] = label]

Report(t) ==
    /\ pc[t] = "idle"
    /\ reported' = [reported EXCEPT ![t] = hits[Of[t]]]
    /\ Goto(t, "subtract")
    /\ UNCHANGED <<hits, last, sent, delta, recorded, cleared>>

Subtract(t) ==
    /\ pc[t] = "subtract"
    /\ delta' = [delta EXCEPT ![t] = reported[t] - last]
    /\ Goto(t, "add")
    /\ UNCHANGED <<hits, last, sent, reported, recorded, cleared>>

(* Mutant of Add: the cumulative value is added instead of the difference *)
AddCumulative(t) ==
    /\ pc[t] = "add"
    /\ sent' = sent + reported[t]
    /\ Goto(t, "save")
    /\ UNCHANGED <<hits, last, reported, delta, recorded, cleared>>

(* Only a positive difference is added *)
Add(t) ==
    /\ pc[t] = "add"
    /\ sent' = IF delta[t] > 0 THEN sent + delta[t] ELSE sent
    /\ Goto(t, "save")
    /\ UNCHANGED <<hits, last, reported, delta, recorded, cleared>>

(* Mutant of Save: the baseline is never moved *)
SaveNothing(t) ==
    /\ pc[t] = "save"
    /\ Goto(t, "idle")
    /\ UNCHANGED <<hits, last, sent, reported, delta, recorded, cleared>>

(* Mutant of Save: the baseline is read afresh instead of from the report *)
SaveCurrent(t) ==
    /\ pc[t] = "save"
    /\ last' = hits[Of[t]]
    /\ Goto(t, "idle")
    /\ UNCHANGED <<hits, sent, reported, delta, recorded, cleared>>

Save(t) ==
    /\ pc[t] = "save"
    /\ last' = reported[t]
    /\ Goto(t, "idle")
    /\ UNCHANGED <<hits, sent, reported, delta, recorded, cleared>>

Export(t) == Report(t) \/ Subtract(t) \/ Add(t) \/ Save(t)

Next ==
    \/ \E c \in Cache : Hit(c) \/ Clear(c)
    \/ \E t \in Thread : Export(t)

(* The exporting threads run at every interval for ever; callers need not  *)
(* call.                                                                   *)
Spec ==
    /\ Init /\ [][Next]_vars
    /\ \A t \in Thread : WF_vars(Export(t))

-----------------------------------------------------------------------------
(* Properties *)

(* Every variable has its type. *)
TypeOK ==
    /\ hits \in [Cache -> Nat]
    /\ last \in Nat
    /\ sent \in Nat
    /\ pc \in [Thread -> {"idle", "subtract", "add", "save"}]
    /\ reported \in [Thread -> Nat]
    /\ delta \in [Thread -> Int]
    /\ recorded \in Nat
    /\ cleared \in BOOLEAN

(* The counter never shows more hits than there were: "only the change     *)
(* since the last export is sent" (exporters.py:233-234).                  *)
NeverOverstated == sent <= recorded

(* A hit shows in the counter in the end, unless the metrics are cleared   *)
(* (exporters.py:246-284; core.py:486-502 exports again and again).        *)
HitsExported == \A n \in 1..MaxHits : recorded >= n ~> (sent >= n \/ cleared)

(* The export that has just added its difference has brought the counter   *)
(* to the number of hits it reported, no less and no more, whatever was    *)
(* hit meanwhile, unless the metrics were cleared (exporters.py:246-284).  *)
ExportsExactly == \A t \in Thread : pc[t] = "save" /\ ~cleared => sent = reported[t]

-----------------------------------------------------------------------------
(* Why NeverOverstated holds when one thread exports one cache *)

Above(m, n) == IF m > n THEN m - n ELSE 0

(* What this export and the next would add *)
Outstanding(t) ==
    CASE pc[t] = "idle"     -> Above(hits[Of[t]], last)
      [] pc[t] = "subtract" -> Above(reported[t], last) + Above(hits[Of[t]], reported[t])
      [] pc[t] = "add"      -> Above(delta[t], 0) + Above(hits[Of[t]], reported[t])
      [] pc[t] = "save"     -> Above(hits[Of[t]], reported[t])

IInv == TypeOK /\ \A t \in Thread : sent + Outstanding(t) <= recorded

(* Why ExportsExactly holds then: until a clear, the baseline is what was  *)
(* sent, but for the difference that the export under way has added        *)
ExactInv ==
    ~cleared =>
        \A t \in Thread :
            /\ last <= hits[Of[t]]
            /\ pc[t] # "idle" => last <= reported[t] /\ reported[t] <= hits[Of[t]]
            /\ pc[t] = "add" => delta[t] = reported[t] - last
            /\ sent = IF pc[t] = "save" THEN reported[t] ELSE last

(* One thread exports, and it is told of every cache there is *)
Alone == \E t \in Thread : Thread = {t} /\ Cache = {Of[t]}
=============================================================================
