--------------------------- MODULE MCMetricsExport ---------------------------
(* Instances of MetricsExport for TLC *)
EXTENDS MetricsExport, FiniteSets

(* Each thread exports its own cache; with one cache, all export it *)
Own == [t \in Thread |->
          IF Cardinality(Cache) = 1 THEN CHOOSE c \in Cache : TRUE ELSE t]
=============================================================================
