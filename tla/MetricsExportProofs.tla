------------------------- MODULE MetricsExportProofs -------------------------
(* Proofs about MetricsExport, for any number of hits *)
EXTENDS MetricsExport, TLAPS

(* What Above returns, as arithmetic. *)
LEMMA AboveType ==
    ASSUME NEW m \in Int, NEW n \in Int
    PROVE  /\ Above(m, n) \in Nat
           /\ m > n => Above(m, n) = m - n
           /\ ~ (m > n) => Above(m, n) = 0
BY DEF Above

(* The initial values have their types. *)
LEMMA InitType == Init => TypeOK
<1> SUFFICES ASSUME Init PROVE TypeOK
    OBVIOUS
<1>1. hits \in [Cache -> Nat] /\ last \in Nat /\ sent \in Nat /\ recorded \in Nat
    BY DEF Init
<1>2. pc \in [Thread -> {"idle", "subtract", "add", "save"}]
    BY DEF Init
<1>3. reported \in [Thread -> Nat] /\ delta \in [Thread -> Int]
    BY DEF Init
<1>4. cleared \in BOOLEAN
    BY DEF Init
<1> QED BY <1>1, <1>2, <1>3, <1>4 DEF TypeOK

(* The variables keep their types, however many caches and threads. *)
THEOREM TypeCorrect == Spec => []TypeOK
<1>1. Init => TypeOK
    BY InitType
<1>2. TypeOK /\ [Next]_vars => TypeOK'
    <2> SUFFICES ASSUME TypeOK, [Next]_vars PROVE TypeOK'
        OBVIOUS
    <2> USE MetricsAssumption DEF TypeOK
    <2>1. ASSUME NEW c \in Cache, Hit(c)
          PROVE  TypeOK'
        BY <2>1 DEF Hit
    <2>2. ASSUME NEW c \in Cache, Clear(c)
          PROVE  TypeOK'
        BY <2>2 DEF Clear
    <2>3. ASSUME NEW t \in Thread, Report(t)
          PROVE  TypeOK'
        BY <2>3 DEF Report, Goto
    <2>4. ASSUME NEW t \in Thread, Subtract(t)
          PROVE  TypeOK'
        BY <2>4 DEF Subtract, Goto
    <2>5. ASSUME NEW t \in Thread, Add(t)
          PROVE  TypeOK'
        BY <2>5 DEF Add, Goto
    <2>6. ASSUME NEW t \in Thread, Save(t)
          PROVE  TypeOK'
        BY <2>6 DEF Save, Goto
    <2>7. CASE UNCHANGED vars
        BY <2>7 DEF vars
    <2> QED BY <2>1, <2>2, <2>3, <2>4, <2>5, <2>6, <2>7 DEF Next, Export
<1> QED BY <1>1, <1>2, PTL DEF Spec

(* With one thread that exports one cache, what is sent and what the export *)
(* under way and the next one will add never exceed the hits there were,   *)
(* although clear may reset them at any point (exporters.py:246-281).      *)
THEOREM AloneInductive ==
    ASSUME Alone
    PROVE  Spec => []IInv
<1>1. Init => IInv
    <2> SUFFICES ASSUME Init, TypeOK PROVE IInv
        BY InitType
    <2> QED BY MetricsAssumption DEF Init, IInv, TypeOK, Outstanding, Above
<1>2. TypeOK' /\ IInv /\ [Next]_vars => IInv'
    <2> SUFFICES ASSUME TypeOK', IInv, [Next]_vars, NEW t \in Thread
                 PROVE  (sent + Outstanding(t) <= recorded)'
        BY DEF IInv
    <2>1. Thread = {t} /\ Cache = {Of[t]}
        BY DEF Alone
    <2> USE <2>1, MetricsAssumption DEF IInv, TypeOK, Outstanding, Above
    <2>2. ASSUME NEW c \in Cache, Hit(c)
          PROVE  (sent + Outstanding(t) <= recorded)'
        BY <2>2 DEF Hit
    <2>3. ASSUME NEW c \in Cache, Clear(c)
          PROVE  (sent + Outstanding(t) <= recorded)'
        BY <2>3 DEF Clear
    <2>4. CASE Report(t)
        BY <2>4 DEF Report, Goto
    <2>5. CASE Subtract(t)
        BY <2>5 DEF Subtract, Goto
    <2>6. CASE Add(t)
        BY <2>6 DEF Add, Goto
    <2>7. CASE Save(t)
        BY <2>7 DEF Save, Goto
    <2>8. CASE UNCHANGED vars
        BY <2>8 DEF vars
    <2> QED BY <2>2, <2>3, <2>4, <2>5, <2>6, <2>7, <2>8 DEF Next, Export
<1> QED BY <1>1, <1>2, TypeCorrect, PTL DEF Spec

(* So the counter never shows more hits than there were. *)
THEOREM AloneNeverOverstates ==
    ASSUME Alone
    PROVE  Spec => []NeverOverstated
<1>1. TypeOK /\ IInv => NeverOverstated
    BY DEF Alone, IInv, TypeOK, NeverOverstated, Outstanding, Above
<1> QED BY <1>1, TypeCorrect, AloneInductive, PTL

(* And until the metrics are cleared, every export brings it to exactly    *)
(* the hits it reported, however many arrive during the export             *)
(* (exporters.py:246-284).                                                 *)
THEOREM AloneExact ==
    ASSUME Alone
    PROVE  Spec => []ExportsExactly
<1>1. Init => ExactInv
    BY MetricsAssumption DEF Init, ExactInv
<1>2. TypeOK /\ ExactInv /\ [Next]_vars => ExactInv'
    <2> SUFFICES ASSUME TypeOK, ExactInv, [Next]_vars, ~cleared', NEW t \in Thread
                 PROVE  (/\ last <= hits[Of[t]]
                         /\ pc[t] # "idle" => last <= reported[t] /\ reported[t] <= hits[Of[t]]
                         /\ pc[t] = "add" => delta[t] = reported[t] - last
                         /\ sent = IF pc[t] = "save" THEN reported[t] ELSE last)'
        BY DEF ExactInv
    <2>1. Thread = {t} /\ Cache = {Of[t]}
        BY DEF Alone
    <2> USE <2>1, MetricsAssumption DEF ExactInv, TypeOK
    <2>2. ASSUME NEW c \in Cache, Hit(c)
          PROVE  (/\ last <= hits[Of[t]]
                  /\ pc[t] # "idle" => last <= reported[t] /\ reported[t] <= hits[Of[t]]
                  /\ pc[t] = "add" => delta[t] = reported[t] - last
                  /\ sent = IF pc[t] = "save" THEN reported[t] ELSE last)'
        BY <2>2 DEF Hit
    <2>3. ASSUME NEW c \in Cache, Clear(c)
          PROVE  FALSE
        BY <2>3 DEF Clear
    <2>4. CASE Report(t)
        BY <2>4 DEF Report, Goto
    <2>5. CASE Subtract(t)
        BY <2>5 DEF Subtract, Goto
    <2>6. CASE Add(t)
        BY <2>6 DEF Add, Goto
    <2>7. CASE Save(t)
        BY <2>7 DEF Save, Goto
    <2>8. CASE UNCHANGED vars
        BY <2>8 DEF vars
    <2> QED BY <2>2, <2>3, <2>4, <2>5, <2>6, <2>7, <2>8 DEF Next, Export
<1>3. ExactInv => ExportsExactly
    BY DEF ExactInv, ExportsExactly
<1> QED BY <1>1, <1>2, <1>3, TypeCorrect, PTL DEF Spec
=============================================================================
