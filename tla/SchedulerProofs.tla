--------------------------- MODULE SchedulerProofs ---------------------------
(* Proofs about Scheduler, for any jobs *)
EXTENDS Scheduler, TLAPS

(* The variables keep their types. *)
THEOREM TypeCorrect == Spec => []TypeOK
<1>1. Init => TypeOK
    BY DEF Init, TypeOK, Place
<1>2. TypeOK /\ [Next]_vars => TypeOK'
    <2> SUFFICES ASSUME TypeOK, [Next]_vars PROVE TypeOK'
        OBVIOUS
    <2> USE DEF TypeOK, Place
    <2>1. CASE StartScheduler
        BY <2>1, SchedulerAssumption DEF StartScheduler, StartJobs
    <2>2. CASE StopScheduler
        BY <2>2, SchedulerAssumption DEF StopScheduler
    <2>3. ASSUME NEW j \in Job, Start(j)
          PROVE  TypeOK'
        BY <2>3 DEF Start, StartJobs
    <2>4. ASSUME NEW j \in Job, Stop(j)
          PROVE  TypeOK'
        BY <2>4 DEF Stop
    <2>5. ASSUME NEW j \in Job, StopOne(j)
          PROVE  TypeOK'
        BY <2>5 DEF StopOne
    <2>6. CASE Joined
        BY <2>6 DEF Joined
    <2>7. ASSUME NEW j \in Job, Run(j)
          PROVE  TypeOK'
        BY <2>7 DEF Run, Delay, Check, Wait, Finish, Fail, Move
    <2>8. CASE UNCHANGED vars
        BY <2>8 DEF vars
    <2> QED BY <2>1, <2>2, <2>3, <2>4, <2>5, <2>6, <2>7, <2>8 DEF Next, Controller, StopStep
<1> QED BY <1>1, <1>2, PTL DEF Spec

(* No step leaves an unwanted thread alive that is neither still to be     *)
(* stopped nor being joined.                                               *)
LEMMA StopWaitsStep == TypeOK /\ StopWaitsInv /\ [Next]_vars => StopWaitsInv'
<1> SUFFICES ASSUME TypeOK, StopWaitsInv, [Next]_vars, NEW k \in Job \ Slow,
                    ~wanted'[k], k \notin pending', joining' # k
             PROVE  ~Alive(k)'
    BY DEF StopWaitsInv
<1> USE DEF TypeOK, StopWaitsInv, Alive, Place
<1>1. CASE StartScheduler
    BY <1>1 DEF StartScheduler, StartJobs
<1>2. CASE StopScheduler
    <2>1. k \notin Managed /\ runner' = runner /\ joining' = joining /\ pending = {}
        BY <1>2 DEF StopScheduler, Idle
    <2>2. wanted'[k] = (k \notin Managed /\ wanted[k])
        BY <1>2 DEF StopScheduler
    <2> QED BY <2>1, <2>2
<1>3. ASSUME NEW j \in Job, Start(j)
      PROVE  ~Alive(k)'
    BY <1>3 DEF Start, StartJobs
<1>4. ASSUME NEW j \in Job, Stop(j)
      PROVE  ~Alive(k)'
    BY <1>4 DEF Stop, Idle
<1>5. ASSUME NEW j \in Job, StopOne(j)
      PROVE  ~Alive(k)'
    BY <1>5, SchedulerAssumption DEF StopOne
<1>6. CASE Joined
    BY <1>6 DEF Joined
<1>7. ASSUME NEW j \in Job, Run(j)
      PROVE  ~Alive(k)'
    BY <1>7 DEF Run, Delay, Check, Wait, Finish, Fail, Move
<1>8. CASE UNCHANGED vars
    BY <1>8 DEF vars
<1> QED BY <1>1, <1>2, <1>3, <1>4, <1>5, <1>6, <1>7, <1>8 DEF Next, Controller, StopStep

(* A stop that has returned, its join not timed out, has ended the thread  *)
(* (scheduler.py:67-85).  StopWaits says nothing while a stop is under    *)
(* under way; StopWaitsInv adds where each unwanted thread is then.        *)
THEOREM StopIsComplete == Spec => []StopWaits
<1>1. Init => StopWaitsInv
    BY DEF Init, StopWaitsInv, Alive
<1>3. StopWaitsInv => StopWaits
    BY SchedulerAssumption DEF StopWaitsInv, StopWaits, Idle
<1> QED BY <1>1, <1>3, StopWaitsStep, TypeCorrect, PTL DEF Spec

(* Between calls every thread knows what is wanted of it: a start that was *)
(* not lost to a timeout has its thread, and a stop has told the thread,   *)
(* for any set of jobs and any calls (scheduler.py:43-85).                 *)
THEOREM CallsAreEffective == Spec => []CallsTakeEffect
<1>1. Init => CallsInv /\ StopWaitsInv
    BY DEF Init, CallsInv, StopWaitsInv, Alive
<1>2. TypeOK /\ StopWaitsInv /\ CallsInv /\ [Next]_vars => CallsInv'
    <2> SUFFICES ASSUME TypeOK, StopWaitsInv, CallsInv, [Next]_vars PROVE CallsInv'
        OBVIOUS
    <2> USE DEF TypeOK, CallsInv, Alive, Place
    <2>1. CASE StartScheduler
        <3>1. CASE manager
            <4>1. UNCHANGED <<runner, event, pending>>
                BY <2>1, <3>1 DEF StartScheduler
            <4>2. \A j \in Job : wanted'[j] = (j \in Managed \/ wanted[j])
                BY <2>1 DEF StartScheduler
            <4> QED BY <2>1, <4>1, <4>2 DEF StartScheduler, Idle
        <3>2. CASE ~manager
            <4>1. StartJobs(Managed) /\ pending = {} /\ pending' = {}
                BY <2>1, <3>2 DEF StartScheduler, Idle
            <4>2. \A j \in Job : wanted'[j] = (j \in Managed \/ wanted[j])
                BY <2>1 DEF StartScheduler
            <4>3. ASSUME NEW j \in Job \ Managed
                  PROVE  runner'[j] = runner[j] /\ event'[j] = event[j]
                BY <4>1 DEF StartJobs
            <4> QED BY <4>1, <4>2, <4>3
        <3> QED BY <3>1, <3>2
    <2>2. CASE StopScheduler
        <3>1. UNCHANGED <<runner, event>> /\ pending = {} /\ pending' = Managed
            BY <2>2 DEF StopScheduler, Idle
        <3>2. \A j \in Job : wanted'[j] = (j \notin Managed /\ wanted[j])
            BY <2>2 DEF StopScheduler
        <3> QED BY <3>1, <3>2, SchedulerAssumption
    <2>3. ASSUME NEW k \in Job, Start(k)
          PROVE  CallsInv'
        <3>1. /\ StartJobs({k}) /\ pending = {} /\ pending' = {} /\ joining = NoJob
              /\ k \notin Managed /\ wanted' = [wanted EXCEPT ![k] = TRUE]
            BY <2>3 DEF Start, Idle
        <3>2. ASSUME NEW j \in Job, j # k
              PROVE  runner'[j] = runner[j] /\ event'[j] = event[j] /\ wanted'[j] = wanted[j]
            BY <3>1, <3>2 DEF StartJobs
        <3>3. wanted'[k]
            BY <3>1
        <3>4. ASSUME k \notin Slow
              PROVE  runner'[k] \notin {"none", "dead"} /\ ~event'[k]
            <4>1. CASE wanted[k]
                BY <3>1, <3>4, <4>1 DEF StartJobs
            <4>2. CASE ~wanted[k]
                <5>1. ~Alive(k)
                    BY <3>1, <3>4, <4>2, SchedulerAssumption DEF StopWaitsInv
                <5> QED BY <3>1, <5>1 DEF StartJobs
            <4> QED BY <4>1, <4>2
        <3> QED BY <3>1, <3>2, <3>3, <3>4
    <2>4. ASSUME NEW k \in Job, Stop(k)
          PROVE  CallsInv'
        BY <2>4 DEF Stop, Idle
    <2>5. ASSUME NEW k \in Job, StopOne(k)
          PROVE  CallsInv'
        <3>1. ~wanted[k] /\ pending' = pending \ {k} /\ UNCHANGED <<runner, wanted>>
            BY <2>5 DEF StopOne
        <3>2. \A j \in Job : j # k => event'[j] = event[j]
            BY <2>5 DEF StopOne
        <3>3. Alive(k) => event'[k]
            BY <2>5 DEF StopOne
        <3> QED BY <3>1, <3>2, <3>3
    <2>6. CASE Joined
        BY <2>6 DEF Joined
    <2>7. ASSUME NEW k \in Job, Run(k)
          PROVE  CallsInv'
        BY <2>7 DEF Run, Delay, Check, Wait, Finish, Fail, Move
    <2>8. CASE UNCHANGED vars
        BY <2>8 DEF vars
    <2> QED BY <2>1, <2>2, <2>3, <2>4, <2>5, <2>6, <2>7, <2>8 DEF Next, Controller, StopStep
<1>3. CallsInv => CallsTakeEffect
    BY DEF CallsInv, CallsTakeEffect, Idle
<1>4. Spec => []StopWaitsInv
    BY <1>1, StopWaitsStep, TypeCorrect, PTL DEF Spec
<1> QED BY <1>1, <1>2, <1>3, <1>4, TypeCorrect, PTL DEF Spec

(* Seen from outside, every job keeps to JobLifecycle: no step of any      *)
(* controller, stop or thread starts what is alive, ends what was not told *)
(* to end, or takes a stop back (scheduler.py:43-85, 105-139).             *)
THEOREM ImplementsJobLifecycle == Spec => KeepsLifecycle
<1> DEFINE Seen(j) == IF ~Alive(j) THEN "off" ELSE IF event[j] THEN "told" ELSE "on"
           seen == [j \in Job |-> Seen(j)]
<1>1. Init => Lifecycle!Init
    BY DEF Init, Lifecycle!Init, Alive
<1>2. TypeOK /\ [Next]_vars => [Lifecycle!Next]_seen
    <2> SUFFICES ASSUME TypeOK, [Next]_vars
                 PROVE  Lifecycle!Next \/ seen' = seen
        OBVIOUS
    <2>1. ASSUME NEW S \in SUBSET Job, StartJobs(S)
          PROVE  Lifecycle!Next
        <3> DEFINE fresh == {j \in S : ~Alive(j)}
        <3>1. fresh \in SUBSET Job /\ \A j \in fresh : seen[j] = "off"
            OBVIOUS
        <3>2. ASSUME NEW j \in Job
              PROVE  seen'[j] = IF j \in fresh THEN "on" ELSE seen[j]
            BY <2>1 DEF StartJobs, Alive, TypeOK
        <3>3. seen' = [j \in Job |-> IF j \in fresh THEN "on" ELSE seen[j]]
            BY <3>2
        <3> HIDE DEF seen, fresh
        <3>4. \E F \in SUBSET Job : /\ \A j \in F : seen[j] = "off"
                                   /\ seen' = [j \in Job |-> IF j \in F THEN "on" ELSE seen[j]]
            BY <3>1, <3>3
        <3> QED BY <3>4 DEF Lifecycle!Next, Lifecycle!Begin, seen
    <2>2. ASSUME UNCHANGED <<runner, event>>
          PROVE  seen' = seen
        BY <2>2 DEF Alive
    <2>3. CASE StartScheduler
        BY <2>1, <2>2, <2>3, SchedulerAssumption DEF StartScheduler
    <2>4. ASSUME NEW k \in Job, Start(k)
          PROVE  Lifecycle!Next
        BY <2>1, <2>4 DEF Start
    <2>5. ASSUME NEW k \in Job, StopOne(k)
          PROVE  Lifecycle!Next \/ seen' = seen
        <3>1. CASE ~Alive(k)
            BY <2>2, <2>5, <3>1 DEF StopOne
        <3>2. CASE Alive(k) /\ event[k]
            <4>1. runner' = runner /\ event' = event
                BY <2>5, <3>2 DEF StopOne, TypeOK
            <4> QED BY <2>2, <4>1
        <3>3. CASE Alive(k) /\ ~event[k]
            <4>1. runner' = runner /\ event' = [event EXCEPT ![k] = TRUE]
                BY <2>5, <3>3 DEF StopOne
            <4>2. seen' = [seen EXCEPT ![k] = "told"] /\ seen[k] = "on"
                BY <3>3, <4>1 DEF Alive, TypeOK
            <4>3. Lifecycle!Tell(k)
                BY <4>2 DEF Lifecycle!Tell
            <4> QED BY <4>3 DEF Lifecycle!Next
        <3> QED BY <3>1, <3>2, <3>3
    <2>6. ASSUME NEW k \in Job, Run(k)
          PROVE  Lifecycle!Next \/ seen' = seen
        <3>1. Alive(k) /\ event' = event
            BY <2>6 DEF Run, Delay, Check, Wait, Finish, Fail, Move, Alive
        <3>2. \E to \in Place : runner' = [runner EXCEPT ![k] = to]
                                /\ to # "none" /\ (to = "dead" => event[k])
            BY <2>6 DEF Run, Delay, Check, Wait, Finish, Fail, Move, Place
        <3>3. PICK to \in Place : /\ runner' = [runner EXCEPT ![k] = to]
                                  /\ to # "none" /\ (to = "dead" => event[k])
            BY <3>2
        <3>4. CASE to = "dead"
            <4>1. seen' = [seen EXCEPT ![k] = "off"] /\ seen[k] = "told"
                BY <3>1, <3>3, <3>4 DEF Alive, TypeOK
            <4>2. Lifecycle!End(k)
                BY <4>1 DEF Lifecycle!End
            <4> QED BY <4>2 DEF Lifecycle!Next
        <3>5. CASE to # "dead"
            <4>1. \A j \in Job : Seen(j)' = Seen(j)
                BY <3>1, <3>3, <3>5 DEF Alive, TypeOK
            <4> QED BY <4>1
        <3> QED BY <3>4, <3>5
    <2>7. CASE \/ StopScheduler \/ Joined \/ UNCHANGED vars
             \/ \E k \in Job : Stop(k)
        BY <2>2, <2>7 DEF StopScheduler, Joined, Stop, vars
    <2> QED BY <2>3, <2>4, <2>5, <2>6, <2>7 DEF Next, Controller, StopStep
<1> QED BY <1>1, <1>2, TypeCorrect, PTL DEF Spec, KeepsLifecycle, Lifecycle!Spec

-----------------------------------------------------------------------------
(* No second start *)

(* Threads of managed jobs are not there before the manager is *)
ManagedInv == TypeOK /\ \A j \in Managed : runner[j] # "none" => manager

(* A job of start_scheduler that has ended never runs again, whatever is   *)
(* called: the manager outlives its schedulers, and start_scheduler only   *)
(* warns (core.py:458-460, 544-550).  This is restart_ignored for every    *)
(* job and at any moment.                                                  *)
THEOREM ManagedRunsOnce ==
    Spec => [][\A j \in Managed : runner[j] = "dead" => runner'[j] = "dead"]_vars
<1> DEFINE Once == \A j \in Managed : runner[j] = "dead" => runner'[j] = "dead"
<1>1. Init => ManagedInv
    BY SchedulerAssumption DEF SchedulerAssumption, Init, ManagedInv, TypeOK, Place
<1>2. ManagedInv /\ TypeOK' /\ [Next]_vars => ManagedInv' /\ Once
    <2> SUFFICES ASSUME ManagedInv, TypeOK', [Next]_vars
                 PROVE  ManagedInv' /\ Once
        OBVIOUS
    <2> USE SchedulerAssumption DEF ManagedInv, TypeOK, SchedulerAssumption
    <2>1. CASE StartScheduler
        BY <2>1 DEF StartScheduler, StartJobs, Alive
    <2>2. ASSUME NEW j \in Job, Start(j)
          PROVE  ManagedInv' /\ Once
        BY <2>2 DEF Start, StartJobs
    <2>3. ASSUME NEW j \in Job, Run(j)
          PROVE  ManagedInv' /\ Once
        BY <2>3 DEF Run, Delay, Check, Finish, Fail, Wait, Move
    <2>4. CASE StopScheduler \/ StopStep \/ UNCHANGED vars \/ \E j \in Job : Stop(j)
        BY <2>4 DEF StopScheduler, StopStep, StopOne, Joined, Stop, vars
    <2> QED BY <2>1, <2>2, <2>3, <2>4 DEF Next, Controller
<1> QED BY <1>1, <1>2, TypeCorrect, PTL DEF Spec
=============================================================================
