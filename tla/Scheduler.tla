------------------------------ MODULE Scheduler ------------------------------
(***************************************************************************)
(* The background threads of scheduler.py and the calls that start and     *)
(* stop them: CleanupScheduler.start and stop, called directly, or through *)
(* Reminiscence.start_scheduler and stop_scheduler (core.py) and the       *)
(* SchedulerManager.                                                       *)
(*                                                                         *)
(* One controller makes the calls; each job has a thread that runs it.     *)
(***************************************************************************)

CONSTANTS
    Job,            \* the schedulers: cache_cleanup, metrics_export
    NoJob,
    Managed,        \* the jobs run by Reminiscence; the others are used alone
    Slow            \* jobs that may outlast the timeout of stop's join

ASSUME SchedulerAssumption ==
    /\ NoJob \notin Job
    /\ Managed \subseteq Job
    /\ Slow \subseteq Job

VARIABLES
    manager,        \* scheduler_manager exists and holds the schedulers
    runner,         \* where the latest thread of each job is
    event,          \* the stop event of each scheduler
    pending,        \* schedulers that the stop call in progress has yet to stop
    joining,        \* the scheduler whose thread it waits for
    wanted          \* whether the last call for the job was a start (history)

vars == <<manager, runner, event, pending, joining, wanted>>

Place == {"none", "delay", "check", "work", "wait", "dead"}

(* is_running *)
Alive(j) == runner[j] \notin {"none", "dead"}

Idle == pending = {} /\ joining = NoJob

Init ==
    /\ manager = FALSE
    /\ runner = [j \in Job |-> "none"]
    /\ event = [j \in Job |-> FALSE]
    /\ pending = {}
    /\ joining = NoJob
    /\ wanted = [j \in Job |-> FALSE]

-----------------------------------------------------------------------------
(* Calls of the controller *)

(* Mutant of StartJobs: the event is cleared before the thread is looked at *)
StartJobsClearing(S) ==
    /\ event' = [j \in Job |-> event[j] /\ j \notin S]
    /\ runner' = [j \in Job |-> IF j \in S /\ ~Alive(j) THEN "delay" ELSE runner[j]]

(* CleanupScheduler.start: nothing, if the thread is alive *)
StartJobs(S) ==
    LET fresh == {j \in S : ~Alive(j)}
    IN  /\ event' = [j \in Job |-> event[j] /\ j \notin fresh]
        /\ runner' = [j \in Job |-> IF j \in fresh THEN "delay" ELSE runner[j]]

Start(j) ==
    /\ j \notin Managed /\ Idle
    /\ StartJobs({j})
    /\ wanted' = [wanted EXCEPT ![j] = TRUE]
    /\ UNCHANGED <<manager, pending, joining>>

Stop(j) ==
    /\ j \notin Managed /\ Idle
    /\ pending' = {j}
    /\ wanted' = [wanted EXCEPT ![j] = FALSE]
    /\ UNCHANGED <<manager, runner, event, joining>>

(* start_scheduler builds the manager and starts all schedulers, once: as  *)
(* long as the manager holds schedulers it only warns.                     *)
StartScheduler ==
    /\ Managed # {} /\ Idle
    /\ IF manager THEN UNCHANGED <<runner, event>> ELSE StartJobs(Managed)
    /\ manager' = TRUE
    /\ wanted' = [j \in Job |-> j \in Managed \/ wanted[j]]
    /\ UNCHANGED <<pending, joining>>

StopScheduler ==
    /\ manager /\ Idle
    /\ pending' = Managed
    /\ wanted' = [j \in Job |-> j \notin Managed /\ wanted[j]]
    /\ UNCHANGED <<manager, runner, event, joining>>

(* Mutant of StopOne: the thread is not joined *)
StopOneWithoutJoin(j) ==
    /\ j \in pending /\ joining = NoJob
    /\ pending' = pending \ {j}
    /\ event' = [event EXCEPT ![j] = @ \/ Alive(j)]
    /\ UNCHANGED <<joining, manager, runner, wanted>>

(* The body of CleanupScheduler.stop *)
StopOne(j) ==
    /\ j \in pending /\ joining = NoJob
    /\ pending' = pending \ {j}
    /\ IF Alive(j)
       THEN event' = [event EXCEPT ![j] = TRUE] /\ joining' = j
       ELSE UNCHANGED <<event, joining>>
    /\ UNCHANGED <<manager, runner, wanted>>

(* Mutant of Joined: the event is reset for the next start *)
JoinedResetting ==
    /\ joining # NoJob
    /\ joining \in Slow \/ ~Alive(joining)
    /\ joining' = NoJob
    /\ event' = [event EXCEPT ![joining] = FALSE]
    /\ UNCHANGED <<manager, runner, pending, wanted>>

Joined ==
    /\ joining # NoJob
    /\ joining \in Slow \/ ~Alive(joining)
    /\ joining' = NoJob
    /\ UNCHANGED <<manager, runner, event, pending, wanted>>

-----------------------------------------------------------------------------
(* Steps of the thread of a job (_run) *)

Move(j, from, to) ==
    /\ runner[j] = from
    /\ runner' = [runner EXCEPT ![j] = to]
    /\ UNCHANGED <<manager, event, pending, joining, wanted>>

(* The initial delay, or the test of the loop, or the wait for the next    *)
(* interval: the thread ends if the stop event is set.                     *)
Delay(j) == Move(j, "delay", IF event[j] THEN "dead" ELSE "check")

Check(j) == Move(j, "check", IF event[j] THEN "dead" ELSE "work")

Wait(j) == Move(j, "wait", IF event[j] THEN "dead" ELSE "check")

Finish(j) == Move(j, "work", "wait")

(* Mutant of Fail: the exception ends the thread *)
FailFatally(j) == Move(j, "work", "dead")

(* An exception of the job is logged and counted, and the loop goes on *)
Fail(j) == Move(j, "work", "wait")

Run(j) == Delay(j) \/ Check(j) \/ Finish(j) \/ Fail(j) \/ Wait(j)

Controller == StartScheduler \/ StopScheduler \/ \E j \in Job : Start(j) \/ Stop(j)

StopStep == Joined \/ \E j \in Job : StopOne(j)

Next == Controller \/ StopStep \/ \E j \in Job : Run(j)

(* A job returns, a wait ends, and a stop call that has begun goes on; the *)
(* controller need not call anything.                                      *)
Spec ==
    /\ Init /\ [][Next]_vars
    /\ WF_vars(StopStep)
    /\ \A j \in Job : WF_vars(Run(j))

-----------------------------------------------------------------------------
(* Properties *)

(* Every variable has its type. *)
TypeOK ==
    /\ manager \in BOOLEAN
    /\ runner \in [Job -> Place]
    /\ event \in [Job -> BOOLEAN]
    /\ pending \subseteq Job
    /\ joining \in Job \cup {NoJob}
    /\ wanted \in [Job -> BOOLEAN]

(* When stop has returned without a timeout, the thread is dead: the job   *)
(* does not run until the next start (scheduler.py:67-85).                 *)
StopWaits == Idle => \A j \in Job \ Slow : ~wanted[j] => ~Alive(j)

(* Why: a thread that is not wanted is dead, or is still to be stopped, or *)
(* is being joined.                                                        *)
StopWaitsInv ==
    \A j \in Job \ Slow : ~wanted[j] /\ j \notin pending /\ joining # j => ~Alive(j)

(* A call that has returned has taken effect: a thread that is not wanted  *)
(* has been told to stop, however often it was started and stopped before  *)
(* it noticed, and a job used alone that is wanted has a thread that has   *)
(* not (scheduler.py:43-85, 105-141; after a stop that timed out, the next *)
(* start is lost).                                                         *)
CallsTakeEffect ==
    Idle => \A j \in Job :
                /\ ~wanted[j] /\ Alive(j) => event[j]
                /\ wanted[j] /\ j \notin Managed \cup Slow => Alive(j) /\ ~event[j]

(* Why: while a stop is under way, what is not wanted and not told is      *)
(* still to be told, and nothing else is.                                  *)
CallsInv ==
    /\ \A j \in pending : ~wanted[j]
    /\ \A j \in Job : ~wanted[j] /\ Alive(j) /\ j \notin pending => event[j]
    /\ \A j \in Job \ (Managed \cup Slow) : wanted[j] => Alive(j) /\ ~event[j]

(* A thread that is told to stop ends, even if stop did not wait for it    *)
(* (the event is tested by the loop and by both waits, scheduler.py:107,   *)
(* 110 and 138).                                                           *)
StopEnds == \A j \in Job : event[j] ~> ~Alive(j)

(* The jobs as JobLifecycle sees them *)
Lifecycle ==
    INSTANCE JobLifecycle
    WITH state <- [j \in Job |-> IF ~Alive(j) THEN "off" ELSE IF event[j] THEN "told" ELSE "on"]

(* A thread ends only because it was told to, whatever its job raises; no  *)
(* start takes that back or makes a second thread beside one that still    *)
(* works off its last round (scheduler.py:51-55, 72, 107-139).             *)
KeepsLifecycle == Lifecycle!Spec

Runs(j) == wanted[j] ~> (runner[j] = "work" \/ ~wanted[j])

(* A job used alone that was started runs again and again, failing or not, *)
(* until it is stopped, provided no earlier stop of it timed out.          *)
AloneRuns == \A j \in Job \ (Managed \cup Slow) : Runs(j)

(* So does every job of start_scheduler (core.py:440).                     *)
StartedRuns == \A j \in Managed : Runs(j)
=============================================================================
