---------------------------- MODULE JobLifecycle ----------------------------
(***************************************************************************)
(* What the caller of a scheduler may count on: a job is off, on, or told  *)
(* to stop.  Only a job that is off is started, only one that is on is     *)
(* told, and only one that was told goes off: nothing else ends it, and    *)
(* what it was told is not taken back.                                     *)
(***************************************************************************)

CONSTANT Job

VARIABLE state

Init == state = [j \in Job |-> "off"]

(* Some jobs are started together *)
Begin(S) ==
    /\ \A j \in S : state[j] = "off"
    /\ state' = [j \in Job |-> IF j \in S THEN "on" ELSE state[j]]

Tell(j) == state[j] = "on" /\ state' = [state EXCEPT ![j] = "told"]

End(j) == state[j] = "told" /\ state' = [state EXCEPT ![j] = "off"]

Next == (\E S \in SUBSET Job : Begin(S)) \/ (\E j \in Job : Tell(j) \/ End(j))

Spec == Init /\ [][Next]_state
=============================================================================
