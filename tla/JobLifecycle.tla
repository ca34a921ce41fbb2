---------------------------- MODULE JobLifecycle ----------------------------
(***************************************************************************)
(* What the cold-task coordinator promises: each job walks once through    *)
(* JobStatus and stops in a terminal status, and the coordinator can be    *)
(* sealed only when no job is left unfinished, after which there is no     *)
(* new one.                                                                *)
(***************************************************************************)
CONSTANT Jobs

VARIABLES
  status, \* the job's JobStatus, "absent" before it is submitted
  sealed  \* has the coordinator been shut down?

Unfinished == {j \in Jobs : status[j] \in {"pending", "running"}}

Moved(j, from, to) ==
  /\ status[j] = from
  /\ status' = [status EXCEPT ![j] = to]
  /\ UNCHANGED sealed

Init ==
  /\ status = [j \in Jobs |-> "absent"]
  /\ sealed = FALSE

Accept(j)   == ~sealed /\ Moved(j, "absent", "pending")
Begin(j)    == Moved(j, "pending", "running")
Fail(j)     == Moved(j, "pending", "failed") \/ Moved(j, "running", "failed")
Complete(j) == Moved(j, "running", "succeeded")

\* One cancellation may call off several jobs: a close() does.
CallOff(S) ==
  /\ S # {}
  /\ status' = [j \in Jobs |-> IF j \in S THEN "cancelled" ELSE status[j]]
  /\ UNCHANGED sealed

Seal ==
  /\ Unfinished = {}
  /\ sealed' = TRUE
  /\ UNCHANGED status

Next ==
  \/ \E j \in Jobs : Accept(j) \/ Begin(j) \/ Fail(j) \/ Complete(j)
  \/ \E S \in SUBSET Unfinished : CallOff(S)
  \/ Seal

Spec == Init /\ [][Next]_<<status, sealed>>
=============================================================================
