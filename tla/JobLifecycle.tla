---------------------------- MODULE JobLifecycle ----------------------------
(***************************************************************************)
(* What the queue promises of one job's status, without saying which       *)
(* thread does what: a job enters the queue once, starts at most once,     *)
(* ends once, may be reverted once from "completed", and a deleted row     *)
(* never comes back.  Only recovery and deletion may change several jobs   *)
(* in one step.  JobQueue is checked and proved to implement it.           *)
(***************************************************************************)
CONSTANT Jobs

VARIABLE state

Init == state = [j \in Jobs |-> "absent"]

Advance(j, from, to) ==
    /\ state[j] = from
    /\ state' = [state EXCEPT ![j] = to]

Enqueue(j) == Advance(j, "absent", "pending")

Begin(j) == Advance(j, "pending", "running")

\* Every source file was gone before the job could start.
Refuse(j) == Advance(j, "pending", "failed")

End(j) == Advance(j, "running", "completed") \/ Advance(j, "running", "failed")

Revert(j) == Advance(j, "completed", "reverted") \/ Advance(j, "completed", "revert_failed")

\* A restart fails whatever was running.
Recover == state' = [j \in Jobs |-> IF state[j] = "running" THEN "failed" ELSE state[j]]

\* Rows are deleted while they wait or after they ended, never while running.
Discard(S) ==
    /\ \A j \in S : state[j] \notin {"absent", "running", "deleted"}
    /\ state' = [j \in Jobs |-> IF j \in S THEN "deleted" ELSE state[j]]

Next ==
    \/ \E j \in Jobs : Enqueue(j) \/ Begin(j) \/ Refuse(j) \/ End(j) \/ Revert(j)
    \/ Recover
    \/ \E S \in SUBSET Jobs : Discard(S)

Spec == Init /\ [][Next]_state
=============================================================================
