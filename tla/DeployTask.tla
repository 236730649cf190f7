----------------------------- MODULE DeployTask -----------------------------
(***************************************************************************)
(* What the table of tasks promises to the clients that poll it            *)
(* (GetTaskStatus): the life of an asynchronous deploy.                    *)
(***************************************************************************)
CONSTANT Tasks

VARIABLE status  \* status[t] is "none" when the server knows no task t

Set(t, s) == status' = [status EXCEPT ![t] = s]

Init == status = [t \in Tasks |-> "none"]

Create(t) == status[t] = "none" /\ Set(t, "pending")

Start(t) == status[t] = "pending" /\ Set(t, "running")

Finish(t) == status[t] = "running" /\ (Set(t, "success") \/ Set(t, "failed"))

\* The only way back from an outcome: the deploy succeeded, its last event could
\* not be published, and the recovery declares the task failed.
Retract(t) == status[t] = "success" /\ Set(t, "failed")

\* The table is lost when the server process dies.
Forget == status' = [t \in Tasks |-> "none"]

Next == Forget \/ \E t \in Tasks : Create(t) \/ Start(t) \/ Finish(t) \/ Retract(t)

Spec == Init /\ [][Next]_status

=============================================================================
