--------------------------- MODULE TaskLifecycle ----------------------------
(***************************************************************************)
(* What the store promises of every task (docs/ARCHITECTURE.md section 4,  *)
(* as enforced by orchestrator/state.py and UnitOfWork.transition): the    *)
(* committed states of a task follow the transition table. planning and    *)
(* retrying are entered and left inside one transaction, so no reader and  *)
(* no crash ever finds a task there.                                       *)
(***************************************************************************)
EXTENDS TaskStates

CONSTANTS Tasks, RetryLimit
VARIABLES status, retry_count

Init ==
    /\ status = [t \in Tasks |-> "queued"]
    /\ retry_count = [t \in Tasks |-> 0]

Keeps(t) == status'[t] = status[t] /\ retry_count'[t] = retry_count[t]

\* One edge of the table, or a cancellation.
Moves(t) ==
    /\ validate_transition(status[t], status'[t], FALSE, TRUE)
    /\ status'[t] \notin {"planning", "retrying"}
    /\ retry_count'[t] = retry_count[t]

\* queued -> planning -> running or blocked.
Plans(t) ==
    /\ status[t] = "queued"
    /\ status'[t] \in ALLOWED["planning"] \ {"failed"}
    /\ retry_count'[t] = retry_count[t]

\* -> retrying -> queued: the only way back, and the only spending of a retry.
Retries(t) ==
    /\ "retrying" \in ALLOWED[status[t]]
    /\ status'[t] = "queued"
    /\ retry_count[t] < RetryLimit
    /\ retry_count'[t] = retry_count[t] + 1

Next ==
    /\ status' \in [Tasks -> State]
    /\ \A t \in Tasks : Keeps(t) \/ Moves(t) \/ Plans(t) \/ Retries(t)

Spec == Init /\ [][Next]_<<status, retry_count>>
=============================================================================
