----------------------------- MODULE TaskStates -----------------------------
(***************************************************************************)
(* The task states of hufiagents/contracts.py, the transition table and    *)
(* the check of hufiagents/orchestrator/state.py, and the roll-up by which *)
(* UnitOfWork.refresh_mission derives a mission's status from its tasks.   *)
(* A definition named X_Fault is X with a plausible mistake.               *)
(***************************************************************************)
EXTENDS Naturals

State == {"queued", "planning", "running", "waiting_approval", "blocked",
          "review", "retrying", "failed", "completed", "cancelled"}

TERMINAL == {"failed", "completed", "cancelled"}

\* The normal edges of the lifecycle.
ALLOWED ==
    [s \in State |->
        CASE s = "queued"           -> {"planning"}
          [] s = "planning"         -> {"running", "blocked", "failed"}
          [] s = "running"          -> {"waiting_approval", "review", "failed", "retrying"}
          [] s = "waiting_approval" -> {"running", "cancelled", "failed"}
          [] s = "blocked"          -> {"queued", "cancelled"}
          [] s = "review"           -> {"completed", "retrying", "failed"}
          [] s = "retrying"         -> {"queued"}
          [] s \in TERMINAL         -> {}]

\* The edges a caller may take, with the two exceptions that need an explicit
\* flag: cancellation of any live task, and recovery of a planning one.
validate_transition_AnyCancel(source, target, recovery, cancel) ==
    \/ cancel /\ target = "cancelled"
    \/ recovery /\ source = "planning" /\ target = "retrying"
    \/ target \in ALLOWED[source]

validate_transition(source, target, recovery, cancel) ==
    \/ cancel /\ source \notin TERMINAL /\ target = "cancelled"
    \/ recovery /\ source = "planning" /\ target = "retrying"
    \/ target \in ALLOWED[source]

\* The order in which refresh_mission looks for a state among the tasks of a
\* mission that are not all completed: the first one found is the mission's.
RollupOrder ==
    <<"failed", "cancelled", "waiting_approval", "running", "review", "planning",
      "retrying", "blocked", "queued">>

\* The status of a mission whose tasks are in `states`. When all are completed
\* the owner's contract decides: a mission that misses one of its conditions
\* is left blocked.
rollup(states, conditions_met) ==
    IF states = {"completed"}
    THEN IF conditions_met THEN "completed" ELSE "blocked"
    ELSE RollupOrder[CHOOSE i \in 1..9 : /\ RollupOrder[i] \in states
                                         /\ \A j \in 1..(i - 1) : RollupOrder[j] \notin states]
=============================================================================
