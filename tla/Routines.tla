------------------------------ MODULE Routines ------------------------------
(***************************************************************************)
(* Recurring missions: RoutineService (workforce/routines.py), its         *)
(* scheduler (routine_runtime.py) and the part of AgentBuilder.            *)
(* archive_agent (workforce/builder.py) that is about routines.            *)
(*                                                                         *)
(* A tick runs in one turn of the event loop, so no API call interleaves   *)
(* with it; but it commits three times per routine (claim, submission,     *)
(* outcome) and the process may die between any two commits.               *)
(*                                                                         *)
(* A schedule is abstracted to a period: its occurrences are the multiples *)
(* of the period. Time stands still during a turn, as `current` does in    *)
(* tick. A definition named X_Fault is X with a plausible mistake.         *)
(***************************************************************************)
EXTENDS Naturals, FiniteSets

CONSTANTS
    NumRoutines,  \* routines, numbered in the order of their created_at
    Agents,       \* agents, and the owner of each routine
    OwnerOf,
    Periods,      \* the schedules its owner may choose for each routine
    Policies,     \* the same of what int() reads from max_attempts: {n}, or {}
                  \* if it raises
    RetryDelay,
    RetryCap,     \* 20: the cap of max_attempts and of the retry_count field
    MaxTime, MaxCrashes  \* bounds of the model

Routines == 1..NumRoutines

ASSUME RoutinesAssumption ==
    /\ NumRoutines \in Nat \ {0} /\ RetryCap \in Nat /\ MaxTime \in Nat \ {0} /\ MaxCrashes \in Nat
    /\ RetryDelay \in Nat \ {0}
    /\ OwnerOf \in [Routines -> Agents]
    /\ Periods \in [Routines -> SUBSET (Nat \ {0})]
    /\ \A r \in Routines : \A p \in Policies[r] : p \subseteq Nat /\ Cardinality(p) <= 1

VARIABLES
    created,       \* routines created so far
    schedule, policy, enabled, archived,
    next_run, retry_count, notification_state,
    agentArchived, \* agents with status archived
    turn,          \* where tick is: between two turns, or at a commit
    todo,          \* routines the tick has listed and not yet dealt with
    missions,      \* missions submitted for each routine
    lastMission,   \* when the last one was submitted (0: never)
    failures,      \* failed dispatches under a readable policy since the last
                   \* success or exhaustion
    clock, up, crashes

routineRows == <<created, schedule, policy, enabled, archived, next_run, retry_count,
                 notification_state, agentArchived>>
observed == <<missions, lastMission, failures>>
vars == <<routineRows, turn, todo, observed, clock, up, crashes>>

\* The first occurrence strictly after `after`.
next_occurrence(period, after) == (after \div period + 1) * period

\* One choice for each routine.
Choices(options) ==
    {f \in [Routines -> UNION {options[r] : r \in Routines}] :
        \A r \in Routines : f[r] \in options[r]}

Init ==
    /\ created = {} /\ archived = {} /\ agentArchived = {}
    /\ schedule \in Choices(Periods)
    /\ policy \in Choices(Policies)
    /\ enabled = Routines
    /\ next_run = [r \in Routines |-> 0]
    /\ retry_count = [r \in Routines |-> 0]
    /\ notification_state = [r \in Routines |-> "none"]
    /\ turn = "idle" /\ todo = {}
    /\ missions = [r \in Routines |-> 0]
    /\ lastMission = [r \in Routines |-> 0]
    /\ failures = [r \in Routines |-> 0]
    /\ clock = 1 /\ up = TRUE /\ crashes = 0

-----------------------------------------------------------------------------
(* The API, between two turns of the scheduler.                            *)

Request == up /\ turn = "idle" /\ UNCHANGED <<turn, todo, observed, clock, up, crashes>>

Create(r) ==
    /\ Request /\ r \notin created /\ \A q \in Routines : q < r => q \in created
    /\ created' = created \cup {r}
    /\ next_run' = [next_run EXCEPT ![r] = next_occurrence(schedule[r], clock)]
    /\ UNCHANGED <<schedule, policy, enabled, archived, retry_count, notification_state,
                   agentArchived>>

\* A new schedule or timezone moves next_run; retry_count is left as it is.
UpdateSchedule(r, period) ==
    /\ Request /\ r \in created
    /\ schedule' = [schedule EXCEPT ![r] = period]
    /\ next_run' = [next_run EXCEPT ![r] = next_occurrence(period, clock)]
    /\ UNCHANGED <<created, policy, enabled, archived, retry_count, notification_state,
                   agentArchived>>

UpdatePolicy(r, p) ==
    /\ Request /\ r \in created
    /\ policy' = [policy EXCEPT ![r] = p]
    /\ UNCHANGED <<created, schedule, enabled, archived, next_run, retry_count,
                   notification_state, agentArchived>>

pause(r) ==
    /\ Request /\ r \in created
    /\ enabled' = enabled \ {r}
    /\ UNCHANGED <<created, schedule, policy, archived, next_run, retry_count,
                   notification_state, agentArchived>>

\* next_run is kept: what fell due during the pause is caught up once.
resume(r) ==
    /\ Request /\ r \in created
    /\ enabled' = enabled \cup {r}
    /\ UNCHANGED <<created, schedule, policy, archived, next_run, retry_count,
                   notification_state, agentArchived>>

archive(r) ==
    /\ Request /\ r \in created
    /\ archived' = archived \cup {r} /\ enabled' = enabled \ {r}
    /\ UNCHANGED <<created, schedule, policy, next_run, retry_count, notification_state,
                   agentArchived>>

\* The status written to the agent's routines, "inactive", is not a value of
\* the field: the assignment raises, the handler drops the exception, and the
\* rows of the routines stay as they are.
archive_agent(a) ==
    /\ Request
    /\ agentArchived' = agentArchived \cup {a}
    /\ UNCHANGED <<created, schedule, policy, enabled, archived, next_run, retry_count,
                   notification_state>>

-----------------------------------------------------------------------------
(* RoutineService.tick, called by the scheduler or by the API.             *)

Due(r) == r \in created \cap enabled /\ r \notin archived /\ next_run[r] <= clock
First(r) == r \in todo /\ \A q \in todo : r <= q
Done_Stays(r) == todo' = todo \ {r} /\ turn' = "claim"
Done(r) == todo' = todo \ {r} /\ turn' = IF todo = {r} THEN "idle" ELSE "claim"

\* The routines tick finds due.
Found_Fresh == {r \in Routines : Due(r) /\ notification_state[r] = "none"}
Found == {r \in Routines : Due(r)}

List ==
    /\ up /\ turn = "idle" /\ Found # {}
    /\ todo' = Found
    /\ turn' = "claim"
    /\ UNCHANGED <<routineRows, observed, clock, up, crashes>>

\* next_run moves on before anything is submitted.
Claimed_Later(r) == UNCHANGED next_run
Claimed(r) == next_run' = [next_run EXCEPT ![r] = next_occurrence(schedule[r], clock)]

Claim(r) ==
    /\ up /\ turn = "claim" /\ First(r) /\ Due(r)
    /\ Claimed(r)
    /\ turn' = "submit"
    /\ UNCHANGED <<created, schedule, policy, enabled, archived, retry_count,
                   notification_state, agentArchived, todo, observed, clock, up, crashes>>

\* Orchestrator.submit commits the mission, or raises (queue full, agent
\* disabled, template refused) and commits nothing.
Submit(r) ==
    /\ up /\ turn = "submit" /\ First(r)
    /\ \/ /\ missions' = [missions EXCEPT ![r] = @ + 1]
          /\ lastMission' = [lastMission EXCEPT ![r] = clock]
          /\ turn' = "succeeded"
       \/ turn' = "failed" /\ UNCHANGED <<missions, lastMission>>
    /\ UNCHANGED <<routineRows, todo, failures, clock, up, crashes>>

RecordSuccess(r) ==
    /\ up /\ turn = "succeeded" /\ First(r)
    /\ retry_count' = [retry_count EXCEPT ![r] = 0]
    /\ notification_state' = [notification_state EXCEPT ![r] = "pending"]
    /\ failures' = [failures EXCEPT ![r] = 0]
    /\ Done(r)
    /\ UNCHANGED <<created, schedule, policy, enabled, archived, next_run, agentArchived,
                   missions, lastMission, clock, up, crashes>>

maximum(r) == LET n == CHOOSE n \in policy[r] : TRUE IN IF n < RetryCap THEN n ELSE RetryCap

\* int() of the policy raises, or retry_count + 1 is not a value of the field.
RecordRaises(r) == policy[r] = {} \/ retry_count[r] = RetryCap

Exhausted_Never(r) == FALSE
Exhausted(r) == retry_count[r] + 1 > maximum(r)

\* Where an exhausted dispatch goes on: at the occurrence found by the claim.
Resumption_Delayed(r) == clock + RetryDelay
Resumption(r) == next_occurrence(schedule[r], clock)

\* The handler of a failed submission: retry later, give up until the next
\* occurrence, or raise. An exception ends the tick for the routines after
\* this one too; the scheduler swallows it.
RecordFailure(r) ==
    /\ up /\ turn = "failed" /\ First(r)
    /\ IF RecordRaises(r)
       THEN /\ todo' = {} /\ turn' = "idle"
            /\ failures' = [failures EXCEPT ![r] = IF policy[r] = {} THEN @ ELSE @ + 1]
            /\ UNCHANGED <<next_run, retry_count, notification_state>>
       ELSE /\ Done(r)
            /\ next_run' = [next_run EXCEPT ![r] =
                   IF Exhausted(r) THEN Resumption(r) ELSE clock + RetryDelay]
            /\ retry_count' = [retry_count EXCEPT ![r] = IF Exhausted(r) THEN 0 ELSE @ + 1]
            /\ notification_state' = [notification_state EXCEPT ![r] =
                   IF Exhausted(r) THEN "failed" ELSE "pending"]
            /\ failures' = [failures EXCEPT ![r] = IF Exhausted(r) THEN 0 ELSE @ + 1]
    /\ UNCHANGED <<created, schedule, policy, enabled, archived, agentArchived, missions,
                   lastMission, clock, up, crashes>>

-----------------------------------------------------------------------------
(* Time, and the process.                                                  *)

Pass ==
    /\ turn = "idle" /\ clock < MaxTime
    /\ clock' = clock + 1
    /\ UNCHANGED <<routineRows, turn, todo, observed, up, crashes>>

Crash ==
    /\ up /\ crashes < MaxCrashes
    /\ up' = FALSE /\ turn' = "idle" /\ todo' = {}
    /\ crashes' = crashes + 1
    /\ UNCHANGED <<routineRows, observed, clock>>

Restart ==
    /\ ~up /\ up' = TRUE
    /\ UNCHANGED <<routineRows, turn, todo, observed, clock, crashes>>

Tick == List \/ \E r \in Routines : Claim(r) \/ Submit(r) \/ RecordSuccess(r) \/ RecordFailure(r)

Owner ==
    \/ \E r \in Routines : Create(r) \/ pause(r) \/ resume(r) \/ archive(r)
    \/ \E r \in Routines : \E period \in Periods[r] : UpdateSchedule(r, period)
    \/ \E r \in Routines : \E p \in Policies[r] : UpdatePolicy(r, p)
    \/ \E a \in Agents : archive_agent(a)

Next == Owner \/ Tick \/ Pass \/ Crash \/ Restart

Spec == Init /\ [][Next]_vars

\* The scheduler polls for ever and a tick, once begun, runs on; the service
\* manager restarts the process. Nothing is assumed of the owner. A tick
\* competes with requests for the event loop, whose queue is first in, first
\* out, hence strong fairness.
Fairness == SF_vars(Tick) /\ WF_vars(Restart)
FairSpec == Spec /\ Fairness

-----------------------------------------------------------------------------
\* Rows, scheduler and observations have their types; a turn is in progress
\* exactly while routines are left to deal with.
TypeOK ==
    /\ created \subseteq Routines /\ enabled \subseteq Routines /\ archived \subseteq Routines
    /\ agentArchived \subseteq Agents
    /\ \A r \in Routines : schedule[r] \in Periods[r] /\ policy[r] \in Policies[r]
    /\ next_run \in [Routines -> Nat]
    /\ retry_count \in [Routines -> 0..RetryCap]
    /\ notification_state \in [Routines -> {"none", "pending", "failed"}]
    /\ turn \in {"idle", "claim", "submit", "succeeded", "failed"}
    /\ todo \subseteq created /\ (turn = "idle" <=> todo = {})
    /\ missions \in [Routines -> Nat] /\ lastMission \in [Routines -> 0..MaxTime]
    /\ failures \in [Routines -> Nat]
    /\ clock \in 1..MaxTime /\ up \in BOOLEAN /\ crashes \in 0..MaxCrashes

\* No routine is dispatched twice for what fell due once: whatever crashes,
\* pauses and schedule changes come between, every mission of a routine is
\* submitted at a later time than the one before, so downtime is caught up by
\* one mission and not by a burst.
NoDoubleDispatch ==
    [][\A r \in Routines : missions'[r] # missions[r] => lastMission[r] < clock]_vars

\* A routine that is not in the middle of its retries waits for an occurrence
\* of its schedule, also after it has given up.
WaitsForOccurrence ==
    \A r \in created : retry_count[r] = 0 => next_run[r] % schedule[r] = 0

\* A dispatch that keeps failing does not loop: no more failures are
\* outstanding than a policy of its owner asks for, and the cap of the field
\* holds them too. Only a policy that reaches the cap, where the handler of the
\* next failure raises, lets them go on; then every further attempt waits for an
\* occurrence of the schedule.
RetriesEnd ==
    \A r \in Routines :
        /\ failures[r] > 0 =>
               \E p \in Policies[r] : \E n \in p : failures[r] <= n \/ RetryCap <= n
        /\ failures[r] > RetryCap => next_run[r] % schedule[r] = 0

\* A due routine is dispatched, retried or given up, paused or archived, and
\* does not stay due.
DueIsServed == \A r \in Routines : Due(r) ~> ~Due(r)

\* An archived agent runs no routines.
ArchivedAgentsRest ==
    [][\A r \in Routines : missions'[r] # missions[r] => OwnerOf[r] \notin agentArchived]_vars
=============================================================================
