----------------------------- MODULE TaskEngine -----------------------------
(***************************************************************************)
(* The task engine of HufiAgents: Orchestrator (orchestrator/engine.py),   *)
(* ToolGateway (tools/gateway.py), the transactions of UnitOfWork          *)
(* (persistence/repository.py) and the create-only files of Workspace      *)
(* (tools/workspace.py).                                                   *)
(*                                                                         *)
(* One asyncio event loop runs the polling loop, one runner per active     *)
(* task and the API handlers. A coroutine gives way only at an await that  *)
(* suspends, so everything between two suspensions is one turn; the store  *)
(* commits inside it are separate steps of the model only because the      *)
(* process may die between them. A runner suspends in four places: before  *)
(* its first step, in the provider call, in the execution of a tool other  *)
(* than files, and while it unwinds.                                       *)
(*                                                                         *)
(* A definition named X_Fault is X with a plausible mistake; it is used    *)
(* only to see that the properties notice it.                              *)
(***************************************************************************)
EXTENDS TaskStates, Sequences, FiniteSets

CONSTANTS
    NumTasks,       \* tasks, numbered in the order of their created_at
    NumMissions,    \* missions, numbered in the order of their submission
    MissionOf,      \* the mission of each task
    Dependencies,   \* the earlier tasks each task waits for
    NumCalls,       \* distinct tool calls (idempotency keys) planned for a task
    Operations,     \* the planned calls of each task, in order
    Files,          \* the calls of the files tool
    Decide,         \* what classify and Policy.decide may answer for a call
    OverCeiling,    \* calls outside allowed_tools or above the task's ceiling
    ConditionsMet,  \* missions whose tasks meet the owner's contract once done
    RetryLimit, MaxConcurrent, MaxPending,
    MaxRestarts     \* bound of the model on crashes and clean stops

Tasks == 1..NumTasks
Missions == 1..NumMissions
TasksOf(m) == {t \in Tasks : MissionOf[t] = m}

\* Planned calls come first; key NumCalls + 1 + r writes the artifact of
\* revision r, whose path and content belong to that revision alone.
Revisions == 0..(RetryLimit + 1)
Keys == 1..(NumCalls + RetryLimit + 2)
ArtifactKey(r) == NumCalls + 1 + r

Decisions == {"auto_allow", "approval_required", "reviewer_gate", "denied",
              "unclassified"}

ASSUME CountsAssumption ==
    /\ NumTasks \in Nat \ {0} /\ NumMissions \in Nat /\ NumCalls \in Nat
    /\ RetryLimit \in Nat /\ MaxPending \in Nat /\ MaxRestarts \in Nat
    /\ MaxConcurrent \in Nat \ {0}

ASSUME PlanAssumption ==
    /\ MissionOf \in [Tasks -> Missions]
    /\ Dependencies \in [Tasks -> SUBSET Tasks]
    /\ \A t \in Tasks : \A d \in Dependencies[t] : d < t
    /\ Operations \in [Tasks -> Seq(1..NumCalls)]
    /\ ConditionsMet \subseteq Missions

ASSUME PolicyAssumption ==
    /\ Files \subseteq Keys
    /\ (NumCalls + 1)..(NumCalls + RetryLimit + 2) \subseteq Files
    /\ Decide \in [Keys -> SUBSET Decisions]
    /\ OverCeiling \subseteq Keys

VARIABLES
    \* rows of the store
    missions,     \* how many missions have been submitted
    status, retry_count,
    revision,     \* number of "revise" reviews of each task
    verdict,      \* verdict of the last review, or "none"
    completion,   \* revisions whose provider completion is in task_context
    call,         \* the tool_calls row of each key
    approval,     \* the approvals row of each key
    mission,      \* status of each mission
    \* the world outside the store
    effects,      \* how often each call took effect
    torn,         \* <<task, key>>: a file created but only partly written
    \* memory of the process
    up,           \* "up", "stopping" or "down"
    loopAlive,    \* FALSE once an exception has escaped from _loop
    cursor,       \* 0, or the task tick is about to look at
    active, pc, pos,
    interrupted,  \* runners with a cancellation not yet delivered
    aged,         \* tasks whose heartbeat may be older than the timeout
    restarts      \* crashes and stops so far

reviewRows == <<retry_count, revision, verdict, completion>>
taskRows == <<status, mission, reviewRows>>
rows == <<missions, taskRows, call, approval>>
world == <<effects, torn>>
control == <<up, loopAlive, cursor, aged, restarts>>
vars == <<rows, world, control, active, pc, pos, interrupted>>

CallRow == {"absent", "created", "started", "error", "ok"}
ApprovalRow == {"none", "pending", "approved", "denied", "expired"}
Place == {"idle", "start", "model", "invoke", "begin", "execute", "effected",
          "handoff", "review", "fail_retry", "fail_fatal", "done"}

Init ==
    /\ missions = 0
    /\ status = [t \in Tasks |-> "queued"]
    /\ retry_count = [t \in Tasks |-> 0]
    /\ revision = [t \in Tasks |-> 0]
    /\ verdict = [t \in Tasks |-> "none"]
    /\ completion = [t \in Tasks |-> {}]
    /\ call = [t \in Tasks |-> [k \in Keys |-> "absent"]]
    /\ approval = [t \in Tasks |-> [k \in Keys |-> "none"]]
    /\ mission = [m \in Missions |-> "queued"]
    /\ effects = [t \in Tasks |-> [k \in Keys |-> 0]]
    /\ torn = {}
    /\ up = "up" /\ loopAlive = TRUE /\ cursor = 0
    /\ active = {} /\ interrupted = {} /\ aged = {}
    /\ pc = [t \in Tasks |-> "idle"]
    /\ pos = [t \in Tasks |-> 0]
    /\ restarts = 0

Exists(t) == MissionOf[t] <= missions
Pending == {t \in Tasks : Exists(t) /\ status[t] \notin TERMINAL}

\* Every UnitOfWork.transition saves the task and refreshes its mission.
Transition(s) ==
    /\ status' = s
    /\ mission' = [m \in Missions |->
           IF TasksOf(m) = {} THEN mission[m]
           ELSE rollup({s[t] : t \in TasksOf(m)}, m \in ConditionsMet)]

To(t, target) == Transition([status EXCEPT ![t] = target])

\* The call a runner is at: a planned operation, then the artifact.
Key(t) == IF pos[t] \in 1..Len(Operations[t]) THEN Operations[t][pos[t]]
          ELSE ArtifactKey(revision[t])

\* A runner in the middle of a turn: the files tool never suspends.
InTurn(t) ==
    \/ pc[t] \in {"invoke", "begin", "handoff", "review", "fail_retry", "fail_fatal"}
    \/ pc[t] \in {"execute", "effected"} /\ Key(t) \in Files

\* The event loop is between turns.
Free == cursor = 0 /\ \A t \in Tasks : ~InTurn(t)

\* The budget check in front of every retrying -> queued, and what that edge
\* does to retry_count.
CanRetry_OffByOne(t) == retry_count[t] <= RetryLimit
CanRetry(t) == retry_count[t] < RetryLimit
Paid_Free(t, again) == retry_count[t]
Paid(t, again) == IF again THEN retry_count[t] + 1 ELSE retry_count[t]

Goto(t, place) == pc' = [pc EXCEPT ![t] = place]
SetCall(t, k, row) == call' = [call EXCEPT ![t][k] = row]
Leave(t) == Goto(t, "done") /\ pos' = [pos EXCEPT ![t] = 0]

-----------------------------------------------------------------------------
(* The API: submit, approve or deny, cancel.                               *)

HasCapacity(m) == Cardinality(Pending) + Cardinality(TasksOf(m)) <= MaxPending

Submit ==
    /\ up = "up" /\ Free
    /\ missions < NumMissions
    /\ HasCapacity(missions + 1)
    /\ missions' = missions + 1
    /\ UNCHANGED <<taskRows, call, approval, world, control, active, pc, pos, interrupted>>

Resolved_Requeues(answer) ==
    CASE answer = "approved" -> "running"
      [] answer = "denied"   -> "cancelled"
      [] answer = "expired"  -> "queued"
Resolved(answer) ==
    CASE answer = "approved" -> "running"
      [] answer = "denied"   -> "cancelled"
      [] answer = "expired"  -> "failed"

Resolve(t, k, answer) ==
    /\ up = "up" /\ Free
    /\ approval[t][k] = "pending"
    /\ status[t] = "waiting_approval"
    /\ approval' = [approval EXCEPT ![t][k] = answer]
    /\ To(t, Resolved(answer))
    /\ UNCHANGED <<missions, reviewRows, call, world, control, active, pc, pos, interrupted>>

\* A task's approvals once the open ones are expired.
ExpiredApprovals_Kept(t) == approval[t]
ExpiredApprovals(t) ==
    [k \in Keys |-> IF approval[t][k] = "pending" THEN "expired" ELSE approval[t][k]]

\* Commits the terminal state, expires the task's open approvals, then asks
\* the runner to stop at its current suspension.
Cancel(t) ==
    /\ up = "up" /\ Free
    /\ Exists(t) /\ validate_transition(status[t], "cancelled", FALSE, TRUE)
    /\ To(t, "cancelled")
    /\ approval' = [approval EXCEPT ![t] = ExpiredApprovals(t)]
    /\ interrupted' = interrupted \cup ({t} \cap {r \in active : pc[r] # "done"})
    /\ UNCHANGED <<missions, reviewRows, call, world, control, active, pc, pos>>

-----------------------------------------------------------------------------
(* The polling loop: recover, then tick.                                   *)

\* Tasks without a runner that recover looks at.
Orphans == {t \in Tasks : Exists(t) /\ t \notin active
                          /\ status[t] \in {"planning", "running", "retrying"}}

\* recover sweeps the retry checkpoints and the stale tasks, then expires the
\* overdue approvals; an exception rolls the transaction back.
RecoverRaises(swept, overdue) ==
    \/ \E t \in swept : status[t] = "retrying" /\ ~CanRetry(t)
    \/ \E a \in overdue : status[a[1]] # "waiting_approval"
    \/ \E a, b \in overdue : a # b /\ a[1] = b[1]

\* The tasks whose approvals are overdue.
Expiring(overdue) == {a[1] : a \in overdue}

Recover(swept, overdue) ==
    /\ Transition([t \in Tasks |->
           IF t \in swept
           THEN IF CanRetry(t) THEN "queued" ELSE "failed"
           ELSE IF t \in Expiring(overdue) THEN Resolved("expired") ELSE status[t]])
    /\ retry_count' = [t \in Tasks |-> Paid(t, t \in swept /\ CanRetry(t))]
    /\ approval' = [t \in Tasks |-> [k \in Keys |->
           IF <<t, k>> \in overdue THEN "expired" ELSE approval[t][k]]]
    /\ UNCHANGED <<missions, revision, verdict, completion, call>>

Sweepable(swept, overdue) ==
    /\ swept \subseteq {t \in Orphans : t \in aged \/ status[t] = "retrying"}
    /\ {t \in Orphans : status[t] = "retrying"} \subseteq swept
    /\ overdue \subseteq {a \in Tasks \X Keys : approval[a[1]][a[2]] = "pending"}

\* One turn of _loop up to the transaction of tick: `reaped` are the runners
\* that tick finds done (a runner that still unwinds is left for the next).
Poll(swept, overdue, reaped) ==
    /\ up = "up" /\ loopAlive /\ Free
    /\ Sweepable(swept, overdue)
    /\ reaped \subseteq {t \in active : pc[t] = "done"}
    /\ IF RecoverRaises(swept, overdue)
       THEN loopAlive' = FALSE /\ UNCHANGED <<rows, cursor, active, pc>>
       ELSE /\ Recover(swept, overdue)
            /\ active' = active \ reaped
            /\ pc' = [t \in Tasks |-> IF t \in reaped THEN "idle" ELSE pc[t]]
            /\ cursor' = 1
            /\ UNCHANGED loopAlive
    /\ UNCHANGED <<world, up, aged, restarts, pos, interrupted>>

\* tick looks at the tasks in creation order, in one transaction: the steps
\* between cursor 1 and 0 are one commit, and nothing else runs meanwhile.
Listed_NoReview(t) == Exists(t) /\ t \notin active
             /\ status[t] \in {"queued", "blocked", "running"}
Listed(t) == Exists(t) /\ t \notin active
             /\ status[t] \in {"queued", "blocked", "review", "running"}
DependencyFailed(t) == \E d \in Dependencies[t] : status[d] \in {"failed", "cancelled"}
DependenciesComplete_Begun(t) == \A d \in Dependencies[t] : status[d] \notin {"queued", "blocked"}
DependenciesComplete(t) == \A d \in Dependencies[t] : status[d] = "completed"
SomeApproved(t) == \E k \in Keys : approval[t][k] = "approved"

Runnable(t) ==
    /\ Listed(t)
    /\ status[t] \in {"queued", "blocked"} =>
           ~DependencyFailed(t) /\ DependenciesComplete(t)
    /\ status[t] = "running" => SomeApproved(t)

\* The scan ends; by the next one every runnerless running task may be stale.
EndScan(s, act) ==
    /\ cursor' = 0
    /\ aged' = {t \in Tasks : Exists(t) /\ s[t] = "running" /\ t \notin act}
NextScan(t, s, act) ==
    IF t = NumTasks THEN EndScan(s, act) ELSE cursor' = t + 1 /\ UNCHANGED aged

Scanning(t) ==
    /\ cursor = t
    /\ UNCHANGED <<missions, reviewRows, call, approval, world, up, loopAlive,
                   restarts, pos, interrupted>>

ScanSkips(t) ==
    /\ Scanning(t)
    /\ \/ ~Listed(t)
       \/ status[t] = "running" /\ ~SomeApproved(t)
       \/ status[t] = "blocked" /\ ~DependencyFailed(t) /\ ~DependenciesComplete(t)
    /\ NextScan(t, status, active)
    /\ UNCHANGED <<status, mission, active, pc>>

ScanCancels(t) ==
    /\ Scanning(t)
    /\ Listed(t) /\ status[t] \in {"queued", "blocked"} /\ DependencyFailed(t)
    /\ To(t, "cancelled")
    /\ NextScan(t, status', active)
    /\ UNCHANGED <<active, pc>>

ScanBlocks(t) ==
    /\ Scanning(t)
    /\ Listed(t) /\ status[t] = "queued"
    /\ ~DependencyFailed(t) /\ ~DependenciesComplete(t)
    /\ To(t, "blocked")
    /\ NextScan(t, status', active)
    /\ UNCHANGED <<active, pc>>

\* A blocked task is queued again before the slots are counted.
Unblock(t) == IF status[t] = "blocked" THEN To(t, "queued")
              ELSE UNCHANGED <<status, mission>>

SlotFree == Cardinality(active) < MaxConcurrent

ScanStarts(t) ==
    /\ Scanning(t)
    /\ Runnable(t) /\ SlotFree
    /\ Unblock(t)
    /\ active' = active \cup {t}
    /\ Goto(t, "start")
    /\ NextScan(t, status', active')

ScanBreaks(t) ==
    /\ Scanning(t)
    /\ Runnable(t) /\ ~SlotFree
    /\ Unblock(t)
    /\ EndScan(status', active)
    /\ UNCHANGED <<active, pc>>

Scan(t) == ScanSkips(t) \/ ScanCancels(t) \/ ScanBlocks(t) \/ ScanStarts(t) \/ ScanBreaks(t)

-----------------------------------------------------------------------------
(* The runner of a task: run and _execute.                                 *)

Running_SwallowsCancel(t) ==
    /\ t \in active
    /\ UNCHANGED <<missions, control, active, interrupted>>
Running(t) ==
    /\ t \in active /\ t \notin interrupted
    /\ UNCHANGED <<missions, control, active, interrupted>>

\* queued -> planning -> running in one commit; a resumed task stays put.
Assign(t) == IF status[t] = "queued" THEN To(t, "running")
             ELSE UNCHANGED <<status, mission>>

Begin(t) ==
    /\ Running(t) /\ pc[t] = "start" /\ Free
    /\ Assign(t)
    /\ Goto(t, IF status[t] = "review" THEN "review"
               ELSE IF revision[t] \in completion[t] THEN "invoke" ELSE "model")
    /\ pos' = [pos EXCEPT ![t] = 1]
    /\ UNCHANGED <<reviewRows, call, approval, world>>

\* AgentRegistry.get refuses an agent that is no longer active.
BeginRefused(t) ==
    /\ Running(t) /\ pc[t] = "start" /\ Free
    /\ Assign(t)
    /\ Goto(t, "fail_fatal")
    /\ UNCHANGED <<reviewRows, call, approval, world, pos>>

ModelReturns(t) ==
    /\ Running(t) /\ pc[t] = "model" /\ Free
    /\ completion' = [completion EXCEPT ![t] = @ \cup {revision[t]}]
    /\ Goto(t, "invoke")
    /\ UNCHANGED <<status, mission, retry_count, revision, verdict, call, approval,
                   world, pos>>

\* Unreachable provider, timeout of the call or of the task (retried), or a
\* provider outside the agent's whitelist or an unreadable answer (not).
ModelRaises(t) ==
    /\ Running(t) /\ pc[t] = "model" /\ Free
    /\ \E place \in {"fail_retry", "fail_fatal"} : Goto(t, place)
    /\ UNCHANGED <<taskRows, call, approval, world, pos>>

\* The artifact was the last call; the handoff to the reviewer comes next.
Advance(t) ==
    IF pos[t] \in 1..Len(Operations[t])
    THEN Goto(t, "invoke") /\ pos' = [pos EXCEPT ![t] = @ + 1]
    ELSE Goto(t, "handoff") /\ UNCHANGED pos

Handoff(t) ==
    /\ Running(t) /\ pc[t] = "handoff"
    /\ To(t, "review")
    /\ Goto(t, "review")
    /\ UNCHANGED <<reviewRows, call, approval, world, pos>>

Verdicts_Lenient(t) == {"approve", "revise"}
Verdicts(t) ==
    IF \E k \in OverCeiling : call[t][k] # "absent" THEN {"reject"}
    ELSE {"approve", "revise"}

Review(t, v) ==
    /\ Running(t) /\ pc[t] = "review"
    /\ v \in Verdicts(t)
    /\ verdict' = [verdict EXCEPT ![t] = v]
    /\ revision' = [revision EXCEPT ![t] = IF v = "revise" THEN @ + 1 ELSE @]
    /\ LET again == v = "revise" /\ CanRetry(t) IN
       /\ retry_count' = [retry_count EXCEPT ![t] = Paid(t, again)]
       /\ To(t, IF v = "approve" THEN "completed" ELSE IF again THEN "queued" ELSE "failed")
    /\ Leave(t)
    /\ UNCHANGED <<completion, call, approval, world>>

\* The reviewer agent is disabled, or the commit of the verdict raises.
ReviewRaises(t) ==
    /\ Running(t) /\ pc[t] = "review"
    /\ \E place \in {"fail_retry", "fail_fatal"} : Goto(t, place)
    /\ UNCHANGED <<taskRows, call, approval, world, pos>>

\* _fail: a terminal task is left alone, a recoverable error spends a retry.
Fail(t) ==
    /\ Running(t) /\ pc[t] \in {"fail_retry", "fail_fatal"}
    /\ LET again == pc[t] = "fail_retry" /\ status[t] \in {"running", "review"}
                    /\ CanRetry(t)
       IN IF status[t] \in TERMINAL
          THEN UNCHANGED <<status, mission, retry_count>>
          ELSE /\ retry_count' = [retry_count EXCEPT ![t] = Paid(t, again)]
               /\ To(t, IF again THEN "queued" ELSE "failed")
    /\ Leave(t)
    /\ UNCHANGED <<revision, verdict, completion, call, approval, world>>

\* The CancelledError reaches the runner at its suspension. A tool call in
\* flight is recorded as an error; the task row is not touched.
Interrupt(t) ==
    /\ t \in interrupted /\ Free
    /\ IF pc[t] \in {"execute", "effected"} THEN SetCall(t, Key(t), "error")
       ELSE UNCHANGED call
    /\ Leave(t)
    /\ interrupted' = interrupted \ {t}
    /\ UNCHANGED <<missions, taskRows, approval, world, control, active>>

-----------------------------------------------------------------------------
(* ToolGateway.invoke.                                                     *)

\* A call that ran without a recorded success may have taken effect; only
\* the files tool can find out.
Uncertain_ErrorOnly(t, k) == call[t][k] = "error" /\ k \notin Files
Uncertain(t, k) == call[t][k] \in {"started", "error"} /\ k \notin Files

Invoking(t) == Running(t) /\ pc[t] = "invoke"
Admissible(t, k) == status[t] = "running" /\ call[t][k] # "ok" /\ ~Uncertain(t, k)
Recorded(t, k) == SetCall(t, k, IF call[t][k] = "absent" THEN "created" ELSE call[t][k])
NotApproved_PerTask(t, k, d) == d = "approval_required" /\ ~SomeApproved(t)
NotApproved(t, k, d) == d = "approval_required" /\ approval[t][k] # "approved"

InvokeRefused(t) ==
    /\ Invoking(t)
    /\ \/ "unclassified" \in Decide[Key(t)]
       \/ status[t] # "running" \/ Uncertain(t, Key(t))
    /\ Goto(t, "fail_fatal")
    /\ UNCHANGED <<taskRows, call, approval, world, pos>>

InvokeReuses(t) ==
    /\ Invoking(t)
    /\ status[t] = "running" /\ call[t][Key(t)] = "ok"
    /\ Advance(t)
    /\ UNCHANGED <<taskRows, call, approval, world>>

\* ApprovalPending ends the run without an error.
AwaitOwner_AsError(t) == Goto(t, "fail_fatal") /\ UNCHANGED pos
AwaitOwner(t) == Leave(t)

InvokeAsks(t, d) ==
    /\ Invoking(t) /\ d \in Decide[Key(t)] /\ Admissible(t, Key(t))
    /\ NotApproved(t, Key(t), d)
    /\ Recorded(t, Key(t))
    /\ approval' = [approval EXCEPT ![t][Key(t)] = "pending"]
    /\ To(t, "waiting_approval")
    /\ AwaitOwner(t)
    /\ UNCHANGED <<reviewRows, world>>

InvokeDenied(t, d) ==
    /\ Invoking(t) /\ d \in Decide[Key(t)] /\ Admissible(t, Key(t))
    /\ d = "denied"
    /\ Recorded(t, Key(t))
    /\ Goto(t, "fail_fatal")
    /\ UNCHANGED <<taskRows, approval, world, pos>>

\* running -> review -> failed in one commit, with a rejecting review.
InvokeGated(t, d) ==
    /\ Invoking(t) /\ d \in Decide[Key(t)] /\ Admissible(t, Key(t))
    /\ d = "reviewer_gate"
    /\ Recorded(t, Key(t))
    /\ verdict' = [verdict EXCEPT ![t] = "reject"]
    /\ To(t, "failed")
    /\ Goto(t, "fail_fatal")
    /\ UNCHANGED <<retry_count, revision, completion, approval, world, pos>>

InvokePermits(t, d) ==
    /\ Invoking(t) /\ d \in Decide[Key(t)] /\ Admissible(t, Key(t))
    /\ d \in {"auto_allow", "approval_required"} /\ ~NotApproved(t, Key(t), d)
    /\ Recorded(t, Key(t))
    /\ Goto(t, "begin")
    /\ UNCHANGED <<taskRows, approval, world, pos>>

Invoke(t) ==
    \/ InvokeRefused(t) \/ InvokeReuses(t)
    \/ \E d \in Decisions : \/ InvokeAsks(t, d) \/ InvokeDenied(t, d)
                            \/ InvokeGated(t, d) \/ InvokePermits(t, d)

StartExecution(t) ==
    /\ Running(t) /\ pc[t] = "begin"
    /\ SetCall(t, Key(t), "started")
    /\ Goto(t, "execute")
    /\ UNCHANGED <<taskRows, approval, world, pos>>

\* An external tool does its work in another process, whatever the event
\* loop does; a files call creates its file, or finds it whole.
TakesEffect(t, k) == k \in Files => effects[t][k] = 0
Whole_Unread(t, k) == TRUE
Whole(t, k) == <<t, k>> \notin torn

Effect(t) ==
    /\ pc[t] = "execute" /\ Whole(t, Key(t))
    /\ effects' = [effects EXCEPT ![t][Key(t)] =
                      IF TakesEffect(t, Key(t)) THEN @ + 1 ELSE @]
    /\ Goto(t, "effected")
    /\ UNCHANGED <<rows, torn, control, active, pos, interrupted>>

ToolReturns(t) ==
    /\ Running(t) /\ pc[t] = "effected"
    /\ Key(t) \in Files \/ Free
    /\ SetCall(t, Key(t), "ok")
    /\ Advance(t)
    /\ UNCHANGED <<taskRows, approval, world>>

\* A tool raises, times out or reports a failure; the files tool only before
\* it has written, and for good when the file is there with other content.
ToolFails(t) ==
    /\ Running(t)
    /\ \/ pc[t] = "execute" /\ Key(t) \in Files
       \/ pc[t] \in {"execute", "effected"} /\ Free
    /\ SetCall(t, Key(t), "error")
    /\ \E place \in {"fail_retry", "fail_fatal"} :
           /\ ~Whole(t, Key(t)) => place = "fail_fatal"
           /\ Goto(t, place)
    /\ UNCHANGED <<taskRows, approval, world, pos>>

-----------------------------------------------------------------------------
(* The process: clean stop, crash, start.                                  *)

Stop ==
    /\ up = "up" /\ Free /\ restarts < MaxRestarts
    /\ up' = "stopping"
    /\ interrupted' = {t \in active : pc[t] # "done"}
    /\ UNCHANGED <<rows, world, loopAlive, cursor, aged, restarts, active, pc, pos>>

\* Memory is lost. However long the process is down, what it left running
\* may be stale when it comes back.
Down ==
    /\ up' = "down" /\ loopAlive' = TRUE /\ cursor' = 0
    /\ active' = {} /\ interrupted' = {}
    /\ pc' = [t \in Tasks |-> "idle"] /\ pos' = [t \in Tasks |-> 0]
    /\ aged' = {t \in Tasks : Exists(t) /\ status[t] = "running"}
    /\ restarts' = restarts + 1
    /\ UNCHANGED rows

Exit ==
    /\ up = "stopping" /\ \A t \in active : pc[t] = "done"
    /\ Down
    /\ UNCHANGED world

\* Child processes die with their parent, whether or not they have taken
\* effect. A file may have been created and not completely written.
Crash(tearing) ==
    /\ up # "down" /\ cursor \in {0, 1} /\ restarts < MaxRestarts
    /\ tearing \subseteq {t \in Tasks : pc[t] = "execute" /\ Key(t) \in Files
                                        /\ effects[t][Key(t)] = 0}
    /\ effects' = [t \in Tasks |->
           IF t \in tearing THEN [effects[t] EXCEPT ![Key(t)] = 1] ELSE effects[t]]
    /\ torn' = torn \cup {<<t, Key(t)>> : t \in tearing}
    /\ Down

\* start() recovers once before it creates the loop; if that raises, the
\* service does not come up.
Start(swept, overdue) ==
    /\ up = "down"
    /\ Sweepable(swept, overdue)
    /\ IF RecoverRaises(swept, overdue)
       THEN loopAlive' = FALSE /\ UNCHANGED <<rows, up>>
       ELSE Recover(swept, overdue) /\ up' = "up" /\ UNCHANGED loopAlive
    /\ UNCHANGED <<world, cursor, aged, restarts, active, pc, pos, interrupted>>

-----------------------------------------------------------------------------
Run(t) ==
    \/ Begin(t) \/ BeginRefused(t)
    \/ ModelReturns(t) \/ ModelRaises(t)
    \/ Invoke(t) \/ StartExecution(t) \/ ToolReturns(t) \/ ToolFails(t)
    \/ Handoff(t) \/ (\E v \in {"approve", "revise", "reject"} : Review(t, v))
    \/ ReviewRaises(t) \/ Fail(t) \/ Interrupt(t)

Owner ==
    \/ Submit
    \/ \E t \in Tasks : Cancel(t)
    \/ \E t \in Tasks, k \in Keys, answer \in {"approved", "denied"} : Resolve(t, k, answer)

Overdues == SUBSET {a \in Tasks \X Keys : approval[a[1]][a[2]] = "pending"}

Loop ==
    \/ \E swept \in SUBSET Orphans, overdue \in Overdues, reaped \in SUBSET active :
           Poll(swept, overdue, reaped)
    \/ \E t \in Tasks : Scan(t)

Process ==
    \/ Stop \/ Exit
    \/ \E tearing \in SUBSET Tasks : Crash(tearing)
    \/ \E swept \in SUBSET Orphans, overdue \in Overdues : Start(swept, overdue)

Next ==
    \/ Owner \/ Loop \/ Process
    \/ \E t \in Tasks : Run(t) \/ Effect(t)

Spec == Init /\ [][Next]_vars

\* The lifecycle this engine implements.
Lifecycle == INSTANCE TaskLifecycle
    WITH Tasks <- Tasks, RetryLimit <- RetryLimit, status <- status, retry_count <- retry_count
=============================================================================
