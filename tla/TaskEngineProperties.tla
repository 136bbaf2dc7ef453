------------------------ MODULE TaskEngineProperties ------------------------
(* What the engine guarantees, and the fairness its liveness rests on.     *)
EXTENDS TaskEngine

\* Every variable of the engine has the type of the row or the field it models.
TypeOK ==
    /\ missions \in 0..NumMissions
    /\ status \in [Tasks -> State]
    /\ retry_count \in [Tasks -> 0..RetryLimit]
    /\ revision \in [Tasks -> Revisions]
    /\ verdict \in [Tasks -> {"none", "approve", "revise", "reject"}]
    /\ completion \in [Tasks -> SUBSET Revisions]
    /\ call \in [Tasks -> [Keys -> CallRow]]
    /\ approval \in [Tasks -> [Keys -> ApprovalRow]]
    /\ mission \in [Missions -> State]
    /\ effects \in [Tasks -> [Keys -> Nat]]
    /\ torn \subseteq Tasks \X Keys
    /\ up \in {"up", "stopping", "down"} /\ loopAlive \in BOOLEAN
    /\ cursor \in 0..NumTasks
    /\ active \subseteq Tasks /\ interrupted \subseteq Tasks /\ aged \subseteq Tasks
    /\ pc \in [Tasks -> Place]
    /\ pos \in [Tasks -> Nat]
    /\ restarts \in 0..MaxRestarts

\* An approval is open exactly while its task waits for it, and a waiting task
\* waits for exactly one: a waiting task without one would never be resolved,
\* an open one of another task makes _resolve raise inside recover.
PendingIffWaiting ==
    \A t \in Tasks :
        IF status[t] = "waiting_approval"
        THEN \E k \in Keys : /\ approval[t][k] = "pending"
                             /\ \A j \in Keys : approval[t][j] = "pending" => j = k
        ELSE \A k \in Keys : approval[t][k] # "pending"

\* No exception ever escapes from recover: the polling loop, which nothing
\* restarts, survives every sequence of crashes, resolutions and expiries.
LoopSurvives == loopAlive

\* The effect of a tool call happens at most once over the whole life of a
\* task, whatever crashes, retries, revisions and approvals come between.
AtMostOnce == \A t \in Tasks, k \in Keys : effects[t][k] <= 1

\* A call that policy never lets through without the owner takes effect only
\* once that very call has been approved.
ApprovedBeforeEffect ==
    \A t \in Tasks, k \in Keys :
        effects[t][k] > 0 /\ "auto_allow" \notin Decide[k] => approval[t][k] = "approved"

Planned(t) == {Operations[t][i] : i \in 1..Len(Operations[t])}

\* A completed task was approved by the reviewer, every planned call and the
\* artifact of its last revision succeeded and took effect, and no file of it
\* is half written.
CompletedMeansDone ==
    \A t \in Tasks : status[t] = "completed" =>
        /\ verdict[t] = "approve"
        /\ \A k \in Planned(t) \cup {ArtifactKey(revision[t])} :
               call[t][k] = "ok" /\ effects[t][k] = 1 /\ <<t, k>> \notin torn

\* No task is completed that ever tried a call outside its tools or above its
\* ceiling, in this run or before a crash, also if policy let it through.
WithinCeiling ==
    \A t \in Tasks : status[t] = "completed" => \A k \in OverCeiling : call[t][k] = "absent"

\* Every revision the reviewer asked for was paid from the retry budget, as
\* long as the task lives: revisions and retries cannot go on for ever.
RevisionsPaid ==
    \A t \in Tasks : status[t] \notin TERMINAL => revision[t] <= retry_count[t]

\* An exception finds its task in a state that _fail can leave, and a runner
\* that is stopped by its own exception never meets a task that waits.
FailureCanBeRecorded ==
    \A t \in Tasks : pc[t] \in {"fail_retry", "fail_fatal"} =>
        status[t] \in {"running", "review"} \cup TERMINAL

\* A task gets past its dependencies only when they are all completed.
DependenciesFirst ==
    \A t \in Tasks : status[t] \in {"running", "waiting_approval", "review", "completed"} =>
        \A d \in Dependencies[t] : status[d] = "completed"

\* A tool starts only for a running task whose runner has not been told to
\* stop: a cancelled task's runner starts nothing any more.
StartsOnlyWhileRunning ==
    [][\A t \in Tasks, k \in Keys :
          call[t][k] # "started" /\ call'[t][k] = "started" =>
              status[t] = "running" /\ t \notin interrupted]_vars

\* A terminal task is never reopened, and its retries, reviews and approvals
\* are final with it.
TerminalIsFinal ==
    [][\A t \in Tasks : status[t] \in TERMINAL =>
          /\ status'[t] = status[t] /\ retry_count'[t] = retry_count[t]
          /\ revision'[t] = revision[t] /\ verdict'[t] = verdict[t]
          /\ approval'[t] = approval[t]]_vars

-----------------------------------------------------------------------------
(* Fairness. The loop polls for ever, a suspended runner is resumed (every *)
(* provider and tool call has a timeout), a cancellation is delivered, the *)
(* service manager restarts the process. Stale heartbeats and overdue      *)
(* approvals are swept some day because time passes. A runner and the     *)
(* clock compete with the turns of others, and asyncio's ready queue is    *)
(* first in, first out: their fairness is strong. Nothing is assumed of    *)
(* the owner, of failures or of the tools' success.                        *)

Done == {t \in active : pc[t] = "done"}
Sweeps(t) == \E swept \in SUBSET Orphans, overdue \in Overdues :
                 t \in swept /\ Poll(swept, overdue, Done)
Expires(t) == \E swept \in SUBSET Orphans, overdue \in Overdues :
                 t \in Expiring(overdue) /\ Poll(swept, overdue, Done)

Fairness ==
    /\ SF_vars(\E swept \in SUBSET Orphans, overdue \in Overdues : Poll(swept, overdue, Done))
    /\ WF_vars(\E t \in Tasks : Scan(t))
    /\ WF_vars(Exit)
    /\ WF_vars(\E swept \in SUBSET Orphans, overdue \in Overdues : Start(swept, overdue))
    /\ \A t \in Tasks : SF_vars(Run(t)) /\ SF_vars(Sweeps(t)) /\ SF_vars(Expires(t))

FairSpec == Spec /\ Fairness

\* Every submitted task ends, however it is retried, revised, blocked or left
\* behind by a crash.
EveryTaskEnds == \A t \in Tasks : Exists(t) ~> status[t] \in TERMINAL

\* What the store shows of every task follows the documented lifecycle: only
\* edges of the table, planning and retrying passed within one commit, a retry
\* counted exactly when retrying is left.
FollowsLifecycle == Lifecycle!Spec
=============================================================================
