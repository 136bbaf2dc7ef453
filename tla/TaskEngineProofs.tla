-------------------------- MODULE TaskEngineProofs --------------------------
(* Theorems about the task engine for every plan, policy and bound.        *)
EXTENDS TaskEngineProperties, SequenceTheorems, TLAPS

-----------------------------------------------------------------------------
(* The inductive invariant. *)

\* A runner exists exactly for the active tasks, and a cancellation is pending
\* only for one that is suspended.
RunnersActive ==
    \A t \in Tasks : /\ t \in active <=> pc[t] # "idle"
                     /\ t \in interrupted => pc[t] \in {"start", "model", "execute", "effected"}

\* Where a runner is says what its task's row says: nobody else moves the row
\* of a task whose runner has not been told to stop.
RowFollowsRunner ==
    \A t \in Tasks :
        /\ t \notin interrupted =>
             /\ pc[t] = "start" => status[t] \in {"queued", "running", "review"}
             /\ pc[t] \in {"model", "invoke", "begin", "execute", "effected", "handoff"}
                    => status[t] = "running"
             /\ pc[t] = "review" => status[t] = "review"
        /\ status[t] \in {"waiting_approval", "completed"} => pc[t] \in {"idle", "done"}

\* planning and retrying are never committed.
Durable == \A t \in Tasks : status[t] \notin {"planning", "retrying"}

\* A clean stop has been counted against the bound before it is carried out.
StopBudget == up = "stopping" => restarts < MaxRestarts

Places == RunnersActive /\ RowFollowsRunner /\ FailureCanBeRecorded /\ Durable

Budget == StopBudget /\ RevisionsPaid

Approvals == PendingIffWaiting /\ LoopSurvives

IInv == /\ TypeOK /\ RunnersActive /\ RowFollowsRunner /\ FailureCanBeRecorded
        /\ Durable /\ StopBudget /\ RevisionsPaid /\ PendingIffWaiting /\ LoopSurvives

\* The roll-up of refresh_mission finds a state for every non-empty set of
\* task states.
LEMMA RollupFinds ==
    ASSUME NEW S \in SUBSET State, S # {}, S # {"completed"}
    PROVE  RollupOrder[CHOOSE i \in 1..9 :
               /\ RollupOrder[i] \in S
               /\ \A j \in 1..(i - 1) : RollupOrder[j] \notin S] \in State
  <1> DEFINE First(i) == /\ RollupOrder[i] \in S
                         /\ \A j \in 1..(i - 1) : RollupOrder[j] \notin S
  <1>1. \E i \in 1..9 : First(i)
    <2>1. \A s \in S : s = "completed" \/ \E i \in 1..9 : RollupOrder[i] = s
      BY DEF RollupOrder, State
    <2>2. \E i \in 1..9 : RollupOrder[i] \in S
      BY <2>1
    <2>3. CASE RollupOrder[1] \in S
      BY <2>3
    <2>4. CASE RollupOrder[1] \notin S /\ RollupOrder[2] \in S
      BY <2>4
    <2>5. CASE (\A j \in 1..2 : RollupOrder[j] \notin S) /\ RollupOrder[3] \in S
      BY <2>5
    <2>6. CASE (\A j \in 1..3 : RollupOrder[j] \notin S) /\ RollupOrder[4] \in S
      BY <2>6
    <2>7. CASE (\A j \in 1..4 : RollupOrder[j] \notin S) /\ RollupOrder[5] \in S
      BY <2>7
    <2>8. CASE (\A j \in 1..5 : RollupOrder[j] \notin S) /\ RollupOrder[6] \in S
      BY <2>8
    <2>9. CASE (\A j \in 1..6 : RollupOrder[j] \notin S) /\ RollupOrder[7] \in S
      BY <2>9
    <2>10. CASE (\A j \in 1..7 : RollupOrder[j] \notin S) /\ RollupOrder[8] \in S
      BY <2>10
    <2>11. CASE \A j \in 1..8 : RollupOrder[j] \notin S
      BY <2>2, <2>11
    <2> QED BY <2>3, <2>4, <2>5, <2>6, <2>7, <2>8, <2>9, <2>10, <2>11
  <1>2. \A i \in 1..9 : RollupOrder[i] \in State
    BY DEF RollupOrder, State
  <1> QED BY <1>1, <1>2

\* Every step through UnitOfWork.transition leaves states in the task and
\* mission rows.
LEMMA TransitionType ==
    ASSUME TypeOK, NEW s \in [Tasks -> State], Transition(s)
    PROVE  status' = s /\ mission' \in [Missions -> State]
  <1>1. ASSUME NEW m \in Missions, TasksOf(m) # {}
        PROVE  rollup({s[t] : t \in TasksOf(m)}, m \in ConditionsMet) \in State
    <2>1. {s[t] : t \in TasksOf(m)} \in SUBSET State /\ {s[t] : t \in TasksOf(m)} # {}
      BY <1>1 DEF TasksOf
    <2> QED BY <2>1, RollupFinds DEF rollup, State
  <1> QED BY <1>1 DEF Transition, TypeOK

\* A transition of one task is one of those.
LEMMA ToType ==
    ASSUME TypeOK, NEW t \in Tasks, NEW target \in State, To(t, target)
    PROVE  /\ status' = [status EXCEPT ![t] = target]
           /\ status' \in [Tasks -> State] /\ mission' \in [Missions -> State]
  <1>1. [status EXCEPT ![t] = target] \in [Tasks -> State]
    BY DEF TypeOK
  <1>2. Transition([status EXCEPT ![t] = target])
    BY DEF To
  <1> QED BY <1>1, <1>2, TransitionType

\* The call a runner is at is a call.
LEMMA KeyType ==
    ASSUME TypeOK, NEW t \in Tasks
    PROVE  Key(t) \in Keys
  <1>1. CASE pos[t] \in 1..Len(Operations[t])
    <2>1. Operations[t] \in Seq(1..NumCalls)
      BY PlanAssumption
    <2>2. Operations[t][pos[t]] \in 1..NumCalls
      BY <1>1, <2>1, ElementOfSeq DEF TypeOK
    <2> QED BY <1>1, <2>2, CountsAssumption DEF Key, Keys
  <1>2. CASE pos[t] \notin 1..Len(Operations[t])
    <2>1. revision[t] \in 0..(RetryLimit + 1)
      BY DEF TypeOK, Revisions
    <2> QED BY <1>2, <2>1, CountsAssumption DEF Key, Keys, ArtifactKey
  <1> QED BY <1>1, <1>2


\* recover writes well-typed rows.
LEMMA RecoverType ==
    ASSUME TypeOK, NEW swept, NEW overdue, Recover(swept, overdue)
    PROVE  /\ missions' = missions /\ status' \in [Tasks -> State]
           /\ retry_count' \in [Tasks -> 0..RetryLimit]
           /\ revision' = revision /\ verdict' = verdict /\ completion' = completion
           /\ call' = call /\ approval' \in [Tasks -> [Keys -> ApprovalRow]]
           /\ mission' \in [Missions -> State]
  <1> DEFINE s == [t \in Tasks |->
           IF t \in swept
           THEN IF CanRetry(t) THEN "queued" ELSE "failed"
           ELSE IF t \in Expiring(overdue) THEN Resolved("expired") ELSE status[t]]
  <1>1. s \in [Tasks -> State]
    BY DEF TypeOK, Resolved, State
  <1>2. Transition(s)
    BY DEF Recover
  <1>3. status' = s /\ mission' \in [Missions -> State]
    BY <1>1, <1>2, TransitionType
  <1>4. retry_count' \in [Tasks -> 0..RetryLimit]
    BY CountsAssumption DEF TypeOK, Recover, Paid, CanRetry
  <1>5. approval' \in [Tasks -> [Keys -> ApprovalRow]]
    BY DEF TypeOK, Recover, ApprovalRow
  <1> QED BY <1>1, <1>3, <1>4, <1>5 DEF Recover

\* No step leaves the types.
LEMMA TypeStep ==
    ASSUME IInv, [Next]_vars
    PROVE  TypeOK'
  <1>k. \A t \in Tasks : Key(t) \in Keys
    BY KeyType DEF IInv
  <1>s. ASSUME NEW t \in Tasks, NEW target \in State, To(t, target)
        PROVE  /\ status' = [status EXCEPT ![t] = target]
               /\ status' \in [Tasks -> State] /\ mission' \in [Missions -> State]
    BY <1>s, ToType DEF IInv
  <1>r. ASSUME NEW swept, NEW overdue, Recover(swept, overdue)
        PROVE  /\ missions' = missions /\ status' \in [Tasks -> State]
               /\ retry_count' \in [Tasks -> 0..RetryLimit]
               /\ revision' = revision /\ verdict' = verdict /\ completion' = completion
               /\ call' = call /\ approval' \in [Tasks -> [Keys -> ApprovalRow]]
               /\ mission' \in [Missions -> State]
    BY <1>r, RecoverType DEF IInv
  <1>1. ASSUME Submit PROVE TypeOK'
    BY <1>1, <1>k, <1>s, CountsAssumption DEF IInv, TypeOK, Submit, rows, taskRows, reviewRows, world, control, State, Place, Goto
  <1>2. ASSUME NEW t \in Tasks, NEW k \in Keys, NEW answer \in {"approved", "denied"}, Resolve(t, k, answer) PROVE TypeOK'
    BY <1>2, <1>k, <1>s, CountsAssumption DEF IInv, TypeOK, Resolve, rows, taskRows, reviewRows, world, control, Resolved, ApprovalRow, State, Place, Goto
  <1>3. ASSUME NEW t \in Tasks, Cancel(t) PROVE TypeOK'
    BY <1>3, <1>k, <1>s, CountsAssumption DEF IInv, TypeOK, Cancel, rows, taskRows, reviewRows, world, control, ExpiredApprovals, ApprovalRow, State, Place, Goto
  <1>4. ASSUME NEW swept \in SUBSET Orphans, NEW overdue \in Overdues, NEW reaped \in SUBSET active, Poll(swept, overdue, reaped) PROVE TypeOK'
    <2>1. CASE RecoverRaises(swept, overdue)
      BY <1>4, <2>1 DEF IInv, TypeOK, Poll, rows, taskRows, reviewRows, world
    <2>2. CASE ~RecoverRaises(swept, overdue)
      <3>1. Recover(swept, overdue)
        BY <1>4, <2>2 DEF Poll
      <3> QED BY <1>4, <2>2, <3>1, <1>r, CountsAssumption
              DEF IInv, TypeOK, Poll, world, Place
    <2> QED BY <2>1, <2>2
  <1>5. ASSUME NEW t \in Tasks, ScanSkips(t) PROVE TypeOK'
    <2>1. cursor' \in 0..NumTasks
      BY <1>5, CountsAssumption DEF ScanSkips, NextScan, EndScan, Tasks
    <2>3. aged' \subseteq Tasks
      BY <1>5 DEF IInv, TypeOK, ScanSkips, NextScan, EndScan
    <2>2. status' \in [Tasks -> State] /\ mission' \in [Missions -> State]
      BY <1>5, <1>s DEF IInv, TypeOK, ScanSkips, State
    <2> QED BY <1>5, <2>1, <2>2, <2>3
            DEF IInv, TypeOK, ScanSkips, Scanning, reviewRows, world, Goto, Place
  <1>6. ASSUME NEW t \in Tasks, ScanCancels(t) PROVE TypeOK'
    <2>1. cursor' \in 0..NumTasks
      BY <1>6, CountsAssumption DEF ScanCancels, NextScan, EndScan, Tasks
    <2>3. aged' \subseteq Tasks
      BY <1>6 DEF IInv, TypeOK, ScanCancels, NextScan, EndScan
    <2>2. status' \in [Tasks -> State] /\ mission' \in [Missions -> State]
      BY <1>6, <1>s DEF IInv, TypeOK, ScanCancels, State
    <2> QED BY <1>6, <2>1, <2>2, <2>3
            DEF IInv, TypeOK, ScanCancels, Scanning, reviewRows, world, Goto, Place
  <1>7. ASSUME NEW t \in Tasks, ScanBlocks(t) PROVE TypeOK'
    <2>1. cursor' \in 0..NumTasks
      BY <1>7, CountsAssumption DEF ScanBlocks, NextScan, EndScan, Tasks
    <2>3. aged' \subseteq Tasks
      BY <1>7 DEF IInv, TypeOK, ScanBlocks, NextScan, EndScan
    <2>2. status' \in [Tasks -> State] /\ mission' \in [Missions -> State]
      BY <1>7, <1>s DEF IInv, TypeOK, ScanBlocks, State
    <2> QED BY <1>7, <2>1, <2>2, <2>3
            DEF IInv, TypeOK, ScanBlocks, Scanning, reviewRows, world, Goto, Place
  <1>8. ASSUME NEW t \in Tasks, ScanStarts(t) PROVE TypeOK'
    <2>1. cursor' \in 0..NumTasks
      BY <1>8, CountsAssumption DEF ScanStarts, NextScan, EndScan, Tasks
    <2>3. aged' \subseteq Tasks
      BY <1>8 DEF IInv, TypeOK, ScanStarts, NextScan, EndScan
    <2>2. status' \in [Tasks -> State] /\ mission' \in [Missions -> State]
      BY <1>8, <1>s DEF IInv, TypeOK, ScanStarts, State, Unblock
    <2> QED BY <1>8, <2>1, <2>2, <2>3
            DEF IInv, TypeOK, ScanStarts, Scanning, reviewRows, world, Goto, Place
  <1>9. ASSUME NEW t \in Tasks, ScanBreaks(t) PROVE TypeOK'
    <2>1. cursor' \in 0..NumTasks
      BY <1>9, CountsAssumption DEF ScanBreaks, NextScan, EndScan, Tasks
    <2>3. aged' \subseteq Tasks
      BY <1>9 DEF IInv, TypeOK, ScanBreaks, NextScan, EndScan
    <2>2. status' \in [Tasks -> State] /\ mission' \in [Missions -> State]
      BY <1>9, <1>s DEF IInv, TypeOK, ScanBreaks, State, Unblock
    <2> QED BY <1>9, <2>1, <2>2, <2>3
            DEF IInv, TypeOK, ScanBreaks, Scanning, reviewRows, world, Goto, Place
  <1>10. ASSUME NEW t \in Tasks, Begin(t) PROVE TypeOK'
    BY <1>10, <1>k, <1>s, CountsAssumption DEF IInv, TypeOK, Begin, rows, taskRows, reviewRows, world, control, Running, Assign, State, Place, Goto
  <1>11. ASSUME NEW t \in Tasks, BeginRefused(t) PROVE TypeOK'
    BY <1>11, <1>k, <1>s, CountsAssumption DEF IInv, TypeOK, BeginRefused, rows, taskRows, reviewRows, world, control, Running, Assign, State, Place, Goto
  <1>12. ASSUME NEW t \in Tasks, ModelReturns(t) PROVE TypeOK'
    BY <1>12, <1>k, <1>s, CountsAssumption DEF IInv, TypeOK, ModelReturns, rows, taskRows, reviewRows, world, control, Running, State, Place, Goto
  <1>13. ASSUME NEW t \in Tasks, ModelRaises(t) PROVE TypeOK'
    BY <1>13, <1>k, <1>s, CountsAssumption DEF IInv, TypeOK, ModelRaises, rows, taskRows, reviewRows, world, control, Running, State, Place, Goto
  <1>14. ASSUME NEW t \in Tasks, InvokeRefused(t) PROVE TypeOK'
    BY <1>14, <1>k, <1>s, CountsAssumption DEF IInv, TypeOK, InvokeRefused, rows, taskRows, reviewRows, world, control, Invoking, Running, Recorded, State, Place, Goto
  <1>15. ASSUME NEW t \in Tasks, InvokeReuses(t) PROVE TypeOK'
    <2>1. pc' \in [Tasks -> Place]
      BY <1>15 DEF IInv, TypeOK, InvokeReuses, Advance, Goto, Place
    <2>3. pos' \in [Tasks -> Nat]
      <3>1. pos \in [Tasks -> Nat] /\ pos[t] + 1 \in Nat
        BY DEF IInv, TypeOK
      <3> QED BY <1>15, <3>1 DEF InvokeReuses, Advance
    <2> QED BY <1>15, <2>1, <2>3
            DEF IInv, TypeOK, InvokeReuses, Invoking, Running, control, taskRows, reviewRows, world
  <1>16. ASSUME NEW t \in Tasks, NEW d \in Decisions, InvokeAsks(t, d) PROVE TypeOK'
    BY <1>16, <1>k, <1>s, CountsAssumption DEF IInv, TypeOK, InvokeAsks, rows, taskRows, reviewRows, world, control, Invoking, Running, Recorded, SetCall, CallRow, Leave, AwaitOwner, ApprovalRow, State, Place, Goto
  <1>17. ASSUME NEW t \in Tasks, NEW d \in Decisions, InvokeDenied(t, d) PROVE TypeOK'
    BY <1>17, <1>k, <1>s, CountsAssumption DEF IInv, TypeOK, InvokeDenied, rows, taskRows, reviewRows, world, control, Invoking, Running, Recorded, SetCall, CallRow, State, Place, Goto
  <1>18. ASSUME NEW t \in Tasks, NEW d \in Decisions, InvokeGated(t, d) PROVE TypeOK'
    BY <1>18, <1>k, <1>s, CountsAssumption DEF IInv, TypeOK, InvokeGated, rows, taskRows, reviewRows, world, control, Invoking, Running, Recorded, SetCall, CallRow, State, Place, Goto
  <1>19. ASSUME NEW t \in Tasks, NEW d \in Decisions, InvokePermits(t, d) PROVE TypeOK'
    BY <1>19, <1>k, <1>s, CountsAssumption DEF IInv, TypeOK, InvokePermits, rows, taskRows, reviewRows, world, control, Invoking, Running, Recorded, SetCall, CallRow, State, Place, Goto
  <1>20. ASSUME NEW t \in Tasks, StartExecution(t) PROVE TypeOK'
    BY <1>20, <1>k, <1>s, CountsAssumption DEF IInv, TypeOK, StartExecution, rows, taskRows, reviewRows, world, control, Running, SetCall, CallRow, State, Place, Goto
  <1>21. ASSUME NEW t \in Tasks, Effect(t) PROVE TypeOK'
    BY <1>21, <1>k, <1>s, CountsAssumption DEF IInv, TypeOK, Effect, rows, taskRows, reviewRows, world, control, State, Place, Goto
  <1>22. ASSUME NEW t \in Tasks, ToolReturns(t) PROVE TypeOK'
    <2>1. pc' \in [Tasks -> Place]
      BY <1>22 DEF IInv, TypeOK, ToolReturns, Advance, Goto, Place
    <2>3. pos' \in [Tasks -> Nat]
      <3>1. pos \in [Tasks -> Nat] /\ pos[t] + 1 \in Nat
        BY DEF IInv, TypeOK
      <3> QED BY <1>22, <3>1 DEF ToolReturns, Advance
    <2>2. call' \in [Tasks -> [Keys -> CallRow]]
      BY <1>22, <1>k DEF IInv, TypeOK, ToolReturns, SetCall, CallRow
    <2> QED BY <1>22, <2>1, <2>3, <2>2
            DEF IInv, TypeOK, ToolReturns, Running, control, taskRows, reviewRows, world
  <1>23. ASSUME NEW t \in Tasks, ToolFails(t) PROVE TypeOK'
    BY <1>23, <1>k, <1>s, CountsAssumption DEF IInv, TypeOK, ToolFails, rows, taskRows, reviewRows, world, control, Running, SetCall, CallRow, State, Place, Goto
  <1>24. ASSUME NEW t \in Tasks, Handoff(t) PROVE TypeOK'
    BY <1>24, <1>k, <1>s, CountsAssumption DEF IInv, TypeOK, Handoff, rows, taskRows, reviewRows, world, control, Running, State, Place, Goto
  <1>25. ASSUME NEW t \in Tasks, NEW v \in {"approve", "revise", "reject"}, Review(t, v) PROVE TypeOK'
    <2>1. revision[t] \in 0..RetryLimit
      <3>1. status[t] = "review"
        BY <1>25 DEF IInv, RowFollowsRunner, Review, Running
      <3>2. revision[t] <= retry_count[t]
        BY <3>1 DEF IInv, RevisionsPaid, TERMINAL
      <3>3. revision[t] \in Nat /\ retry_count[t] \in 0..RetryLimit
        BY DEF IInv, TypeOK, Revisions
      <3> QED BY <3>2, <3>3, CountsAssumption
    <2>2. revision' \in [Tasks -> Revisions]
      BY <1>25, <2>1, CountsAssumption DEF IInv, TypeOK, Review, Revisions
    <2>3. retry_count' \in [Tasks -> 0..RetryLimit]
      BY <1>25, CountsAssumption DEF IInv, TypeOK, Review, Paid, CanRetry
    <2>4. status' \in [Tasks -> State] /\ mission' \in [Missions -> State]
      BY <1>25, <1>s DEF Review, State
    <2>5. pc' \in [Tasks -> Place] /\ pos' \in [Tasks -> Nat]
      BY <1>25 DEF IInv, TypeOK, Review, Leave, Goto, Place
    <2> QED BY <1>25, <2>2, <2>3, <2>4, <2>5
            DEF IInv, TypeOK, Review, Running, control, world
  <1>26. ASSUME NEW t \in Tasks, ReviewRaises(t) PROVE TypeOK'
    BY <1>26, <1>k, <1>s, CountsAssumption DEF IInv, TypeOK, ReviewRaises, rows, taskRows, reviewRows, world, control, Running, State, Place, Goto
  <1>27. ASSUME NEW t \in Tasks, Fail(t) PROVE TypeOK'
    <2>1. retry_count' \in [Tasks -> 0..RetryLimit]
      <3>1. CASE status[t] \in TERMINAL
        BY <1>27, <3>1 DEF IInv, TypeOK, Fail
      <3>2. CASE status[t] \notin TERMINAL
        <4>1. \E again \in BOOLEAN : /\ again => CanRetry(t)
                                    /\ retry_count' = [retry_count EXCEPT ![t] = Paid(t, again)]
          BY <1>27, <3>2 DEF Fail
        <4> QED BY <4>1, CountsAssumption DEF IInv, TypeOK, Paid, CanRetry
      <3> QED BY <3>1, <3>2
    <2>2. status' \in [Tasks -> State] /\ mission' \in [Missions -> State]
      BY <1>27, <1>s DEF IInv, TypeOK, Fail, State
    <2>3. pc' \in [Tasks -> Place] /\ pos' \in [Tasks -> Nat]
      BY <1>27 DEF IInv, TypeOK, Fail, Leave, Goto, Place
    <2> QED BY <1>27, <2>1, <2>2, <2>3
            DEF IInv, TypeOK, Fail, Running, control, world
  <1>28. ASSUME NEW t \in Tasks, Interrupt(t) PROVE TypeOK'
    <2>1. pc' \in [Tasks -> Place] /\ pos' \in [Tasks -> Nat]
      BY <1>28 DEF IInv, TypeOK, Interrupt, Leave, Goto, Place
    <2>2. call' \in [Tasks -> [Keys -> CallRow]]
      <3>1. CASE pc[t] \in {"execute", "effected"}
        <4>1. call' = [call EXCEPT ![t][Key(t)] = "error"]
          BY <1>28, <3>1 DEF Interrupt, SetCall
        <4> QED BY <4>1, <1>k DEF IInv, TypeOK, CallRow
      <3>2. CASE pc[t] \notin {"execute", "effected"}
        BY <1>28, <3>2 DEF IInv, TypeOK, Interrupt
      <3> QED BY <3>1, <3>2
    <2> QED BY <1>28, <2>1, <2>2
            DEF IInv, TypeOK, Interrupt, control, taskRows, reviewRows, world
  <1>29. ASSUME Stop PROVE TypeOK'
    BY <1>29, <1>k, <1>s, CountsAssumption DEF IInv, TypeOK, Stop, rows, taskRows, reviewRows, world, control, State, Place, Goto
  <1>30. ASSUME Exit PROVE TypeOK'
    BY <1>30, CountsAssumption
    DEF IInv, TypeOK, StopBudget, Exit, Down, rows, taskRows, reviewRows, world, Place
  <1>31. ASSUME NEW tearing \in SUBSET Tasks, Crash(tearing) PROVE TypeOK'
    BY <1>31, <1>k, <1>s, CountsAssumption DEF IInv, TypeOK, Crash, rows, taskRows, reviewRows, world, control, Down, State, Place, Goto
  <1>32. ASSUME NEW swept \in SUBSET Orphans, NEW overdue \in Overdues, Start(swept, overdue) PROVE TypeOK'
    <2>1. CASE RecoverRaises(swept, overdue)
      BY <1>32, <2>1 DEF IInv, TypeOK, Start, rows, taskRows, reviewRows, world
    <2>2. CASE ~RecoverRaises(swept, overdue)
      <3>1. Recover(swept, overdue)
        BY <1>32, <2>2 DEF Start
      <3> QED BY <1>32, <2>2, <3>1, <1>r DEF IInv, TypeOK, Start, world
    <2> QED BY <2>1, <2>2
  <1>33. CASE UNCHANGED vars
    BY <1>33 DEF IInv, TypeOK, vars, rows, taskRows, reviewRows, world, control
  <1> QED
    BY <1>1, <1>2, <1>3, <1>4, <1>5, <1>6, <1>7, <1>8, <1>9, <1>10, <1>11, <1>12, <1>13, <1>14, <1>15, <1>16, <1>17, <1>18, <1>19, <1>20, <1>21, <1>22, <1>23, <1>24, <1>25, <1>26, <1>27, <1>28, <1>29, <1>30, <1>31, <1>32, <1>33
    DEF Next, Owner, Loop, Scan, Process, Run, Invoke

\* Runners and rows stay in step.
LEMMA PlacesStep ==
    ASSUME IInv, [Next]_vars
    PROVE  Places'
  <1>s. ASSUME NEW t \in Tasks, NEW target \in State, To(t, target)
        PROVE  /\ status' = [status EXCEPT ![t] = target]
               /\ status' \in [Tasks -> State] /\ mission' \in [Missions -> State]
    BY <1>s, ToType DEF IInv
  <1>t. /\ status \in [Tasks -> State] /\ status' \in [Tasks -> State]
        /\ pc \in [Tasks -> Place] /\ active \subseteq Tasks /\ Places
    BY TypeStep DEF IInv, TypeOK, Places
  <1>r. ASSUME NEW swept \in SUBSET Orphans, NEW overdue \in Overdues,
               Recover(swept, overdue), ~RecoverRaises(swept, overdue)
        PROVE  \A u \in Tasks : status'[u] = status[u]
                   \/ (pc[u] \in {"idle", "done"} /\ status'[u] \in {"queued", "failed"})
    <2>1. \A u \in swept : pc[u] = "idle"
      BY <1>t DEF Places, Orphans, RunnersActive
    <2>2. \A a \in overdue : pc[a[1]] \in {"idle", "done"}
      BY <1>r, <1>t DEF Overdues, RecoverRaises, Places, RowFollowsRunner
    <2> SUFFICES ASSUME NEW u \in Tasks
                 PROVE  status'[u] = status[u]
                        \/ (pc[u] \in {"idle", "done"} /\ status'[u] \in {"queued", "failed"})
      OBVIOUS
    <2>4. CASE u \in swept
      BY <1>r, <2>1, <2>4 DEF Recover, Transition
    <2>5. CASE u \notin swept /\ u \in Expiring(overdue)
      BY <1>r, <2>2, <2>5 DEF Recover, Transition, Resolved, Expiring
    <2>6. CASE u \notin swept /\ u \notin Expiring(overdue)
      BY <1>r, <2>6 DEF Recover, Transition
    <2> QED BY <2>4, <2>5, <2>6
  <1>1. ASSUME Submit PROVE Places'
    BY <1>1, <1>t, <1>s DEF Places, RunnersActive, RowFollowsRunner, FailureCanBeRecorded, Durable, TERMINAL, Submit, rows, taskRows, reviewRows, world, control, State, Goto
  <1>2. ASSUME NEW t \in Tasks, NEW k \in Keys, NEW answer \in {"approved", "denied"}, Resolve(t, k, answer) PROVE Places'
    BY <1>2, <1>t, <1>s DEF Places, RunnersActive, RowFollowsRunner, FailureCanBeRecorded, Durable, TERMINAL, Resolve, rows, taskRows, reviewRows, world, control, Resolved, State, Goto
  <1>3. ASSUME NEW t \in Tasks, Cancel(t) PROVE Places'
    BY <1>3, <1>t, <1>s DEF Places, RunnersActive, RowFollowsRunner, FailureCanBeRecorded, Durable, TERMINAL, Cancel, rows, taskRows, reviewRows, world, control, validate_transition, ALLOWED, Free, InTurn, Place, State, Goto
  <1>4. ASSUME NEW swept \in SUBSET Orphans, NEW overdue \in Overdues, NEW reaped \in SUBSET active, Poll(swept, overdue, reaped) PROVE Places'
    <2>1. CASE RecoverRaises(swept, overdue)
      BY <1>4, <2>1, <1>t DEF Places, RunnersActive, RowFollowsRunner, FailureCanBeRecorded, Durable, TERMINAL, Poll, rows, taskRows
    <2>2. CASE ~RecoverRaises(swept, overdue)
      <3>1. \A u \in Tasks : status'[u] = status[u]
                \/ (pc[u] \in {"idle", "done"} /\ status'[u] \in {"queued", "failed"})
        BY <1>4, <2>2, <1>r, <1>t DEF Poll
      <3> QED BY <1>4, <2>2, <3>1, <1>t DEF Places, RunnersActive, RowFollowsRunner, FailureCanBeRecorded, Durable, TERMINAL, Poll
    <2> QED BY <2>1, <2>2
  <1>5. ASSUME NEW t \in Tasks, ScanSkips(t) PROVE Places'
    BY <1>5, <1>t, <1>s DEF Places, RunnersActive, RowFollowsRunner, FailureCanBeRecorded, Durable, TERMINAL, ScanSkips, rows, taskRows, reviewRows, world, control, Scanning, Listed, State, Goto
  <1>6. ASSUME NEW t \in Tasks, ScanCancels(t) PROVE Places'
    BY <1>6, <1>t, <1>s DEF Places, RunnersActive, RowFollowsRunner, FailureCanBeRecorded, Durable, TERMINAL, ScanCancels, rows, taskRows, reviewRows, world, control, Scanning, Listed, State, Goto
  <1>7. ASSUME NEW t \in Tasks, ScanBlocks(t) PROVE Places'
    BY <1>7, <1>t, <1>s DEF Places, RunnersActive, RowFollowsRunner, FailureCanBeRecorded, Durable, TERMINAL, ScanBlocks, rows, taskRows, reviewRows, world, control, Scanning, Listed, State, Goto
  <1>8. ASSUME NEW t \in Tasks, ScanStarts(t) PROVE Places'
    BY <1>8, <1>t, <1>s DEF Places, RunnersActive, RowFollowsRunner, FailureCanBeRecorded, Durable, TERMINAL, ScanStarts, rows, taskRows, reviewRows, world, control, Scanning, Listed, Unblock, Runnable, State, Goto
  <1>9. ASSUME NEW t \in Tasks, ScanBreaks(t) PROVE Places'
    BY <1>9, <1>t, <1>s DEF Places, RunnersActive, RowFollowsRunner, FailureCanBeRecorded, Durable, TERMINAL, ScanBreaks, rows, taskRows, reviewRows, world, control, Scanning, Listed, Unblock, Runnable, State, Goto
  <1>10. ASSUME NEW t \in Tasks, Begin(t) PROVE Places'
    BY <1>10, <1>t, <1>s DEF Places, RunnersActive, RowFollowsRunner, FailureCanBeRecorded, Durable, TERMINAL, Begin, rows, taskRows, reviewRows, world, control, Running, Assign, State, Goto
  <1>11. ASSUME NEW t \in Tasks, BeginRefused(t) PROVE Places'
    BY <1>11, <1>t, <1>s DEF Places, RunnersActive, RowFollowsRunner, FailureCanBeRecorded, Durable, TERMINAL, BeginRefused, rows, taskRows, reviewRows, world, control, Running, Assign, State, Goto
  <1>12. ASSUME NEW t \in Tasks, ModelReturns(t) PROVE Places'
    BY <1>12, <1>t, <1>s DEF Places, RunnersActive, RowFollowsRunner, FailureCanBeRecorded, Durable, TERMINAL, ModelReturns, rows, taskRows, reviewRows, world, control, Running, State, Goto
  <1>13. ASSUME NEW t \in Tasks, ModelRaises(t) PROVE Places'
    BY <1>13, <1>t, <1>s DEF Places, RunnersActive, RowFollowsRunner, FailureCanBeRecorded, Durable, TERMINAL, ModelRaises, rows, taskRows, reviewRows, world, control, Running, State, Goto
  <1>14. ASSUME NEW t \in Tasks, InvokeRefused(t) PROVE Places'
    BY <1>14, <1>t, <1>s DEF Places, RunnersActive, RowFollowsRunner, FailureCanBeRecorded, Durable, TERMINAL, InvokeRefused, rows, taskRows, reviewRows, world, control, Invoking, Running, Admissible, State, Goto
  <1>15. ASSUME NEW t \in Tasks, InvokeReuses(t) PROVE Places'
    BY <1>15, <1>t, <1>s DEF Places, RunnersActive, RowFollowsRunner, FailureCanBeRecorded, Durable, TERMINAL, InvokeReuses, rows, taskRows, reviewRows, world, control, Invoking, Running, Advance, Admissible, State, Goto
  <1>16. ASSUME NEW t \in Tasks, NEW d \in Decisions, InvokeAsks(t, d) PROVE Places'
    BY <1>16, <1>t, <1>s DEF Places, RunnersActive, RowFollowsRunner, FailureCanBeRecorded, Durable, TERMINAL, InvokeAsks, rows, taskRows, reviewRows, world, control, Invoking, Running, Leave, AwaitOwner, Admissible, State, Goto
  <1>17. ASSUME NEW t \in Tasks, NEW d \in Decisions, InvokeDenied(t, d) PROVE Places'
    BY <1>17, <1>t, <1>s DEF Places, RunnersActive, RowFollowsRunner, FailureCanBeRecorded, Durable, TERMINAL, InvokeDenied, rows, taskRows, reviewRows, world, control, Invoking, Running, Admissible, State, Goto
  <1>18. ASSUME NEW t \in Tasks, NEW d \in Decisions, InvokeGated(t, d) PROVE Places'
    BY <1>18, <1>t, <1>s DEF Places, RunnersActive, RowFollowsRunner, FailureCanBeRecorded, Durable, TERMINAL, InvokeGated, rows, taskRows, reviewRows, world, control, Invoking, Running, Admissible, State, Goto
  <1>19. ASSUME NEW t \in Tasks, NEW d \in Decisions, InvokePermits(t, d) PROVE Places'
    BY <1>19, <1>t, <1>s DEF Places, RunnersActive, RowFollowsRunner, FailureCanBeRecorded, Durable, TERMINAL, InvokePermits, rows, taskRows, reviewRows, world, control, Invoking, Running, Admissible, State, Goto
  <1>20. ASSUME NEW t \in Tasks, StartExecution(t) PROVE Places'
    BY <1>20, <1>t, <1>s DEF Places, RunnersActive, RowFollowsRunner, FailureCanBeRecorded, Durable, TERMINAL, StartExecution, rows, taskRows, reviewRows, world, control, Running, State, Goto
  <1>21. ASSUME NEW t \in Tasks, Effect(t) PROVE Places'
    BY <1>21, <1>t, <1>s DEF Places, RunnersActive, RowFollowsRunner, FailureCanBeRecorded, Durable, TERMINAL, Effect, rows, taskRows, reviewRows, world, control, State, Goto
  <1>22. ASSUME NEW t \in Tasks, ToolReturns(t) PROVE Places'
    BY <1>22, <1>t, <1>s DEF Places, RunnersActive, RowFollowsRunner, FailureCanBeRecorded, Durable, TERMINAL, ToolReturns, rows, taskRows, reviewRows, world, control, Running, Advance, State, Goto
  <1>23. ASSUME NEW t \in Tasks, ToolFails(t) PROVE Places'
    BY <1>23, <1>t, <1>s DEF Places, RunnersActive, RowFollowsRunner, FailureCanBeRecorded, Durable, TERMINAL, ToolFails, rows, taskRows, reviewRows, world, control, Running, State, Goto
  <1>24. ASSUME NEW t \in Tasks, Handoff(t) PROVE Places'
    BY <1>24, <1>t, <1>s DEF Places, RunnersActive, RowFollowsRunner, FailureCanBeRecorded, Durable, TERMINAL, Handoff, rows, taskRows, reviewRows, world, control, Running, State, Goto
  <1>25. ASSUME NEW t \in Tasks, NEW v \in {"approve", "revise", "reject"}, Review(t, v) PROVE Places'
    BY <1>25, <1>t, <1>s DEF Places, RunnersActive, RowFollowsRunner, FailureCanBeRecorded, Durable, TERMINAL, Review, rows, taskRows, reviewRows, world, control, Running, Leave, State, Goto
  <1>26. ASSUME NEW t \in Tasks, ReviewRaises(t) PROVE Places'
    BY <1>26, <1>t, <1>s DEF Places, RunnersActive, RowFollowsRunner, FailureCanBeRecorded, Durable, TERMINAL, ReviewRaises, rows, taskRows, reviewRows, world, control, Running, State, Goto
  <1>27. ASSUME NEW t \in Tasks, Fail(t) PROVE Places'
    BY <1>27, <1>t, <1>s DEF Places, RunnersActive, RowFollowsRunner, FailureCanBeRecorded, Durable, TERMINAL, Fail, rows, taskRows, reviewRows, world, control, Running, Leave, State, Goto
  <1>28. ASSUME NEW t \in Tasks, Interrupt(t) PROVE Places'
    BY <1>28, <1>t, <1>s DEF Places, RunnersActive, RowFollowsRunner, FailureCanBeRecorded, Durable, TERMINAL, Interrupt, rows, taskRows, reviewRows, world, control, Leave, Free, InTurn, Place, State, Goto
  <1>29. ASSUME Stop PROVE Places'
    BY <1>29, <1>t, <1>s DEF Places, RunnersActive, RowFollowsRunner, FailureCanBeRecorded, Durable, TERMINAL, Stop, rows, taskRows, reviewRows, world, control, Free, InTurn, Place, State, Goto
  <1>30. ASSUME Exit PROVE Places'
    BY <1>30, <1>t, <1>s DEF Places, RunnersActive, RowFollowsRunner, FailureCanBeRecorded, Durable, TERMINAL, Exit, rows, taskRows, reviewRows, world, control, Down, State, Goto
  <1>31. ASSUME NEW tearing \in SUBSET Tasks, Crash(tearing) PROVE Places'
    BY <1>31, <1>t, <1>s DEF Places, RunnersActive, RowFollowsRunner, FailureCanBeRecorded, Durable, TERMINAL, Crash, rows, taskRows, reviewRows, world, control, Down, State, Goto
  <1>32. ASSUME NEW swept \in SUBSET Orphans, NEW overdue \in Overdues, Start(swept, overdue) PROVE Places'
    <2>1. CASE RecoverRaises(swept, overdue)
      BY <1>32, <2>1, <1>t DEF Places, RunnersActive, RowFollowsRunner, FailureCanBeRecorded, Durable, TERMINAL, Start, rows, taskRows
    <2>2. CASE ~RecoverRaises(swept, overdue)
      <3>1. \A u \in Tasks : status'[u] = status[u]
                \/ (pc[u] \in {"idle", "done"} /\ status'[u] \in {"queued", "failed"})
        BY <1>32, <2>2, <1>r, <1>t DEF Start
      <3> QED BY <1>32, <2>2, <3>1, <1>t DEF Places, RunnersActive, RowFollowsRunner, FailureCanBeRecorded, Durable, TERMINAL, Start
    <2> QED BY <2>1, <2>2
  <1>33. CASE UNCHANGED vars
    BY <1>33 DEF IInv, Places, RunnersActive, RowFollowsRunner, FailureCanBeRecorded, Durable, TERMINAL, vars, rows, taskRows, reviewRows, world, control
  <1> QED
    BY <1>1, <1>2, <1>3, <1>4, <1>5, <1>6, <1>7, <1>8, <1>9, <1>10, <1>11, <1>12, <1>13, <1>14, <1>15, <1>16, <1>17, <1>18, <1>19, <1>20, <1>21, <1>22, <1>23, <1>24, <1>25, <1>26, <1>27, <1>28, <1>29, <1>30, <1>31, <1>32, <1>33
    DEF Next, Owner, Loop, Scan, Process, Run, Invoke

\* recover never raises: no retrying row is committed, and an open approval
\* belongs to a task that waits for it alone.
LEMMA RecoverNeverRaises ==
    ASSUME IInv, NEW swept \in SUBSET Orphans, NEW overdue \in Overdues
    PROVE  ~RecoverRaises(swept, overdue)
  <1>1. \A t \in swept : status[t] # "retrying"
    BY DEF IInv, Durable, Orphans
  <1>2. \A a \in overdue : a \in Tasks \X Keys /\ approval[a[1]][a[2]] = "pending"
    BY DEF Overdues
  <1>3. \A a \in overdue : status[a[1]] = "waiting_approval"
    BY <1>2 DEF IInv, PendingIffWaiting
  <1>4. \A a, b \in overdue : a[1] = b[1] => a = b
    <2> SUFFICES ASSUME NEW a \in overdue, NEW b \in overdue, a[1] = b[1] PROVE a = b
      OBVIOUS
    <2>1. a[1] \in Tasks /\ a[2] \in Keys /\ b[2] \in Keys
      BY <1>2
    <2>2. a[2] = b[2]
      BY <1>2, <1>3, <2>1 DEF IInv, PendingIffWaiting
    <2> QED BY <1>2, <2>2
  <1> QED BY <1>1, <1>3, <1>4 DEF RecoverRaises

\* Revisions stay paid, and a terminal task stays terminal.
LEMMA BudgetStep ==
    ASSUME IInv, [Next]_vars
    PROVE  Budget'
  <1>s. ASSUME NEW t \in Tasks, NEW target \in State, To(t, target)
        PROVE  /\ status' = [status EXCEPT ![t] = target]
               /\ status' \in [Tasks -> State] /\ mission' \in [Missions -> State]
    BY <1>s, ToType DEF IInv
  <1>t. /\ status \in [Tasks -> State] /\ status' \in [Tasks -> State]
        /\ \A u \in Tasks : revision[u] \in Nat /\ revision'[u] \in Nat
        /\ \A u \in Tasks : retry_count[u] \in Nat /\ retry_count'[u] \in Nat
        /\ retry_count \in [Tasks -> 0..RetryLimit] /\ revision \in [Tasks -> Revisions]
        /\ restarts \in Nat /\ MaxRestarts \in Nat
        /\ Budget /\ Places
    BY TypeStep, CountsAssumption DEF IInv, TypeOK, Revisions, Budget, Places
  <1>r. ASSUME NEW swept \in SUBSET Orphans, NEW overdue \in Overdues, Recover(swept, overdue)
        PROVE  \A u \in Tasks : /\ status[u] \in TERMINAL => status'[u] \in TERMINAL
                                /\ revision'[u] = revision[u] /\ retry_count[u] <= retry_count'[u]
    <2>1. \A u \in Tasks : retry_count[u] <= retry_count'[u]
      BY <1>r, <1>t DEF Recover, Paid
    <2>2. \A u \in Tasks : status[u] \in TERMINAL => status'[u] \in TERMINAL
      BY <1>r DEF Recover, Transition, Resolved, Orphans, TERMINAL
    <2> QED BY <1>r, <2>1, <2>2 DEF Recover
  <1>1. ASSUME Submit PROVE Budget'
    BY <1>1, <1>t, <1>s DEF Budget, StopBudget, RevisionsPaid, Places, RowFollowsRunner, TERMINAL, Submit, rows, taskRows, reviewRows, world, control, State
  <1>2. ASSUME NEW t \in Tasks, NEW k \in Keys, NEW answer \in {"approved", "denied"}, Resolve(t, k, answer) PROVE Budget'
    BY <1>2, <1>t, <1>s DEF Budget, StopBudget, RevisionsPaid, Places, RowFollowsRunner, TERMINAL, Resolve, rows, taskRows, reviewRows, world, control, Resolved, State
  <1>3. ASSUME NEW t \in Tasks, Cancel(t) PROVE Budget'
    BY <1>3, <1>t, <1>s DEF Budget, StopBudget, RevisionsPaid, Places, RowFollowsRunner, TERMINAL, Cancel, rows, taskRows, reviewRows, world, control, State
  <1>4. ASSUME NEW swept \in SUBSET Orphans, NEW overdue \in Overdues, NEW reaped \in SUBSET active, Poll(swept, overdue, reaped) PROVE Budget'
    <2>1. Recover(swept, overdue)
      BY <1>4, RecoverNeverRaises DEF Poll
    <2>2. \A u \in Tasks : /\ status[u] \in TERMINAL => status'[u] \in TERMINAL
                          /\ revision'[u] = revision[u] /\ retry_count[u] <= retry_count'[u]
      BY <1>r, <2>1
    <2> QED BY <1>4, <1>t, <2>2 DEF Budget, StopBudget, RevisionsPaid, Poll
  <1>5. ASSUME NEW t \in Tasks, ScanSkips(t) PROVE Budget'
    BY <1>5, <1>t, <1>s DEF Budget, StopBudget, RevisionsPaid, Places, RowFollowsRunner, TERMINAL, ScanSkips, rows, taskRows, reviewRows, world, control, Scanning, Listed, State
  <1>6. ASSUME NEW t \in Tasks, ScanCancels(t) PROVE Budget'
    BY <1>6, <1>t, <1>s DEF Budget, StopBudget, RevisionsPaid, Places, RowFollowsRunner, TERMINAL, ScanCancels, rows, taskRows, reviewRows, world, control, Scanning, Listed, State
  <1>7. ASSUME NEW t \in Tasks, ScanBlocks(t) PROVE Budget'
    BY <1>7, <1>t, <1>s DEF Budget, StopBudget, RevisionsPaid, Places, RowFollowsRunner, TERMINAL, ScanBlocks, rows, taskRows, reviewRows, world, control, Scanning, Listed, State
  <1>8. ASSUME NEW t \in Tasks, ScanStarts(t) PROVE Budget'
    BY <1>8, <1>t, <1>s DEF Budget, StopBudget, RevisionsPaid, Places, RowFollowsRunner, TERMINAL, ScanStarts, rows, taskRows, reviewRows, world, control, Scanning, Listed, Unblock, Runnable, State
  <1>9. ASSUME NEW t \in Tasks, ScanBreaks(t) PROVE Budget'
    BY <1>9, <1>t, <1>s DEF Budget, StopBudget, RevisionsPaid, Places, RowFollowsRunner, TERMINAL, ScanBreaks, rows, taskRows, reviewRows, world, control, Scanning, Listed, Unblock, Runnable, State
  <1>10. ASSUME NEW t \in Tasks, Begin(t) PROVE Budget'
    BY <1>10, <1>t, <1>s DEF Budget, StopBudget, RevisionsPaid, Places, RowFollowsRunner, TERMINAL, Begin, rows, taskRows, reviewRows, world, control, Running, Assign, State
  <1>11. ASSUME NEW t \in Tasks, BeginRefused(t) PROVE Budget'
    BY <1>11, <1>t, <1>s DEF Budget, StopBudget, RevisionsPaid, Places, RowFollowsRunner, TERMINAL, BeginRefused, rows, taskRows, reviewRows, world, control, Running, Assign, State
  <1>12. ASSUME NEW t \in Tasks, ModelReturns(t) PROVE Budget'
    BY <1>12, <1>t, <1>s DEF Budget, StopBudget, RevisionsPaid, Places, RowFollowsRunner, TERMINAL, ModelReturns, rows, taskRows, reviewRows, world, control, Running, State
  <1>13. ASSUME NEW t \in Tasks, ModelRaises(t) PROVE Budget'
    BY <1>13, <1>t, <1>s DEF Budget, StopBudget, RevisionsPaid, Places, RowFollowsRunner, TERMINAL, ModelRaises, rows, taskRows, reviewRows, world, control, Running, State
  <1>14. ASSUME NEW t \in Tasks, InvokeRefused(t) PROVE Budget'
    BY <1>14, <1>t, <1>s DEF Budget, StopBudget, RevisionsPaid, Places, RowFollowsRunner, TERMINAL, InvokeRefused, rows, taskRows, reviewRows, world, control, Invoking, Running, Admissible, State
  <1>15. ASSUME NEW t \in Tasks, InvokeReuses(t) PROVE Budget'
    BY <1>15, <1>t, <1>s DEF Budget, StopBudget, RevisionsPaid, Places, RowFollowsRunner, TERMINAL, InvokeReuses, rows, taskRows, reviewRows, world, control, Invoking, Running, Admissible, State
  <1>16. ASSUME NEW t \in Tasks, NEW d \in Decisions, InvokeAsks(t, d) PROVE Budget'
    BY <1>16, <1>t, <1>s DEF Budget, StopBudget, RevisionsPaid, Places, RowFollowsRunner, TERMINAL, InvokeAsks, rows, taskRows, reviewRows, world, control, Invoking, Running, Admissible, State
  <1>17. ASSUME NEW t \in Tasks, NEW d \in Decisions, InvokeDenied(t, d) PROVE Budget'
    BY <1>17, <1>t, <1>s DEF Budget, StopBudget, RevisionsPaid, Places, RowFollowsRunner, TERMINAL, InvokeDenied, rows, taskRows, reviewRows, world, control, Invoking, Running, Admissible, State
  <1>18. ASSUME NEW t \in Tasks, NEW d \in Decisions, InvokeGated(t, d) PROVE Budget'
    BY <1>18, <1>t, <1>s DEF Budget, StopBudget, RevisionsPaid, Places, RowFollowsRunner, TERMINAL, InvokeGated, rows, taskRows, reviewRows, world, control, Invoking, Running, Admissible, State
  <1>19. ASSUME NEW t \in Tasks, NEW d \in Decisions, InvokePermits(t, d) PROVE Budget'
    BY <1>19, <1>t, <1>s DEF Budget, StopBudget, RevisionsPaid, Places, RowFollowsRunner, TERMINAL, InvokePermits, rows, taskRows, reviewRows, world, control, Invoking, Running, Admissible, State
  <1>20. ASSUME NEW t \in Tasks, StartExecution(t) PROVE Budget'
    BY <1>20, <1>t, <1>s DEF Budget, StopBudget, RevisionsPaid, Places, RowFollowsRunner, TERMINAL, StartExecution, rows, taskRows, reviewRows, world, control, Running, State
  <1>21. ASSUME NEW t \in Tasks, Effect(t) PROVE Budget'
    BY <1>21, <1>t, <1>s DEF Budget, StopBudget, RevisionsPaid, Places, RowFollowsRunner, TERMINAL, Effect, rows, taskRows, reviewRows, world, control, State
  <1>22. ASSUME NEW t \in Tasks, ToolReturns(t) PROVE Budget'
    BY <1>22, <1>t, <1>s DEF Budget, StopBudget, RevisionsPaid, Places, RowFollowsRunner, TERMINAL, ToolReturns, rows, taskRows, reviewRows, world, control, Running, State
  <1>23. ASSUME NEW t \in Tasks, ToolFails(t) PROVE Budget'
    BY <1>23, <1>t, <1>s DEF Budget, StopBudget, RevisionsPaid, Places, RowFollowsRunner, TERMINAL, ToolFails, rows, taskRows, reviewRows, world, control, Running, State
  <1>24. ASSUME NEW t \in Tasks, Handoff(t) PROVE Budget'
    BY <1>24, <1>t, <1>s DEF Budget, StopBudget, RevisionsPaid, Places, RowFollowsRunner, TERMINAL, Handoff, rows, taskRows, reviewRows, world, control, Running, State
  <1>25. ASSUME NEW t \in Tasks, NEW v \in {"approve", "revise", "reject"}, Review(t, v) PROVE Budget'
    BY <1>25, <1>t, <1>s DEF Budget, StopBudget, RevisionsPaid, Places, RowFollowsRunner, TERMINAL, Review, rows, taskRows, reviewRows, world, control, Running, Paid, CanRetry, State
  <1>26. ASSUME NEW t \in Tasks, ReviewRaises(t) PROVE Budget'
    BY <1>26, <1>t, <1>s DEF Budget, StopBudget, RevisionsPaid, Places, RowFollowsRunner, TERMINAL, ReviewRaises, rows, taskRows, reviewRows, world, control, Running, State
  <1>27. ASSUME NEW t \in Tasks, Fail(t) PROVE Budget'
    <2>1. CASE status[t] \in TERMINAL
      BY <1>27, <1>t, <2>1 DEF Budget, StopBudget, RevisionsPaid, Fail, Running, control
    <2>2. CASE status[t] \notin TERMINAL
      <3>1. retry_count'[t] >= retry_count[t] /\ \A u \in Tasks \ {t} : retry_count'[u] = retry_count[u]
        BY <1>27, <1>t, <2>2 DEF Fail, Paid
      <3>2. \A u \in Tasks \ {t} : status'[u] = status[u]
        BY <1>27, <1>t, <1>s, <2>2 DEF Fail, State
      <3> QED BY <1>27, <1>t, <2>2, <3>1, <3>2 DEF Budget, StopBudget, RevisionsPaid, Fail, Running, control
    <2> QED BY <2>1, <2>2
  <1>28. ASSUME NEW t \in Tasks, Interrupt(t) PROVE Budget'
    BY <1>28, <1>t, <1>s DEF Budget, StopBudget, RevisionsPaid, Places, RowFollowsRunner, TERMINAL, Interrupt, rows, taskRows, reviewRows, world, control, State
  <1>29. ASSUME Stop PROVE Budget'
    BY <1>29, <1>t, <1>s DEF Budget, StopBudget, RevisionsPaid, Places, RowFollowsRunner, TERMINAL, Stop, rows, taskRows, reviewRows, world, control, State
  <1>30. ASSUME Exit PROVE Budget'
    BY <1>30, <1>t, <1>s DEF Budget, StopBudget, RevisionsPaid, Places, RowFollowsRunner, TERMINAL, Exit, rows, taskRows, reviewRows, world, control, Down, State
  <1>31. ASSUME NEW tearing \in SUBSET Tasks, Crash(tearing) PROVE Budget'
    BY <1>31, <1>t, <1>s DEF Budget, StopBudget, RevisionsPaid, Places, RowFollowsRunner, TERMINAL, Crash, rows, taskRows, reviewRows, world, control, Down, State
  <1>32. ASSUME NEW swept \in SUBSET Orphans, NEW overdue \in Overdues, Start(swept, overdue) PROVE Budget'
    <2>1. Recover(swept, overdue)
      BY <1>32, RecoverNeverRaises DEF Start
    <2>2. \A u \in Tasks : /\ status[u] \in TERMINAL => status'[u] \in TERMINAL
                          /\ revision'[u] = revision[u] /\ retry_count[u] <= retry_count'[u]
      BY <1>r, <2>1
    <2> QED BY <1>32, <1>t, <2>2 DEF Budget, StopBudget, RevisionsPaid, Start
  <1>33. CASE UNCHANGED vars
    BY <1>33, <1>t DEF Budget, StopBudget, RevisionsPaid, vars, rows, taskRows, reviewRows, world, control
  <1> QED
    BY <1>1, <1>2, <1>3, <1>4, <1>5, <1>6, <1>7, <1>8, <1>9, <1>10, <1>11, <1>12, <1>13, <1>14, <1>15, <1>16, <1>17, <1>18, <1>19, <1>20, <1>21, <1>22, <1>23, <1>24, <1>25, <1>26, <1>27, <1>28, <1>29, <1>30, <1>31, <1>32, <1>33
    DEF Next, Owner, Loop, Scan, Process, Run, Invoke

\* Approvals and waiting tasks stay in step, and the loop survives.
LEMMA ApprovalStep ==
    ASSUME IInv, [Next]_vars
    PROVE  Approvals'
  <1>k. \A t \in Tasks : Key(t) \in Keys
    BY KeyType DEF IInv
  <1>s. ASSUME NEW t \in Tasks, NEW target \in State, To(t, target)
        PROVE  /\ status' = [status EXCEPT ![t] = target]
               /\ status' \in [Tasks -> State] /\ mission' \in [Missions -> State]
    BY <1>s, ToType DEF IInv
  <1>t. /\ status \in [Tasks -> State] /\ approval \in [Tasks -> [Keys -> ApprovalRow]]
        /\ Approvals /\ Places
    BY DEF IInv, TypeOK, Approvals, Places
  <1>r. ASSUME NEW swept \in SUBSET Orphans, NEW overdue \in Overdues, Recover(swept, overdue)
        PROVE  PendingIffWaiting'
    <2> SUFFICES ASSUME NEW u \in Tasks
                 PROVE  IF status'[u] = "waiting_approval"
                        THEN \E k \in Keys : /\ approval'[u][k] = "pending"
                                             /\ \A j \in Keys : approval'[u][j] = "pending" => j = k
                        ELSE \A k \in Keys : approval'[u][k] # "pending"
      BY DEF PendingIffWaiting
    <2>1. \A k \in Keys : approval'[u][k] =
              IF <<u, k>> \in overdue THEN "expired" ELSE approval[u][k]
      BY <1>r DEF Recover
    <2>2. \A a \in overdue : /\ a = <<a[1], a[2]>> /\ a[1] \in Tasks /\ a[2] \in Keys
                            /\ approval[a[1]][a[2]] = "pending"
      BY DEF Overdues
    <2>3. CASE u \in Expiring(overdue)
      <3>1. PICK a \in overdue : a[1] = u
        BY <2>3 DEF Expiring
      <3>2. status[u] = "waiting_approval"
        BY <1>t, <2>2, <3>1 DEF Approvals, PendingIffWaiting
      <3>3. \A k \in Keys : approval[u][k] = "pending" => k = a[2]
        BY <1>t, <2>2, <3>1, <3>2 DEF Approvals, PendingIffWaiting
      <3>4. u \notin swept
        BY <3>2 DEF Orphans
      <3>5. status'[u] = "failed"
        BY <1>r, <2>3, <3>4 DEF Recover, Transition, Resolved
      <3>6. <<u, a[2]>> \in overdue
        BY <2>2, <3>1
      <3> QED BY <2>1, <3>3, <3>5, <3>6
    <2>4. CASE u \notin Expiring(overdue)
      <3>1. \A k \in Keys : approval'[u][k] = approval[u][k]
        <4>1. \A k \in Keys : <<u, k>> \in overdue => <<u, k>>[1] \in Expiring(overdue)
          BY DEF Expiring
        <4>2. \A k \in Keys : <<u, k>> \notin overdue
          BY <2>4, <4>1
        <4> QED BY <2>1, <4>2
      <3>2. CASE u \in swept
        <4>1. status[u] # "waiting_approval" /\ status'[u] # "waiting_approval"
          BY <1>r, <3>2 DEF Orphans, Recover, Transition
        <4> QED BY <1>t, <3>1, <4>1 DEF Approvals, PendingIffWaiting
      <3>3. CASE u \notin swept
        <4>1. status'[u] = status[u]
          BY <1>r, <2>4, <3>3 DEF Recover, Transition
        <4> QED BY <1>t, <3>1, <4>1 DEF Approvals, PendingIffWaiting
      <3> QED BY <3>2, <3>3
    <2> QED BY <2>3, <2>4
  <1>1. ASSUME Submit PROVE Approvals'
    BY <1>1, <1>k, <1>t, <1>s DEF Approvals, LoopSurvives, PendingIffWaiting, Places, RowFollowsRunner, FailureCanBeRecorded, TERMINAL, Submit, rows, taskRows, reviewRows, world, control, State
  <1>2. ASSUME NEW t \in Tasks, NEW k \in Keys, NEW answer \in {"approved", "denied"}, Resolve(t, k, answer) PROVE Approvals'
    BY <1>2, <1>k, <1>t, <1>s DEF Approvals, LoopSurvives, PendingIffWaiting, Places, RowFollowsRunner, FailureCanBeRecorded, TERMINAL, Resolve, rows, taskRows, reviewRows, world, control, Resolved, State
  <1>3. ASSUME NEW t \in Tasks, Cancel(t) PROVE Approvals'
    BY <1>3, <1>k, <1>t, <1>s DEF Approvals, LoopSurvives, PendingIffWaiting, Places, RowFollowsRunner, FailureCanBeRecorded, TERMINAL, Cancel, rows, taskRows, reviewRows, world, control, ExpiredApprovals, State
  <1>4. ASSUME NEW swept \in SUBSET Orphans, NEW overdue \in Overdues, NEW reaped \in SUBSET active, Poll(swept, overdue, reaped) PROVE Approvals'
    <2>1. Recover(swept, overdue)
      BY <1>4, RecoverNeverRaises DEF Poll
    <2>2. PendingIffWaiting'
      BY <1>r, <2>1
    <2> QED BY <1>4, <1>t, <2>2, RecoverNeverRaises DEF Approvals, LoopSurvives, Poll
  <1>5. ASSUME NEW t \in Tasks, ScanSkips(t) PROVE Approvals'
    BY <1>5, <1>k, <1>t, <1>s DEF Approvals, LoopSurvives, PendingIffWaiting, Places, RowFollowsRunner, FailureCanBeRecorded, TERMINAL, ScanSkips, rows, taskRows, reviewRows, world, control, Scanning, Listed, State
  <1>6. ASSUME NEW t \in Tasks, ScanCancels(t) PROVE Approvals'
    BY <1>6, <1>k, <1>t, <1>s DEF Approvals, LoopSurvives, PendingIffWaiting, Places, RowFollowsRunner, FailureCanBeRecorded, TERMINAL, ScanCancels, rows, taskRows, reviewRows, world, control, Scanning, Listed, State
  <1>7. ASSUME NEW t \in Tasks, ScanBlocks(t) PROVE Approvals'
    BY <1>7, <1>k, <1>t, <1>s DEF Approvals, LoopSurvives, PendingIffWaiting, Places, RowFollowsRunner, FailureCanBeRecorded, TERMINAL, ScanBlocks, rows, taskRows, reviewRows, world, control, Scanning, Listed, State
  <1>8. ASSUME NEW t \in Tasks, ScanStarts(t) PROVE Approvals'
    BY <1>8, <1>k, <1>t, <1>s DEF Approvals, LoopSurvives, PendingIffWaiting, Places, RowFollowsRunner, FailureCanBeRecorded, TERMINAL, ScanStarts, rows, taskRows, reviewRows, world, control, Scanning, Listed, Unblock, Runnable, State
  <1>9. ASSUME NEW t \in Tasks, ScanBreaks(t) PROVE Approvals'
    BY <1>9, <1>k, <1>t, <1>s DEF Approvals, LoopSurvives, PendingIffWaiting, Places, RowFollowsRunner, FailureCanBeRecorded, TERMINAL, ScanBreaks, rows, taskRows, reviewRows, world, control, Scanning, Listed, Unblock, Runnable, State
  <1>10. ASSUME NEW t \in Tasks, Begin(t) PROVE Approvals'
    BY <1>10, <1>k, <1>t, <1>s DEF Approvals, LoopSurvives, PendingIffWaiting, Places, RowFollowsRunner, FailureCanBeRecorded, TERMINAL, Begin, rows, taskRows, reviewRows, world, control, Running, Assign, State
  <1>11. ASSUME NEW t \in Tasks, BeginRefused(t) PROVE Approvals'
    BY <1>11, <1>k, <1>t, <1>s DEF Approvals, LoopSurvives, PendingIffWaiting, Places, RowFollowsRunner, FailureCanBeRecorded, TERMINAL, BeginRefused, rows, taskRows, reviewRows, world, control, Running, Assign, State
  <1>12. ASSUME NEW t \in Tasks, ModelReturns(t) PROVE Approvals'
    BY <1>12, <1>k, <1>t, <1>s DEF Approvals, LoopSurvives, PendingIffWaiting, Places, RowFollowsRunner, FailureCanBeRecorded, TERMINAL, ModelReturns, rows, taskRows, reviewRows, world, control, Running, State
  <1>13. ASSUME NEW t \in Tasks, ModelRaises(t) PROVE Approvals'
    BY <1>13, <1>k, <1>t, <1>s DEF Approvals, LoopSurvives, PendingIffWaiting, Places, RowFollowsRunner, FailureCanBeRecorded, TERMINAL, ModelRaises, rows, taskRows, reviewRows, world, control, Running, State
  <1>14. ASSUME NEW t \in Tasks, InvokeRefused(t) PROVE Approvals'
    BY <1>14, <1>k, <1>t, <1>s DEF Approvals, LoopSurvives, PendingIffWaiting, Places, RowFollowsRunner, FailureCanBeRecorded, TERMINAL, InvokeRefused, rows, taskRows, reviewRows, world, control, Invoking, Running, Admissible, State
  <1>15. ASSUME NEW t \in Tasks, InvokeReuses(t) PROVE Approvals'
    BY <1>15, <1>k, <1>t, <1>s DEF Approvals, LoopSurvives, PendingIffWaiting, Places, RowFollowsRunner, FailureCanBeRecorded, TERMINAL, InvokeReuses, rows, taskRows, reviewRows, world, control, Invoking, Running, Admissible, State
  <1>16. ASSUME NEW t \in Tasks, NEW d \in Decisions, InvokeAsks(t, d) PROVE Approvals'
    BY <1>16, <1>k, <1>t, <1>s DEF Approvals, LoopSurvives, PendingIffWaiting, Places, RowFollowsRunner, FailureCanBeRecorded, TERMINAL, InvokeAsks, rows, taskRows, reviewRows, world, control, Invoking, Running, Admissible, State
  <1>17. ASSUME NEW t \in Tasks, NEW d \in Decisions, InvokeDenied(t, d) PROVE Approvals'
    BY <1>17, <1>k, <1>t, <1>s DEF Approvals, LoopSurvives, PendingIffWaiting, Places, RowFollowsRunner, FailureCanBeRecorded, TERMINAL, InvokeDenied, rows, taskRows, reviewRows, world, control, Invoking, Running, Admissible, State
  <1>18. ASSUME NEW t \in Tasks, NEW d \in Decisions, InvokeGated(t, d) PROVE Approvals'
    BY <1>18, <1>k, <1>t, <1>s DEF Approvals, LoopSurvives, PendingIffWaiting, Places, RowFollowsRunner, FailureCanBeRecorded, TERMINAL, InvokeGated, rows, taskRows, reviewRows, world, control, Invoking, Running, Admissible, State
  <1>19. ASSUME NEW t \in Tasks, NEW d \in Decisions, InvokePermits(t, d) PROVE Approvals'
    BY <1>19, <1>k, <1>t, <1>s DEF Approvals, LoopSurvives, PendingIffWaiting, Places, RowFollowsRunner, FailureCanBeRecorded, TERMINAL, InvokePermits, rows, taskRows, reviewRows, world, control, Invoking, Running, Admissible, State
  <1>20. ASSUME NEW t \in Tasks, StartExecution(t) PROVE Approvals'
    BY <1>20, <1>k, <1>t, <1>s DEF Approvals, LoopSurvives, PendingIffWaiting, Places, RowFollowsRunner, FailureCanBeRecorded, TERMINAL, StartExecution, rows, taskRows, reviewRows, world, control, Running, State
  <1>21. ASSUME NEW t \in Tasks, Effect(t) PROVE Approvals'
    BY <1>21, <1>k, <1>t, <1>s DEF Approvals, LoopSurvives, PendingIffWaiting, Places, RowFollowsRunner, FailureCanBeRecorded, TERMINAL, Effect, rows, taskRows, reviewRows, world, control, State
  <1>22. ASSUME NEW t \in Tasks, ToolReturns(t) PROVE Approvals'
    BY <1>22, <1>k, <1>t, <1>s DEF Approvals, LoopSurvives, PendingIffWaiting, Places, RowFollowsRunner, FailureCanBeRecorded, TERMINAL, ToolReturns, rows, taskRows, reviewRows, world, control, Running, State
  <1>23. ASSUME NEW t \in Tasks, ToolFails(t) PROVE Approvals'
    BY <1>23, <1>k, <1>t, <1>s DEF Approvals, LoopSurvives, PendingIffWaiting, Places, RowFollowsRunner, FailureCanBeRecorded, TERMINAL, ToolFails, rows, taskRows, reviewRows, world, control, Running, State
  <1>24. ASSUME NEW t \in Tasks, Handoff(t) PROVE Approvals'
    BY <1>24, <1>k, <1>t, <1>s DEF Approvals, LoopSurvives, PendingIffWaiting, Places, RowFollowsRunner, FailureCanBeRecorded, TERMINAL, Handoff, rows, taskRows, reviewRows, world, control, Running, State
  <1>25. ASSUME NEW t \in Tasks, NEW v \in {"approve", "revise", "reject"}, Review(t, v) PROVE Approvals'
    BY <1>25, <1>k, <1>t, <1>s DEF Approvals, LoopSurvives, PendingIffWaiting, Places, RowFollowsRunner, FailureCanBeRecorded, TERMINAL, Review, rows, taskRows, reviewRows, world, control, Running, State
  <1>26. ASSUME NEW t \in Tasks, ReviewRaises(t) PROVE Approvals'
    BY <1>26, <1>k, <1>t, <1>s DEF Approvals, LoopSurvives, PendingIffWaiting, Places, RowFollowsRunner, FailureCanBeRecorded, TERMINAL, ReviewRaises, rows, taskRows, reviewRows, world, control, Running, State
  <1>27. ASSUME NEW t \in Tasks, Fail(t) PROVE Approvals'
    BY <1>27, <1>k, <1>t, <1>s DEF Approvals, LoopSurvives, PendingIffWaiting, Places, RowFollowsRunner, FailureCanBeRecorded, TERMINAL, Fail, rows, taskRows, reviewRows, world, control, Running, State
  <1>28. ASSUME NEW t \in Tasks, Interrupt(t) PROVE Approvals'
    BY <1>28, <1>k, <1>t, <1>s DEF Approvals, LoopSurvives, PendingIffWaiting, Places, RowFollowsRunner, FailureCanBeRecorded, TERMINAL, Interrupt, rows, taskRows, reviewRows, world, control, State
  <1>29. ASSUME Stop PROVE Approvals'
    BY <1>29, <1>k, <1>t, <1>s DEF Approvals, LoopSurvives, PendingIffWaiting, Places, RowFollowsRunner, FailureCanBeRecorded, TERMINAL, Stop, rows, taskRows, reviewRows, world, control, State
  <1>30. ASSUME Exit PROVE Approvals'
    BY <1>30, <1>k, <1>t, <1>s DEF Approvals, LoopSurvives, PendingIffWaiting, Places, RowFollowsRunner, FailureCanBeRecorded, TERMINAL, Exit, rows, taskRows, reviewRows, world, control, Down, State
  <1>31. ASSUME NEW tearing \in SUBSET Tasks, Crash(tearing) PROVE Approvals'
    BY <1>31, <1>k, <1>t, <1>s DEF Approvals, LoopSurvives, PendingIffWaiting, Places, RowFollowsRunner, FailureCanBeRecorded, TERMINAL, Crash, rows, taskRows, reviewRows, world, control, Down, State
  <1>32. ASSUME NEW swept \in SUBSET Orphans, NEW overdue \in Overdues, Start(swept, overdue) PROVE Approvals'
    <2>1. Recover(swept, overdue)
      BY <1>32, RecoverNeverRaises DEF Start
    <2>2. PendingIffWaiting'
      BY <1>r, <2>1
    <2> QED BY <1>32, <1>t, <2>2, RecoverNeverRaises DEF Approvals, LoopSurvives, Start
  <1>33. CASE UNCHANGED vars
    BY <1>33, <1>t DEF Approvals, LoopSurvives, PendingIffWaiting, vars, rows, taskRows, reviewRows, world, control
  <1> QED
    BY <1>1, <1>2, <1>3, <1>4, <1>5, <1>6, <1>7, <1>8, <1>9, <1>10, <1>11, <1>12, <1>13, <1>14, <1>15, <1>16, <1>17, <1>18, <1>19, <1>20, <1>21, <1>22, <1>23, <1>24, <1>25, <1>26, <1>27, <1>28, <1>29, <1>30, <1>31, <1>32, <1>33
    DEF Next, Owner, Loop, Scan, Process, Run, Invoke

-----------------------------------------------------------------------------
\* An empty store and a fresh process satisfy the inductive invariant.
LEMMA InitInv == Init => IInv
  <1> SUFFICES ASSUME Init PROVE IInv
    OBVIOUS
  <1>1. TypeOK
    BY CountsAssumption DEF Init, TypeOK, State, Revisions, CallRow, ApprovalRow, Place
  <1>2. Places
    BY DEF Init, Places, RunnersActive, RowFollowsRunner, FailureCanBeRecorded, Durable
  <1>3. Budget
    BY DEF Init, Budget, StopBudget, RevisionsPaid
  <1>4. Approvals
    BY DEF Init, Approvals, PendingIffWaiting, LoopSurvives
  <1> QED BY <1>1, <1>2, <1>3, <1>4 DEF IInv, Places, Budget, Approvals

\* Every reachable state of the engine satisfies the inductive invariant.
THEOREM Invariance == Spec => []IInv
  <1>1. IInv /\ [Next]_vars => IInv'
    BY TypeStep, PlacesStep, BudgetStep, ApprovalStep DEF IInv, Places, Budget, Approvals
  <1> QED BY InitInv, <1>1, PTL DEF Spec

\* Rows and process memory keep their types; in particular no task is ever
\* retried or revised beyond the retry limit.
THEOREM TypeCorrect == Spec => []TypeOK
  <1>1. IInv => TypeOK
    BY DEF IInv
  <1> QED BY Invariance, <1>1, PTL

\* An open approval and a waiting task always come in pairs.
THEOREM ApprovalsInStep == Spec => []PendingIffWaiting
  <1>1. IInv => PendingIffWaiting
    BY DEF IInv
  <1> QED BY Invariance, <1>1, PTL

\* The polling loop is never killed by an exception from recover.
THEOREM LoopNeverDies == Spec => []LoopSurvives
  <1>1. IInv => LoopSurvives
    BY DEF IInv
  <1> QED BY Invariance, <1>1, PTL

\* Every revision of a live task was paid from its retry budget.
THEOREM EveryRevisionPaid == Spec => []RevisionsPaid
  <1>1. IInv => RevisionsPaid
    BY DEF IInv
  <1> QED BY Invariance, <1>1, PTL

\* An exception of a runner always finds its task in a state it can fail from.
THEOREM FailuresRecorded == Spec => []FailureCanBeRecorded
  <1>1. IInv => FailureCanBeRecorded
    BY DEF IInv
  <1> QED BY Invariance, <1>1, PTL

-----------------------------------------------------------------------------
(* What a step may do to the row of a task. *)

RowKept(t) ==
    /\ status'[t] = status[t] /\ retry_count'[t] = retry_count[t]
    /\ revision'[t] = revision[t] /\ verdict'[t] = verdict[t] /\ approval'[t] = approval[t]

\* The pairs of states two commits in a row may show, apart from a retry.
CommittedEdges ==
    (({"queued", "running", "waiting_approval", "blocked", "review"} \X {"cancelled"})
     \cup {<<"queued", "running">>, <<"queued", "blocked">>, <<"blocked", "queued">>,
           <<"running", "waiting_approval">>, <<"running", "review">>, <<"running", "failed">>,
           <<"waiting_approval", "running">>, <<"waiting_approval", "failed">>,
           <<"review", "completed">>, <<"review", "failed">>})
RowMoves(t) == <<status[t], status'[t]>> \in CommittedEdges /\ retry_count'[t] = retry_count[t]
RowRetries(t) ==
    /\ status[t] \in {"running", "review"} /\ status'[t] = "queued"
    /\ retry_count[t] < RetryLimit /\ retry_count'[t] = retry_count[t] + 1
RowStep(t) == RowKept(t) \/ RowMoves(t) \/ RowRetries(t)

\* A step that moves at most the row of t moves every row as a step may.
LEMMA OneRow ==
    ASSUME TypeOK, NEW t \in Tasks, RowStep(t), \A u \in Tasks \ {t} : RowKept(u)
    PROVE  \A u \in Tasks : RowStep(u)
  BY DEF RowStep

\* recover requeues or fails the tasks it sweeps, and fails those whose
\* approval is overdue.
LEMMA RecoverRows ==
    ASSUME IInv, NEW swept \in SUBSET Orphans, NEW overdue \in Overdues, Recover(swept, overdue)
    PROVE  \A u \in Tasks : RowStep(u)
  <1> SUFFICES ASSUME NEW u \in Tasks PROVE RowStep(u)
    OBVIOUS
  <1>1. \A a \in overdue : /\ a = <<a[1], a[2]>> /\ a[1] \in Tasks /\ a[2] \in Keys
                          /\ approval[a[1]][a[2]] = "pending"
    BY DEF Overdues
  <1>2. CASE u \in swept
    <2>1. status[u] = "running"
      BY <1>2 DEF Orphans, IInv, Durable
    <2> QED BY <1>2, <2>1
            DEF Recover, Transition, Paid, CanRetry, RowStep, RowMoves, RowRetries, CommittedEdges
  <1>3. CASE u \notin swept /\ u \in Expiring(overdue)
    <2>1. status[u] = "waiting_approval"
      BY <1>1, <1>3 DEF Expiring, IInv, PendingIffWaiting
    <2> QED BY <1>3, <2>1 DEF Recover, Transition, Paid, Resolved, RowStep, RowMoves, CommittedEdges
  <1>4. CASE u \notin swept /\ u \notin Expiring(overdue)
    <2>1. \A k \in Keys : <<u, k>> \in overdue => <<u, k>>[1] \in Expiring(overdue)
      BY DEF Expiring
    <2>2. \A k \in Keys : <<u, k>> \notin overdue
      BY <1>4, <2>1
    <2>3. approval'[u] = approval[u]
      BY <2>2 DEF Recover, IInv, TypeOK
    <2> QED BY <1>4, <2>3 DEF Recover, Transition, Paid, RowStep, RowKept
  <1> QED BY <1>2, <1>3, <1>4

\* Every step of the engine treats every row that way.
LEMMA RowsStep ==
    ASSUME IInv, [Next]_vars
    PROVE  \A u \in Tasks : RowStep(u)
  <1>t. /\ status \in [Tasks -> State] /\ approval \in [Tasks -> [Keys -> ApprovalRow]]
        /\ retry_count \in [Tasks -> 0..RetryLimit] /\ revision \in [Tasks -> Revisions]
        /\ verdict \in [Tasks -> {"none", "approve", "revise", "reject"}]
        /\ \A t \in Tasks : Key(t) \in Keys
    BY KeyType DEF IInv, TypeOK
  <1>i. RowFollowsRunner /\ FailureCanBeRecorded /\ Durable
    BY DEF IInv
  <1>o. ASSUME NEW t \in Tasks, RowStep(t), \A u \in Tasks \ {t} : RowKept(u)
        PROVE  \A u \in Tasks : RowStep(u)
    BY <1>o, OneRow DEF IInv
  <1>k. ASSUME UNCHANGED <<status, retry_count, revision, verdict, approval>>
        PROVE  \A u \in Tasks : RowStep(u)
    BY <1>k DEF RowStep, RowKept
  <1>s. ASSUME NEW t \in Tasks, NEW target, To(t, target)
        PROVE  status'[t] = target /\ \A u \in Tasks \ {t} : status'[u] = status[u]
    BY <1>s, <1>t DEF To, Transition
  <1>1. CASE Submit \/ Stop \/ Exit \/ UNCHANGED vars
    BY <1>1, <1>k DEF Submit, Stop, Exit, Down, vars, rows, taskRows, reviewRows
  <1>2. ASSUME NEW tearing \in SUBSET Tasks, Crash(tearing) PROVE \A u \in Tasks : RowStep(u)
    BY <1>2, <1>k DEF Crash, Down, rows, taskRows, reviewRows
  <1>3. ASSUME NEW t \in Tasks,
               \/ ModelReturns(t) \/ ModelRaises(t) \/ InvokeRefused(t) \/ InvokeReuses(t)
               \/ StartExecution(t) \/ Effect(t) \/ ToolReturns(t) \/ ToolFails(t)
               \/ ReviewRaises(t) \/ Interrupt(t) \/ ScanSkips(t)
        PROVE  \A u \in Tasks : RowStep(u)
    BY <1>3, <1>k DEF ModelReturns, ModelRaises, InvokeRefused, InvokeReuses, StartExecution, Effect,
                      ToolReturns, ToolFails, ReviewRaises, Interrupt, ScanSkips, Scanning,
                      rows, taskRows, reviewRows
  <1>4. ASSUME NEW t \in Tasks, NEW d \in Decisions, InvokeDenied(t, d) \/ InvokePermits(t, d)
        PROVE  \A u \in Tasks : RowStep(u)
    BY <1>4, <1>k DEF InvokeDenied, InvokePermits, taskRows, reviewRows
  <1>5. ASSUME NEW t \in Tasks, NEW k \in Keys, NEW answer \in {"approved", "denied"}, Resolve(t, k, answer)
        PROVE  \A u \in Tasks : RowStep(u)
    BY <1>5, <1>t, <1>s, <1>o DEF Resolve, Resolved, reviewRows, RowStep, RowKept, RowMoves, CommittedEdges
  <1>6. ASSUME NEW t \in Tasks, Cancel(t) PROVE \A u \in Tasks : RowStep(u)
    <2>1. status[t] \in {"queued", "running", "waiting_approval", "blocked", "review"}
      BY <1>6, <1>t, <1>i DEF Cancel, validate_transition, ALLOWED, TERMINAL, State, Durable
    <2> QED BY <1>6, <1>t, <1>s, <1>o, <2>1 DEF Cancel, reviewRows, RowStep, RowKept, RowMoves, CommittedEdges
  <1>7. ASSUME NEW swept \in SUBSET Orphans, NEW overdue \in Overdues, NEW reaped \in SUBSET active, Poll(swept, overdue, reaped)
        PROVE  \A u \in Tasks : RowStep(u)
    BY <1>7, RecoverNeverRaises, RecoverRows DEF Poll
  <1>8. ASSUME NEW swept \in SUBSET Orphans, NEW overdue \in Overdues, Start(swept, overdue)
        PROVE  \A u \in Tasks : RowStep(u)
    BY <1>8, RecoverNeverRaises, RecoverRows DEF Start
  <1>9. ASSUME NEW t \in Tasks, ScanCancels(t) \/ ScanBlocks(t) PROVE \A u \in Tasks : RowStep(u)
    BY <1>9, <1>t, <1>s, <1>o
    DEF ScanCancels, ScanBlocks, Scanning, reviewRows, RowStep, RowKept, RowMoves, CommittedEdges
  <1>10. ASSUME NEW t \in Tasks, ScanStarts(t) \/ ScanBreaks(t) PROVE \A u \in Tasks : RowStep(u)
    BY <1>10, <1>t, <1>s, <1>o
    DEF ScanStarts, ScanBreaks, Unblock, Scanning, reviewRows, RowStep, RowKept, RowMoves, CommittedEdges
  <1>11. ASSUME NEW t \in Tasks, Begin(t) \/ BeginRefused(t) PROVE \A u \in Tasks : RowStep(u)
    BY <1>11, <1>t, <1>s, <1>o
    DEF Begin, BeginRefused, Assign, reviewRows, RowStep, RowKept, RowMoves, CommittedEdges
  <1>12. ASSUME NEW t \in Tasks, Handoff(t) PROVE \A u \in Tasks : RowStep(u)
    BY <1>12, <1>t, <1>s, <1>o, <1>i
    DEF Handoff, Running, RowFollowsRunner, reviewRows, RowStep, RowKept, RowMoves, CommittedEdges
  <1>13. ASSUME NEW t \in Tasks, NEW v \in {"approve", "revise", "reject"}, Review(t, v)
         PROVE  \A u \in Tasks : RowStep(u)
    <2>1. status[t] = "review" /\ approval' = approval
      BY <1>13, <1>i DEF Review, Running, RowFollowsRunner
    <2>2. \A u \in Tasks \ {t} : RowKept(u)
      BY <1>13, <1>t, <1>s, <2>1 DEF Review, RowKept
    <2>3. RowStep(t)
      BY <1>13, <1>t, <1>s, <2>1 DEF Review, Paid, CanRetry, RowStep, RowMoves, RowRetries, CommittedEdges
    <2> QED BY <1>o, <2>2, <2>3
  <1>14. ASSUME NEW t \in Tasks, Fail(t) PROVE \A u \in Tasks : RowStep(u)
    <2>1. CASE status[t] \in TERMINAL
      BY <1>14, <1>k, <2>1 DEF Fail
    <2>2. CASE status[t] \notin TERMINAL
      <3>1. status[t] \in {"running", "review"}
        BY <1>14, <1>i, <2>2 DEF Fail, FailureCanBeRecorded
      <3>2. \A u \in Tasks \ {t} : RowKept(u)
        BY <1>14, <1>t, <1>s, <2>2 DEF Fail, RowKept
      <3>3. RowStep(t)
        BY <1>14, <1>t, <1>s, <2>2, <3>1
        DEF Fail, Paid, CanRetry, RowStep, RowMoves, RowRetries, CommittedEdges
      <3> QED BY <1>o, <3>2, <3>3
    <2> QED BY <2>1, <2>2
  <1>15. ASSUME NEW t \in Tasks, NEW d \in Decisions, InvokeAsks(t, d) \/ InvokeGated(t, d)
         PROVE  \A u \in Tasks : RowStep(u)
    BY <1>15, <1>t, <1>s, <1>o
    DEF InvokeAsks, InvokeGated, Admissible, reviewRows, RowStep, RowKept, RowMoves, CommittedEdges
  <1> QED
    BY <1>1, <1>2, <1>3, <1>4, <1>5, <1>6, <1>7, <1>8, <1>9, <1>10, <1>11, <1>12, <1>13, <1>14, <1>15
    DEF Next, Owner, Loop, Scan, Process, Run, Invoke

\* Those are steps of the documented lifecycle.
LEMMA RowFollows ==
    ASSUME TypeOK, NEW t \in Tasks, RowStep(t)
    PROVE  Lifecycle!Keeps(t) \/ Lifecycle!Moves(t) \/ Lifecycle!Plans(t) \/ Lifecycle!Retries(t)
  <1>1. CASE RowKept(t)
    BY <1>1 DEF RowKept, Lifecycle!Keeps
  <1>2. CASE RowRetries(t)
    BY <1>2 DEF RowRetries, Lifecycle!Retries, Lifecycle!ALLOWED, Lifecycle!State, Lifecycle!TERMINAL
  <1>3. CASE RowMoves(t)
    BY <1>3 DEF RowMoves, CommittedEdges, Lifecycle!Moves, Lifecycle!Plans, Lifecycle!validate_transition,
                Lifecycle!ALLOWED, Lifecycle!State, Lifecycle!TERMINAL
  <1> QED BY <1>1, <1>2, <1>3 DEF RowStep

\* The engine implements the lifecycle of its tasks.
THEOREM LifecycleFollowed == Spec => FollowsLifecycle
  <1>1. Init => Lifecycle!Init
    BY DEF Init, Lifecycle!Init
  <1>2. IInv /\ IInv' /\ [Next]_vars => [Lifecycle!Next]_<<status, retry_count>>
    <2> SUFFICES ASSUME IInv, IInv', [Next]_vars PROVE Lifecycle!Next
      OBVIOUS
    <2>1. status' \in [Tasks -> Lifecycle!State]
      BY DEF IInv, TypeOK, State, Lifecycle!State
    <2>2. TypeOK
      BY DEF IInv
    <2> QED BY <2>1, <2>2, RowsStep, RowFollows DEF Lifecycle!Next
  <1> QED BY <1>1, <1>2, Invariance, PTL DEF Spec, FollowsLifecycle, Lifecycle!Spec

\* A terminal task is never reopened, and its row is final.
THEOREM TerminalStays == Spec => TerminalIsFinal
  <1> DEFINE Final == \A t \in Tasks : status[t] \in TERMINAL =>
          /\ status'[t] = status[t] /\ retry_count'[t] = retry_count[t]
          /\ revision'[t] = revision[t] /\ verdict'[t] = verdict[t]
          /\ approval'[t] = approval[t]
  <1>1. IInv /\ [Next]_vars => Final
    <2> SUFFICES ASSUME IInv, [Next]_vars, NEW t \in Tasks, status[t] \in TERMINAL PROVE RowKept(t)
      BY DEF RowKept
    <2> QED BY RowsStep DEF RowStep, RowMoves, RowRetries, CommittedEdges, TERMINAL
  <1> QED BY <1>1, Invariance, PTL DEF Spec, TerminalIsFinal

-----------------------------------------------------------------------------
(* Dependencies. *)

\* Also a task that its runner is about to take from the queue has its
\* dependencies behind it.
Cleared(t) == status[t] \in {"running", "waiting_approval", "review", "completed"}
              \/ (status[t] = "queued" /\ pc[t] = "start")
DependenciesBehind == \A t \in Tasks : Cleared(t) => DependenciesComplete(t)

\* Only a runner takes a task from the queue, and only the scan creates one,
\* once it has seen the dependencies complete.
ClearedInTime(t) == Cleared(t)' => Cleared(t) \/ DependenciesComplete(t)

\* No step lets a task past a dependency that is not complete.
LEMMA ClearedStep ==
    ASSUME IInv, [Next]_vars
    PROVE  \A u \in Tasks : ClearedInTime(u)
  <1>t. /\ status \in [Tasks -> State] /\ pc \in [Tasks -> Place] /\ active \subseteq Tasks
        /\ RunnersActive /\ RowFollowsRunner
    BY DEF IInv, TypeOK
  <1>s. ASSUME NEW t \in Tasks, NEW target, To(t, target)
        PROVE  status'[t] = target /\ \A u \in Tasks \ {t} : status'[u] = status[u]
    BY <1>s, <1>t DEF To, Transition
  <1>k. ASSUME status' = status, \A u \in Tasks : pc'[u] # "start" \/ pc'[u] = pc[u]
        PROVE  \A u \in Tasks : ClearedInTime(u)
    BY <1>k DEF ClearedInTime, Cleared
  <1>r. ASSUME NEW swept \in SUBSET Orphans, NEW overdue \in Overdues, Recover(swept, overdue),
               \A u \in Tasks : pc'[u] # "start" \/ pc'[u] = pc[u]
        PROVE  \A u \in Tasks : ClearedInTime(u)
    <2>1. \A u \in Tasks : \/ status'[u] = status[u]
                           \/ status'[u] = "queued" /\ status[u] = "running"
                           \/ status'[u] = "failed"
      BY <1>r, RecoverRows
      DEF RowStep, RowKept, RowMoves, RowRetries, CommittedEdges, Recover, Transition, Resolved, Orphans, IInv, Durable
    <2> QED BY <1>r, <2>1 DEF ClearedInTime, Cleared
  <1>1. CASE Submit \/ Stop \/ Exit \/ UNCHANGED vars
    BY <1>1, <1>k DEF Submit, Stop, Exit, Down, vars, rows, taskRows
  <1>2. ASSUME NEW tearing \in SUBSET Tasks, Crash(tearing) PROVE \A u \in Tasks : ClearedInTime(u)
    BY <1>2, <1>k DEF Crash, Down, rows, taskRows
  <1>3. ASSUME NEW t \in Tasks,
               \/ ModelReturns(t) \/ ModelRaises(t) \/ InvokeRefused(t) \/ InvokeReuses(t)
               \/ StartExecution(t) \/ Effect(t) \/ ToolReturns(t) \/ ToolFails(t)
               \/ ReviewRaises(t) \/ Interrupt(t) \/ ScanSkips(t)
        PROVE  \A u \in Tasks : ClearedInTime(u)
    BY <1>3, <1>t, <1>k
    DEF ModelReturns, ModelRaises, InvokeRefused, InvokeReuses, StartExecution, Effect, ToolReturns,
        ToolFails, ReviewRaises, Interrupt, ScanSkips, Advance, Leave, Goto, rows, taskRows
  <1>4. ASSUME NEW t \in Tasks, NEW d \in Decisions,
               InvokeAsks(t, d) \/ InvokeDenied(t, d) \/ InvokeGated(t, d) \/ InvokePermits(t, d)
        PROVE  \A u \in Tasks : ClearedInTime(u)
    BY <1>4, <1>t, <1>s
    DEF InvokeAsks, InvokeDenied, InvokeGated, InvokePermits, Admissible, AwaitOwner, Leave, Goto, taskRows,
        ClearedInTime, Cleared
  <1>5. ASSUME NEW t \in Tasks, NEW k \in Keys, NEW answer \in {"approved", "denied"}, Resolve(t, k, answer)
        PROVE  \A u \in Tasks : ClearedInTime(u)
    BY <1>5, <1>s DEF Resolve, Resolved, ClearedInTime, Cleared
  <1>6. ASSUME NEW t \in Tasks, Cancel(t) \/ ScanCancels(t) \/ ScanBlocks(t)
        PROVE  \A u \in Tasks : ClearedInTime(u)
    BY <1>6, <1>s DEF Cancel, ScanCancels, ScanBlocks, ClearedInTime, Cleared
  <1>7. ASSUME NEW swept \in SUBSET Orphans, NEW overdue \in Overdues, NEW reaped \in SUBSET active, Poll(swept, overdue, reaped)
        PROVE  \A u \in Tasks : ClearedInTime(u)
    BY <1>7, <1>r, RecoverNeverRaises DEF Poll
  <1>8. ASSUME NEW swept \in SUBSET Orphans, NEW overdue \in Overdues, Start(swept, overdue)
        PROVE  \A u \in Tasks : ClearedInTime(u)
    BY <1>8, <1>r, RecoverNeverRaises DEF Start
  <1>9. ASSUME NEW t \in Tasks, ScanStarts(t) PROVE \A u \in Tasks : ClearedInTime(u)
    BY <1>9, <1>t, <1>s DEF ScanStarts, Unblock, Runnable, Listed, Goto, ClearedInTime, Cleared
  <1>10. ASSUME NEW t \in Tasks, ScanBreaks(t) PROVE \A u \in Tasks : ClearedInTime(u)
    BY <1>10, <1>t, <1>s DEF ScanBreaks, Unblock, Runnable, Listed, RunnersActive, ClearedInTime, Cleared
  <1>11. ASSUME NEW t \in Tasks, Begin(t) \/ BeginRefused(t) PROVE \A u \in Tasks : ClearedInTime(u)
    BY <1>11, <1>t, <1>s DEF Begin, BeginRefused, Assign, Goto, ClearedInTime, Cleared
  <1>12. ASSUME NEW t \in Tasks, Handoff(t) PROVE \A u \in Tasks : ClearedInTime(u)
    BY <1>12, <1>t, <1>s DEF Handoff, Running, RowFollowsRunner, Goto, ClearedInTime, Cleared
  <1>13. ASSUME NEW t \in Tasks, NEW v \in {"approve", "revise", "reject"}, Review(t, v)
         PROVE  \A u \in Tasks : ClearedInTime(u)
    BY <1>13, <1>t, <1>s DEF Review, Running, RowFollowsRunner, Leave, Goto, ClearedInTime, Cleared
  <1>14. ASSUME NEW t \in Tasks, Fail(t) PROVE \A u \in Tasks : ClearedInTime(u)
    BY <1>14, <1>t, <1>s DEF Fail, Leave, Goto, ClearedInTime, Cleared
  <1> QED
    BY <1>1, <1>2, <1>3, <1>4, <1>5, <1>6, <1>7, <1>8, <1>9, <1>10, <1>11, <1>12, <1>13, <1>14
    DEF Next, Owner, Loop, Scan, Process, Run, Invoke

\* No task gets past its dependencies before they are all completed.
THEOREM DependenciesRespected == Spec => []DependenciesFirst
  <1>1. Init => DependenciesBehind
    BY DEF Init, DependenciesBehind, Cleared
  <1>2. IInv /\ DependenciesBehind /\ [Next]_vars => DependenciesBehind'
    <2> SUFFICES ASSUME IInv, DependenciesBehind, [Next]_vars, NEW u \in Tasks, Cleared(u)',
                        NEW d \in Dependencies[u]
                 PROVE  status'[d] = "completed"
      BY DEF DependenciesBehind, DependenciesComplete
    <2>1. DependenciesComplete(u)
      BY ClearedStep DEF ClearedInTime, DependenciesBehind
    <2>2. d \in Tasks /\ status[d] = "completed"
      BY <2>1, PlanAssumption DEF DependenciesComplete
    <2> QED BY <2>2, RowsStep DEF RowStep, RowKept, RowMoves, RowRetries, CommittedEdges
  <1>3. DependenciesBehind => DependenciesFirst
    BY DEF DependenciesBehind, DependenciesFirst, Cleared, DependenciesComplete
  <1> QED BY <1>1, <1>2, <1>3, Invariance, PTL DEF Spec
=============================================================================
