--------------------------- MODULE TaskCallProofs ---------------------------
(* Theorems about the tool calls of a task: what takes effect, how often,  *)
(* with whose approval, and what of it a completed task has behind it.     *)
EXTENDS TaskEngineProofs

\* A call outside the files tool whose row says it never ran took no effect.
NeverRan ==
    \A t \in Tasks : \A k \in Keys \ Files :
        call[t][k] \in {"absent", "created"} => effects[t][k] = 0

\* Such a call is executed only from a row that says it never ran.
FirstExecution ==
    \A t \in Tasks : Key(t) \notin Files =>
        /\ pc[t] = "begin" => call[t][Key(t)] = "created"
        /\ pc[t] = "execute" => call[t][Key(t)] = "started" /\ effects[t][Key(t)] = 0

\* A call on its way through the gateway has the approval it needs.
OnTheWay(t) == pc[t] \in {"begin", "execute", "effected"}
ApprovedOnTheWay ==
    \A t \in Tasks : OnTheWay(t) /\ "auto_allow" \notin Decide[Key(t)]
                     => approval[t][Key(t)] = "approved"

CallInv == NeverRan /\ FirstExecution /\ ApprovedOnTheWay /\ AtMostOnce /\ ApprovedBeforeEffect

\* A step that touches neither calls nor effects, takes no approval back and
\* sends nobody through the gateway keeps the invariant.
Bystander ==
    /\ call' = call /\ effects' = effects
    /\ \A t \in Tasks, k \in Keys : approval[t][k] = "approved" => approval'[t][k] = "approved"
    /\ \A t \in Tasks : OnTheWay(t)' =>
           pc'[t] = pc[t] /\ pos'[t] = pos[t] /\ revision'[t] = revision[t]

\* Steps of that kind preserve what is known of the calls.
LEMMA BystanderKeeps ==
    ASSUME IInv, CallInv, Bystander
    PROVE  CallInv'
  <1>1. \A t \in Tasks : Key(t) \in Keys
    BY KeyType DEF IInv
  <1>2. \A t \in Tasks : OnTheWay(t)' => Key(t)' = Key(t) /\ OnTheWay(t)
    BY DEF Bystander, Key, OnTheWay
  <1>3. NeverRan' /\ AtMostOnce' /\ ApprovedBeforeEffect'
    BY DEF Bystander, CallInv, NeverRan, AtMostOnce, ApprovedBeforeEffect
  <1>4. FirstExecution'
    BY <1>2 DEF Bystander, CallInv, FirstExecution, OnTheWay
  <1>5. ApprovedOnTheWay'
    BY <1>1, <1>2 DEF Bystander, CallInv, ApprovedOnTheWay
  <1> QED BY <1>3, <1>4, <1>5 DEF CallInv

\* The gateway executes no call twice and none without its approval.
LEMMA CallStep ==
    ASSUME IInv, CallInv, [Next]_vars
    PROVE  CallInv'
  <1>k. \A t \in Tasks : Key(t) \in Keys
    BY KeyType DEF IInv
  <1>t. /\ pc \in [Tasks -> Place] /\ pos \in [Tasks -> Nat] /\ revision \in [Tasks -> Revisions]
        /\ call \in [Tasks -> [Keys -> CallRow]] /\ effects \in [Tasks -> [Keys -> Nat]]
        /\ approval \in [Tasks -> [Keys -> ApprovalRow]]
    BY DEF IInv, TypeOK
  <1>c. CallInv
    OBVIOUS
  <1>b. Bystander => CallInv'
    BY BystanderKeeps
  <1>1. ASSUME Submit PROVE CallInv'
    BY <1>1, <1>t, <1>b DEF Bystander, OnTheWay, Submit, rows, taskRows, reviewRows, world, control
  <1>2. ASSUME NEW t \in Tasks, NEW k \in Keys, NEW answer \in {"approved", "denied"}, Resolve(t, k, answer) PROVE CallInv'
    BY <1>2, <1>t, <1>b DEF Bystander, OnTheWay, Resolve, rows, taskRows, reviewRows, world, control
  <1>3. ASSUME NEW t \in Tasks, Cancel(t) PROVE CallInv'
    BY <1>3, <1>t, <1>b DEF Bystander, OnTheWay, Cancel, rows, taskRows, reviewRows, world, control, ExpiredApprovals
  <1>4. ASSUME NEW swept \in SUBSET Orphans, NEW overdue \in Overdues, NEW reaped \in SUBSET active, Poll(swept, overdue, reaped) PROVE CallInv'
    <2>1. Recover(swept, overdue)
      BY <1>4, RecoverNeverRaises DEF Poll
    <2>2. \A u \in Tasks, k \in Keys : approval[u][k] = "approved" => approval'[u][k] = "approved"
      <3>1. \A u \in Tasks, k \in Keys : <<u, k>> \in overdue => approval[u][k] = "pending"
        BY DEF Overdues
      <3> QED BY <2>1, <3>1 DEF Recover
    <2> QED BY <1>4, <1>t, <1>b, <2>1, <2>2 DEF Bystander, OnTheWay, Poll, Recover, world
  <1>5. ASSUME NEW t \in Tasks, ScanSkips(t) PROVE CallInv'
    BY <1>5, <1>t, <1>b DEF Bystander, OnTheWay, ScanSkips, rows, taskRows, reviewRows, world, control, Scanning
  <1>6. ASSUME NEW t \in Tasks, ScanCancels(t) PROVE CallInv'
    BY <1>6, <1>t, <1>b DEF Bystander, OnTheWay, ScanCancels, rows, taskRows, reviewRows, world, control, Scanning
  <1>7. ASSUME NEW t \in Tasks, ScanBlocks(t) PROVE CallInv'
    BY <1>7, <1>t, <1>b DEF Bystander, OnTheWay, ScanBlocks, rows, taskRows, reviewRows, world, control, Scanning
  <1>8. ASSUME NEW t \in Tasks, ScanStarts(t) PROVE CallInv'
    BY <1>8, <1>t, <1>b DEF Bystander, OnTheWay, ScanStarts, rows, taskRows, reviewRows, world, control, Scanning, Goto
  <1>9. ASSUME NEW t \in Tasks, ScanBreaks(t) PROVE CallInv'
    BY <1>9, <1>t, <1>b DEF Bystander, OnTheWay, ScanBreaks, rows, taskRows, reviewRows, world, control, Scanning
  <1>10. ASSUME NEW t \in Tasks, Begin(t) PROVE CallInv'
    BY <1>10, <1>t, <1>b DEF Bystander, OnTheWay, Begin, rows, taskRows, reviewRows, world, control, Running, Goto
  <1>11. ASSUME NEW t \in Tasks, BeginRefused(t) PROVE CallInv'
    BY <1>11, <1>t, <1>b DEF Bystander, OnTheWay, BeginRefused, rows, taskRows, reviewRows, world, control, Running, Goto
  <1>12. ASSUME NEW t \in Tasks, ModelReturns(t) PROVE CallInv'
    BY <1>12, <1>t, <1>b DEF Bystander, OnTheWay, ModelReturns, rows, taskRows, reviewRows, world, control, Running, Goto
  <1>13. ASSUME NEW t \in Tasks, ModelRaises(t) PROVE CallInv'
    BY <1>13, <1>t, <1>b DEF Bystander, OnTheWay, ModelRaises, rows, taskRows, reviewRows, world, control, Running, Goto
  <1>14. ASSUME NEW t \in Tasks, InvokeRefused(t) PROVE CallInv'
    BY <1>14, <1>t, <1>b DEF Bystander, OnTheWay, InvokeRefused, rows, taskRows, reviewRows, world, control, Invoking, Running, Goto
  <1>15. ASSUME NEW t \in Tasks, InvokeReuses(t) PROVE CallInv'
    BY <1>15, <1>t, <1>b DEF Bystander, OnTheWay, InvokeReuses, rows, taskRows, reviewRows, world, control, Invoking, Running, Goto, Advance
  <1>16. ASSUME NEW t \in Tasks, NEW d \in Decisions, InvokeAsks(t, d) PROVE CallInv'
    <2>1. \A u \in Tasks, k \in Keys : call'[u][k] \in {"absent", "created"}
                                          => call[u][k] \in {"absent", "created"}
      BY <1>16, <1>k, <1>t DEF InvokeAsks, Recorded, SetCall
    <2>2. \A u \in Tasks : OnTheWay(u)' => OnTheWay(u) /\ Key(u)' = Key(u) /\ u # t
      BY <1>16, <1>t DEF InvokeAsks, Invoking, OnTheWay, Goto, Key, taskRows, reviewRows, AwaitOwner, Leave
    <2>3. \A u \in Tasks \ {t} : call'[u] = call[u]
      BY <1>16, <1>t DEF InvokeAsks, Recorded, SetCall
    <2>4. effects' = effects /\ \A u \in Tasks, k \in Keys :
              approval[u][k] = "approved" => approval'[u][k] = "approved"
      BY <1>16, <1>k, <1>t DEF InvokeAsks, world, NotApproved
    <2>5. NeverRan'
      BY <1>c, <2>1, <2>4 DEF CallInv, NeverRan
    <2>6. FirstExecution'
      BY <1>16, <1>c, <1>t, <2>2, <2>3, <2>4 DEF CallInv, FirstExecution, OnTheWay, InvokeAsks, Goto, AwaitOwner, Leave
    <2>7. ApprovedOnTheWay'
      BY <1>k, <1>c, <2>2, <2>4 DEF CallInv, ApprovedOnTheWay
    <2> QED BY <1>c, <2>4, <2>5, <2>6, <2>7 DEF CallInv, AtMostOnce, ApprovedBeforeEffect
  <1>17. ASSUME NEW t \in Tasks, NEW d \in Decisions, InvokeDenied(t, d) PROVE CallInv'
    <2>1. \A u \in Tasks, k \in Keys : call'[u][k] \in {"absent", "created"}
                                          => call[u][k] \in {"absent", "created"}
      BY <1>17, <1>k, <1>t DEF InvokeDenied, Recorded, SetCall
    <2>2. \A u \in Tasks : OnTheWay(u)' => OnTheWay(u) /\ Key(u)' = Key(u) /\ u # t
      BY <1>17, <1>t DEF InvokeDenied, Invoking, OnTheWay, Goto, Key, taskRows, reviewRows
    <2>3. \A u \in Tasks \ {t} : call'[u] = call[u]
      BY <1>17, <1>t DEF InvokeDenied, Recorded, SetCall
    <2>4. effects' = effects /\ \A u \in Tasks, k \in Keys :
              approval[u][k] = "approved" => approval'[u][k] = "approved"
      BY <1>17, <1>k, <1>t DEF InvokeDenied, world
    <2>5. NeverRan'
      BY <1>c, <2>1, <2>4 DEF CallInv, NeverRan
    <2>6. FirstExecution'
      BY <1>17, <1>c, <1>t, <2>2, <2>3, <2>4 DEF CallInv, FirstExecution, OnTheWay, InvokeDenied, Goto
    <2>7. ApprovedOnTheWay'
      BY <1>k, <1>c, <2>2, <2>4 DEF CallInv, ApprovedOnTheWay
    <2> QED BY <1>c, <2>4, <2>5, <2>6, <2>7 DEF CallInv, AtMostOnce, ApprovedBeforeEffect
  <1>18. ASSUME NEW t \in Tasks, NEW d \in Decisions, InvokeGated(t, d) PROVE CallInv'
    <2>1. \A u \in Tasks, k \in Keys : call'[u][k] \in {"absent", "created"}
                                          => call[u][k] \in {"absent", "created"}
      BY <1>18, <1>k, <1>t DEF InvokeGated, Recorded, SetCall
    <2>2. \A u \in Tasks : OnTheWay(u)' => OnTheWay(u) /\ Key(u)' = Key(u) /\ u # t
      BY <1>18, <1>t DEF InvokeGated, Invoking, OnTheWay, Goto, Key, taskRows, reviewRows
    <2>3. \A u \in Tasks \ {t} : call'[u] = call[u]
      BY <1>18, <1>t DEF InvokeGated, Recorded, SetCall
    <2>4. effects' = effects /\ \A u \in Tasks, k \in Keys :
              approval[u][k] = "approved" => approval'[u][k] = "approved"
      BY <1>18, <1>k, <1>t DEF InvokeGated, world
    <2>5. NeverRan'
      BY <1>c, <2>1, <2>4 DEF CallInv, NeverRan
    <2>6. FirstExecution'
      BY <1>18, <1>c, <1>t, <2>2, <2>3, <2>4 DEF CallInv, FirstExecution, OnTheWay, InvokeGated, Goto
    <2>7. ApprovedOnTheWay'
      BY <1>k, <1>c, <2>2, <2>4 DEF CallInv, ApprovedOnTheWay
    <2> QED BY <1>c, <2>4, <2>5, <2>6, <2>7 DEF CallInv, AtMostOnce, ApprovedBeforeEffect
  <1>19. ASSUME NEW t \in Tasks, NEW d \in Decisions, InvokePermits(t, d) PROVE CallInv'
    <2>1. \A u \in Tasks : Key(u)' = Key(u)
      BY <1>19 DEF InvokePermits, Key, taskRows, reviewRows
    <2>2. /\ call[t][Key(t)] \in {"absent", "created"} \/ Key(t) \in Files
          /\ "auto_allow" \notin Decide[Key(t)] => approval[t][Key(t)] = "approved"
      BY <1>19, <1>k, <1>t DEF InvokePermits, Admissible, Uncertain, NotApproved, CallRow
    <2>3. /\ \A u \in Tasks \ {t} : call'[u] = call[u] /\ pc'[u] = pc[u]
          /\ \A k \in Keys \ {Key(t)} : call'[t][k] = call[t][k]
          /\ call[t][Key(t)] \in {"absent", "created"} => call'[t][Key(t)] = "created"
          /\ call[t][Key(t)] \notin {"absent", "created"} => call'[t][Key(t)] = call[t][Key(t)]
          /\ pc'[t] = "begin" /\ effects' = effects /\ approval' = approval
      BY <1>19, <1>k, <1>t DEF InvokePermits, Recorded, SetCall, Goto, world
    <2>4. NeverRan'
      BY <1>k, <1>c, <2>3 DEF CallInv, NeverRan
    <2>5. FirstExecution'
      BY <1>k, <1>c, <2>1, <2>2, <2>3 DEF CallInv, FirstExecution
    <2>6. ApprovedOnTheWay'
      BY <1>k, <1>c, <2>1, <2>2, <2>3 DEF CallInv, ApprovedOnTheWay, OnTheWay
    <2> QED BY <1>c, <2>3, <2>4, <2>5, <2>6 DEF CallInv, AtMostOnce, ApprovedBeforeEffect
  <1>20. ASSUME NEW t \in Tasks, StartExecution(t) PROVE CallInv'
    <2>1. \A u \in Tasks : Key(u)' = Key(u)
      BY <1>20 DEF StartExecution, Key, taskRows, reviewRows
    <2>2. /\ \A u \in Tasks \ {t} : call'[u] = call[u] /\ pc'[u] = pc[u]
          /\ \A k \in Keys \ {Key(t)} : call'[t][k] = call[t][k]
          /\ call'[t][Key(t)] = "started" /\ pc[t] = "begin" /\ pc'[t] = "execute"
          /\ effects' = effects /\ approval' = approval
      BY <1>20, <1>k, <1>t DEF StartExecution, SetCall, Goto, world
    <2>3. Key(t) \notin Files => effects[t][Key(t)] = 0
      BY <1>k, <1>c, <2>2 DEF CallInv, NeverRan, FirstExecution
    <2>4. NeverRan'
      BY <1>k, <1>c, <2>2 DEF CallInv, NeverRan
    <2>5. FirstExecution'
      BY <1>k, <1>c, <2>1, <2>2, <2>3 DEF CallInv, FirstExecution
    <2>6. ApprovedOnTheWay'
      BY <1>k, <1>c, <2>1, <2>2 DEF CallInv, ApprovedOnTheWay, OnTheWay
    <2> QED BY <1>c, <2>2, <2>4, <2>5, <2>6 DEF CallInv, AtMostOnce, ApprovedBeforeEffect
  <1>21. ASSUME NEW t \in Tasks, Effect(t) PROVE CallInv'
    <2>1. \A u \in Tasks : Key(u)' = Key(u)
      BY <1>21 DEF Effect, Key, rows, taskRows, reviewRows
    <2>2. /\ \A u \in Tasks \ {t} : effects'[u] = effects[u] /\ pc'[u] = pc[u]
          /\ \A k \in Keys \ {Key(t)} : effects'[t][k] = effects[t][k]
          /\ call' = call /\ approval' = approval /\ pc[t] = "execute" /\ pc'[t] = "effected"
      BY <1>21, <1>k, <1>t DEF Effect, Goto, rows
    <2>3. effects'[t][Key(t)] <= 1
      <3>1. effects'[t][Key(t)] = IF TakesEffect(t, Key(t)) THEN effects[t][Key(t)] + 1
                                  ELSE effects[t][Key(t)]
        BY <1>21, <1>k, <1>t DEF Effect
      <3>2. effects[t][Key(t)] <= 1 /\ effects[t][Key(t)] \in Nat
        BY <1>k, <1>c, <1>t DEF CallInv, AtMostOnce
      <3>3. TakesEffect(t, Key(t)) => effects[t][Key(t)] = 0
        BY <1>k, <1>c, <2>2 DEF TakesEffect, CallInv, FirstExecution
      <3> QED BY <3>1, <3>2, <3>3
    <2>4. NeverRan'
      <3>1. Key(t) \notin Files => call[t][Key(t)] = "started"
        BY <1>c, <2>2 DEF CallInv, FirstExecution
      <3> QED BY <1>k, <1>c, <2>2, <3>1 DEF CallInv, NeverRan
    <2>5. FirstExecution'
      BY <1>k, <1>c, <2>1, <2>2 DEF CallInv, FirstExecution
    <2>6. ApprovedOnTheWay'
      BY <1>k, <1>c, <2>1, <2>2 DEF CallInv, ApprovedOnTheWay, OnTheWay
    <2>7. AtMostOnce'
      BY <1>k, <1>c, <2>2, <2>3 DEF CallInv, AtMostOnce
    <2>8. ApprovedBeforeEffect'
      <3>1. "auto_allow" \notin Decide[Key(t)] => approval[t][Key(t)] = "approved"
        BY <1>c, <2>2 DEF CallInv, ApprovedOnTheWay, OnTheWay
      <3> QED BY <1>k, <1>c, <2>2, <3>1 DEF CallInv, ApprovedBeforeEffect
    <2> QED BY <2>4, <2>5, <2>6, <2>7, <2>8 DEF CallInv
  <1>22. ASSUME NEW t \in Tasks, ToolReturns(t) PROVE CallInv'
    <2>1. /\ \A u \in Tasks \ {t} : /\ call'[u] = call[u] /\ pc'[u] = pc[u]
                                    /\ pos'[u] = pos[u] /\ revision'[u] = revision[u]
          /\ \A k \in Keys : call'[t][k] = call[t][k] \/ call'[t][k] = "ok"
          /\ ~OnTheWay(t)' /\ effects' = effects /\ approval' = approval
      BY <1>22, <1>k, <1>t DEF ToolReturns, SetCall, Goto, OnTheWay, world, taskRows, reviewRows, Advance
    <2>2. \A u \in Tasks : OnTheWay(u)' => u # t /\ OnTheWay(u) /\ Key(u)' = Key(u)
      BY <2>1 DEF OnTheWay, Key
    <2>3. NeverRan'
      BY <1>c, <2>1 DEF CallInv, NeverRan
    <2>4. FirstExecution'
      BY <1>c, <2>1, <2>2 DEF CallInv, FirstExecution, OnTheWay
    <2>5. ApprovedOnTheWay'
      BY <1>c, <2>1, <2>2 DEF CallInv, ApprovedOnTheWay, OnTheWay
    <2> QED BY <1>c, <2>1, <2>3, <2>4, <2>5 DEF CallInv, AtMostOnce, ApprovedBeforeEffect
  <1>23. ASSUME NEW t \in Tasks, ToolFails(t) PROVE CallInv'
    <2>1. /\ \A u \in Tasks \ {t} : /\ call'[u] = call[u] /\ pc'[u] = pc[u]
                                    /\ pos'[u] = pos[u] /\ revision'[u] = revision[u]
          /\ \A k \in Keys : call'[t][k] = call[t][k] \/ call'[t][k] = "error"
          /\ ~OnTheWay(t)' /\ effects' = effects /\ approval' = approval
      BY <1>23, <1>k, <1>t DEF ToolFails, SetCall, Goto, OnTheWay, world, taskRows, reviewRows
    <2>2. \A u \in Tasks : OnTheWay(u)' => u # t /\ OnTheWay(u) /\ Key(u)' = Key(u)
      BY <2>1 DEF OnTheWay, Key
    <2>3. NeverRan'
      BY <1>c, <2>1 DEF CallInv, NeverRan
    <2>4. FirstExecution'
      BY <1>c, <2>1, <2>2 DEF CallInv, FirstExecution, OnTheWay
    <2>5. ApprovedOnTheWay'
      BY <1>c, <2>1, <2>2 DEF CallInv, ApprovedOnTheWay, OnTheWay
    <2> QED BY <1>c, <2>1, <2>3, <2>4, <2>5 DEF CallInv, AtMostOnce, ApprovedBeforeEffect
  <1>24. ASSUME NEW t \in Tasks, Handoff(t) PROVE CallInv'
    BY <1>24, <1>t, <1>b DEF Bystander, OnTheWay, Handoff, rows, taskRows, reviewRows, world, control, Running, Goto
  <1>25. ASSUME NEW t \in Tasks, NEW v \in {"approve", "revise", "reject"}, Review(t, v) PROVE CallInv'
    BY <1>25, <1>t, <1>b DEF Bystander, OnTheWay, Review, rows, taskRows, reviewRows, world, control, Running, Leave, Goto
  <1>26. ASSUME NEW t \in Tasks, ReviewRaises(t) PROVE CallInv'
    BY <1>26, <1>t, <1>b DEF Bystander, OnTheWay, ReviewRaises, rows, taskRows, reviewRows, world, control, Running, Goto
  <1>27. ASSUME NEW t \in Tasks, Fail(t) PROVE CallInv'
    BY <1>27, <1>t, <1>b DEF Bystander, OnTheWay, Fail, rows, taskRows, reviewRows, world, control, Running, Leave, Goto
  <1>28. ASSUME NEW t \in Tasks, Interrupt(t) PROVE CallInv'
    <2>1. /\ \A u \in Tasks \ {t} : /\ call'[u] = call[u] /\ pc'[u] = pc[u]
                                    /\ pos'[u] = pos[u] /\ revision'[u] = revision[u]
          /\ \A k \in Keys : call'[t][k] = call[t][k] \/ call'[t][k] = "error"
          /\ ~OnTheWay(t)' /\ effects' = effects /\ approval' = approval
      BY <1>28, <1>k, <1>t DEF Interrupt, SetCall, Goto, OnTheWay, world, taskRows, reviewRows, Leave
    <2>2. \A u \in Tasks : OnTheWay(u)' => u # t /\ OnTheWay(u) /\ Key(u)' = Key(u)
      BY <2>1 DEF OnTheWay, Key
    <2>3. NeverRan'
      BY <1>c, <2>1 DEF CallInv, NeverRan
    <2>4. FirstExecution'
      BY <1>c, <2>1, <2>2 DEF CallInv, FirstExecution, OnTheWay
    <2>5. ApprovedOnTheWay'
      BY <1>c, <2>1, <2>2 DEF CallInv, ApprovedOnTheWay, OnTheWay
    <2> QED BY <1>c, <2>1, <2>3, <2>4, <2>5 DEF CallInv, AtMostOnce, ApprovedBeforeEffect
  <1>29. ASSUME Stop PROVE CallInv'
    BY <1>29, <1>t, <1>b DEF Bystander, OnTheWay, Stop, rows, taskRows, reviewRows, world, control
  <1>30. ASSUME Exit PROVE CallInv'
    BY <1>30, <1>t, <1>b DEF Bystander, OnTheWay, Exit, rows, taskRows, reviewRows, world, control, Down
  <1>31. ASSUME NEW tearing \in SUBSET Tasks, Crash(tearing) PROVE CallInv'
    <2>1. /\ call' = call /\ approval' = approval /\ \A u \in Tasks : ~OnTheWay(u)'
      BY <1>31 DEF Crash, Down, rows, OnTheWay
    <2>2. \A u \in Tasks, k \in Keys :
              \/ effects'[u][k] = effects[u][k]
              \/ /\ k = Key(u) /\ k \in Files /\ pc[u] = "execute" /\ effects'[u][k] = 1
      BY <1>31, <1>k, <1>t DEF Crash
    <2>3. NeverRan'
      BY <1>c, <2>1, <2>2 DEF CallInv, NeverRan
    <2>4. AtMostOnce'
      BY <1>c, <2>2 DEF CallInv, AtMostOnce
    <2>5. ApprovedBeforeEffect'
      BY <1>c, <2>1, <2>2 DEF CallInv, ApprovedBeforeEffect, ApprovedOnTheWay, OnTheWay
    <2> QED BY <2>1, <2>3, <2>4, <2>5 DEF CallInv, FirstExecution, ApprovedOnTheWay, OnTheWay
  <1>32. ASSUME NEW swept \in SUBSET Orphans, NEW overdue \in Overdues, Start(swept, overdue) PROVE CallInv'
    <2>1. Recover(swept, overdue)
      BY <1>32, RecoverNeverRaises DEF Start
    <2>2. \A u \in Tasks, k \in Keys : approval[u][k] = "approved" => approval'[u][k] = "approved"
      <3>1. \A u \in Tasks, k \in Keys : <<u, k>> \in overdue => approval[u][k] = "pending"
        BY DEF Overdues
      <3> QED BY <2>1, <3>1 DEF Recover
    <2> QED BY <1>32, <1>t, <1>b, <2>1, <2>2 DEF Bystander, OnTheWay, Start, Recover, world
  <1>33. CASE UNCHANGED vars
    BY <1>33, <1>b DEF Bystander, OnTheWay, vars, rows, taskRows, reviewRows, world, control
  <1> QED
    BY <1>1, <1>2, <1>3, <1>4, <1>5, <1>6, <1>7, <1>8, <1>9, <1>10, <1>11, <1>12, <1>13, <1>14, <1>15, <1>16, <1>17, <1>18, <1>19, <1>20, <1>21, <1>22, <1>23, <1>24, <1>25, <1>26, <1>27, <1>28, <1>29, <1>30, <1>31, <1>32, <1>33
    DEF Next, Owner, Loop, Scan, Process, Run, Invoke

\* No call has run in the initial state.
LEMMA InitCallInv == Init => CallInv
  BY KeyType, InitInv
  DEF Init, IInv, CallInv, NeverRan, FirstExecution, ApprovedOnTheWay, OnTheWay, AtMostOnce,
      ApprovedBeforeEffect

\* Every reachable state satisfies the invariant about calls.
LEMMA CallInvariance == Spec => []CallInv
  <1>1. IInv /\ CallInv /\ [Next]_vars => CallInv'
    BY CallStep
  <1> QED BY InitCallInv, Invariance, <1>1, PTL DEF Spec

\* No tool call ever takes effect twice, whatever crashes, retries, revisions
\* and approvals come between.
THEOREM EffectsAtMostOnce == Spec => []AtMostOnce
  <1>1. CallInv => AtMostOnce
    BY DEF CallInv
  <1> QED BY CallInvariance, <1>1, PTL

\* A call the policy reserves to the owner takes effect only with the owner's
\* approval of that very call.
THEOREM OwnerApprovesEffects == Spec => []ApprovedBeforeEffect
  <1>1. CallInv => ApprovedBeforeEffect
    BY DEF CallInv
  <1> QED BY CallInvariance, <1>1, PTL

-----------------------------------------------------------------------------
(* What is known of the calls of a task that is reviewed or completed.     *)

\* A runner between the model's answer and the handoff.
Working == {"model", "invoke", "begin", "execute", "effected"}

\* A recorded success took effect, and on a whole file.
OkIsDone(t) == \A k \in Keys : call[t][k] = "ok" => effects[t][k] = 1 /\ <<t, k>> \notin torn

\* The call a runner executes has no success recorded yet; once it is through
\* it has taken effect.
InExecution(t) ==
    /\ OnTheWay(t) => call[t][Key(t)] # "ok"
    /\ pc[t] = "effected" => effects[t][Key(t)] = 1 /\ <<t, Key(t)>> \notin torn

\* A runner works through the operations in order.
EarlierOk(t) ==
    pc[t] \in Working =>
        pos[t] > 0 /\ \A i \in 1..Len(Operations[t]) : i < pos[t] => call[t][Operations[t][i]] = "ok"

AllOk(t) == \A k \in Planned(t) \cup {ArtifactKey(revision[t])} : call[t][k] = "ok"

\* A task goes to review only with all of its calls done.
ReviewedIsOk(t) == pc[t] = "handoff" \/ status[t] \in {"review", "completed"} => AllOk(t)
CompletedIsApproved(t) ==
    status[t] = "completed" => verdict[t] = "approve" /\ \A k \in OverCeiling : call[t][k] = "absent"

Progress(t) ==
    OkIsDone(t) /\ InExecution(t) /\ EarlierOk(t) /\ ReviewedIsOk(t) /\ CompletedIsApproved(t)
ProgressInv == \A t \in Tasks : Progress(t)

\* A step that leaves the calls of t alone, and at most takes its runner away
\* from the calls and its row away from the review.
Untouched(t) ==
    /\ call'[t] = call[t] /\ effects'[t] = effects[t] /\ torn' = torn
    /\ pc'[t] \in Working \cup {"handoff"} =>
           pc'[t] = pc[t] /\ pos'[t] = pos[t] /\ revision'[t] = revision[t]
    /\ status'[t] \in {"review", "completed"} =>
           status'[t] = status[t] /\ verdict'[t] = verdict[t] /\ revision'[t] = revision[t]

\* Such a step keeps what is known of the task.
LEMMA UntouchedKeeps ==
    ASSUME NEW t \in Tasks, Progress(t), Untouched(t) PROVE Progress(t)'
  <1>1. OnTheWay(t)' => OnTheWay(t) /\ Key(t)' = Key(t)
    BY DEF Untouched, OnTheWay, Working, Key
  <1>2. OkIsDone(t)'
    BY DEF Progress, Untouched, OkIsDone
  <1>3. InExecution(t)'
    BY <1>1 DEF Progress, Untouched, InExecution, OnTheWay, Working
  <1>4. EarlierOk(t)'
    BY DEF Progress, Untouched, EarlierOk, Working
  <1>5. ReviewedIsOk(t)'
    BY DEF Progress, Untouched, ReviewedIsOk, AllOk
  <1>6. CompletedIsApproved(t)'
    BY DEF Progress, Untouched, CompletedIsApproved
  <1> QED BY <1>2, <1>3, <1>4, <1>5, <1>6 DEF Progress

\* Every call of a runner comes from the plan or writes an artifact.
LEMMA PlannedKeys ==
    ASSUME TypeOK, NEW t \in Tasks
    PROVE  /\ Planned(t) \cup {ArtifactKey(revision[t])} \subseteq Keys
           /\ \A i \in 1..Len(Operations[t]) : Operations[t][i] \in Planned(t)
           /\ Len(Operations[t]) \in Nat
  <1>1. Operations[t] \in Seq(1..NumCalls)
    BY PlanAssumption
  <1>2. \A i \in 1..Len(Operations[t]) : Operations[t][i] \in 1..NumCalls
    BY <1>1, ElementOfSeq
  <1>3. revision[t] \in 0..(RetryLimit + 1)
    BY DEF TypeOK, Revisions
  <1> QED BY <1>1, <1>2, <1>3, CountsAssumption DEF Planned, Keys, ArtifactKey

\* A runner that has the success of its call, or finds it recorded, goes on.
LEMMA Advances ==
    ASSUME TypeOK, NEW t \in Tasks, Progress(t), pc[t] \in Working, Advance(t),
           call' \in [Tasks -> [Keys -> CallRow]],
           revision' = revision, status' = status,
           \A k \in Keys : call[t][k] = "ok" => call'[t][k] = "ok",
           call'[t][Key(t)] = "ok"
    PROVE  EarlierOk(t)' /\ ReviewedIsOk(t)' /\ ~OnTheWay(t)' /\ pc'[t] # "effected"
  <1>t. pc \in [Tasks -> Place] /\ pos \in [Tasks -> Nat]
    BY DEF TypeOK
  <1>p. /\ Planned(t) \cup {ArtifactKey(revision[t])} \subseteq Keys
        /\ \A i \in 1..Len(Operations[t]) : Operations[t][i] \in Planned(t)
        /\ Len(Operations[t]) \in Nat
    BY PlannedKeys
  <1>1. pos[t] > 0 /\ \A i \in 1..Len(Operations[t]) : i < pos[t] => call'[t][Operations[t][i]] = "ok"
    BY <1>p DEF Progress, EarlierOk
  <1>2. CASE pos[t] \in 1..Len(Operations[t])
    <2>1. pc'[t] = "invoke" /\ pos'[t] = pos[t] + 1
      BY <1>2, <1>t DEF Advance, Goto
    <2>2. \A i \in 1..Len(Operations[t]) : i < pos'[t] => call'[t][Operations[t][i]] = "ok"
      BY <1>1, <1>2, <1>t, <2>1 DEF Key
    <2>3. EarlierOk(t)'
      BY <1>t, <2>1, <2>2 DEF EarlierOk
    <2> QED BY <1>p, <2>1, <2>3 DEF Progress, ReviewedIsOk, AllOk, OnTheWay
  <1>3. CASE pos[t] \notin 1..Len(Operations[t])
    <2>1. pc'[t] = "handoff" /\ \A i \in 1..Len(Operations[t]) : i < pos[t]
      BY <1>1, <1>3, <1>t, <1>p DEF Advance, Goto
    <2>2. \A k \in Planned(t) : call'[t][k] = "ok"
      BY <1>1, <2>1 DEF Planned
    <2>3. call'[t][ArtifactKey(revision[t])] = "ok"
      BY <1>3 DEF Key
    <2>4. AllOk(t)'
      BY <2>2, <2>3 DEF AllOk, ArtifactKey
    <2> QED BY <2>1, <2>4 DEF EarlierOk, ReviewedIsOk, OnTheWay, Working
  <1> QED BY <1>2, <1>3

\* A call that is recorded without a success leaves the successes alone.
LEMMA NotYetOk ==
    ASSUME TypeOK, NEW t \in Tasks, Progress(t), NEW row \in CallRow \ {"ok"},
           SetCall(t, Key(t), row), call[t][Key(t)] # "ok",
           effects' = effects, torn' = torn
    PROVE  /\ OkIsDone(t)'
           /\ \A k \in Keys : call[t][k] = "ok" <=> call'[t][k] = "ok"
           /\ \A u \in Tasks \ {t} : call'[u] = call[u]
  <1>1. call \in [Tasks -> [Keys -> CallRow]] /\ Key(t) \in Keys
    BY KeyType DEF TypeOK
  <1> QED BY <1>1 DEF SetCall, Progress, OkIsDone

\* Recorded successes stay: what was all done stays all done.
LEMMA AllOkStays ==
    ASSUME TypeOK, NEW t \in Tasks, revision'[t] = revision[t],
           \A k \in Keys : call[t][k] = "ok" => call'[t][k] = "ok"
    PROVE  AllOk(t) => AllOk(t)'
  <1>1. Planned(t) \cup {ArtifactKey(revision[t])} \subseteq Keys
    BY PlannedKeys
  <1>2. Planned(t)' = Planned(t)
    BY DEF Planned
  <1>3. ArtifactKey(revision[t])' = ArtifactKey(revision[t])
    BY DEF ArtifactKey
  <1> QED BY <1>1, <1>2, <1>3 DEF AllOk

\* Every step keeps what is known of the progress of every task.
LEMMA ProgressStep ==
    ASSUME IInv, CallInv, ProgressInv, [Next]_vars
    PROVE  ProgressInv'
  <1>t. /\ TypeOK /\ status \in [Tasks -> State] /\ pc \in [Tasks -> Place] /\ pos \in [Tasks -> Nat]
        /\ revision \in [Tasks -> Revisions] /\ call \in [Tasks -> [Keys -> CallRow]]
        /\ verdict \in [Tasks -> {"none", "approve", "revise", "reject"}]
        /\ effects \in [Tasks -> [Keys -> Nat]] /\ \A t \in Tasks : Key(t) \in Keys
        /\ call' \in [Tasks -> [Keys -> CallRow]]
    BY KeyType, TypeStep DEF IInv, TypeOK
  <1>i. RowFollowsRunner /\ RunnersActive
    BY DEF IInv
  <1>p. \A t \in Tasks : Progress(t)
    BY DEF ProgressInv
  <1>a. ASSUME \A u \in Tasks : Untouched(u) PROVE ProgressInv'
    BY <1>a, <1>p, UntouchedKeeps DEF ProgressInv
  <1>o. ASSUME NEW t \in Tasks, Progress(t)', \A u \in Tasks \ {t} : Untouched(u) PROVE ProgressInv'
    BY <1>o, <1>p, UntouchedKeeps DEF ProgressInv
  <1>s. ASSUME NEW t \in Tasks, NEW target, To(t, target)
        PROVE  status'[t] = target /\ \A u \in Tasks \ {t} : status'[u] = status[u]
    BY <1>s, <1>t DEF To, Transition
  <1>r. ASSUME NEW swept \in SUBSET Orphans, NEW overdue \in Overdues, Recover(swept, overdue), UNCHANGED <<world, pos>>,
               \A u \in Tasks : pc'[u] = pc[u] \/ pc'[u] = "idle"
        PROVE  ProgressInv'
    <2>1. \A u \in Tasks : status'[u] = status[u] \/ status'[u] \in {"queued", "failed"}
      BY <1>r DEF Recover, Transition, Resolved
    <2> QED BY <1>a, <1>r, <2>1 DEF Recover, Untouched, world, Working
  <1>1. CASE Submit \/ Stop \/ Exit \/ UNCHANGED vars
    BY <1>1, <1>a DEF Submit, Stop, Exit, Down, vars, rows, taskRows, reviewRows, world, Untouched, Working
  <1>2. ASSUME NEW tearing \in SUBSET Tasks, Crash(tearing) PROVE ProgressInv'
    <2> SUFFICES ASSUME NEW u \in Tasks PROVE Progress(u)'
      BY DEF ProgressInv
    <2>1. /\ call' = call /\ status' = status /\ verdict' = verdict /\ revision' = revision /\ pc'[u] = "idle"
      BY <1>2 DEF Crash, Down, rows, taskRows, reviewRows
    <2>2. \A k \in Keys : call[u][k] = "ok" => effects'[u][k] = effects[u][k] /\ (<<u, k>> \in torn' => <<u, k>> \in torn)
      <3>1. pc[u] = "execute" => call[u][Key(u)] # "ok"
        BY <1>p DEF Progress, InExecution, OnTheWay
      <3> QED BY <1>2, <1>t, <3>1 DEF Crash
    <2>3. OkIsDone(u)'
      BY <1>p, <1>t, <2>1, <2>2 DEF Progress, OkIsDone
    <2>4. InExecution(u)'
      BY <1>p, <1>t, <2>1, <2>2 DEF Progress, InExecution, OnTheWay
    <2>5. EarlierOk(u)'
      BY <1>p, <1>t, <2>1, <2>2, PlannedKeys DEF Progress, EarlierOk, Working
    <2>6. ReviewedIsOk(u)'
      BY <1>p, <1>t, <2>1, <2>2, AllOkStays DEF Progress, ReviewedIsOk
    <2>7. CompletedIsApproved(u)'
      BY <1>p, <1>t, <2>1, <2>2 DEF Progress, CompletedIsApproved
    <2> QED BY <2>3, <2>4, <2>5, <2>6, <2>7 DEF Progress
  <1>3. ASSUME NEW t \in Tasks, ModelRaises(t) \/ InvokeRefused(t) \/ ReviewRaises(t) \/ ScanSkips(t) \/ BeginRefused(t)
        PROVE  ProgressInv'
    BY <1>3, <1>a, <1>s, <1>t
    DEF ModelRaises, InvokeRefused, ReviewRaises, ScanSkips, Scanning, BeginRefused, Assign, Goto, Untouched, Working,
        world, taskRows, reviewRows
  <1>4. ASSUME NEW t \in Tasks, ScanCancels(t) \/ ScanBlocks(t) \/ ScanStarts(t) \/ ScanBreaks(t)
        PROVE  ProgressInv'
    BY <1>4, <1>a, <1>s, <1>t
    DEF ScanCancels, ScanBlocks, ScanStarts, ScanBreaks, Scanning, Unblock, Goto, Untouched, Working, world, reviewRows
  <1>5. ASSUME NEW t \in Tasks, NEW k \in Keys, NEW answer \in {"approved", "denied"}, Resolve(t, k, answer)
        PROVE  ProgressInv'
    BY <1>5, <1>a, <1>s DEF Resolve, Resolved, Untouched, world, reviewRows
  <1>6. ASSUME NEW t \in Tasks, Cancel(t) PROVE ProgressInv'
    BY <1>6, <1>a, <1>s DEF Cancel, Untouched, world, reviewRows
  <1>7. ASSUME NEW swept \in SUBSET Orphans, NEW overdue \in Overdues, NEW reaped \in SUBSET active, Poll(swept, overdue, reaped)
        PROVE  ProgressInv'
    BY <1>7, <1>r, RecoverNeverRaises DEF Poll
  <1>8. ASSUME NEW swept \in SUBSET Orphans, NEW overdue \in Overdues, Start(swept, overdue)
        PROVE  ProgressInv'
    BY <1>8, <1>r, RecoverNeverRaises DEF Start
  <1>9. ASSUME NEW t \in Tasks, Fail(t) PROVE ProgressInv'
    BY <1>9, <1>a, <1>s, <1>t DEF Fail, Leave, Goto, Untouched, Working, world
  <1>10. ASSUME NEW t \in Tasks, Begin(t) PROVE ProgressInv'
    <2>1. \A u \in Tasks \ {t} : Untouched(u)
      BY <1>10, <1>s, <1>t DEF Begin, Assign, Goto, Untouched, Working, world, reviewRows
    <2>2. /\ call' = call /\ effects' = effects /\ torn' = torn /\ revision' = revision /\ verdict' = verdict
          /\ pos'[t] = 1 /\ pc'[t] \in {"review", "invoke", "model"} /\ (status'[t] = status[t] \/ status'[t] = "running")
      BY <1>10, <1>s, <1>t DEF Begin, Assign, Goto, world, reviewRows
    <2>3. Progress(t)'
      <3>1. OkIsDone(t)'
        BY <1>p, <1>t, <2>2 DEF Progress, OkIsDone
      <3>2. InExecution(t)'
        BY <1>p, <1>t, <2>2 DEF Progress, InExecution, OnTheWay
      <3>3. EarlierOk(t)'
        BY <1>p, <1>t, <2>2, PlannedKeys DEF Progress, EarlierOk, Working
      <3>4. ReviewedIsOk(t)'
        BY <1>p, <1>t, <2>2, AllOkStays DEF Progress, ReviewedIsOk
      <3>5. CompletedIsApproved(t)'
        BY <1>p, <1>t, <2>2 DEF Progress, CompletedIsApproved
      <3> QED BY <3>1, <3>2, <3>3, <3>4, <3>5 DEF Progress
    <2> QED BY <1>o, <2>1, <2>3
  <1>11. ASSUME NEW t \in Tasks, ModelReturns(t) PROVE ProgressInv'
    <2>1. \A u \in Tasks \ {t} : Untouched(u)
      BY <1>11, <1>t DEF ModelReturns, Goto, Untouched, Working, world
    <2>2. /\ call' = call /\ effects' = effects /\ torn' = torn /\ revision' = revision /\ verdict' = verdict
          /\ status' = status /\ pos' = pos /\ pc[t] = "model" /\ pc'[t] = "invoke"
      BY <1>11, <1>t DEF ModelReturns, Goto, world
    <2>3. Progress(t)'
      <3>1. OkIsDone(t)'
        BY <1>p, <1>t, <2>2 DEF Progress, OkIsDone
      <3>2. InExecution(t)'
        BY <1>p, <1>t, <2>2 DEF Progress, InExecution, OnTheWay
      <3>3. EarlierOk(t)'
        BY <1>p, <1>t, <2>2, PlannedKeys DEF Progress, EarlierOk, Working
      <3>4. ReviewedIsOk(t)'
        BY <1>p, <1>t, <2>2, AllOkStays DEF Progress, ReviewedIsOk
      <3>5. CompletedIsApproved(t)'
        BY <1>p, <1>t, <2>2 DEF Progress, CompletedIsApproved
      <3> QED BY <3>1, <3>2, <3>3, <3>4, <3>5 DEF Progress
    <2> QED BY <1>o, <2>1, <2>3
  <1>12. ASSUME NEW t \in Tasks, InvokeReuses(t) PROVE ProgressInv'
    <2>1. \A u \in Tasks \ {t} : Untouched(u)
      BY <1>12, <1>t DEF InvokeReuses, Advance, Goto, Untouched, Working, world, taskRows, reviewRows
    <2>2. /\ call' = call /\ effects' = effects /\ torn' = torn /\ revision' = revision /\ verdict' = verdict
          /\ status' = status /\ pc[t] = "invoke" /\ Advance(t) /\ call[t][Key(t)] = "ok"
      BY <1>12 DEF InvokeReuses, Invoking, world, taskRows, reviewRows
    <2>3. EarlierOk(t)' /\ ReviewedIsOk(t)' /\ ~OnTheWay(t)' /\ pc'[t] # "effected"
      BY <1>p, <1>t, <2>2, Advances DEF Working
    <2>4. Progress(t)'
      BY <1>p, <2>2, <2>3 DEF Progress, OkIsDone, InExecution, CompletedIsApproved
    <2> QED BY <1>o, <2>1, <2>4
  <1>13. ASSUME NEW t \in Tasks, ToolReturns(t) PROVE ProgressInv'
    <2>1. \A u \in Tasks \ {t} : Untouched(u)
      BY <1>13, <1>t DEF ToolReturns, SetCall, Advance, Goto, Untouched, Working, world, taskRows, reviewRows
    <2>2. /\ effects' = effects /\ torn' = torn /\ revision' = revision /\ verdict' = verdict
          /\ status' = status /\ pc[t] = "effected" /\ Advance(t) /\ call'[t][Key(t)] = "ok"
          /\ \A k \in Keys \ {Key(t)} : call'[t][k] = call[t][k]
      BY <1>13, <1>t DEF ToolReturns, SetCall, world, taskRows, reviewRows
    <2>3. EarlierOk(t)' /\ ReviewedIsOk(t)' /\ ~OnTheWay(t)' /\ pc'[t] # "effected"
      BY <1>p, <1>t, <2>2, Advances DEF Working
    <2>4. OkIsDone(t)'
      BY <1>p, <1>t, <2>2 DEF Progress, OkIsDone, InExecution
    <2>5. status[t] # "completed"
      BY <1>i, <2>2 DEF RowFollowsRunner
    <2> QED BY <1>o, <2>1, <2>2, <2>3, <2>4, <2>5 DEF Progress, InExecution, CompletedIsApproved
  <1>14. ASSUME NEW t \in Tasks, StartExecution(t) PROVE ProgressInv'
    <2>1. /\ SetCall(t, Key(t), "started") /\ effects' = effects /\ torn' = torn /\ revision' = revision
          /\ verdict' = verdict /\ status' = status /\ pos' = pos /\ pc[t] = "begin" /\ pc'[t] = "execute"
          /\ call'[t][Key(t)] = "started" /\ Key(t)' = Key(t) /\ \A u \in Tasks \ {t} : pc'[u] = pc[u]
      BY <1>14, <1>t DEF StartExecution, SetCall, Goto, world, taskRows, reviewRows, Key
    <2>2. call[t][Key(t)] # "ok"
      BY <1>p, <2>1 DEF Progress, InExecution, OnTheWay
    <2>3. /\ OkIsDone(t)' /\ \A u \in Tasks \ {t} : call'[u] = call[u]
          /\ \A k \in Keys : call[t][k] = "ok" <=> call'[t][k] = "ok"
      BY <1>p, <1>t, <2>1, <2>2, NotYetOk DEF CallRow
    <2>4. status[t] # "completed"
      BY <1>i, <2>1 DEF RowFollowsRunner
    <2>5. Progress(t)'
      <3>1. OkIsDone(t)'
        BY <1>p, <1>t, <2>1, <2>3, <2>4 DEF Progress, OkIsDone
      <3>2. InExecution(t)'
        BY <1>p, <1>t, <2>1, <2>3, <2>4 DEF Progress, InExecution, OnTheWay
      <3>3. EarlierOk(t)'
        BY <1>p, <1>t, <2>1, <2>3, <2>4, PlannedKeys DEF Progress, EarlierOk, Working
      <3>4. ReviewedIsOk(t)'
        BY <1>p, <1>t, <2>1, <2>3, <2>4, AllOkStays DEF Progress, ReviewedIsOk
      <3>5. CompletedIsApproved(t)'
        BY <1>p, <1>t, <2>1, <2>3, <2>4 DEF Progress, CompletedIsApproved
      <3> QED BY <3>1, <3>2, <3>3, <3>4, <3>5 DEF Progress
    <2> QED BY <1>o, <2>1, <2>3, <2>5 DEF Untouched
  <1>15. ASSUME NEW t \in Tasks, ToolFails(t) \/ Interrupt(t) PROVE ProgressInv'
    <2>1. /\ effects' = effects /\ torn' = torn /\ revision' = revision /\ verdict' = verdict /\ status' = status
          /\ pc'[t] \notin Working \cup {"handoff"}
          /\ \A u \in Tasks \ {t} : pc'[u] = pc[u] /\ pos'[u] = pos[u]
      BY <1>15, <1>t DEF ToolFails, Interrupt, Leave, Goto, world, taskRows, reviewRows, Working
    <2>2. \/ call' = call
          \/ /\ pc[t] \in {"execute", "effected"} /\ SetCall(t, Key(t), "error")
      BY <1>15 DEF ToolFails, Interrupt
    <2>3. CASE call' = call
      BY <1>a, <2>1, <2>3 DEF Untouched
    <2>4. CASE pc[t] \in {"execute", "effected"} /\ SetCall(t, Key(t), "error")
      <3>1. call[t][Key(t)] # "ok"
        BY <1>p, <2>4 DEF Progress, InExecution, OnTheWay
      <3>2. /\ OkIsDone(t)' /\ \A u \in Tasks \ {t} : call'[u] = call[u]
            /\ \A k \in Keys : call[t][k] = "ok" <=> call'[t][k] = "ok"
        BY <1>p, <1>t, <2>1, <2>4, <3>1, NotYetOk DEF CallRow
      <3>3. status[t] # "completed"
        BY <1>i, <2>4 DEF RowFollowsRunner
      <3>4. Progress(t)'
        <4>1. OkIsDone(t)'
          BY <1>p, <1>t, <2>1, <3>2, <3>3 DEF Progress, OkIsDone
        <4>2. InExecution(t)'
          BY <1>p, <1>t, <2>1, <3>2, <3>3 DEF Progress, InExecution, OnTheWay, Working
        <4>3. EarlierOk(t)'
          BY <1>p, <1>t, <2>1, <3>2, <3>3, PlannedKeys DEF Progress, EarlierOk, Working
        <4>4. ReviewedIsOk(t)'
          BY <1>p, <1>t, <2>1, <3>2, <3>3, AllOkStays DEF Progress, ReviewedIsOk
        <4>5. CompletedIsApproved(t)'
          BY <1>p, <1>t, <2>1, <3>2, <3>3 DEF Progress, CompletedIsApproved
        <4> QED BY <4>1, <4>2, <4>3, <4>4, <4>5 DEF Progress
      <3> QED BY <1>o, <2>1, <3>2, <3>4 DEF Untouched
    <2> QED BY <2>2, <2>3, <2>4
  <1>16. ASSUME NEW t \in Tasks, NEW d \in Decisions,
                InvokeAsks(t, d) \/ InvokeDenied(t, d) \/ InvokeGated(t, d) \/ InvokePermits(t, d)
         PROVE  ProgressInv'
    <2>1. /\ effects' = effects /\ torn' = torn /\ revision' = revision /\ status[t] = "running" /\ pc[t] = "invoke"
          /\ Recorded(t, Key(t)) /\ call[t][Key(t)] # "ok"
      BY <1>16 DEF InvokeAsks, InvokeDenied, InvokeGated, InvokePermits, Invoking, Admissible, world, taskRows, reviewRows
    <2>2. /\ status'[t] \in {"running", "waiting_approval", "failed"}
          /\ \A u \in Tasks \ {t} : /\ status'[u] = status[u] /\ verdict'[u] = verdict[u]
                                    /\ pc'[u] = pc[u] /\ pos'[u] = pos[u]
      BY <1>16, <1>s, <1>t, <2>1
      DEF InvokeAsks, InvokeDenied, InvokeGated, InvokePermits, AwaitOwner, Leave, Goto, taskRows, reviewRows
    <2>3. (pc'[t] = "begin" /\ pos' = pos) \/ pc'[t] \in {"done", "fail_fatal"}
      BY <1>16, <1>t DEF InvokeAsks, InvokeDenied, InvokeGated, InvokePermits, AwaitOwner, Leave, Goto
    <2>4. /\ OkIsDone(t)' /\ \A u \in Tasks \ {t} : call'[u] = call[u]
          /\ \A k \in Keys : call[t][k] = "ok" <=> call'[t][k] = "ok"
      <3> DEFINE row == IF call[t][Key(t)] = "absent" THEN "created" ELSE call[t][Key(t)]
      <3>1. row \in CallRow \ {"ok"} /\ SetCall(t, Key(t), row)
        BY <1>t, <2>1 DEF Recorded, CallRow
      <3> HIDE DEF row
      <3> QED BY <1>p, <1>t, <2>1, <3>1, NotYetOk
    <2>5. \A u \in Tasks \ {t} : Untouched(u)
      BY <2>1, <2>2, <2>4 DEF Untouched
    <2>6. CASE pc'[t] = "begin" /\ pos' = pos
      <3>1. Key(t)' = Key(t)
        BY <2>1, <2>6 DEF Key
      <3>2. InExecution(t)'
        BY <1>t, <2>1, <2>4, <2>6, <3>1 DEF InExecution
      <3>3. EarlierOk(t)'
        BY <1>p, <1>t, <2>1, <2>4, <2>6, PlannedKeys DEF Progress, EarlierOk, Working
      <3>4. ReviewedIsOk(t)' /\ CompletedIsApproved(t)'
        BY <2>2, <2>6 DEF ReviewedIsOk, CompletedIsApproved
      <3> QED BY <1>o, <2>4, <2>5, <3>2, <3>3, <3>4 DEF Progress
    <2>7. CASE pc'[t] \in {"done", "fail_fatal"}
      BY <1>o, <2>2, <2>4, <2>5, <2>7
      DEF Progress, InExecution, OnTheWay, EarlierOk, Working, ReviewedIsOk, CompletedIsApproved
    <2> QED BY <2>3, <2>6, <2>7
  <1>17. ASSUME NEW t \in Tasks, Effect(t) PROVE ProgressInv'
    <2>1. /\ call' = call /\ torn' = torn /\ revision' = revision /\ verdict' = verdict /\ status' = status
          /\ pos' = pos /\ pc[t] = "execute" /\ pc'[t] = "effected" /\ <<t, Key(t)>> \notin torn /\ Key(t)' = Key(t)
      BY <1>17, <1>t DEF Effect, Goto, Whole, rows, taskRows, reviewRows, Key
    <2>2. /\ \A u \in Tasks \ {t} : effects'[u] = effects[u] /\ pc'[u] = pc[u]
          /\ \A k \in Keys \ {Key(t)} : effects'[t][k] = effects[t][k]
      BY <1>17, <1>t DEF Effect, Goto
    <2>3. effects'[t][Key(t)] = 1
      <3>1. effects'[t][Key(t)] = IF TakesEffect(t, Key(t)) THEN effects[t][Key(t)] + 1
                                  ELSE effects[t][Key(t)]
        BY <1>17, <1>t DEF Effect
      <3>2. effects[t][Key(t)] \in {0, 1}
        <4>1. effects[t][Key(t)] \in Nat
          BY <1>t
        <4>2. effects[t][Key(t)] <= 1
          BY <1>t DEF CallInv, AtMostOnce
        <4> QED BY <4>1, <4>2
      <3>3. TakesEffect(t, Key(t)) <=> effects[t][Key(t)] = 0
        BY <1>t, <2>1 DEF TakesEffect, CallInv, FirstExecution
      <3> QED BY <3>1, <3>2, <3>3
    <2>4. call[t][Key(t)] # "ok"
      BY <1>p, <2>1 DEF Progress, InExecution, OnTheWay
    <2>5. OkIsDone(t)'
      BY <1>p, <2>1, <2>2, <2>4 DEF Progress, OkIsDone
    <2>6. Progress(t)'
      <3>1. OkIsDone(t)'
        BY <1>p, <1>t, <2>1, <2>3, <2>4, <2>5 DEF Progress, OkIsDone
      <3>2. InExecution(t)'
        BY <1>p, <1>t, <2>1, <2>3, <2>4, <2>5 DEF Progress, InExecution, OnTheWay
      <3>3. EarlierOk(t)'
        BY <1>p, <1>t, <2>1, <2>3, <2>4, <2>5, PlannedKeys DEF Progress, EarlierOk, Working
      <3>4. ReviewedIsOk(t)'
        BY <1>p, <1>t, <2>1, <2>3, <2>4, <2>5, AllOkStays DEF Progress, ReviewedIsOk
      <3>5. CompletedIsApproved(t)'
        BY <1>p, <1>t, <2>1, <2>3, <2>4, <2>5 DEF Progress, CompletedIsApproved
      <3> QED BY <3>1, <3>2, <3>3, <3>4, <3>5 DEF Progress
    <2> QED BY <1>o, <2>1, <2>2, <2>6 DEF Untouched
  <1>18. ASSUME NEW t \in Tasks, Handoff(t) PROVE ProgressInv'
    <2>1. /\ call' = call /\ effects' = effects /\ torn' = torn /\ revision' = revision /\ verdict' = verdict
          /\ status'[t] = "review" /\ pc[t] = "handoff" /\ pc'[t] = "review"
      BY <1>18, <1>s, <1>t DEF Handoff, Goto, world, reviewRows
    <2>2. \A u \in Tasks \ {t} : Untouched(u)
      BY <1>18, <1>s, <1>t, <2>1 DEF Handoff, Goto, Untouched
    <2>3. Progress(t)'
      <3>1. OkIsDone(t)'
        BY <1>p, <1>t, <2>1 DEF Progress, OkIsDone
      <3>2. InExecution(t)'
        BY <1>p, <1>t, <2>1 DEF Progress, InExecution, OnTheWay
      <3>3. EarlierOk(t)'
        BY <1>p, <1>t, <2>1, PlannedKeys DEF Progress, EarlierOk, Working
      <3>4. ReviewedIsOk(t)'
        BY <1>p, <1>t, <2>1, AllOkStays DEF Progress, ReviewedIsOk
      <3>5. CompletedIsApproved(t)'
        BY <1>p, <1>t, <2>1 DEF Progress, CompletedIsApproved
      <3> QED BY <3>1, <3>2, <3>3, <3>4, <3>5 DEF Progress
    <2> QED BY <1>o, <2>2, <2>3
  <1>19. ASSUME NEW t \in Tasks, NEW v \in {"approve", "revise", "reject"}, Review(t, v) PROVE ProgressInv'
    <2>1. /\ call' = call /\ effects' = effects /\ torn' = torn /\ pc'[t] = "done" /\ status[t] = "review"
          /\ verdict'[t] = v /\ (v # "revise" => revision'[t] = revision[t])
      BY <1>19, <1>i, <1>t DEF Review, Running, RowFollowsRunner, Leave, Goto, world
    <2>2. \A u \in Tasks \ {t} : Untouched(u)
      BY <1>19, <1>s, <1>t, <2>1 DEF Review, Leave, Goto, Untouched
    <2>3. /\ status'[t] \notin {"review"} /\ (status'[t] = "completed" => v = "approve")
          /\ (v = "approve" => \A k \in OverCeiling : call[t][k] = "absent")
      BY <1>19, <1>s DEF Review, Verdicts
    <2>4. Progress(t)'
      <3>1. OkIsDone(t)'
        BY <1>p, <1>t, <2>1, <2>3 DEF Progress, OkIsDone
      <3>2. InExecution(t)'
        BY <1>p, <1>t, <2>1, <2>3 DEF Progress, InExecution, OnTheWay
      <3>3. EarlierOk(t)'
        BY <1>p, <1>t, <2>1, <2>3, PlannedKeys DEF Progress, EarlierOk, Working
      <3>4. ReviewedIsOk(t)'
        BY <1>p, <1>t, <2>1, <2>3, AllOkStays DEF Progress, ReviewedIsOk
      <3>5. CompletedIsApproved(t)'
        BY <1>p, <1>t, <2>1, <2>3 DEF Progress, CompletedIsApproved
      <3> QED BY <3>1, <3>2, <3>3, <3>4, <3>5 DEF Progress
    <2> QED BY <1>o, <2>2, <2>4
  <1> QED
    BY <1>1, <1>2, <1>3, <1>4, <1>5, <1>6, <1>7, <1>8, <1>9, <1>10, <1>11, <1>12, <1>13, <1>14, <1>15, <1>16, <1>17, <1>18, <1>19
    DEF Next, Owner, Loop, Scan, Process, Run, Invoke

\* In every reachable state the calls of a task are as far as its row says.
LEMMA ProgressInvariance == Spec => []ProgressInv
  <1>1. Init => ProgressInv
    BY DEF Init, ProgressInv, Progress, OkIsDone, InExecution, OnTheWay, EarlierOk, Working, ReviewedIsOk,
           CompletedIsApproved
  <1>2. IInv /\ CallInv /\ ProgressInv /\ [Next]_vars => ProgressInv'
    BY ProgressStep
  <1> QED BY <1>1, <1>2, Invariance, CallInvariance, PTL DEF Spec

\* A completed task was approved, and all of its planned calls and the artifact
\* of its last revision succeeded, took effect once and left whole files.
THEOREM CompletionIsEarned == Spec => []CompletedMeansDone
  <1>1. IInv /\ ProgressInv => CompletedMeansDone
    <2> SUFFICES ASSUME IInv, ProgressInv, NEW t \in Tasks, status[t] = "completed"
                 PROVE  /\ verdict[t] = "approve"
                        /\ \A k \in Planned(t) \cup {ArtifactKey(revision[t])} :
                               call[t][k] = "ok" /\ effects[t][k] = 1 /\ <<t, k>> \notin torn
      BY DEF CompletedMeansDone
    <2>1. Planned(t) \cup {ArtifactKey(revision[t])} \subseteq Keys
      BY PlannedKeys DEF IInv
    <2> QED BY <2>1 DEF ProgressInv, Progress, OkIsDone, ReviewedIsOk, AllOk, CompletedIsApproved
  <1> QED BY <1>1, Invariance, ProgressInvariance, PTL

\* No task is completed that ever tried a call above its ceiling.
THEOREM CeilingKept == Spec => []WithinCeiling
  <1>1. ProgressInv => WithinCeiling
    BY DEF ProgressInv, Progress, CompletedIsApproved, WithinCeiling
  <1> QED BY <1>1, ProgressInvariance, PTL

\* A tool is started only by StartExecution, whose runner has a running task
\* and has not been told to stop.
LEMMA StartsStep ==
    ASSUME IInv, [Next]_vars, NEW t \in Tasks, NEW k \in Keys, call[t][k] # "started", call'[t][k] = "started"
    PROVE  status[t] = "running" /\ t \notin interrupted
  <1>t. call \in [Tasks -> [Keys -> CallRow]] /\ \A u \in Tasks : Key(u) \in Keys
    BY KeyType DEF IInv, TypeOK
  <1>1. call' # call
    OBVIOUS
  <1>2. ASSUME NEW u \in Tasks, NEW row, SetCall(u, Key(u), row), row # "started" PROVE FALSE
    BY <1>2, <1>t DEF SetCall
  <1>3. ASSUME NEW u \in Tasks, Recorded(u, Key(u)) PROVE FALSE
    BY <1>3, <1>t DEF Recorded, SetCall
  <1>4. ASSUME NEW u \in Tasks, StartExecution(u) PROVE status[t] = "running" /\ t \notin interrupted
    <2>1. u = t
      BY <1>4, <1>t DEF StartExecution, SetCall
    <2> QED BY <1>4, <2>1 DEF StartExecution, Running, IInv, RowFollowsRunner
  <1>5. ASSUME NEW u \in Tasks, Run(u) PROVE StartExecution(u)
    BY <1>1, <1>2, <1>3, <1>5
    DEF Run, Invoke, Begin, BeginRefused, ModelReturns, ModelRaises, InvokeRefused, InvokeReuses, InvokeAsks,
        InvokeDenied, InvokeGated, InvokePermits, ToolReturns, ToolFails, Handoff, Review, ReviewRaises, Fail, Interrupt
  <1>6. CASE Owner \/ Loop \/ Process \/ UNCHANGED vars \/ \E u \in Tasks : Effect(u)
    BY <1>1, <1>6
    DEF Owner, Loop, Process, Submit, Cancel, Resolve, Poll, Recover, Scan, ScanSkips, ScanCancels, ScanBlocks,
        ScanStarts, ScanBreaks, Scanning, Stop, Exit, Crash, Start, Down, Effect, vars, rows
  <1> QED BY <1>4, <1>5, <1>6 DEF Next

\* No tool starts for a task that is not running, or after its runner has been
\* told to stop.
THEOREM NothingStartsLate == Spec => StartsOnlyWhileRunning
  <1>1. IInv /\ [Next]_vars => \A t \in Tasks, k \in Keys :
            call[t][k] # "started" /\ call'[t][k] = "started" => status[t] = "running" /\ t \notin interrupted
    BY StartsStep
  <1> QED BY <1>1, Invariance, PTL DEF Spec, StartsOnlyWhileRunning
=============================================================================
