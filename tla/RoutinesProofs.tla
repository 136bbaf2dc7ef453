--------------------------- MODULE RoutinesProofs ---------------------------
(* Theorems about the routine scheduler: a routine keeps to its schedule,  *)
(* is dispatched once for what fell due, and its retries are bounded.      *)
EXTENDS Routines, Integers, TLAPS

\* A multiple of a period leaves no remainder.
LEMMA MultipleOf ==
    ASSUME NEW p \in Nat \ {0}, NEW q \in Nat
    PROVE  (q * p) % p = 0
  BY SMTT(30)

\* An occurrence lies after the time it is asked for, on the schedule.
LEMMA OccurrenceFacts ==
    ASSUME NEW p \in Nat \ {0}, NEW after \in Nat
    PROVE  /\ next_occurrence(p, after) \in Nat
           /\ after < next_occurrence(p, after)
           /\ next_occurrence(p, after) % p = 0
  <1> DEFINE q == after \div p + 1
  <1>1. after \div p \in Int /\ after % p \in 0..(p - 1)
    OBVIOUS
  <1>2. after \div p >= 0
    BY <1>1
  <1>3. after % p = after - (after \div p) * p
    OBVIOUS
  <1>4. next_occurrence(p, after) = q * p /\ q \in Nat
    BY <1>1, <1>2 DEF next_occurrence
  <1>5. q * p = (after \div p) * p + p
    BY <1>1
  <1>6. after < q * p
    BY <1>1, <1>3, <1>5
  <1>7. (q * p) % p = 0
    BY <1>4, MultipleOf
  <1> QED BY <1>4, <1>6, <1>7

-----------------------------------------------------------------------------
(* The invariant.                                                          *)

\* Every routine has its row.
RowsOfAll == DOMAIN schedule = Routines /\ DOMAIN policy = Routines

\* The claim has put the routine in hand back on its schedule.
ClaimedOnSchedule ==
    \A r \in Routines : First(r) /\ turn \in {"submit", "succeeded", "failed"} =>
        next_run[r] % schedule[r] = 0

\* What fell due before the last mission has been claimed by it.
DispatchedBefore ==
    \A r \in Routines :
        /\ lastMission[r] <= clock
        /\ r \in created => lastMission[r] < next_run[r]
        /\ First(r) /\ turn = "submit" => lastMission[r] < clock /\ clock < next_run[r]

IInv == TypeOK /\ RowsOfAll /\ WaitsForOccurrence /\ ClaimedOnSchedule /\ DispatchedBefore

\* Some policy of the routine asks for k attempts.
AsksFor(r, k) == \E p \in Policies[r] : \E n \in p : k <= n

\* A failure is outstanding only with a retry that is counted and asked for, or
\* with the count at the cap; there, the routine is on its schedule.
FailuresCounted ==
    \A r \in Routines :
        /\ failures[r] > 0 \/ retry_count[r] > 0 => AsksFor(r, retry_count[r])
        /\ \/ failures[r] <= retry_count[r]
           \/ retry_count[r] = RetryCap /\ next_run[r] % schedule[r] = 0

-----------------------------------------------------------------------------
(* Types.                                                                  *)

\* What the types say of the rows of one routine.
LEMMA RowTypes ==
    ASSUME TypeOK, NEW r \in Routines
    PROVE  /\ schedule[r] \in Nat \ {0} /\ next_run[r] \in Nat /\ clock \in Nat
           /\ next_occurrence(schedule[r], clock) \in Nat
           /\ clock < next_occurrence(schedule[r], clock)
           /\ next_occurrence(schedule[r], clock) % schedule[r] = 0
  <1>1. schedule[r] \in Nat \ {0} /\ clock \in Nat /\ next_run[r] \in Nat
    BY RoutinesAssumption DEF TypeOK
  <1> QED BY <1>1, OccurrenceFacts

\* Every step keeps the types.
LEMMA TypeStep ==
    ASSUME TypeOK, RowsOfAll, [Next]_vars
    PROVE  TypeOK' /\ RowsOfAll'
  <1> USE DEF TypeOK, RowsOfAll
  <1>1. ASSUME NEW r \in Routines, Create(r) PROVE TypeOK' /\ RowsOfAll'
    BY <1>1, RowTypes DEF Create, Request, observed
  <1>2. ASSUME NEW r \in Routines, NEW period \in Periods[r], UpdateSchedule(r, period)
        PROVE  TypeOK' /\ RowsOfAll'
    <2>1. period \in Nat \ {0} /\ clock \in Nat
      BY RoutinesAssumption
    <2>2. next_occurrence(period, clock) \in Nat
      BY <2>1, OccurrenceFacts
    <2> QED BY <1>2, <2>2 DEF UpdateSchedule, Request, observed
  <1>3. ASSUME NEW r \in Routines, NEW p \in Policies[r], UpdatePolicy(r, p)
        PROVE  TypeOK' /\ RowsOfAll'
    BY <1>3 DEF UpdatePolicy, Request, observed
  <1>4. ASSUME NEW r \in Routines, pause(r) \/ resume(r) \/ archive(r) PROVE TypeOK' /\ RowsOfAll'
    BY <1>4 DEF pause, resume, archive, Request, observed
  <1>5. ASSUME NEW a \in Agents, archive_agent(a) PROVE TypeOK' /\ RowsOfAll'
    BY <1>5 DEF archive_agent, Request, observed
  <1>6. ASSUME List PROVE TypeOK' /\ RowsOfAll'
    BY <1>6 DEF List, Found, Due, routineRows, observed
  <1>7. ASSUME NEW r \in Routines, Claim(r) PROVE TypeOK' /\ RowsOfAll'
    BY <1>7, RowTypes DEF Claim, Claimed, First, observed
  <1>8. ASSUME NEW r \in Routines, Submit(r) PROVE TypeOK' /\ RowsOfAll'
    <2>1. missions' \in [Routines -> Nat] /\ lastMission' \in [Routines -> 0..MaxTime]
      BY <1>8, RoutinesAssumption DEF Submit
    <2> QED BY <1>8, <2>1 DEF Submit, First, routineRows
  <1>9. ASSUME NEW r \in Routines, RecordSuccess(r) PROVE TypeOK' /\ RowsOfAll'
    BY <1>9, RoutinesAssumption DEF RecordSuccess, Done
  <1>10. ASSUME NEW r \in Routines, RecordFailure(r) PROVE TypeOK' /\ RowsOfAll'
    <2>1. CASE RecordRaises(r)
      <3>1. failures' \in [Routines -> Nat]
        BY <1>10, <2>1 DEF RecordFailure
      <3> QED BY <1>10, <2>1, <3>1 DEF RecordFailure
    <2>2. CASE ~RecordRaises(r)
      <3>1. next_run' \in [Routines -> Nat]
        <4>1. Resumption(r) \in Nat /\ clock + RetryDelay \in Nat
          BY RowTypes, RoutinesAssumption DEF Resumption
        <4> QED BY <1>10, <2>2, <4>1 DEF RecordFailure
      <3>2. retry_count' \in [Routines -> 0..RetryCap]
        <4>1. retry_count[r] + 1 \in 0..RetryCap
          BY <2>2, RoutinesAssumption DEF RecordRaises
        <4> QED BY <1>10, <2>2, <4>1, RoutinesAssumption DEF RecordFailure
      <3>3. failures' \in [Routines -> Nat]
        BY <1>10, <2>2 DEF RecordFailure
      <3>4. notification_state' \in [Routines -> {"none", "pending", "failed"}]
        BY <1>10, <2>2 DEF RecordFailure
      <3>5. Done(r)
        BY <1>10, <2>2 DEF RecordFailure
      <3> QED BY <1>10, <3>1, <3>2, <3>3, <3>4, <3>5 DEF RecordFailure, Done
    <2> QED BY <2>1, <2>2
  <1>11. ASSUME Pass \/ Crash \/ Restart PROVE TypeOK' /\ RowsOfAll'
    <2>1. CASE Pass
      <3>1. clock' \in 1..MaxTime
        BY <2>1, RoutinesAssumption DEF Pass
      <3> QED BY <2>1, <3>1 DEF Pass, routineRows, observed
    <2>2. CASE Crash
      <3>1. crashes' \in 0..MaxCrashes
        BY <2>2, RoutinesAssumption DEF Crash
      <3> QED BY <2>2, <3>1 DEF Crash, routineRows, observed
    <2>3. CASE Restart
      BY <2>3 DEF Restart, routineRows, observed
    <2> QED BY <1>11, <2>1, <2>2, <2>3
  <1>12. CASE UNCHANGED vars
    BY <1>12 DEF vars, routineRows, observed
  <1> QED
    BY <1>1, <1>2, <1>3, <1>4, <1>5, <1>6, <1>7, <1>8, <1>9, <1>10, <1>11, <1>12 DEF Next, Owner, Tick

-----------------------------------------------------------------------------
(* The schedule and the missions.                                          *)

\* Only the first routine of a tick is in hand.
LEMMA OneFirst ==
    ASSUME TypeOK, NEW r \in Routines, NEW q \in Routines, First(r), First(q)
    PROVE  r = q
  BY DEF First, Routines

\* Every step keeps routines on their schedule.
LEMMA ScheduleStep ==
    ASSUME IInv, [Next]_vars
    PROVE  WaitsForOccurrence' /\ ClaimedOnSchedule'
  <1>t. TypeOK /\ RowsOfAll /\ next_run \in [Routines -> Nat] /\ retry_count \in [Routines -> 0..RetryCap]
    BY DEF IInv, TypeOK
  <1>c. created \subseteq Routines
    BY <1>t DEF TypeOK
  <1>w. WaitsForOccurrence /\ ClaimedOnSchedule
    BY DEF IInv
  <1>1. ASSUME NEW r \in Routines, Create(r) PROVE WaitsForOccurrence' /\ ClaimedOnSchedule'
    BY <1>1, <1>c, <1>t, <1>w, RowTypes DEF Create, Request, WaitsForOccurrence, ClaimedOnSchedule
  <1>2. ASSUME NEW r \in Routines, NEW period \in Periods[r], UpdateSchedule(r, period)
        PROVE  WaitsForOccurrence' /\ ClaimedOnSchedule'
    <2>1. period \in Nat \ {0} /\ clock \in Nat
      BY <1>t, RoutinesAssumption DEF TypeOK
    <2>2. next_occurrence(period, clock) % period = 0
      BY <2>1, OccurrenceFacts
    <2> QED BY <1>2, <1>c, <1>t, <1>w, <2>2 DEF UpdateSchedule, Request, WaitsForOccurrence, ClaimedOnSchedule, RowsOfAll
  <1>3. ASSUME NEW r \in Routines, Claim(r) PROVE WaitsForOccurrence' /\ ClaimedOnSchedule'
    <2>1. next_run'[r] % schedule'[r] = 0 /\ \A q \in Routines \ {r} : next_run'[q] = next_run[q]
      BY <1>3, <1>t, RowTypes DEF Claim, Claimed
    <2>2. \A q \in Routines : First(q)' => q = r
      BY <1>3, <1>t, OneFirst DEF Claim, First
    <2> QED BY <1>3, <1>c, <1>w, <2>1, <2>2 DEF Claim, WaitsForOccurrence, ClaimedOnSchedule
  <1>4. ASSUME NEW r \in Routines, Submit(r) PROVE WaitsForOccurrence' /\ ClaimedOnSchedule'
    BY <1>4, <1>w DEF Submit, WaitsForOccurrence, ClaimedOnSchedule, First, routineRows
  <1>5. ASSUME NEW r \in Routines, RecordSuccess(r) PROVE WaitsForOccurrence' /\ ClaimedOnSchedule'
    <2>1. next_run[r] % schedule[r] = 0
      BY <1>5, <1>w DEF RecordSuccess, ClaimedOnSchedule
    <2> QED BY <1>5, <1>c, <1>t, <1>w, <2>1 DEF RecordSuccess, Done, WaitsForOccurrence, ClaimedOnSchedule
  <1>6. ASSUME NEW r \in Routines, RecordFailure(r) PROVE WaitsForOccurrence' /\ ClaimedOnSchedule'
    <2>1. turn' \in {"idle", "claim"} /\ schedule' = schedule /\ created' = created
      BY <1>6 DEF RecordFailure, Done
    <2>2. \A q \in Routines \ {r} : next_run'[q] = next_run[q] /\ retry_count'[q] = retry_count[q]
      BY <1>6, <1>t DEF RecordFailure
    <2>3. retry_count'[r] = 0 => next_run'[r] % schedule[r] = 0
      <3>1. CASE RecordRaises(r)
        <4>1. next_run[r] % schedule[r] = 0
          BY <1>6, <1>w DEF RecordFailure, ClaimedOnSchedule
        <4> QED BY <1>6, <3>1, <4>1 DEF RecordFailure
      <3>2. CASE ~RecordRaises(r)
        <4>1. /\ next_run'[r] = IF Exhausted(r) THEN Resumption(r) ELSE clock + RetryDelay
              /\ retry_count'[r] = IF Exhausted(r) THEN 0 ELSE retry_count[r] + 1
          BY <1>6, <1>t, <3>2 DEF RecordFailure
        <4>2. Resumption(r) % schedule[r] = 0 /\ retry_count[r] + 1 # 0
          BY <1>t, RowTypes DEF Resumption
        <4> QED BY <4>1, <4>2
      <3> QED BY <3>1, <3>2
    <2> QED BY <1>c, <1>w, <2>1, <2>2, <2>3 DEF WaitsForOccurrence, ClaimedOnSchedule
  <1>7. CASE \/ \E r \in Routines : pause(r) \/ resume(r) \/ archive(r)
             \/ \E r \in Routines : \E p \in Policies[r] : UpdatePolicy(r, p)
             \/ \E a \in Agents : archive_agent(a)
             \/ List \/ Pass \/ Crash \/ Restart \/ UNCHANGED vars
    <2>1. /\ UNCHANGED <<created, schedule, next_run, retry_count>>
          /\ turn' \in {"idle", "claim"} \/ UNCHANGED <<turn, todo>>
      BY <1>7 DEF pause, resume, archive, UpdatePolicy, archive_agent, Request, List, Pass, Crash, Restart, vars, routineRows
    <2> QED BY <1>w, <2>1 DEF WaitsForOccurrence, ClaimedOnSchedule, First
  <1> QED BY <1>1, <1>2, <1>3, <1>4, <1>5, <1>6, <1>7 DEF Next, Owner, Tick

\* Every step keeps the last mission before what falls due next.
LEMMA DispatchStep ==
    ASSUME IInv, [Next]_vars
    PROVE  DispatchedBefore'
  <1>t. /\ TypeOK /\ RowsOfAll /\ next_run \in [Routines -> Nat] /\ lastMission \in [Routines -> 0..MaxTime]
        /\ clock \in Nat /\ RetryDelay \in Nat \ {0} /\ MaxTime \in Nat
    BY RoutinesAssumption DEF IInv, TypeOK
  <1>d. DispatchedBefore
    BY DEF IInv
  <1>1. ASSUME NEW r \in Routines, Create(r) PROVE DispatchedBefore'
    <2>1. /\ clock < next_run'[r] /\ \A q \in Routines \ {r} : next_run'[q] = next_run[q]
          /\ next_run'[r] \in Nat
      BY <1>1, <1>t, RowTypes DEF Create
    <2> QED BY <1>1, <1>d, <1>t, <2>1 DEF Create, Request, observed, DispatchedBefore, First
  <1>2. ASSUME NEW r \in Routines, NEW period \in Periods[r], UpdateSchedule(r, period)
        PROVE  DispatchedBefore'
    <2>1. period \in Nat \ {0}
      BY RoutinesAssumption
    <2>2. next_occurrence(period, clock) \in Nat /\ clock < next_occurrence(period, clock)
      BY <1>t, <2>1, OccurrenceFacts
    <2>3. /\ clock < next_run'[r] /\ \A q \in Routines \ {r} : next_run'[q] = next_run[q]
          /\ next_run'[r] \in Nat
      BY <1>2, <1>t, <2>2 DEF UpdateSchedule
    <2> QED BY <1>2, <1>d, <1>t, <2>3 DEF UpdateSchedule, Request, observed, DispatchedBefore, First
  <1>3. ASSUME NEW r \in Routines, Claim(r) PROVE DispatchedBefore'
    <2>1. /\ clock < next_run'[r] /\ \A q \in Routines \ {r} : next_run'[q] = next_run[q]
          /\ next_run'[r] \in Nat
      BY <1>3, <1>t, RowTypes DEF Claim, Claimed
    <2>2. \A q \in Routines : First(q)' => q = r
      BY <1>3, <1>t, OneFirst DEF Claim, First
    <2>3. lastMission[r] < clock
      BY <1>3, <1>d, <1>t DEF Claim, Due, DispatchedBefore
    <2> QED BY <1>3, <1>d, <1>t, <2>1, <2>2, <2>3 DEF Claim, observed, DispatchedBefore
  <1>4. ASSUME NEW r \in Routines, Submit(r) PROVE DispatchedBefore'
    <2>1. r \in created /\ turn' # "submit" /\ clock' = clock /\ next_run' = next_run /\ created' = created
      BY <1>4, <1>t DEF Submit, First, TypeOK, routineRows
    <2>2. clock < next_run[r]
      <3>1. turn = "submit" /\ First(r)
        BY <1>4 DEF Submit
      <3> QED BY <1>d, <1>t, <2>1, <3>1 DEF DispatchedBefore
    <2>3. \A q \in Routines : lastMission'[q] = lastMission[q] \/ (q = r /\ lastMission'[q] = clock)
      BY <1>4, <1>t DEF Submit
    <2> QED BY <1>d, <1>t, <2>1, <2>2, <2>3 DEF DispatchedBefore
  <1>5. ASSUME NEW r \in Routines, RecordFailure(r) PROVE DispatchedBefore'
    <2>1. turn' \in {"idle", "claim"} /\ lastMission' = lastMission /\ created' = created /\ clock' = clock
      BY <1>5 DEF RecordFailure, Done
    <2>2. \A q \in Routines : next_run'[q] = next_run[q] \/ (q = r /\ clock < next_run'[q] /\ next_run'[q] \in Nat)
      <3>1. Resumption(r) \in Nat /\ clock < Resumption(r) /\ clock + RetryDelay \in Nat /\ clock < clock + RetryDelay
        BY <1>t, RowTypes DEF Resumption
      <3> QED BY <1>5, <1>t, <3>1 DEF RecordFailure
    <2> QED BY <1>d, <1>t, <2>1, <2>2 DEF DispatchedBefore
  <1>6. CASE \/ \E r \in Routines : pause(r) \/ resume(r) \/ archive(r) \/ RecordSuccess(r)
             \/ \E r \in Routines : \E p \in Policies[r] : UpdatePolicy(r, p)
             \/ \E a \in Agents : archive_agent(a)
             \/ List \/ Crash \/ Restart \/ UNCHANGED vars
    <2>1. /\ UNCHANGED <<created, next_run, lastMission, clock>>
          /\ turn' \in {"idle", "claim"} \/ UNCHANGED <<turn, todo>>
      BY <1>6 DEF pause, resume, archive, RecordSuccess, Done, UpdatePolicy, archive_agent, Request, List, Crash,
                  Restart, vars, routineRows, observed
    <2> QED BY <1>d, <2>1 DEF DispatchedBefore, First
  <1>7. CASE Pass
    BY <1>7, <1>d, <1>t DEF Pass, routineRows, observed, DispatchedBefore, First
  <1> QED BY <1>1, <1>2, <1>3, <1>4, <1>5, <1>6, <1>7 DEF Next, Owner, Tick

\* In every reachable state the invariant holds.
LEMMA Invariance == Spec => []IInv
  <1>1. Init => IInv
    <2> SUFFICES ASSUME Init PROVE IInv
      OBVIOUS
    <2>1. /\ schedule \in [Routines -> UNION {Periods[r] : r \in Routines}]
          /\ policy \in [Routines -> UNION {Policies[r] : r \in Routines}]
          /\ \A r \in Routines : schedule[r] \in Periods[r] /\ policy[r] \in Policies[r]
      BY DEF Init, Choices
    <2>2. TypeOK /\ RowsOfAll
      BY <2>1, RoutinesAssumption DEF Init, TypeOK, RowsOfAll
    <2>3. WaitsForOccurrence /\ ClaimedOnSchedule /\ DispatchedBefore
      BY DEF Init, WaitsForOccurrence, ClaimedOnSchedule, DispatchedBefore
    <2> QED BY <2>2, <2>3 DEF IInv
  <1>2. IInv /\ [Next]_vars => IInv'
    BY TypeStep, ScheduleStep, DispatchStep DEF IInv
  <1> QED BY <1>1, <1>2, PTL DEF Spec

\* Rows, scheduler and observations keep their types, and a tick is in
\* progress exactly while routines are left to deal with.
THEOREM TypeCorrect == Spec => []TypeOK
  <1>1. IInv => TypeOK
    BY DEF IInv
  <1> QED BY <1>1, Invariance, PTL

\* A routine that is not being retried waits for an occurrence of its
\* schedule, whatever failed, was rescheduled or crashed before.
THEOREM ScheduleKept == Spec => []WaitsForOccurrence
  <1>1. IInv => WaitsForOccurrence
    BY DEF IInv
  <1> QED BY <1>1, Invariance, PTL

\* Every mission of a routine is submitted later than the one before: what
\* fell due once is dispatched once, across crashes between the commits.
THEOREM DispatchedOnce == Spec => NoDoubleDispatch
  <1>1. IInv /\ [Next]_vars => \A r \in Routines : missions'[r] # missions[r] => lastMission[r] < clock
    <2> SUFFICES ASSUME IInv, [Next]_vars, NEW r \in Routines, missions'[r] # missions[r]
                 PROVE  lastMission[r] < clock
      OBVIOUS
    <2>1. PICK q \in Routines : Submit(q)
      BY DEF Next, Owner, Tick, Create, UpdateSchedule, UpdatePolicy, pause, resume, archive, archive_agent, Request,
             List, Claim, RecordSuccess, RecordFailure, Pass, Crash, Restart, vars, observed
    <2>2. q = r
      BY <2>1 DEF Submit, IInv, TypeOK
    <2> QED BY <2>1, <2>2 DEF Submit, IInv, DispatchedBefore
  <1> QED BY <1>1, Invariance, PTL DEF Spec, NoDoubleDispatch

-----------------------------------------------------------------------------
(* Retries.                                                                *)

\* Every step keeps the failures counted.
LEMMA FailureStep ==
    ASSUME IInv, FailuresCounted, [Next]_vars
    PROVE  FailuresCounted'
  <1>t. /\ TypeOK /\ RowsOfAll /\ retry_count \in [Routines -> 0..RetryCap]
        /\ next_run \in [Routines -> Nat]
        /\ failures \in [Routines -> Nat] /\ RetryCap \in Nat
    BY RoutinesAssumption DEF IInv, TypeOK
  <1>1. ASSUME NEW r \in Routines, RecordSuccess(r) PROVE FailuresCounted'
    <2>1. /\ \A q \in Routines \ {r} : failures'[q] = failures[q] /\ retry_count'[q] = retry_count[q]
          /\ failures'[r] = 0 /\ retry_count'[r] = 0
          /\ schedule' = schedule /\ next_run' = next_run
      BY <1>1, <1>t DEF RecordSuccess
    <2> QED BY <2>1, <1>t DEF FailuresCounted, AsksFor
  <1>2. ASSUME NEW r \in Routines, RecordFailure(r) PROVE FailuresCounted'
    <2>1. /\ \A q \in Routines \ {r} :
                 failures'[q] = failures[q] /\ retry_count'[q] = retry_count[q] /\ next_run'[q] = next_run[q]
          /\ schedule' = schedule
      BY <1>2, <1>t DEF RecordFailure
    <2>2. policy[r] # {} => /\ maximum(r) \in Nat /\ AsksFor(r, 0)
                            /\ \A k \in Nat : k <= maximum(r) => AsksFor(r, k)
      <3> DEFINE n == CHOOSE n \in policy[r] : TRUE
      <3> HAVE policy[r] # {}
      <3>1. n \in policy[r] /\ policy[r] \in Policies[r]
        BY <1>t DEF TypeOK
      <3>2. n \in Nat
        BY <3>1, RoutinesAssumption
      <3>3. maximum(r) \in Nat /\ maximum(r) <= n
        BY <1>t, <3>2 DEF maximum
      <3> QED BY <3>1, <3>2, <3>3 DEF AsksFor
    <2>3. CASE RecordRaises(r)
      <3>1. /\ retry_count' = retry_count /\ next_run' = next_run
            /\ failures'[r] = IF policy[r] = {} THEN failures[r] ELSE failures[r] + 1
        BY <1>2, <1>t, <2>3 DEF RecordFailure
      <3>2. CASE policy[r] = {}
        BY <1>t, <2>1, <3>1, <3>2 DEF FailuresCounted, AsksFor
      <3>3. CASE policy[r] # {}
        <4>1. retry_count[r] = RetryCap
          BY <2>3, <3>3 DEF RecordRaises
        <4>2. next_run[r] % schedule[r] = 0
          BY <1>2 DEF RecordFailure, IInv, ClaimedOnSchedule
        <4>3. AsksFor(r, retry_count[r])
          BY <1>t, <2>2, <3>3 DEF FailuresCounted
        <4> QED BY <1>t, <2>1, <3>1, <4>1, <4>2, <4>3 DEF FailuresCounted, AsksFor
      <3> QED BY <3>2, <3>3
    <2>4. CASE ~RecordRaises(r)
      <3>1. /\ retry_count'[r] = IF Exhausted(r) THEN 0 ELSE retry_count[r] + 1
            /\ failures'[r] = IF Exhausted(r) THEN 0 ELSE failures[r] + 1
        BY <1>2, <1>t, <2>4 DEF RecordFailure
      <3>2. ~Exhausted(r) => AsksFor(r, retry_count[r] + 1)
        BY <1>t, <2>2, <2>4 DEF Exhausted, RecordRaises
      <3>3. failures[r] <= retry_count[r]
        BY <2>4 DEF RecordRaises, FailuresCounted
      <3> QED BY <1>t, <2>1, <3>1, <3>2, <3>3 DEF FailuresCounted, AsksFor
    <2> QED BY <2>3, <2>4
  <1>3. ASSUME NEW r \in Routines,
               \/ Create(r) \/ Claim(r) \/ \E period \in Periods[r] : UpdateSchedule(r, period)
        PROVE  FailuresCounted'
    <2>1. /\ UNCHANGED <<failures, retry_count>>
          /\ \A q \in Routines \ {r} : next_run'[q] = next_run[q] /\ schedule'[q] = schedule[q]
      BY <1>3, <1>t DEF Create, Claim, Claimed, UpdateSchedule, Request, observed, RowsOfAll
    <2>2. next_run'[r] % schedule'[r] = 0
      <3>1. CASE Create(r) \/ Claim(r)
        BY <1>t, <3>1, RowTypes DEF Create, Claim, Claimed
      <3>2. CASE \E period \in Periods[r] : UpdateSchedule(r, period)
        <4>1. PICK period \in Periods[r] : UpdateSchedule(r, period)
          BY <3>2
        <4>2. period \in Nat \ {0} /\ clock \in Nat
          BY <1>t, RoutinesAssumption DEF TypeOK
        <4>3. next_occurrence(period, clock) % period = 0
          BY <4>2, OccurrenceFacts
        <4> QED BY <1>t, <4>1, <4>3 DEF UpdateSchedule, RowsOfAll
      <3> QED BY <1>3, <3>1, <3>2
    <2> QED BY <2>1, <2>2 DEF FailuresCounted, AsksFor
  <1>4. CASE UNCHANGED <<retry_count, failures, next_run, schedule>>
    BY <1>4 DEF FailuresCounted, AsksFor
  <1> QED
    BY <1>1, <1>2, <1>3, <1>4
    DEF Next, Owner, Tick, UpdatePolicy, pause, resume, archive, archive_agent, Request, List,
        Submit, Pass, Crash, Restart, vars, routineRows, observed

\* A dispatch that keeps failing is given up after what some policy asks for.
\* Where a policy reaches the cap of the field, whose last failure cannot be
\* recorded, the attempts go on, but at the pace of the schedule.
THEOREM RetriesBounded == Spec => []RetriesEnd
  <1>1. Init => FailuresCounted
    BY RoutinesAssumption DEF Init, FailuresCounted
  <1>2. IInv /\ FailuresCounted /\ [Next]_vars => FailuresCounted'
    BY FailureStep
  <1>3. IInv /\ FailuresCounted => RetriesEnd
    <2> SUFFICES ASSUME IInv, FailuresCounted, NEW r \in Routines
                 PROVE  /\ failures[r] > 0 =>
                               \E p \in Policies[r] : \E n \in p : failures[r] <= n \/ RetryCap <= n
                        /\ failures[r] > RetryCap => next_run[r] % schedule[r] = 0
      BY DEF RetriesEnd
    <2>1. failures[r] \in Nat /\ retry_count[r] \in 0..RetryCap /\ RetryCap \in Nat
      BY RoutinesAssumption DEF IInv, TypeOK
    <2>2. ASSUME failures[r] > 0
          PROVE  \E p \in Policies[r] : \E n \in p : failures[r] <= n \/ RetryCap <= n
      <3>1. PICK p \in Policies[r] : \E n \in p : retry_count[r] <= n
        BY <2>2 DEF FailuresCounted, AsksFor
      <3>2. PICK n \in p : retry_count[r] <= n
        BY <3>1
      <3>3. n \in Nat
        BY <3>2, RoutinesAssumption
      <3>4. failures[r] <= retry_count[r] \/ retry_count[r] = RetryCap
        BY DEF FailuresCounted
      <3>5. failures[r] <= n \/ RetryCap <= n
        BY <2>1, <3>2, <3>3, <3>4
      <3> QED BY <3>5
    <2>3. failures[r] > RetryCap => next_run[r] % schedule[r] = 0
      BY <2>1 DEF FailuresCounted
    <2> QED BY <2>2, <2>3
  <1> QED BY <1>1, <1>2, <1>3, Invariance, PTL DEF Spec
=============================================================================
