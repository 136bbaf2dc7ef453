---------------------------- MODULE MCTaskEngine ----------------------------
(* Instances of the task engine for TLC.                                   *)
EXTENDS TaskEngineProperties, TLC

\* Missions: all tasks in one, or the first alone.
OneMission == [t \in Tasks |-> 1]
FirstAlone == [t \in Tasks |-> IF t = 1 THEN 1 ELSE 2]

\* Dependencies inside a mission.
Chained == [t \in Tasks |-> {d \in Tasks : d = t - 1 /\ MissionOf[d] = MissionOf[t]}]

\* Planned calls; the keys above NumCalls write the artifacts.
ArtifactKeys == (NumCalls + 1)..(NumCalls + RetryLimit + 2)
Repeating == [t \in Tasks |-> <<1, 2, 1>>]
FirstOnce == [t \in Tasks |-> IF t = 1 THEN <<1>> ELSE <<>>]

\* Answers of classify and policy: the owner is asked or not, as an agent's
\* profile changes; anything for call 1, always the owner for call 2.
Changing == [k \in Keys |-> IF k = 1 THEN {"auto_allow", "approval_required"} ELSE {"auto_allow"}]
AllAnswers == [k \in Keys |-> CASE k = 1 -> Decisions
                                [] k = 2 -> {"approval_required"}
                                [] OTHER -> {"auto_allow"}]
=============================================================================
