--------------------------- MODULE MCMissionChat ---------------------------
(* Instances of the chat surface for TLC.                                  *)
EXTENDS MissionChat, TLC

\* A plain message, a secret, one that is both secret and recurring, and the
\* recurring phrasings that are and are not clear enough.
Messages == {{}, {"secret", "weekly", "time"}, {"secret", "weekday", "time"}}
Plain == {{}}

\* A task waits for the first approval, a tool call for every later one.
TaskThenCall == [a \in 1..MaxApprovals |-> IF a = 1 THEN {"task"} ELSE {"call"}]
=============================================================================
