----------------------------- MODULE MCRoutines -----------------------------
(* Instances of the routine scheduler for TLC.                             *)
EXTENDS Routines, TLC

CONSTANTS a1

FirstOwner == [r \in Routines |-> a1]

\* The second routine may change its schedule.
SecondChanges == [r \in Routines |-> IF r = 2 THEN {2, 3} ELSE {2}]

\* The first routine may have a policy that cannot be read, or one that asks
\* for as many attempts as the cap; the second one asks for fewer.
FirstUnreadable == [r \in Routines |-> IF r = 1 THEN {{}, {2}} ELSE {{1}}]
=============================================================================
