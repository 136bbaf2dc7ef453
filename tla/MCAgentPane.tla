---------------------------- MODULE MCAgentPane ----------------------------
(* Instances of the right pane for TLC.                                    *)
EXTENDS AgentPane

CONSTANTS a1, a2, u1
=============================================================================
