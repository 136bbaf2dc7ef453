------------------------------ MODULE MCViews ------------------------------
(* Instances of the views for TLC.                                         *)
EXTENDS Views

CONSTANTS a1, a2
=============================================================================
