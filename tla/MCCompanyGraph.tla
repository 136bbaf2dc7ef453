--------------------------- MODULE MCCompanyGraph ---------------------------
(* Instances of the company graph for TLC.                                 *)
EXTENDS CompanyGraph

CONSTANTS a1, a2, a3
=============================================================================
