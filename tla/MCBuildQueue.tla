---------------------------- MODULE MCBuildQueue ----------------------------
(* Model values for checking BuildQueue. *)
EXTENDS BuildQueue

CONSTANTS d1, d2, d3, d4

FourDeployments == {d1, d2, d3, d4}
=============================================================================
