------------------------- MODULE MCDeploymentSystem -------------------------
(* Instances of DeploymentSystem for TLC. *)
EXTENDS DeploymentSystem

CONSTANTS r1, s1

(* A call fails, or the process dies, and not both; and the health checker  *)
(* does not mark a row that was rolled back to since it was listed          *)
(* (checker.go:66, see the README).                                         *)
OneMishap ==
  /\ faults + crashes <= 1
  /\ sick # NoRelease => rows[sick.dep].container = sick.container
=============================================================================
