---------------------------- MODULE MCPowerLoss ----------------------------
(***************************************************************************)
(* Model-checking instances of PowerLoss.                                  *)
(***************************************************************************)
EXTENDS PowerLoss

CONSTANTS p1, p2, v0, v1

NoFailures == {}
=============================================================================
