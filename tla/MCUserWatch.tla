---------------------------- MODULE MCUserWatch ----------------------------
(* UserWatch with a small set of vCPUs and two symbols. *)
EXTENDS UserWatch

CONSTANTS v1, x, y

OneVcpu == {v1}
TwoSymbols == {x, y}
=============================================================================
