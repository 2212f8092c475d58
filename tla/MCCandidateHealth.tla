------------------------- MODULE MCCandidateHealth -------------------------
(***************************************************************************)
(* Small instances of CandidateHealth.  One unit of time stands for 30 s;  *)
(* MaxCooldown is reached after two doublings, so levels beyond 2 behave   *)
(* alike, as levels beyond 4 do in the code.                               *)
(***************************************************************************)
EXTENDS CandidateHealth, TLC

Symmetry == Permutations(Attempts) \cup Permutations(Configs)
============================================================================
