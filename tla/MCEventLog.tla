----------------------------- MODULE MCEventLog -----------------------------
(***************************************************************************)
(* Small instances of EventLog.                                            *)
(***************************************************************************)
EXTENDS EventLog, TLC

\* SQLite on and off.
Settings ==
  {[ring |-> 1, sqlite |-> TRUE, keep |-> 1], [ring |-> 0, sqlite |-> FALSE, keep |-> 2]}

\* SQLite always on.
AlwaysOn == {[ring |-> 1, sqlite |-> TRUE, keep |-> 1]}

Symmetry == Permutations(Observers) \cup Permutations(Sinks)
=============================================================================
