------------------------- MODULE MCPinnedExecution -------------------------
(***************************************************************************)
(* Two auth files that share an index and two variants of one entry of     *)
(* config.yaml, each with a prefix of its own.                             *)
(***************************************************************************)
EXTENDS PinnedExecution, TLC

CONSTANTS f1, f2, k1, k2, file, key

MCIds == {f1, f2, k1, k2}
MCConfigured == {k1, k2}
MCIndexes == {file, key}
MCAuths == MCIds \cup MCIndexes
MCIndex == [i \in MCIds |-> IF i \in MCConfigured THEN key ELSE file]
MCProvider == [i \in MCIds |-> "codex"]
MCAccount == [i \in MCIds |-> IF i \in MCConfigured THEN key ELSE i]
MCPrefix == [i \in MCIds |-> i]

Symmetry ==
  Permutations(Executions) \cup Permutations(Tokens) \cup Permutations(Picks)
    \cup Permutations({f1, f2}) \cup Permutations({k1, k2})
=============================================================================
