--------------------------- MODULE MCPolicyStore ---------------------------
(***************************************************************************)
(* Small instances of PolicyStore.                                         *)
(***************************************************************************)
EXTENDS PolicyStore, TLC

\* Documents of different lengths; the empty state's is the shortest.
Lengths == [v \in 0 .. MaxEdits |-> IF v = 0 THEN 1 ELSE IF v % 2 = 1 THEN 3 ELSE 2]

Symmetry == Permutations(Operators) \cup Permutations(Inodes)
=============================================================================
