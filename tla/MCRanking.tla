----------------------------- MODULE MCRanking -----------------------------
(***************************************************************************)
(* Small instances of Ranking.                                             *)
(***************************************************************************)
EXTENDS Ranking, TLC

CONSTANTS c1, c2, c3, k1, k2

Weights(w1, w2, w3) == c1 :> w1 @@ c2 :> w2 @@ c3 :> w3

\* c1 and c2 share the higher priority.
TwoLevels == c1 :> 2 @@ c2 :> 2 @@ c3 :> 1
OneLevel == c1 :> 1 @@ c2 :> 1 @@ c3 :> 1

Saved(strategy, list, weight, priority, affinity) ==
  [strategy |-> strategy, list |-> list, weight |-> weight, priority |-> priority,
   affinity |-> affinity]

All == <<c1, c2, c3>>

\* c3 is the candidate that strict affinity turns away.
Natives == {c1, c2}

\* Every strategy and affinity; weights, priorities and lists edited.
SavedRules ==
  {Saved("ordered", All, Weights(1, 1, 1), OneLevel, "unknown"),
   Saved("round-robin", All, Weights(1, 1, 1), OneLevel, "off"),
   Saved("weighted-round-robin", All, Weights(3, 2, 1), OneLevel, "off"),
   Saved("weighted-round-robin", <<c1, c3>>, Weights(3, 2, 1), OneLevel, "off"),
   Saved("priority-weighted", All, Weights(1, 3, 4), TwoLevels, "off"),
   Saved("sticky", All, Weights(1, 2, 1), TwoLevels, "off"),
   Saved("sticky", All, Weights(1, 2, 1), TwoLevels, "strict"),
   Saved("sticky", <<c3, c1, c2>>, Weights(5, 2, 1), OneLevel, "off")}

\* k1 is nearest to c1, k2 to c3, unless the weights decide otherwise.
Distances ==
  k1 :> (c1 :> 2 @@ c2 :> 5 @@ c3 :> 7) @@ k2 :> (c1 :> 9 @@ c2 :> 7 @@ c3 :> 3)
=============================================================================
