-------------------------- MODULE MCFailoverChain --------------------------
(***************************************************************************)
(* Small instances of FailoverChain.                                       *)
(***************************************************************************)
EXTENDS FailoverChain, TLC

CONSTANTS c1, c2, c3

\* c1 and c2 share the higher priority.
MCPriority == c1 :> 2 @@ c2 :> 2 @@ c3 :> 1
PriorityOfTwo == c1 :> 2 @@ c2 :> 1

Policy(action, exhausted, maxAttempts) ==
  [action |-> action, exhausted |-> exhausted, maxAttempts |-> maxAttempts]

\* Every action for some class.
Mixed ==
  [network |-> "next", timeout |-> "same-priority-first", conflict |-> "next-priority",
   rateLimit |-> "next", serverError |-> "same-priority-first",
   unauthorized |-> CPADefault, other |-> "stop"]

\* One request at a time: many policies, three candidates.
PolicyRankings == {<<c1, c2, c3>>, <<c3, c1, c2>>, <<c2>>, <<>>}
PolicyFailovers ==
  {Policy(Mixed, exhausted, max) : exhausted \in {"error", CPADefault}, max \in {0, 2}}

\* Concurrent requests: two candidates, one policy.
SharedRankings == {<<c1, c2>>}
SharedFailovers == {DefaultFailover}

Symmetry == Permutations(Requests)
=============================================================================
