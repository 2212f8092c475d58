------------------------------ MODULE Ranking ------------------------------
(***************************************************************************)
(* The order in which a request tries the candidates of its rule           *)
(* (rankCandidatesV4, v4_routing.go) and the state the strategies share    *)
(* between requests: the round-robin counter and the smooth weights.       *)
(*                                                                         *)
(* A request copies the policy under the runtime lock (findPolicyRuleV4)   *)
(* and ranks later, under the lock again for the shared state; policies    *)
(* are edited in between.  An edit leaves the counter and the weights as   *)
(* they are, only a reload clears them.                                    *)
(*                                                                         *)
(* A rule is a record: strategy; list, its enabled candidates in their     *)
(* configured order; weight and priority of every candidate; affinity, the *)
(* client affinity of its policy.                                          *)
(***************************************************************************)
EXTENDS Integers, Sequences, FiniteSets, FiniteSetsExt, Functions

CONSTANTS
  Requests,
  Candidates,
  Native,       \* candidates that strict affinity admits: OAuth or same provider
  Rules,        \* the versions of the rule that operators save
  StickyKeys,   \* sessions
  Distance,     \* per key and candidate: -ln of the hash, scaled
  CounterSize,  \* 2^64: where the round-robin counter wraps
  None

Strategies ==
  {"ordered", "round-robin", "weighted-round-robin", "priority-weighted", "sticky"}

Rule ==
  [strategy : Strategies,
   list : Seq(Candidates),
   weight : [Candidates -> Nat \ {0}],
   priority : [Candidates -> Int],
   affinity : {"off", "strict", "unknown"}]

ASSUME RankingAssumption ==
  /\ None \notin Rules
  /\ Native \subseteq Candidates
  /\ \A q \in Rules : q \in Rule /\ IsInjective(q.list)
  /\ Distance \in [StickyKeys -> [Candidates -> Nat]]
  /\ CounterSize \in Nat \ {0}

VARIABLES
  rule,    \* the saved rule
  rr,      \* v4Runtime.rr
  smooth,  \* v4Runtime.smooth: per group, the current weight of each candidate
  copy,    \* per request, the copy of the rule it will rank, or None
  last,    \* the latest ranking: its rule and order
  steady,  \* history: the shared state belongs to the saved rule alone
  tally    \* history: leads in the current cycle

vars == <<rule, rr, smooth, copy, last, steady, tally>>

----------------------------------------------------------------------------
(* The pure part of the strategies.                                        *)

Position(s, c) == CHOOSE i \in DOMAIN s : s[i] = c

Pairs == Candidates \X Candidates

\* The members of S in the order of a relation that is total on S.
InOrder(S, before) ==
  CHOOSE s \in [1 .. Cardinality(S) -> S] :
    \A i, j \in 1 .. Cardinality(S) : i < j => <<s[i], s[j]>> \in before

Listed(s) == {p \in Range(s) \X Range(s) : Position(s, p[1]) < Position(s, p[2])}

\* The candidates of s sorted by a relation; where it is silent they keep their order.
Sorted(s, before) ==
  InOrder(Range(s),
    {p \in Range(s) \X Range(s) :
       \/ p \in before
       \/ <<p[2], p[1]>> \notin before /\ Position(s, p[1]) < Position(s, p[2])})

\* The candidates of s that are in S.
Kept(s, S) == InOrder(Range(s) \cap S, Listed(s))

\* What the client affinity leaves of the list.
Admitted(q) ==
  CASE q.affinity = "off" -> Candidates
    [] q.affinity = "strict" -> Native
    [] OTHER -> {}

Eligible == [q \in Rules |-> Kept(q.list, Admitted(q))]

Heavier(q) == {p \in Pairs : q.weight[p[1]] > q.weight[p[2]]}

\* A higher priority, or the same one and the relation.
PriorityThen(q, before) ==
  {p \in Pairs : \/ q.priority[p[1]] > q.priority[p[2]]
                 \/ q.priority[p[1]] = q.priority[p[2]] /\ p \in before}

\* Faulty variant: the remainder forgets the priorities.
PriorThenHeavier_WeightOnly(q) == Heavier(q)

PriorThenHeavier(q) == PriorityThen(q, Heavier(q))

\* u1^(1/w1) > u2^(1/w2) for hashes u = e^-distance.
Nearer(q, k) ==
  {p \in Pairs : Distance[k][p[1]] * q.weight[p[2]] < Distance[k][p[2]] * q.weight[p[1]]}

\* Faulty variant: the session picks a slot of the list, not a candidate.
StickyOrder_Slot ==
  [q \in Rules |->
     [k \in StickyKeys |->
        LET s == Eligible[q]
            n == Len(s)
            first == Distance[k][CHOOSE c \in Candidates : TRUE] % n
        IN  [i \in 1 .. n |-> s[1 + ((first + i - 1) % n)]]]]

StickyOrder ==
  [q \in Rules |->
     [k \in StickyKeys |-> Sorted(Eligible[q], PriorityThen(q, Nearer(q, k)))]]

Rotated(s, n) ==
  LET start == n % Len(s)
  IN  SubSeq(s, start + 1, Len(s)) \o SubSeq(s, 1, start)

\* first, and then the others sorted.
Remainder(first, s, before) ==
  <<first>> \o Sorted(Kept(s, Candidates \ {first}), before)

\* The candidates among which a weighted strategy chooses the first one.
TopPriority(q) == Max({q.priority[c] : c \in Range(Eligible[q])})

Group ==
  [q \in Rules |->
     IF q.strategy = "priority-weighted"
       THEN Kept(Sorted(Eligible[q], PriorThenHeavier(q)),
                 {c \in Candidates : q.priority[c] = TopPriority(q)})
       ELSE Eligible[q]]

\* The key of that group in v4Runtime.smooth: the rule, or one of its priorities.
GroupKey(q) ==
  IF q.strategy = "priority-weighted" THEN <<"priority", TopPriority(q)>> ELSE <<"rule", 0>>

GroupKeys == {<<"rule", 0>>} \cup {<<"priority", q.priority[c]>> : q \in Rules, c \in Candidates}

Sum(f, S) == MapThenSumSet(LAMBDA c : f[c], S)

TotalWeight(q) == Sum(q.weight, Range(Group[q]))

\* Faulty variant: the weight replaces what was gained before.
Gained_Forgets(q) ==
  [c \in Candidates |->
     IF c \in Range(Group[q]) THEN q.weight[c] ELSE smooth[GroupKey(q)][c]]

\* Every member of the group gains its weight; the first of the richest leads.
Gained(q) ==
  LET current == smooth[GroupKey(q)]
  IN  [c \in Candidates |->
         IF c \in Range(Group[q]) THEN current[c] + q.weight[c] ELSE current[c]]

SmoothLeader(q) ==
  LET s == Group[q]
      gained == Gained(q)
      richest == {i \in DOMAIN s : \A j \in DOMAIN s : gained[s[j]] <= gained[s[i]]}
  IN  s[Min(richest)]

\* Faulty variant: the leader pays its own weight instead of the total.
Paid_OwnWeight(q) == [Gained(q) EXCEPT ![SmoothLeader(q)] = @ - q.weight[SmoothLeader(q)]]

Paid(q) == [Gained(q) EXCEPT ![SmoothLeader(q)] = @ - TotalWeight(q)]

NextTurn == (rr + 1) % CounterSize

Weighted(q) == q.strategy \in {"weighted-round-robin", "priority-weighted"}

\* The order of a request with session k, given the shared state.
Order(q, k) ==
  LET s == Eligible[q]
  IN  CASE Len(s) < 2 \/ q.strategy = "ordered" -> s
        [] Len(s) >= 2 /\ q.strategy = "round-robin" -> Rotated(s, rr)
        [] Len(s) >= 2 /\ q.strategy = "weighted-round-robin" ->
             Remainder(SmoothLeader(q), s, Heavier(q))
        [] Len(s) >= 2 /\ q.strategy = "priority-weighted" ->
             Remainder(SmoothLeader(q), s, PriorThenHeavier(q))
        [] Len(s) >= 2 /\ q.strategy = "sticky" -> StickyOrder[q][k]

----------------------------------------------------------------------------
(* History: how often each candidate led since the cycle began.            *)

NoTally == [picks |-> 0, served |-> [c \in Candidates |-> 0]]

Share(q) == IF Weighted(q) THEN q.weight ELSE [c \in Candidates |-> 1]

Cycle(q) == Sum(Share(q), Range(Group[q]))

\* Strategies that promise shares, with something to share.
Shares(q) == (Weighted(q) \/ q.strategy = "round-robin") /\ Len(Eligible[q]) >= 2

Counted(q, first) ==
  LET t == IF tally.picks = Cycle(q) THEN NoTally ELSE tally
  IN  [picks |-> t.picks + 1, served |-> [t.served EXCEPT ![first] = @ + 1]]

----------------------------------------------------------------------------

Init ==
  /\ rule \in Rules
  /\ rr = 0
  /\ smooth = [g \in GroupKeys |-> [c \in Candidates |-> 0]]
  /\ copy = [r \in Requests |-> None]
  /\ last = None
  /\ steady = TRUE
  /\ tally = NoTally

\* A request takes its copy of the rule.
Plan(r) ==
  /\ copy[r] = None
  /\ copy' = [copy EXCEPT ![r] = rule]
  /\ UNCHANGED <<rule, rr, smooth, last, steady, tally>>

\* A request ranks the candidates of its copy.
Rank(r) ==
  \E k \in StickyKeys :
    LET q == copy[r]
        s == Eligible[q]
    IN  /\ q # None
        /\ copy' = [copy EXCEPT ![r] = None]
        /\ last' = [rule |-> q, order |-> Order(q, k)]
        /\ rr' = IF q.strategy = "round-robin" /\ Len(s) >= 2
                   THEN NextTurn
                   ELSE rr
        /\ smooth' = IF Weighted(q) /\ Len(s) >= 2
                       THEN [smooth EXCEPT ![GroupKey(q)] = Paid(q)]
                       ELSE smooth
        /\ steady' = (steady /\ (q = rule \/ ~Weighted(rule)))
        /\ tally' = IF q # rule \/ (q.strategy = "round-robin" /\ NextTurn = 0) THEN NoTally
                    ELSE IF Shares(q) THEN Counted(q, last'.order[1])
                    ELSE tally
        /\ UNCHANGED rule

\* save_policy replaces the rule and nothing else.
Edit(new) ==
  /\ new # rule
  /\ rule' = new
  /\ steady' = ~Weighted(new)
  /\ tally' = NoTally
  /\ UNCHANGED <<rr, smooth, copy, last>>

\* configureV4: the rule is read again and the shared state starts over.
Reload(new) ==
  /\ rule' = new
  /\ rr' = 0
  /\ smooth' = [g \in GroupKeys |-> [c \in Candidates |-> 0]]
  /\ steady' = TRUE
  /\ tally' = NoTally
  /\ UNCHANGED <<copy, last>>

Next ==
  \/ \E r \in Requests : Plan(r) \/ Rank(r)
  \/ \E new \in Rules : Edit(new) \/ Reload(new)

Spec == Init /\ [][Next]_vars

\* Clients keep asking, and what has been planned is ranked.
Fairness == \A r \in Requests : []<><<copy'[r] # copy[r]>>_copy

LiveSpec == Spec /\ Fairness

----------------------------------------------------------------------------

\* No candidate is lost to the failover and none is tried twice.
RanksEachOnce ==
  last # None =>
    /\ IsInjective(last.order)
    /\ Range(last.order) = Range(Eligible[last.rule])

\* No candidate comes before one of a higher priority, however the weights stand.
PriorityFirst ==
  last # None /\ last.rule.strategy \in {"priority-weighted", "sticky"} =>
    \A i, j \in DOMAIN last.order :
      i < j => last.rule.priority[last.order[i]] >= last.rule.priority[last.order[j]]

(* Every strategy hands over each candidate the affinity admits once, and  *)
(* the strategies with priorities in their order.                          *)
SoundOrder == RanksEachOnce /\ PriorityFirst

(* While only the saved rule uses the shared state, and the counter does   *)
(* not wrap, no candidate is ever a whole turn ahead of its exact share or *)
(* more than one turn per other candidate behind it, and every candidate   *)
(* has led exactly its share whenever a cycle is complete.                 *)
FairShare ==
  steady /\ Shares(rule) =>
    \A c \in Range(Group[rule]) :
      LET ahead == Cycle(rule) * tally.served[c] - tally.picks * Share(rule)[c]
      IN  /\ ahead < Cycle(rule)
          /\ ahead >= -(Len(Group[rule]) - 1) * Cycle(rule)
          /\ tally.picks = Cycle(rule) => tally.served[c] = Share(rule)[c]

Precedes(s, c, d) == \E i, j \in DOMAIN s : i < j /\ s[i] = c /\ s[j] = d

\* The candidates that an edit of the rule leaves as they are.
Untouched(old, new) ==
  {c \in Range(Eligible[old]) \cap Range(Eligible[new]) :
     old.weight[c] = new.weight[c] /\ old.priority[c] = new.priority[c]}

\* Scores tell them apart, or the edit leaves the order of the two in the list.
Settled(old, new, k, c, d) ==
  \/ {<<c, d>>, <<d, c>>} \cap PriorityThen(old, Nearer(old, k)) # {}
  \/ Precedes(old.list, c, d) <=> Precedes(new.list, c, d)

MovesLittle(old, new) ==
  \A k \in StickyKeys : \A c, d \in Untouched(old, new) :
    Precedes(StickyOrder[old][k], c, d) /\ Settled(old, new, k, c, d) =>
      Precedes(StickyOrder[new][k], c, d)

(* Editing a sticky rule leaves the candidates it does not touch in the    *)
(* order they had for every session, unless their scores are equal and     *)
(* their places in the list changed: only sessions of edited candidates    *)
(* move, and only to or from those.                                        *)
StickyMovesLittle ==
  [][rule.strategy = "sticky" /\ rule'.strategy = "sticky" => MovesLittle(rule, rule')]_vars

(* Once operators leave the rule alone, every candidate that has a share   *)
(* leads again and again, whatever their edits left in the shared state.   *)
EveryoneLeads ==
  <>[][copy' # copy]_vars =>
    \A c \in Candidates :
      []<>(Shares(rule) /\ c \in Range(Group[rule]) =>
             last # None /\ last.rule = rule /\ last.order[1] = c)
=============================================================================
