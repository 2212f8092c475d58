---------------------------- MODULE Routing_proofs ----------------------------
(***************************************************************************)
(* Proofs about RuleMatch, Routing and RouteStats, for any models,         *)
(* policies, requests and edits: the one number by which the code compares *)
(* rules orders them as the README says, that rule is the one that serves, *)
(* the statistics count every routed request once, and memory and database *)
(* answer every query alike.                                               *)
(***************************************************************************)
EXTENDS RouteStats, FiniteSetTheorems, WellFoundedInduction, TLAPS

\* The rules of a policy that an operator saves.
Rules == {rules \in Seq(Rule) : Len(rules) <= MaxRules}

----------------------------------------------------------------------------
(* Matching.                                                               *)

(* The score of a pattern lies between those of the kinds next to its own. *)
LEMMA ScoreRange ==
  ASSUME NEW p \in Pattern
  PROVE  /\ p.length \in 0 .. MaxLength /\ p.kind \in Kinds
         /\ p.kind = "exact" => PatternScore(p) = 100000 + p.length /\ Precedence(p) = 2
         /\ p.kind = "glob" => PatternScore(p) = 1000 + p.length /\ Precedence(p) = 1
         /\ p.kind = "star" => PatternScore(p) = 0 /\ Precedence(p) = 0 /\ p.length = 0
BY DEF Pattern, PatternScore, Precedence, Kinds

(* The packed number compares kind, length and position in this order: no  *)
(* length reaches the next kind's scores, no position the next score.      *)
LEMMA WeightsPrevail ==
  ASSUME NEW rules \in Rules, NEW i \in DOMAIN rules, NEW j \in DOMAIN rules,
         NEW p \in Pattern, NEW q \in Pattern
  PROVE  Weight(rules, j, q) <= Weight(rules, i, p) <=> Prevails(p, i, q, j)
<1> DEFINE n == Len(rules)
           s == PatternScore(p)
           t == PatternScore(q)
<1>1. n \in Nat /\ n <= 1000 /\ i \in 1 .. n /\ j \in 1 .. n
  BY RuleMatchAssumption DEF Rules
<1>2. /\ s \in Int /\ t \in Int
      /\ p.length \in Nat /\ q.length \in Nat /\ p.length < 99000 /\ q.length < 99000
      /\ Precedence(p) \in 0 .. 2 /\ Precedence(q) \in 0 .. 2
  BY ScoreRange, RuleMatchAssumption DEF Kinds
<1>3. s > t <=> \/ Precedence(p) > Precedence(q)
                \/ Precedence(p) = Precedence(q) /\ p.length > q.length
  BY <1>2, ScoreRange DEF Kinds
<1>4. s = t <=> Precedence(p) = Precedence(q) /\ p.length = q.length
  BY <1>2, ScoreRange DEF Kinds
<1>5. Weight(rules, j, q) = t * 1000 + (n - j + 1) /\ Weight(rules, i, p) = s * 1000 + (n - i + 1)
  BY DEF Weight
<1> HIDE DEF n, s, t
<1>6. t * 1000 + (n - j + 1) <= s * 1000 + (n - i + 1) <=> s > t \/ (s = t /\ i <= j)
  BY <1>1, <1>2
<1> QED
  BY <1>3, <1>4, <1>5, <1>6 DEF Prevails

(* What covers a model in a rule is a pattern.                             *)
LEMMA CoveringPatterns ==
  ASSUME NEW rules \in Rules, NEW model, NEW i \in DOMAIN rules
  PROVE  Covering(rules[i], model) \subseteq Pattern
<1>1. rules \in Seq(Rule)
  BY DEF Rules
<1>2. rules[i] \in Rule
  BY <1>1
<1>3. rules[i].patterns \subseteq Pattern
  BY <1>2 DEF Rule
<1> QED
  BY <1>3 DEF Covering

(* The rules that the code can choose are the most specific ones (the      *)
(* README: exact model > glob > "*").                                      *)
THEOREM BestIsMostSpecific ==
  ASSUME NEW rules \in Rules, NEW model
  PROVE  BestRules(rules, model) = {i \in DOMAIN rules : MostSpecific(rules, model, i)}
<1>1. \A i \in DOMAIN rules : Covering(rules[i], model) \subseteq Pattern
  BY CoveringPatterns
<1>2. ASSUME NEW i \in DOMAIN rules
      PROVE  i \in BestRules(rules, model) <=> MostSpecific(rules, model, i)
  BY <1>1, WeightsPrevail DEF BestRules, MostSpecific
<1> QED
  BY <1>2 DEF BestRules

(* A rule that is found is one of the policy's, and the most specific.     *)
LEMMA FoundIsMostSpecific ==
  ASSUME NEW rules \in Rules, NEW model, FindRule(rules, model) # 0
  PROVE  /\ FindRule(rules, model) \in DOMAIN rules
         /\ MostSpecific(rules, model, FindRule(rules, model))
<1>1. BestRules(rules, model) # {}
  BY DEF FindRule
<1>2. FindRule(rules, model) \in BestRules(rules, model)
  BY <1>1 DEF FindRule
<1> QED
  BY <1>2, BestIsMostSpecific

(* There is at most one: the position decides at last.                     *)
THEOREM BestIsUnique ==
  ASSUME NEW rules \in Rules, NEW model,
         NEW i \in BestRules(rules, model), NEW j \in BestRules(rules, model)
  PROVE  i = j
<1>1. \A k \in DOMAIN rules : Covering(rules[k], model) \subseteq Pattern
  BY CoveringPatterns
<1>2. i \in DOMAIN rules /\ j \in DOMAIN rules
  BY DEF BestRules
<1>3. PICK p \in Covering(rules[i], model) :
        \A k \in DOMAIN rules : \A q \in Covering(rules[k], model) : Prevails(p, i, q, k)
  BY BestIsMostSpecific DEF MostSpecific
<1>4. PICK q \in Covering(rules[j], model) :
        \A k \in DOMAIN rules : \A o \in Covering(rules[k], model) : Prevails(q, j, o, k)
  BY BestIsMostSpecific DEF MostSpecific
<1>5. Prevails(p, i, q, j) /\ Prevails(q, j, p, i)
  BY <1>2, <1>3, <1>4
<1>6. /\ Precedence(p) \in Int /\ Precedence(q) \in Int /\ p.length \in Int /\ q.length \in Int
      /\ i \in Int /\ j \in Int
  BY <1>1, <1>2, ScoreRange DEF Kinds, Rules
<1> QED
  BY <1>5, <1>6 DEF Prevails

----------------------------------------------------------------------------
(* The strengthening.                                                      *)

\* Every key has a policy that was saved or found, or none.
PoliciesKnown == policies \in [Keys -> Documents \cup {None}]

\* Every request that still has to run carries its key.
KeysKnown ==
  \A r \in Requests :
    /\ requests[r].at = "routed" => requests[r].key \in Keys
    /\ requests[r].at = "observing" =>
         \/ requests[r].next.at = "done"
         \/ requests[r].next.at = "routed" /\ requests[r].next.key \in Keys

\* A running request has the best rule of a policy, and that rule ranks candidates.
Matched(s) ==
  /\ s.policy \in Documents
  /\ s.rule \in DOMAIN s.policy.rules
  /\ MostSpecific(s.policy.rules, s.model, s.rule)
  /\ s.policy.rules[s.rule].ranked

RunningMatched == \A r \in Requests : requests[r].at = "running" => Matched(requests[r])

IInv ==
  /\ DOMAIN requests = Requests
  /\ PoliciesKnown
  /\ KeysKnown
  /\ RunningMatched

(* A document has the rules of a policy.                                   *)
LEMMA DocumentRules ==
  ASSUME NEW p \in Documents
  PROVE  p.rules \in Rules /\ p \in Policy
BY RoutingAssumption DEF Policy, Rules

(* The policy of a key is one that was saved.                              *)
LEMMA FoundPolicy ==
  ASSUME PoliciesKnown, NEW k \in Keys, FindPolicy(k) # None
  PROVE  FindPolicy(k) \in Documents /\ FindPolicy(k) = policies[k]
BY DEF PoliciesKnown, FindPolicy

(* What can be served has a best rule.                                     *)
LEMMA ServableMatched ==
  ASSUME NEW p \in Documents, NEW model, Servable(p, model)
  PROVE  /\ FindRule(p.rules, model) \in DOMAIN p.rules
         /\ MostSpecific(p.rules, model, FindRule(p.rules, model))
         /\ p.rules[FindRule(p.rules, model)].ranked
BY DocumentRules, FoundIsMostSpecific DEF Servable

(* A step of one request leaves the others where they are.                 *)
LEMMA OnlyOneGoes ==
  ASSUME DOMAIN requests = Requests, NEW r \in Requests, NEW s, Goes(r, s)
  PROVE  /\ DOMAIN requests' = Requests
         /\ requests'[r] = s
         /\ \A q \in Requests : q # r => requests'[q] = requests[q]
BY DEF Goes

LEMMA Initially ==
  ASSUME Init
  PROVE  IInv
BY DEF Init, IInv, PoliciesKnown, KeysKnown, RunningMatched, Idle

(* A request moves on to a state that carries what the invariant asks.     *)
LEMMA GoesOn ==
  ASSUME IInv, UNCHANGED policies, NEW r \in Requests, NEW s, Goes(r, s),
         s.at = "routed" => s.key \in Keys,
         s.at = "observing" =>
           s.next.at = "done" \/ (s.next.at = "routed" /\ s.next.key \in Keys),
         s.at = "running" => Matched(s)
  PROVE  IInv'
<1>1. DOMAIN requests' = Requests /\ requests'[r] = s
  BY OnlyOneGoes DEF IInv
<1>2. \A q \in Requests : q # r => requests'[q] = requests[q]
  BY OnlyOneGoes DEF IInv
<1>3. PoliciesKnown'
  BY DEF IInv, PoliciesKnown
<1>4. KeysKnown'
  BY <1>1, <1>2 DEF IInv, KeysKnown
<1>5. RunningMatched'
  <2> SUFFICES ASSUME NEW q \in Requests, requests'[q].at = "running"
               PROVE  Matched(requests'[q])
    BY DEF RunningMatched, Matched
  <2> QED
    BY <1>1, <1>2 DEF IInv, RunningMatched
<1> QED
  BY <1>1, <1>3, <1>4, <1>5 DEF IInv

(* An edit moves no request.                                               *)
LEMMA EditKeeps ==
  ASSUME IInv, UNCHANGED requests, NEW k \in Keys, NEW p \in Documents \cup {None},
         policies' = [policies EXCEPT ![k] = p]
  PROVE  IInv'
<1>1. PoliciesKnown'
  BY DEF IInv, PoliciesKnown
<1>2. KeysKnown' /\ RunningMatched'
  BY DEF IInv, KeysKnown, RunningMatched, Matched
<1> QED
  BY <1>1, <1>2 DEF IInv

LEMMA Inductive ==
  ASSUME IInv, [Next]_vars
  PROVE  IInv'
<1>1. CASE UNCHANGED vars
  BY <1>1 DEF vars, IInv, PoliciesKnown, KeysKnown, RunningMatched, Matched
<1>2. ASSUME NEW r \in Requests, Ignore(r)
      PROVE  IInv'
  <2>1. Goes(r, Done("ignored")) /\ UNCHANGED policies
    BY <1>2 DEF Ignore, settings
  <2> QED
    BY <2>1, GoesOn DEF Done
<1>3. ASSUME NEW r \in Requests, ObserveRoute(r)
      PROVE  IInv'
  <2>1. Goes(r, requests[r].next) /\ UNCHANGED policies /\ requests[r].at = "observing"
    BY <1>3 DEF ObserveRoute, settings
  <2> QED
    BY <2>1, GoesOn DEF IInv, KeysKnown
<1>4. ASSUME NEW r \in Requests, Finish(r)
      PROVE  IInv'
  <2>1. Goes(r, Done("served")) /\ UNCHANGED policies
    BY <1>4 DEF Finish, settings
  <2> QED
    BY <2>1, GoesOn DEF Done
<1>5. ASSUME NEW r \in Requests, Abandon(r)
      PROVE  IInv'
  <2>1. Goes(r, Done("abandoned")) /\ UNCHANGED policies
    BY <1>5 DEF Abandon, settings
  <2> QED
    BY <2>1, GoesOn DEF Done
<1>6. ASSUME NEW r \in Requests, NEW k \in Keys, NEW model \in Models, Accept(r, k, model)
      PROVE  IInv'
  <2>1. Goes(r, Routed(k, model)) /\ UNCHANGED policies
    BY <1>6 DEF Accept, settings
  <2> QED
    BY <2>1, GoesOn DEF Routed
<1>7. ASSUME NEW r \in Requests, NEW k \in Keys, NEW model \in Models, Decide(r, k, model)
      PROVE  IInv'
  <2> DEFINE s == [at |-> "observing", event |-> RouteEvent(r, k, model),
                   next |-> AfterRoute(k, model)]
  <2>1. Goes(r, s) /\ UNCHANGED policies
    BY <1>7 DEF Decide, settings
  <2>2. AfterRoute(k, model) \in {Routed(k, model), Done("bypassed")}
    BY DEF AfterRoute
  <2>3. s.at = "observing" /\ s.next = AfterRoute(k, model)
    OBVIOUS
  <2> HIDE DEF s
  <2>4. s.next.at = "done" \/ (s.next.at = "routed" /\ s.next.key \in Keys)
    BY <2>2, <2>3 DEF Routed, Done
  <2> QED
    BY <2>1, <2>3, <2>4, GoesOn
<1>8. ASSUME NEW r \in Requests, NEW model \in Models, Execute(r, model)
      PROVE  IInv'
  <2> DEFINE k == requests[r].key
             p == FindPolicy(k)
             i == FindRule(p.rules, model)
  <2>1. requests[r].at = "routed" /\ Servable(p, model) /\ UNCHANGED policies
    BY <1>8 DEF Execute, settings
  <2>2. PICK ev : Goes(r, [at |-> "running", key |-> k, model |-> model, policy |-> p,
                           rule |-> i, event |-> ev])
    BY <1>8 DEF Execute
  <2>3. k \in Keys /\ p # None
    BY <2>1 DEF IInv, KeysKnown, Servable
  <2>4. p \in Documents
    BY <2>3, FoundPolicy DEF IInv
  <2>5. i \in DOMAIN p.rules /\ MostSpecific(p.rules, model, i) /\ p.rules[i].ranked
    BY <2>1, <2>4, ServableMatched
  <2> HIDE DEF p, i
  <2>6. Matched([at |-> "running", key |-> k, model |-> model, policy |-> p,
                 rule |-> i, event |-> ev])
    BY <2>4, <2>5 DEF Matched
  <2> QED
    BY <2>1, <2>2, <2>6, GoesOn
<1>9. ASSUME NEW r \in Requests, NEW model \in Models, Refuse(r, model)
      PROVE  IInv'
  <2>1. Goes(r, Done("refused")) /\ UNCHANGED policies
    BY <1>9 DEF Refuse, settings
  <2> QED
    BY <2>1, GoesOn DEF Done
<1>10. ASSUME NEW k \in Keys, NEW p \in Documents, SavePolicy(k, p)
       PROVE  IInv'
  BY <1>10, EditKeeps DEF SavePolicy
<1>11. ASSUME NEW k \in Keys, DeletePolicy(k)
       PROVE  IInv'
  BY <1>11, EditKeeps DEF DeletePolicy
<1>12. ASSUME NEW k \in Keys, NEW found \in Reloads, Reload(k, found)
       PROVE  IInv'
  <2>1. found.document \in Documents \cup {None}
    BY RoutingAssumption
  <2> QED
    BY <1>12, <2>1, EditKeeps DEF Reload
<1> QED
  BY <1>1, <1>2, <1>3, <1>4, <1>5, <1>6, <1>7, <1>8, <1>9, <1>10, <1>11, <1>12 DEF Next

(* A request is served by the rule with the most specific pattern for the  *)
(* model that it runs with, whatever operators edit between model.route    *)
(* and the execution.                                                      *)
THEOREM MostSpecificIsServed == Spec => []MostSpecificServes
<1>1. Init => IInv
  BY Initially
<1>2. IInv /\ [Next]_vars => IInv'
  BY Inductive
<1>3. IInv => MostSpecificServes
  BY DEF IInv, RunningMatched, Matched, MostSpecificServes
<1> QED
  BY <1>1, <1>2, <1>3, PTL DEF Spec

----------------------------------------------------------------------------
(* Policies that validatePolicy has passed.                                *)

Turned == {"no_enabled_candidates", "unsupported_client_affinity"}

(* Every rule of a valid policy that ranks has something to rank.          *)
LEMMA ValidHasEligible ==
  ASSUME NEW p, Valid(p), NEW i \in DOMAIN p.rules, p.rules[i].ranked
  PROVE  Eligible(p, p.rules[i]) # {} /\ p.affinity \in {"off", "strict"}
<1>1. p.affinity \in {"off", "strict"} /\ Enabled(p.rules[i]) # {}
  BY DEF Valid
<1>2. \A c \in Enabled(p.rules[i]) : Allowed(p, c)
  BY <1>1 DEF Valid, Allowed
<1> QED
  BY <1>1, <1>2 DEF Eligible

(* A valid policy turns no request away.                                   *)
LEMMA ValidTurnsNoneAway ==
  ASSUME NEW p \in Documents, Valid(p), p # None, NEW model
  PROVE  RouteReason(p, model) \notin Turned
<1> DEFINE i == FindRule(p.rules, model)
<1>1. CASE i = 0
  BY <1>1 DEF RouteReason, Turned
<1>2. CASE i # 0 /\ ~p.rules[i].ranked
  BY <1>2 DEF RouteReason, Turned
<1>3. CASE i # 0 /\ p.rules[i].ranked
  <2>1. i \in DOMAIN p.rules
    BY <1>3, DocumentRules, FoundIsMostSpecific
  <2>2. Eligible(p, p.rules[i]) # {} /\ p.affinity \in {"off", "strict"}
    BY <1>3, <2>1, ValidHasEligible
  <2> QED
    BY <1>3, <2>2 DEF RouteReason, Turned
<1> QED
  BY <1>1, <1>2, <1>3

----------------------------------------------------------------------------
(* Events.                                                                 *)

Fields == {"trace", "at", "decision", "reason", "key", "policy", "strategy", "model",
           "provider", "status", "duration", "success", "error", "reasons", "attempts"}

\* An event has these fields and nothing else.
Plain(e) == e = [f \in Fields |-> e[f]]

LEMMA PlainDomain == \A e : Plain(e) => DOMAIN e = Fields
BY DEF Plain

(* The event of model.route names its trace, its reason and its policy.    *)
LEMMA RouteEventFields ==
  ASSUME NEW r, NEW k, NEW model
  PROVE  /\ DOMAIN RouteEvent(r, k, model) = Fields
         /\ RouteEvent(r, k, model).trace = <<r, "route">>
         /\ RouteEvent(r, k, model).reason = RouteReason(FindPolicy(k), model)
         /\ RouteEvent(r, k, model).key = k
         /\ RouteEvent(r, k, model).policy = IF FindPolicy(k) = None THEN None ELSE k
         /\ RouteEvent(r, k, model).decision =
              IF Refused(FindPolicy(k), model) THEN "handled" ELSE "bypass"
         /\ RouteEvent(r, k, model).at = clock + Duration
         /\ RouteEvent(r, k, model).attempts = <<>>
         /\ Plain(RouteEvent(r, k, model)) /\ RouteEvent(r, k, model).duration = 0
<1> DEFINE e == Event(r, "route", k, model)
<1>1. /\ DOMAIN e = Fields /\ e.trace = <<r, "route">> /\ e.key = k
      /\ e.at = clock + Duration /\ e.attempts = <<>> /\ e.duration = 0
  BY DEF Event, Fields
<1> HIDE DEF e
<1>2. /\ DOMAIN RouteEvent(r, k, model) = Fields
      /\ RouteEvent(r, k, model).trace = <<r, "route">>
      /\ RouteEvent(r, k, model).reason = RouteReason(FindPolicy(k), model)
      /\ RouteEvent(r, k, model).key = k
      /\ RouteEvent(r, k, model).policy = IF FindPolicy(k) = None THEN None ELSE k
  BY <1>1 DEF RouteEvent, Fields, e
<1>3. RouteEvent(r, k, model).decision =
        IF Refused(FindPolicy(k), model) THEN "handled" ELSE "bypass"
  BY <1>1 DEF RouteEvent, Fields, e
<1>4. RouteEvent(r, k, model).at = clock + Duration
  BY <1>1 DEF RouteEvent, Fields, e
<1>5. RouteEvent(r, k, model).attempts = <<>>
  BY <1>1 DEF RouteEvent, Fields, e
<1>6. Plain(RouteEvent(r, k, model))
  BY <1>1 DEF RouteEvent, Fields, Plain, e
<1>7. RouteEvent(r, k, model).duration = 0
  BY <1>1 DEF RouteEvent, Fields, e
<1> QED
  BY <1>2, <1>3, <1>4, <1>5, <1>6, <1>7

(* The row of an event has its fields.                                     *)
LEMMA RowFields ==
  ASSUME NEW e, DOMAIN e = Fields
  PROVE  /\ Row(e).trace = e.trace /\ Row(e).reason = e.reason
         /\ Row(e).policy = e.policy /\ Row(e).key = e.key
BY DEF Row, Fields

(* What is kept of an event names its policy and a reason other than       *)
(* "no_policy".                                                            *)
LEMMA PreparedFields ==
  ASSUME NEW ev, DOMAIN ev = Fields, ev.reason = "no_policy" \/ ev.policy = ev.key,
         NEW e \in Prepared(ev)
  PROVE  /\ DOMAIN e = Fields /\ e.trace = ev.trace
         /\ e.policy = e.key /\ e.reason # "no_policy"
         /\ e.reason \in Turned => e.reason = ev.reason
<1>1. CASE ev.reason # "no_policy"
  BY <1>1 DEF Prepared
<1>2. CASE ev.reason = "no_policy"
  <2>1. PICK why \in {"policy_lookup_miss", "policy_disabled"} :
          e = [ev EXCEPT !.policy = ev.key, !.reason = why]
    BY <1>2 DEF Prepared
  <2>2. /\ DOMAIN e = Fields /\ e.trace = ev.trace
        /\ e.policy = ev.key /\ e.key = ev.key /\ e.reason = why
    BY <2>1 DEF Fields
  <2> QED
    BY <2>2 DEF Turned
<1> QED
  BY <1>1, <1>2

AtMostOne(r) == \A x, y \in RowsOf(r) : x = y

(* Observing an event of a request touches no other request's rows, and    *)
(* leaves that request one row at most if it had none.                     *)
LEMMA Observed ==
  ASSUME NEW r \in Requests, NEW handler, NEW ev, DOMAIN ev = Fields, ev.trace = <<r, handler>>,
         ev.reason = "no_policy" \/ ev.policy = ev.key, Observe(ev)
  PROVE  /\ \A q \in Requests : q # r => RowsOf(q)' = RowsOf(q)
         /\ RowsOf(r) = {} => AtMostOne(r)'
         /\ \A x \in rows' : x \in rows \/ \E e \in Prepared(ev) : x = Row(e)
         /\ ev.reason # "no_policy" => Row(ev) \in rows'
<1>1. CASE Prepared(ev) = {} /\ UNCHANGED events
  BY <1>1 DEF events, RowsOf, AtMostOne, Prepared
<1>2. ASSUME NEW e \in Prepared(ev),
             rows' = {x \in rows : x.trace # e.trace} \cup {Row(e)}
      PROVE  /\ \A q \in Requests : q # r => RowsOf(q)' = RowsOf(q)
             /\ RowsOf(r) = {} => AtMostOne(r)'
             /\ \A x \in rows' : x \in rows \/ \E o \in Prepared(ev) : x = Row(o)
             /\ ev.reason # "no_policy" => Row(ev) \in rows'
  <2>1. DOMAIN e = Fields /\ e.trace = <<r, handler>>
    BY PreparedFields
  <2>2. Row(e).trace = <<r, handler>> /\ <<r, handler>>[1] = r
    BY <2>1, RowFields
  <2>3. ASSUME NEW q \in Requests, q # r
        PROVE  RowsOf(q)' = RowsOf(q)
    BY <1>2, <2>1, <2>2, <2>3 DEF RowsOf
  <2>4. RowsOf(r) = {} => AtMostOne(r)'
    BY <1>2, <2>1, <2>2 DEF RowsOf, AtMostOne
  <2>5. ev.reason # "no_policy" => e = ev
    BY DEF Prepared
  <2> QED
    BY <1>2, <2>3, <2>4, <2>5
<1> QED
  BY <1>1, <1>2 DEF Observe

\* What is recorded of attempts, and sequences of it.
Names == Candidates \cup {CPADefault}
Errors == {""} \cup {f.error : f \in Failures}
Tried == [candidate : Names, provider : Providers \cup {None}, status : Int, error : Errors]
Tries == Seq(Tried)

\* An event that a run may leave.
Recorded(run, e) ==
  /\ Plain(e) /\ DOMAIN e = Fields /\ e.duration = clock + Duration - run.event.at
  /\ e.trace = run.event.trace /\ e.at = run.event.at
  /\ e.policy = run.key /\ e.key = run.key
  /\ Routes(e) /\ e.reason \notin Turned \cup {"no_policy"}
  /\ e.attempts \in Tries

(* The status and error of an attempt that succeeds.                       *)
LEMMA NoError == 200 \in Int /\ "" \in Errors
BY DEF Errors

(* The status and error of one that fails.                                 *)
LEMMA FailureTypes ==
  \A f \in Failures : f.status \in Int /\ f.error \in Errors
<1>1. Failures \subseteq [status : {0} \cup 400 .. 599, error : STRING]
  BY RoutingAssumption, Zenon
<1>2. \A f \in Failures : f.status \in Int
  BY <1>1
<1> QED
  BY <1>2 DEF Errors

(* The trials of a rule's candidates are recorded one by one.              *)
LEMMA TrialsRecorded ==
  ASSUME NEW run, Matched(run), NEW t \in Trials(Ranking(run))
  PROVE  /\ Failed(t) \in Tries
         /\ \A c \in Ranking(run), status \in Int, error \in Errors :
              Append(Failed(t), Attempt(c.name, c.provider, status, error)) \in Tries
         /\ \A status \in Int, error \in Errors :
              Append(Failed(t), Attempt(CPADefault, None, status, error)) \in Tries
<1>1. /\ RuleOf(run) \in Rule /\ IsFiniteSet(RuleOf(run).candidates)
  <2>1. run.policy.rules \in Seq(Rule) /\ run.rule \in DOMAIN run.policy.rules
    BY DocumentRules DEF Matched, Rules
  <2>2. RuleOf(run) \in Rule
    BY <2>1 DEF RuleOf
  <2> QED
    BY <2>1, <2>2, RoutingAssumption DEF Matched, RuleOf
<1>2. PICK E : E = Ranking(run)
  OBVIOUS
<1>3. E \subseteq RuleOf(run).candidates /\ E \subseteq Candidate
  BY <1>1, <1>2 DEF Ranking, Eligible, Enabled, Rule
<1>4. IsFiniteSet(E) /\ Cardinality(E) \in Nat
  BY <1>1, <1>3, FS_Subset, FS_CardinalityType
<1>5. PICK n \in 0 .. Cardinality(E) : t \in [1 .. n -> E \X Failures]
  BY <1>2 DEF Trials
<1>6. n \in Nat
  BY <1>4, <1>5
<1>7. \A c \in Candidate, status \in Int, error \in Errors :
        Attempt(c.name, c.provider, status, error) \in Tried
  BY DEF Attempt, Tried, Names, Candidate
<1>8. \A i \in 1 .. n : t[i][1] \in Candidate /\ t[i][2] \in Failures
  BY <1>3, <1>5
<1>9. Failed(t) \in [1 .. n -> Tried]
  <2>1. \A i \in 1 .. n :
          Attempt(t[i][1].name, t[i][1].provider, t[i][2].status, t[i][2].error) \in Tried
    BY <1>7, <1>8, FailureTypes
  <2> QED
    BY <1>5, <2>1 DEF Failed
<1>10. Failed(t) \in Tries
  BY <1>6, <1>9 DEF Tries
<1>11. \A status \in Int, error \in Errors : Attempt(CPADefault, None, status, error) \in Tried
  BY DEF Attempt, Tried, Names
<1>12. ASSUME NEW s \in Tries, NEW a \in Tried PROVE Append(s, a) \in Tries
  <2> HIDE DEF Tried
  <2> QED
    BY DEF Tries
<1>13. \A c \in E, status \in Int, error \in Errors :
         Append(Failed(t), Attempt(c.name, c.provider, status, error)) \in Tries
  BY <1>3, <1>7, <1>10, <1>12
<1>14. \A status \in Int, error \in Errors :
         Append(Failed(t), Attempt(CPADefault, None, status, error)) \in Tries
  BY <1>10, <1>11, <1>12
<1> QED
  BY <1>2, <1>10, <1>13, <1>14

(* The outcomes of a run keep its trace, time and key, name its policy,    *)
(* are routed, have none of the reasons of a request that is turned away   *)
(* and list the attempts.                                                  *)
LEMMA OutcomeFields ==
  ASSUME NEW run, Matched(run),
         DOMAIN run.event = Fields, run.event.reason = "", run.event.key = run.key,
         NEW ev \in Outcomes(run)
  PROVE  Recorded(run, ev)
<1>0. Plain(Ended(run)) /\ Ended(run).duration = clock + Duration - run.event.at
  BY DEF Ended, Fields, Plain
<1>1. /\ DOMAIN Ended(run) = Fields /\ Ended(run).trace = run.event.trace
      /\ Ended(run).at = run.event.at /\ Ended(run).decision = "handled"
      /\ Ended(run).policy = run.key /\ Ended(run).key = run.key /\ Ended(run).reason = ""
  BY DEF Ended, Fields
<1> DEFINE T == Trials(Ranking(run))
<1>2. ASSUME NEW t \in T, NEW c \in Ranking(run), ev \in Served(run, t, c)
      PROVE  Recorded(run, ev)
  <2> DEFINE e == [Ended(run) EXCEPT !.attempts =
                     Append(Failed(t), Attempt(c.name, c.provider, 200, ""))]
  <2>0. Append(Failed(t), Attempt(c.name, c.provider, 200, "")) \in Tries
    <3>1. \A d \in Ranking(run), status \in Int, error \in Errors :
            Append(Failed(t), Attempt(d.name, d.provider, status, error)) \in Tries
      BY TrialsRecorded
    <3>2. 200 \in Int /\ "" \in Errors /\ c \in Ranking(run)
      BY NoError
    <3> QED
      BY <3>1, <3>2, Zenon
  <2>1. Recorded(run, e)
    <3>1. Plain(e) /\ DOMAIN e = Fields
      BY <1>1 DEF Fields, Plain
    <3>2. /\ e.attempts \in Tries /\ e.duration = Ended(run).duration /\ e.trace = Ended(run).trace
          /\ e.at = Ended(run).at /\ e.policy = Ended(run).policy /\ e.key = Ended(run).key
          /\ e.decision = Ended(run).decision /\ e.reason = Ended(run).reason
      BY <1>1, <2>0 DEF Fields
    <3> QED
      BY <1>0, <1>1, <3>1, <3>2 DEF Recorded, Routes, Turned
  <2>2. \/ ev = [e EXCEPT !.provider = c.provider, !.status = 200, !.success = TRUE]
        \/ ev = [e EXCEPT !.error = "broken"]
    BY <1>2 DEF Served
  <2> HIDE DEF e
  <2>3. CASE ev = [e EXCEPT !.provider = c.provider, !.status = 200, !.success = TRUE]
    <3>1. DOMAIN e = Fields
      BY <2>1 DEF Recorded
    <3>2. Plain(ev) /\ DOMAIN ev = Fields
      BY <2>3, <3>1 DEF Fields, Plain
    <3>3. /\ ev.attempts = e.attempts /\ ev.duration = e.duration /\ ev.trace = e.trace
          /\ ev.at = e.at /\ ev.policy = e.policy /\ ev.key = e.key
          /\ ev.decision = e.decision /\ ev.reason = e.reason
      BY <2>3, <3>1 DEF Fields
    <3> QED
      BY <2>1, <3>2, <3>3 DEF Recorded, Routes
  <2>4. CASE ev = [e EXCEPT !.error = "broken"]
    <3>1. DOMAIN e = Fields
      BY <2>1 DEF Recorded
    <3>2. Plain(ev) /\ DOMAIN ev = Fields
      BY <2>4, <3>1 DEF Fields, Plain
    <3>3. /\ ev.attempts = e.attempts /\ ev.duration = e.duration /\ ev.trace = e.trace
          /\ ev.at = e.at /\ ev.policy = e.policy /\ ev.key = e.key
          /\ ev.decision = e.decision /\ ev.reason = e.reason
      BY <2>4, <3>1 DEF Fields
    <3> QED
      BY <2>1, <3>2, <3>3 DEF Recorded, Routes
  <2> QED
    BY <2>2, <2>3, <2>4
<1>3. ASSUME NEW t \in T, ev = Exhausted(run, t)
      PROVE  Recorded(run, ev)
  <2>1. Failed(t) \in Tries
    BY TrialsRecorded
  <2> QED
    BY <1>0, <1>1, <1>3, <2>1 DEF Exhausted, Fields, Plain, Recorded, Routes, Turned
<1>4. ASSUME NEW t \in T, ev \in ByDefault(run, t)
      PROVE  Recorded(run, ev)
  <2>1. ASSUME NEW status \in Int, NEW error \in Errors
        PROVE  Recorded(run, AskedDefault(run, t, status, error))
    <3>1. Append(Failed(t), Attempt(CPADefault, None, status, error)) \in Tries
      BY TrialsRecorded
    <3> QED
      BY <1>0, <1>1, <3>1 DEF AskedDefault, Fields, Plain, Recorded, Routes, Turned
  <2>2. ASSUME NEW status \in Int, ev \in DefaultAnswers(run, t, status)
        PROVE  Recorded(run, ev)
    <3> DEFINE e == [AskedDefault(run, t, status, "") EXCEPT !.status = status]
    <3> DEFINE success == status < 400
    <3>1. ev \in {[e EXCEPT !.success = success], [e EXCEPT !.success = TRUE]}
      BY <2>2 DEF DefaultAnswers
    <3>2. Recorded(run, AskedDefault(run, t, status, ""))
      BY <2>1 DEF Errors
    <3>3. Recorded(run, e)
      BY <3>2 DEF Recorded, Fields, Plain, Routes
    <3> HIDE DEF e, success
    <3>4. Recorded(run, [e EXCEPT !.success = success])
      BY <3>3 DEF Recorded, Fields, Plain, Routes
    <3>5. Recorded(run, [e EXCEPT !.success = TRUE])
      BY <3>3 DEF Recorded, Fields, Plain, Routes
    <3> QED
      BY <3>1, <3>4, <3>5, Zenon
  <2>3. ASSUME NEW status \in Int, NEW error \in Errors, NEW text
        PROVE  Recorded(run, DefaultFails(run, t, status, error, text))
    BY <2>1 DEF DefaultFails, Recorded, Fields, Plain, Routes
  <2> DEFINE Failing == {DefaultFails(run, t, f.status, f.error, f.error) :
                           f \in {x \in Failures : x.error # ""}}
             Other == UNION {DefaultAnswers(run, t, f.status) :
                               f \in {x \in Failures : x.status # 0}}
  <2>0. \A f \in Failures : f.status \in Int /\ f.error \in Errors
    BY FailureTypes
  <2>4. CASE ev \in Other
    BY <2>0, <2>2, <2>4
  <2>5. CASE ev \in Failing
    BY <2>0, <2>3, <2>5
  <2>6. ByDefault(run, t) = DefaultAnswers(run, t, 200) \cup Other
                            \cup {DefaultFails(run, t, 200, "", "broken")} \cup Failing
    BY DEF ByDefault
  <2> HIDE DEF Other, Failing
  <2>7. \/ ev \in DefaultAnswers(run, t, 200)
        \/ ev \in Other
        \/ ev = DefaultFails(run, t, 200, "", "broken")
        \/ ev \in Failing
    BY <1>4, <2>6, Zenon
  <2>8. 200 \in Int /\ "" \in Errors
    BY NoError
  <2>9. CASE ev \in DefaultAnswers(run, t, 200)
    BY <2>2, <2>8, <2>9
  <2>10. CASE ev = DefaultFails(run, t, 200, "", "broken")
    BY <2>3, <2>8, <2>10
  <2> QED
    BY <2>4, <2>5, <2>7, <2>9, <2>10, Zenon
<1>5. CASE ev \in UNION {UNION {Served(run, t, c) : c \in Ranking(run) \ TriedIn(t)} : t \in T}
  <2>1. PICK t \in T : ev \in UNION {Served(run, t, c) : c \in Ranking(run) \ TriedIn(t)}
    BY <1>5
  <2>2. PICK c \in Ranking(run) : ev \in Served(run, t, c)
    BY <2>1
  <2> QED
    BY <2>2, <1>2
<1>6. CASE ev \in {Exhausted(run, t) : t \in {x \in T : RuleOf(run).fallback # "exhausted"}}
  BY <1>6, <1>3
<1>7. CASE ev \in UNION {ByDefault(run, t) : t \in {x \in T : FallsBack(RuleOf(run), x)}}
  BY <1>7, <1>4
<1> QED
  BY <1>5, <1>6, <1>7 DEF Outcomes

(* So do they with the reasons of the selection.                           *)
LEMMA ExplainedFields ==
  ASSUME NEW run, Matched(run),
         DOMAIN run.event = Fields, run.event.reason = "", run.event.key = run.key,
         NEW ev \in Explained(run)
  PROVE  Recorded(run, ev)
<1>1. PICK o \in Outcomes(run) : ev \in {[o EXCEPT !.reasons = why] : why \in Reasons(run, o)}
  BY Zenon DEF Explained
<1>2. PICK why : ev = [o EXCEPT !.reasons = why]
  BY <1>1
<1>3. Recorded(run, o)
  BY OutcomeFields
<1>4. DOMAIN o = Fields
  BY <1>3 DEF Recorded
<1>5. Plain(ev) /\ DOMAIN ev = Fields
  BY <1>2, <1>4 DEF Plain, Fields
<1>6. \A f \in Fields \ {"reasons"} : ev[f] = o[f]
  BY <1>2, <1>4
<1>7. /\ ev.duration = o.duration /\ ev.trace = o.trace /\ ev.at = o.at
      /\ ev.policy = o.policy /\ ev.key = o.key /\ ev.decision = o.decision
      /\ ev.reason = o.reason /\ ev.attempts = o.attempts
  BY <1>6 DEF Fields
<1> QED
  BY <1>3, <1>5, <1>7 DEF Recorded, Routes

----------------------------------------------------------------------------
(* What the history holds.  Policies stay valid while trusted, a running   *)
(* request has a policy that was valid, and a request has no row before    *)
(* its last handler observes its event.                                    *)

PoliciesValid ==
  /\ trusted \in BOOLEAN
  /\ trusted => \A k \in Keys : policies[k] # None => Valid(policies[k])

\* The event of model.route, and where the request goes when it is observed.
ObservingKnown(s, r, clean) ==
  /\ DOMAIN s.event = Fields /\ s.event.trace = <<r, "route">>
  /\ s.event.reason = "no_policy" \/ s.event.policy = s.event.key
  /\ clean => s.event.reason \notin Turned /\ s.next.at = "done"
  /\ s.next \notin {Done("served"), Done("ignored")}
  /\ s.next.at \in {"done", "routed"}

\* The event of the executor, which says nothing before the run ends.
RunningKnown(s, r, clean) ==
  /\ DOMAIN s.event = Fields /\ s.event.trace = <<r, "execute">>
  /\ s.event.reason = "" /\ s.event.key = s.key
  /\ clean => Valid(s.policy)

StatesKnown ==
  \A r \in Requests :
    /\ requests[r].at = "observing" => ObservingKnown(requests[r], r, trusted)
    /\ requests[r].at = "running" => RunningKnown(requests[r], r, trusted)

\* The rows of a request, by how far it is.
Counted ==
  \A r \in Requests :
    /\ requests[r].at \in {"idle", "observing"} \/ requests[r] = Done("ignored") => RowsOf(r) = {}
    /\ trusted /\ requests[r].at # "done" => RowsOf(r) = {}
    /\ trusted => AtMostOne(r)
    /\ requests[r] = Done("served") => \E x \in RowsOf(r) : x.trace[2] = "execute"

RowsKnown ==
  \A x \in rows :
    /\ x.policy = x.key /\ x.reason # "no_policy"
    /\ trusted => x.reason \notin Turned

HInv == IInv /\ PoliciesValid /\ StatesKnown /\ Counted /\ RowsKnown

LEMMA InitiallyCounted ==
  ASSUME Init
  PROVE  HInv
<1>1. IInv
  BY Initially
<1>2. PoliciesValid
  BY DEF Init, PoliciesValid
<1>3. \A r \in Requests : requests[r] = Idle /\ RowsOf(r) = {}
  BY DEF Init, RowsOf
<1>4. Idle.at = "idle" /\ Idle # Done("served")
  BY DEF Idle, Done
<1>5. StatesKnown
  BY <1>3, <1>4 DEF StatesKnown
<1>6. Counted
  BY <1>3, <1>4 DEF Counted, AtMostOne
<1>7. RowsKnown
  BY DEF Init, RowsKnown
<1> QED
  BY <1>1, <1>2, <1>5, <1>6, <1>7 DEF HInv

(* A request moves on without an event.                                    *)
LEMMA MovesOn ==
  ASSUME HInv, IInv', UNCHANGED <<policies, trusted, rows>>, NEW r \in Requests, NEW s, Goes(r, s),
         s.at = "observing" => ObservingKnown(s, r, trusted),
         s.at = "running" => RunningKnown(s, r, trusted),
         s.at = "observing" \/ s = Done("ignored") => requests[r].at = "idle",
         s.at # "idle" /\ s # Done("served"),
         requests[r].at # "done"
  PROVE  HInv'
<1>1. requests'[r] = s /\ \A q \in Requests : q # r => requests'[q] = requests[q]
  BY OnlyOneGoes DEF HInv, IInv
<1>2. PoliciesValid'
  BY DEF HInv, PoliciesValid
<1>3. StatesKnown'
  BY <1>1 DEF HInv, StatesKnown
<1>4. \A q \in Requests : RowsOf(q)' = RowsOf(q)
  BY DEF RowsOf
<1>5. Counted'
  BY <1>1, <1>4 DEF HInv, Counted, AtMostOne, Done
<1>6. RowsKnown'
  BY DEF HInv, RowsKnown
<1> QED
  BY <1>2, <1>3, <1>5, <1>6 DEF HInv

(* A request moves on and its event is observed, the first one as long as  *)
(* the policies are valid.                                                 *)
LEMMA MovesOnObserved ==
  ASSUME HInv, IInv', UNCHANGED <<policies, trusted>>, NEW r \in Requests, NEW s, Goes(r, s),
         NEW handler, NEW ev, Observe(ev), DOMAIN ev = Fields, ev.trace = <<r, handler>>,
         ev.reason = "no_policy" \/ ev.policy = ev.key,
         trusted => RowsOf(r) = {} /\ s.at = "done" /\ ev.reason \notin Turned,
         s.at \in {"done", "routed"}, s # Done("ignored"),
         s = Done("served") => handler = "execute" /\ ev.reason # "no_policy"
  PROVE  HInv'
<1>1. requests'[r] = s /\ \A q \in Requests : q # r => requests'[q] = requests[q]
  BY OnlyOneGoes DEF HInv, IInv
<1>2. /\ \A q \in Requests : q # r => RowsOf(q)' = RowsOf(q)
      /\ RowsOf(r) = {} => AtMostOne(r)'
      /\ \A x \in rows' : x \in rows \/ \E e \in Prepared(ev) : x = Row(e)
      /\ ev.reason # "no_policy" => Row(ev) \in rows'
  BY Observed
<1>3. PoliciesValid'
  BY DEF HInv, PoliciesValid
<1>4. StatesKnown'
  BY <1>1 DEF HInv, StatesKnown
<1>5. Counted'
  <2> SUFFICES ASSUME NEW q \in Requests
               PROVE  /\ requests'[q].at \in {"idle", "observing"} \/ requests'[q] = Done("ignored")
                           => RowsOf(q)' = {}
                      /\ trusted /\ requests'[q].at # "done" => RowsOf(q)' = {}
                      /\ trusted => AtMostOne(q)'
                      /\ requests'[q] = Done("served") =>
                           \E x \in RowsOf(q)' : x.trace[2] = "execute"
    BY DEF Counted
  <2>1. CASE q # r
    BY <1>1, <1>2, <2>1 DEF HInv, Counted, AtMostOne
  <2>2. CASE q = r
    <3>1. s = Done("served") => \E x \in RowsOf(r)' : x.trace[2] = "execute"
      <4> SUFFICES ASSUME s = Done("served")
                   PROVE  \E x \in RowsOf(r)' : x.trace[2] = "execute"
        OBVIOUS
      <4>1. Row(ev).trace = <<r, "execute">> /\ Row(ev) \in rows'
        BY <1>2, RowFields
      <4> QED
        BY <4>1 DEF RowsOf
    <3> QED
      BY <1>1, <1>2, <2>2, <3>1
  <2> QED
    BY <2>1, <2>2
<1>6. RowsKnown'
  <2> SUFFICES ASSUME NEW x \in rows', x \notin rows
               PROVE  /\ x.policy = x.key /\ x.reason # "no_policy"
                      /\ trusted => x.reason \notin Turned
    BY DEF HInv, RowsKnown
  <2>1. PICK e \in Prepared(ev) : x = Row(e)
    BY <1>2
  <2>2. /\ DOMAIN e = Fields /\ e.policy = e.key /\ e.reason # "no_policy"
        /\ e.reason \in Turned => e.reason = ev.reason
    BY PreparedFields
  <2> QED
    BY <2>1, <2>2, RowFields
<1> QED
  BY <1>3, <1>4, <1>5, <1>6 DEF HInv

LEMMA InductiveCounted ==
  ASSUME HInv, [Next]_vars
  PROVE  HInv'
<1>0. IInv'
  BY Inductive DEF HInv
<1>1. CASE UNCHANGED vars
  BY <1>0, <1>1 DEF vars, events, HInv, PoliciesValid, StatesKnown, Counted, AtMostOne, RowsOf,
     RowsKnown
<1>2. ASSUME NEW r \in Requests, Ignore(r)
      PROVE  HInv'
  <2>1. Goes(r, Done("ignored")) /\ UNCHANGED <<policies, trusted, rows>> /\ requests[r].at = "idle"
    BY <1>2 DEF Ignore, settings, events, Idle
  <2>2. Done("ignored").at = "done" /\ Done("ignored") # Done("served")
    BY DEF Done
  <2> QED
    BY <1>0, <2>1, <2>2, MovesOn
<1>3. ASSUME NEW r \in Requests, ObserveRoute(r)
      PROVE  HInv'
  <2>1. /\ Goes(r, requests[r].next) /\ UNCHANGED <<policies, trusted>>
        /\ requests[r].at = "observing" /\ Observe(requests[r].event)
    BY <1>3 DEF ObserveRoute, settings
  <2>2. ObservingKnown(requests[r], r, trusted) /\ RowsOf(r) = {}
    BY <2>1 DEF HInv, StatesKnown, Counted
  <2> QED
    BY <1>0, <2>1, <2>2, MovesOnObserved DEF ObservingKnown
<1>4. ASSUME NEW r \in Requests, Finish(r)
      PROVE  HInv'
  <2>1. /\ Goes(r, Done("served")) /\ UNCHANGED <<policies, trusted>>
        /\ requests[r].at = "running"
    BY <1>4 DEF Finish, settings
  <2>2. PICK ev \in Explained(requests[r]) : Observe(ev)
    BY <1>4 DEF Finish
  <2>3. /\ RunningKnown(requests[r], r, trusted) /\ (trusted => RowsOf(r) = {})
        /\ Matched(requests[r])
    BY <2>1 DEF HInv, StatesKnown, Counted, IInv, RunningMatched
  <2>4. /\ DOMAIN ev = Fields /\ ev.trace = <<r, "execute">>
        /\ ev.policy = ev.key /\ ev.reason \notin Turned \cup {"no_policy"}
    BY <2>3, ExplainedFields DEF RunningKnown, Recorded
  <2>5. Done("served").at = "done" /\ Done("served") # Done("ignored")
    BY DEF Done
  <2> QED
    BY <1>0, <2>1, <2>2, <2>3, <2>4, <2>5, MovesOnObserved
<1>5. ASSUME NEW r \in Requests, Abandon(r)
      PROVE  HInv'
  <2>1. /\ Goes(r, Done("abandoned")) /\ UNCHANGED <<policies, trusted, rows>>
        /\ requests[r].at = "running"
    BY <1>5 DEF Abandon, settings, events
  <2>2. Done("abandoned").at = "done" /\ Done("abandoned") \notin {Done("served"), Done("ignored")}
    BY DEF Done
  <2> QED
    BY <1>0, <2>1, <2>2, MovesOn
<1>6. ASSUME NEW r \in Requests, NEW k \in Keys, NEW model \in Models, Accept(r, k, model)
      PROVE  HInv'
  <2>1. /\ Goes(r, Routed(k, model)) /\ UNCHANGED <<policies, trusted, rows>>
        /\ requests[r].at = "idle"
    BY <1>6 DEF Accept, settings, events, Idle
  <2>2. /\ Routed(k, model).at = "routed"
        /\ Routed(k, model) \notin {Done("served"), Done("ignored")}
    BY DEF Routed, Done
  <2> QED
    BY <1>0, <2>1, <2>2, MovesOn
<1>7. ASSUME NEW r \in Requests, NEW k \in Keys, NEW model \in Models, Decide(r, k, model)
      PROVE  HInv'
  <2> DEFINE p == FindPolicy(k)
             s == [at |-> "observing", event |-> RouteEvent(r, k, model),
                   next |-> AfterRoute(k, model)]
  <2>1. /\ Goes(r, s) /\ UNCHANGED <<policies, trusted, rows>> /\ requests[r].at = "idle"
    BY <1>7 DEF Decide, settings, events, Idle
  <2>2. s.at = "observing" /\ s.event = RouteEvent(r, k, model) /\ s.next = AfterRoute(k, model)
    OBVIOUS
  <2>3. s \notin {Done("served"), Done("ignored")}
    BY <2>2 DEF Done
  <2> HIDE DEF s
  <2>4. /\ s.event.reason = RouteReason(p, model)
        /\ s.event.key = k /\ s.event.policy = IF p = None THEN None ELSE k
    BY <2>2, RouteEventFields
  <2>5. s.event.reason = "no_policy" \/ s.event.policy = s.event.key
    BY <2>4 DEF RouteReason
  <2>6. trusted => RouteReason(p, model) \notin Turned
    <3>1. CASE p = None
      BY <3>1 DEF RouteReason, Turned
    <3>2. CASE p # None
      <4>1. p \in Documents /\ p = policies[k]
        BY <3>2, FoundPolicy DEF HInv, IInv
      <4>2. trusted => Valid(p)
        BY <3>2, <4>1 DEF HInv, PoliciesValid
      <4> QED
        BY <3>2, <4>1, <4>2, ValidTurnsNoneAway
    <3> QED
      BY <3>1, <3>2
  <2>7. trusted => AfterRoute(k, model) = Done("bypassed")
    BY <2>6 DEF AfterRoute, Refused, Turned
  <2>8. /\ s.next \notin {Done("served"), Done("ignored")} /\ s.next.at \in {"done", "routed"}
        /\ trusted => s.next.at = "done"
    BY <2>2, <2>7 DEF AfterRoute, Routed, Done
  <2>9. ObservingKnown(s, r, trusted)
    BY <2>2, <2>4, <2>5, <2>6, <2>8, RouteEventFields DEF ObservingKnown
  <2> QED
    BY <1>0, <2>1, <2>2, <2>3, <2>9, MovesOn
<1>8. ASSUME NEW r \in Requests, NEW model \in Models, Execute(r, model)
      PROVE  HInv'
  <2> DEFINE k == requests[r].key
             p == FindPolicy(k)
             i == FindRule(p.rules, model)
             e == Event(r, "execute", k, model)
             s == [at |-> "running", key |-> k, model |-> model, policy |-> p, rule |-> i,
                   event |-> e]
  <2>1. /\ Goes(r, s) /\ UNCHANGED <<policies, trusted, rows>> /\ requests[r].at = "routed"
        /\ Servable(p, model)
    BY <1>8 DEF Execute, settings, events
  <2>2. DOMAIN e = Fields /\ e.trace = <<r, "execute">> /\ e.reason = "" /\ e.key = k
    BY DEF Event, Fields
  <2>3. k \in Keys /\ p # None
    BY <2>1 DEF HInv, IInv, KeysKnown, Servable
  <2>4. p = policies[k]
    BY <2>3 DEF FindPolicy
  <2>5. trusted => Valid(p)
    BY <2>3, <2>4 DEF HInv, PoliciesValid
  <2> HIDE DEF p, i, e
  <2>6. s.at = "running" /\ s.key = k /\ s.policy = p /\ s.event = e
    OBVIOUS
  <2>7. s \notin {Done("served"), Done("ignored")}
    BY <2>6 DEF Done
  <2> HIDE DEF s
  <2>8. RunningKnown(s, r, trusted)
    BY <2>2, <2>5, <2>6 DEF RunningKnown
  <2> QED
    BY <1>0, <2>1, <2>6, <2>7, <2>8, MovesOn
<1>9. ASSUME NEW r \in Requests, NEW model \in Models, Refuse(r, model)
      PROVE  HInv'
  <2>1. /\ Goes(r, Done("refused")) /\ UNCHANGED <<policies, trusted, rows>>
        /\ requests[r].at = "routed"
    BY <1>9 DEF Refuse, settings, events
  <2>2. Done("refused").at = "done" /\ Done("refused") \notin {Done("served"), Done("ignored")}
    BY DEF Done
  <2> QED
    BY <1>0, <2>1, <2>2, MovesOn
<1>10. ASSUME NEW k \in Keys, NEW p \in Documents, SavePolicy(k, p)
       PROVE  HInv'
  <2>1. Valid(p) /\ policies' = [policies EXCEPT ![k] = p] /\ UNCHANGED <<requests, rows, trusted>>
    BY <1>10 DEF SavePolicy, events
  <2>2. PoliciesValid'
    BY <2>1 DEF HInv, IInv, PoliciesKnown, PoliciesValid
  <2> QED
    BY <1>0, <2>1, <2>2 DEF HInv, StatesKnown, Counted, AtMostOne, RowsOf, RowsKnown
<1>11. ASSUME NEW k \in Keys, DeletePolicy(k)
       PROVE  HInv'
  <2>1. policies' = [policies EXCEPT ![k] = None] /\ UNCHANGED <<requests, rows, trusted>>
    BY <1>11 DEF DeletePolicy, events
  <2>2. PoliciesValid'
    BY <2>1 DEF HInv, IInv, PoliciesKnown, PoliciesValid
  <2> QED
    BY <1>0, <2>1, <2>2 DEF HInv, StatesKnown, Counted, AtMostOne, RowsOf, RowsKnown
<1>12. ASSUME NEW k \in Keys, NEW found \in Reloads, Reload(k, found)
       PROVE  HInv'
  <2>1. /\ policies' = [policies EXCEPT ![k] = found.document] /\ UNCHANGED <<requests, rows>>
        /\ trusted' = (trusted /\ (found.document # None => Valid(found.document)))
    BY <1>12 DEF Reload
  <2>2. PoliciesValid'
    BY <2>1 DEF HInv, IInv, PoliciesKnown, PoliciesValid
  <2>3. trusted' => trusted
    BY <2>1
  <2>4. StatesKnown'
    BY <2>1, <2>3 DEF HInv, StatesKnown, ObservingKnown, RunningKnown
  <2>5. Counted'
    BY <2>1, <2>3 DEF HInv, Counted, AtMostOne, RowsOf
  <2>6. RowsKnown'
    BY <2>1, <2>3 DEF HInv, RowsKnown
  <2> QED
    BY <1>0, <2>2, <2>4, <2>5, <2>6 DEF HInv
<1> QED
  BY <1>1, <1>2, <1>3, <1>4, <1>5, <1>6, <1>7, <1>8, <1>9, <1>10, <1>11, <1>12 DEF Next

(* While every policy has passed validatePolicy, no request runs with an   *)
(* empty ranking or is turned away for want of candidates, whatever is     *)
(* edited between model.route and the execution.                           *)
THEOREM ValidatedIsNeverEmpty == Spec => []ValidatedNeverEmpty
<1>1. Init => HInv
  BY InitiallyCounted
<1>2. HInv /\ [Next]_vars => HInv'
  BY InductiveCounted
<1>3. HInv => ValidatedNeverEmpty
  <2> SUFFICES ASSUME HInv, trusted
               PROVE  /\ \A r \in Requests : requests[r].at = "running" =>
                           Eligible(requests[r].policy,
                                    requests[r].policy.rules[requests[r].rule]) # {}
                      /\ \A x \in rows : x.reason \notin Turned
    BY DEF ValidatedNeverEmpty, Turned
  <2>1. ASSUME NEW r \in Requests, requests[r].at = "running"
        PROVE  Eligible(requests[r].policy, requests[r].policy.rules[requests[r].rule]) # {}
    <3>1. Matched(requests[r]) /\ Valid(requests[r].policy)
      BY <2>1 DEF HInv, IInv, RunningMatched, StatesKnown, RunningKnown
    <3> QED
      BY <3>1, ValidHasEligible DEF Matched
  <2> QED
    BY <2>1 DEF HInv, RowsKnown
<1> QED
  BY <1>1, <1>2, <1>3, PTL DEF Spec

(* A served request leaves one event, of its execution, every other one at *)
(* most, under the key's own policy.                                       *)
THEOREM EventsAreSingle == Spec => []OneEventEach
<1>1. Init => HInv
  BY InitiallyCounted
<1>2. HInv /\ [Next]_vars => HInv'
  BY InductiveCounted
<1>3. HInv => OneEventEach
  <2> SUFFICES ASSUME HInv
               PROVE  OneEventEach
    OBVIOUS
  <2>1. ASSUME NEW r \in Requests, trusted
        PROVE  Cardinality(RowsOf(r)) <= 1
    <3>1. AtMostOne(r)
      BY <2>1 DEF HInv, Counted
    <3>2. CASE RowsOf(r) = {}
      BY <3>2, FS_EmptySet
    <3>3. CASE RowsOf(r) # {}
      <4>1. PICK x : RowsOf(r) = {x}
        BY <3>1, <3>3 DEF AtMostOne
      <4> QED
        BY <4>1, FS_Singleton
    <3> QED
      BY <3>2, <3>3
  <2>2. ASSUME NEW r \in Requests, requests[r] \in {Idle, Done("ignored")}
        PROVE  RowsOf(r) = {}
    BY <2>2 DEF HInv, Counted, Idle
  <2> QED
    BY <2>1, <2>2 DEF OneEventEach, HInv, Counted, RowsKnown
<1> QED
  BY <1>1, <1>2, <1>3, PTL DEF Spec

----------------------------------------------------------------------------
(* What the statistics count.  A row is complete, is not younger than the  *)
(* clock, and its attempts are numbered from 1; an execution's row is      *)
(* routed and its request served, one of model.route is routed only when   *)
(* its request was turned away.                                            *)

\* The attempts of one event, as the writer numbers them.
Numbered(trace, s) == {[trace |-> trace, sequence |-> i, attempt |-> s[i]] : i \in DOMAIN s}

Past(at, now) == at \in Nat /\ at <= now

\* Which rows are routed.
RoutedKnown(x) ==
  \E r \in Requests :
    \/ x.trace = <<r, "execute">> /\ Routes(x) /\ requests[r] = Done("served")
    \/ x.trace = <<r, "route">> /\ (Routes(x) => x.reason \in Turned)

RowKnown(x) ==
  /\ DOMAIN x = Fields \ {"attempts"}
  /\ x.key \in Keys /\ Past(x.at, clock)
  /\ RoutedKnown(x)
  /\ \E s \in Tries : AttemptsOf(x) = Numbered(x.trace, s)

\* The trace is the primary key of the events.
RowsComplete ==
  /\ IsFiniteSet(rows) /\ \A x \in rows : RowKnown(x)
  /\ \A x, y \in rows : x.trace = y.trace => x = y

\* The event that a request carries.
CarriedKnown(s, now) ==
  /\ s.event.key \in Keys /\ Past(s.event.at, now)
  /\ Plain(s.event) /\ s.event.duration \in Nat /\ s.event.attempts \in Tries
  /\ s.at = "observing" /\ Routes(s.event) => s.event.reason \in Turned

EventsComplete ==
  \A r \in Requests :
    requests[r].at \in {"observing", "running"} => CarriedKnown(requests[r], clock)

SInv == HInv /\ clock \in Nat /\ RowsComplete /\ EventsComplete

LEMMA InitiallyComplete ==
  ASSUME Init
  PROVE  SInv
<1>1. HInv
  BY InitiallyCounted
<1>2. RowsComplete
  BY FS_EmptySet DEF Init, RowsComplete
<1>3. EventsComplete
  BY DEF Init, EventsComplete, Idle
<1> QED
  BY <1>1, <1>2, <1>3 DEF Init, SInv

LEMMA NoAttempts == <<>> \in Tries
BY DEF Tries

(* Rows stay as they are when a request moves on that was not done, and    *)
(* time does not run backwards.                                            *)
LEMMA RowStays ==
  ASSUME NEW x, RowKnown(x), NEW r \in Requests, requests[r].at # "done",
         \A q \in Requests : q # r => requests'[q] = requests[q],
         clock \in Nat, clock' \in Nat, clock <= clock', AttemptsOf(x)' = AttemptsOf(x)
  PROVE  RowKnown(x)'
<1>1. Past(x.at, clock')
  BY DEF RowKnown, Past
<1>2. RoutedKnown(x)'
  <2>1. PICK q \in Requests :
          \/ x.trace = <<q, "execute">> /\ Routes(x) /\ requests[q] = Done("served")
          \/ x.trace = <<q, "route">> /\ (Routes(x) => x.reason \in Turned)
    BY DEF RowKnown, RoutedKnown
  <2>2. requests[q] = Done("served") => requests'[q] = Done("served")
    BY DEF Done
  <2> QED
    BY <2>1, <2>2 DEF RoutedKnown
<1> QED
  BY <1>1, <1>2 DEF RowKnown

(* A request moves on without an event.                                    *)
LEMMA MovesOnComplete ==
  ASSUME SInv, HInv', UNCHANGED <<rows, attempts>>, NEW r \in Requests, NEW s, Goes(r, s),
         clock' \in Nat, clock <= clock', requests[r].at # "done",
         s.at \in {"observing", "running"} => CarriedKnown(s, clock')
  PROVE  SInv'
<1>1. requests'[r] = s /\ \A q \in Requests : q # r => requests'[q] = requests[q]
  BY OnlyOneGoes DEF SInv, HInv, IInv
<1>2. RowsComplete'
  <2>1. ASSUME NEW x \in rows PROVE RowKnown(x)'
    <3>1. RowKnown(x) /\ AttemptsOf(x)' = AttemptsOf(x)
      BY DEF SInv, RowsComplete, AttemptsOf
    <3> QED
      BY <1>1, <3>1, RowStays DEF SInv
  <2> QED
    BY <2>1 DEF SInv, RowsComplete
<1>3. EventsComplete'
  <2> SUFFICES ASSUME NEW q \in Requests, requests'[q].at \in {"observing", "running"}
               PROVE  CarriedKnown(requests'[q], clock')
    BY DEF EventsComplete
  <2>1. CASE q = r
    BY <1>1, <2>1
  <2>2. CASE q # r
    <3>1. requests'[q] = requests[q] /\ CarriedKnown(requests[q], clock)
      BY <1>1, <2>2 DEF SInv, EventsComplete
    <3> QED
      BY <3>1 DEF CarriedKnown, Past, SInv
  <2> QED
    BY <2>1, <2>2
<1> QED
  BY <1>2, <1>3 DEF SInv

(* What is kept of an event still is an event of that request.             *)
LEMMA KeptComplete ==
  ASSUME NEW ev, DOMAIN ev = Fields, NEW e \in Prepared(ev)
  PROVE  /\ DOMAIN e = Fields /\ e.trace = ev.trace /\ e.key = ev.key /\ e.at = ev.at
         /\ e.duration = ev.duration /\ (Plain(ev) => Plain(e))
         /\ e.attempts = ev.attempts /\ (Routes(e) <=> Routes(ev))
         /\ ev.reason # "no_policy" => e.reason = ev.reason
<1>1. CASE ev.reason # "no_policy"
  BY <1>1 DEF Prepared
<1>2. CASE ev.reason = "no_policy"
  <2>1. PICK why : e = [ev EXCEPT !.policy = ev.key, !.reason = why]
    BY <1>2 DEF Prepared
  <2> QED
    BY <1>2, <2>1 DEF Fields, Plain, Routes
<1> QED
  BY <1>1, <1>2

(* A request moves on and its event is observed.                           *)
LEMMA MovesOnRecorded ==
  ASSUME SInv, HInv', NEW r \in Requests, NEW s, Goes(r, s),
         NEW ev, DOMAIN ev = Fields, Observe(ev),
         ev.key \in Keys, Past(ev.at, clock'), ev.attempts \in Tries,
         \/ ev.trace = <<r, "execute">> /\ Routes(ev) /\ s = Done("served")
         \/ ev.trace = <<r, "route">> /\ (Routes(ev) => ev.reason \in Turned),
         clock' \in Nat, clock <= clock', requests[r].at # "done",
         s.at \notin {"observing", "running"}
  PROVE  SInv'
<1>1. CASE UNCHANGED events
  BY <1>1, MovesOnComplete DEF events
<1>2. ASSUME NEW e \in Prepared(ev),
             rows' = {x \in rows : x.trace # e.trace} \cup {Row(e)},
             attempts' = {a \in attempts : a.trace # e.trace} \cup AttemptRows(e)
      PROVE  SInv'
  <2>1. requests'[r] = s /\ \A q \in Requests : q # r => requests'[q] = requests[q]
    BY OnlyOneGoes DEF SInv, HInv, IInv
  <2>2. /\ DOMAIN e = Fields /\ e.trace = ev.trace /\ e.key = ev.key /\ e.at = ev.at
        /\ e.attempts = ev.attempts /\ (Routes(e) <=> Routes(ev))
        /\ ev.reason # "no_policy" => e.reason = ev.reason
    BY KeptComplete
  <2>3. RowKnown(Row(e))'
    <3>1. /\ DOMAIN Row(e) = Fields \ {"attempts"} /\ Row(e).trace = e.trace
          /\ Row(e).key = e.key /\ Row(e).at = e.at /\ (Routes(Row(e)) <=> Routes(e))
          /\ Row(e).reason = e.reason
      BY <2>2 DEF Row, Fields, Routes
    <3>2. AttemptRows(e) = Numbered(e.trace, e.attempts)
      BY DEF AttemptRows, Numbered
    <3>3. \A a \in AttemptRows(e) : a.trace = e.trace
      BY DEF AttemptRows
    <3>4. {a \in attempts' : a.trace = e.trace} = Numbered(e.trace, e.attempts)
      BY <1>2, <3>2, <3>3
    <3>5. AttemptsOf(Row(e))' = Numbered(Row(e).trace, e.attempts)
      BY <3>1, <3>4 DEF AttemptsOf
    <3>6. RoutedKnown(Row(e))'
      BY <2>1, <2>2, <3>1 DEF RoutedKnown, Turned
    <3> QED
      BY <2>2, <3>1, <3>5, <3>6 DEF RowKnown, Past
  <2>4. ASSUME NEW x \in rows, x.trace # e.trace PROVE RowKnown(x)'
    <3>1. \A a \in AttemptRows(e) : a.trace = e.trace
      BY DEF AttemptRows
    <3>2. AttemptsOf(x)' = AttemptsOf(x)
      BY <1>2, <2>4, <3>1 DEF AttemptsOf
    <3>3. RowKnown(x)
      BY DEF SInv, RowsComplete
    <3> QED
      BY <2>1, <3>2, <3>3, RowStays DEF SInv
  <2>5. IsFiniteSet(rows')
    <3>1. PICK kept : kept = {x \in rows : x.trace # e.trace}
      OBVIOUS
    <3>2. IsFiniteSet(kept)
      BY <3>1, FS_Subset DEF SInv, RowsComplete
    <3> QED
      BY <1>2, <3>1, <3>2, FS_AddElement
  <2>6. RowsComplete'
    <3>1. Row(e).trace = e.trace
      BY <2>2, RowFields
    <3>2. \A x, y \in rows' : x.trace = y.trace => x = y
      BY <1>2, <3>1 DEF SInv, RowsComplete
    <3> QED
      BY <1>2, <2>3, <2>4, <2>5, <3>2 DEF RowsComplete
  <2>7. EventsComplete'
    <3> SUFFICES ASSUME NEW q \in Requests, requests'[q].at \in {"observing", "running"}
                 PROVE  CarriedKnown(requests'[q], clock')
      BY DEF EventsComplete
    <3>1. q # r /\ requests'[q] = requests[q] /\ CarriedKnown(requests[q], clock)
      BY <2>1 DEF SInv, EventsComplete
    <3> QED
      BY <3>1 DEF CarriedKnown, Past, SInv
  <2> QED
    BY <2>6, <2>7 DEF SInv
<1> QED
  BY <1>1, <1>2 DEF Observe

(* The clock goes on by a natural number.                                  *)
LEMMA TimePasses ==
  ASSUME clock \in Nat, Passes \/ UNCHANGED clock
  PROVE  clock' \in Nat /\ clock <= clock'
BY RoutingAssumption DEF Passes

(* The rows and requests stay what they are when nothing moves but         *)
(* policies and settings.                                                  *)
LEMMA SettingsComplete ==
  ASSUME SInv, HInv', UNCHANGED <<requests, clock, rows, attempts>>
  PROVE  SInv'
BY DEF SInv, RowsComplete, RowKnown, RoutedKnown, AttemptsOf, EventsComplete

LEMMA InductiveComplete ==
  ASSUME SInv, [Next]_vars
  PROVE  SInv'
<1>0. HInv' /\ clock \in Nat
  BY InductiveCounted DEF SInv
<1>1. CASE UNCHANGED vars
  BY <1>0, <1>1, SettingsComplete DEF vars, events
<1>2. ASSUME NEW r \in Requests, Ignore(r)
      PROVE  SInv'
  <2>1. /\ Goes(r, Done("ignored")) /\ UNCHANGED <<rows, attempts, clock>>
        /\ requests[r].at # "done"
    BY <1>2 DEF Ignore, events, Idle
  <2>2. Done("ignored").at = "done"
    BY DEF Done
  <2> QED
    BY <1>0, <2>1, <2>2, TimePasses, MovesOnComplete
<1>3. ASSUME NEW r \in Requests, ObserveRoute(r)
      PROVE  SInv'
  <2>1. /\ Goes(r, requests[r].next) /\ UNCHANGED clock
        /\ requests[r].at = "observing" /\ Observe(requests[r].event)
    BY <1>3 DEF ObserveRoute, settings
  <2>2. ObservingKnown(requests[r], r, trusted) /\ CarriedKnown(requests[r], clock)
    BY <2>1 DEF SInv, HInv, StatesKnown, EventsComplete
  <2>3. PICK ev, s : ev = requests[r].event /\ s = requests[r].next
    OBVIOUS
  <2>4. /\ DOMAIN ev = Fields /\ ev.trace = <<r, "route">>
        /\ ev.key \in Keys /\ Past(ev.at, clock') /\ ev.attempts \in Tries
        /\ Routes(ev) => ev.reason \in Turned
        /\ s.at \in {"done", "routed"}
    BY <2>1, <2>2, <2>3 DEF ObservingKnown, CarriedKnown
  <2>5. requests[r].at # "done" /\ s.at \notin {"observing", "running"}
    BY <2>1, <2>4
  <2> QED
    BY <1>0, <2>1, <2>3, <2>4, <2>5, TimePasses, MovesOnRecorded
<1>4. ASSUME NEW r \in Requests, Finish(r)
      PROVE  SInv'
  <2>1. Goes(r, Done("served")) /\ Passes /\ requests[r].at = "running"
    BY <1>4 DEF Finish
  <2>2. PICK ev \in Explained(requests[r]) : Observe(ev)
    BY <1>4 DEF Finish
  <2>3. /\ RunningKnown(requests[r], r, trusted) /\ Matched(requests[r])
        /\ CarriedKnown(requests[r], clock)
    BY <2>1 DEF SInv, HInv, StatesKnown, IInv, RunningMatched, EventsComplete
  <2>4. Recorded(requests[r], ev)
    BY <2>3, ExplainedFields DEF RunningKnown
  <2>5. /\ DOMAIN ev = Fields /\ ev.trace = <<r, "execute">> /\ Routes(ev)
        /\ ev.key \in Keys /\ Past(ev.at, clock) /\ ev.attempts \in Tries
    BY <2>3, <2>4 DEF Recorded, RunningKnown, CarriedKnown
  <2>6. clock' \in Nat /\ clock <= clock'
    BY <1>0, <2>1, TimePasses
  <2>7. Past(ev.at, clock')
    BY <1>0, <2>5, <2>6 DEF Past
  <2>8. Done("served").at = "done" /\ requests[r].at # "done"
    BY <2>1 DEF Done
  <2> QED
    BY <1>0, <2>1, <2>2, <2>5, <2>6, <2>7, <2>8, MovesOnRecorded
<1>5. ASSUME NEW r \in Requests, Abandon(r)
      PROVE  SInv'
  <2>1. /\ Goes(r, Done("abandoned")) /\ UNCHANGED <<rows, attempts, clock>>
        /\ requests[r].at # "done"
    BY <1>5 DEF Abandon, events
  <2>2. Done("abandoned").at = "done"
    BY DEF Done
  <2> QED
    BY <1>0, <2>1, <2>2, TimePasses, MovesOnComplete
<1>6. ASSUME NEW r \in Requests, NEW k \in Keys, NEW model \in Models, Accept(r, k, model)
      PROVE  SInv'
  <2>1. /\ Goes(r, Routed(k, model)) /\ UNCHANGED <<rows, attempts, clock>>
        /\ requests[r].at # "done"
    BY <1>6 DEF Accept, events, Idle
  <2>2. Routed(k, model).at = "routed"
    BY DEF Routed
  <2> QED
    BY <1>0, <2>1, <2>2, TimePasses, MovesOnComplete
<1>7. ASSUME NEW r \in Requests, NEW k \in Keys, NEW model \in Models, Decide(r, k, model)
      PROVE  SInv'
  <2>1. /\ Goes(r, [at |-> "observing", event |-> RouteEvent(r, k, model),
                    next |-> AfterRoute(k, model)])
        /\ UNCHANGED <<rows, attempts>> /\ Passes /\ requests[r].at # "done"
    BY <1>7 DEF Decide, events, Idle
  <2>2. PICK ev, s : /\ ev = RouteEvent(r, k, model)
                     /\ s = [at |-> "observing", event |-> ev, next |-> AfterRoute(k, model)]
    OBVIOUS
  <2>3. /\ ev.key = k /\ ev.at = clock' /\ ev.attempts = <<>> /\ Plain(ev) /\ ev.duration = 0
        /\ Routes(ev) => ev.reason \in Turned
    <3>1. /\ ev.key = k /\ ev.at = clock + Duration /\ ev.attempts = <<>>
          /\ Plain(ev) /\ ev.duration = 0
          /\ ev.decision = IF Refused(FindPolicy(k), model) THEN "handled" ELSE "bypass"
          /\ ev.reason = RouteReason(FindPolicy(k), model)
      BY <2>2, RouteEventFields
    <3> QED
      BY <2>1, <3>1 DEF Passes, Routes, Refused, Turned
  <2>4. clock' \in Nat /\ clock <= clock'
    BY <1>0, <2>1, TimePasses
  <2>5. CarriedKnown(s, clock')
    BY <2>2, <2>3, <2>4, NoAttempts DEF CarriedKnown, Past
  <2> QED
    BY <1>0, <2>1, <2>2, <2>4, <2>5, MovesOnComplete
<1>8. ASSUME NEW r \in Requests, NEW model \in Models, Execute(r, model)
      PROVE  SInv'
  <2>1. /\ UNCHANGED <<rows, attempts>> /\ Passes /\ requests[r].at = "routed"
    BY <1>8 DEF Execute, events
  <2>0. PICK k : k = requests[r].key
    OBVIOUS
  <2>2. PICK ev, s : /\ ev = Event(r, "execute", k, model)
                     /\ s.at = "running" /\ s.event = ev /\ Goes(r, s)
    BY <1>8, <2>0 DEF Execute
  <2>3. requests[r].key \in Keys
    BY <2>1 DEF SInv, HInv, IInv, KeysKnown
  <2>4. /\ ev.key \in Keys /\ ev.at = clock' /\ ev.attempts = <<>>
        /\ Plain(ev) /\ ev.duration = 0
    <3>1. ev = Event(r, "execute", k, model)
      BY <2>2
    <3>2. ev.key = k
      BY <3>1 DEF Event
    <3>3. ev.at = clock + Duration
      BY <3>1 DEF Event
    <3>4. ev.attempts = <<>> /\ ev.duration = 0
      BY <3>1 DEF Event
    <3>5. Plain(ev)
      BY <3>1 DEF Event, Plain, Fields
    <3> QED
      BY <2>0, <2>1, <2>3, <3>2, <3>3, <3>4, <3>5 DEF Passes
  <2>5. clock' \in Nat /\ clock <= clock'
    BY <1>0, <2>1, TimePasses
  <2>6. CarriedKnown(s, clock')
    BY <2>2, <2>4, <2>5, NoAttempts DEF CarriedKnown, Past
  <2> QED
    BY <1>0, <2>1, <2>2, <2>5, <2>6, MovesOnComplete
<1>9. ASSUME NEW r \in Requests, NEW model \in Models, Refuse(r, model)
      PROVE  SInv'
  <2>1. /\ Goes(r, Done("refused")) /\ UNCHANGED <<rows, attempts, clock>>
        /\ requests[r].at # "done"
    BY <1>9 DEF Refuse, events
  <2>2. Done("refused").at = "done"
    BY DEF Done
  <2> QED
    BY <1>0, <2>1, <2>2, TimePasses, MovesOnComplete
<1>10. ASSUME NEW k \in Keys, NEW p \in Documents, SavePolicy(k, p)
       PROVE  SInv'
  BY <1>0, <1>10, SettingsComplete DEF SavePolicy, events
<1>11. ASSUME NEW k \in Keys, DeletePolicy(k)
       PROVE  SInv'
  BY <1>0, <1>11, SettingsComplete DEF DeletePolicy, events
<1>12. ASSUME NEW k \in Keys, NEW found \in Reloads, Reload(k, found)
       PROVE  SInv'
  BY <1>0, <1>12, SettingsComplete DEF Reload
<1> QED
  BY <1>1, <1>2, <1>3, <1>4, <1>5, <1>6, <1>7, <1>8, <1>9, <1>10, <1>11, <1>12 DEF Next

----------------------------------------------------------------------------
(* What the parts of a set count adds up to the whole.                     *)

\* The sum over s, if g has the sums over smaller sets.
Folded(f, g, s) == IF s = {} THEN 0 ELSE LET x == CHOOSE y \in s : TRUE IN f[x] + g[s \ {x}]

\* g has the sums over the subsets of S.
IsFold(f, g, S) == g = [s \in SUBSET S |-> Folded(f, g, s)]

LEMMA SumIs ==
  ASSUME NEW f
  PROVE  SumFunction(f) = (CHOOSE g : IsFold(f, g, DOMAIN f))[DOMAIN f]
BY DEF SumFunction, SumFunctionOnSet, FoldFunctionOnSet, MapThenFoldSet, Folded, IsFold

(* There is one such function at most.                                     *)
LEMMA FoldsAgree ==
  ASSUME NEW f, NEW g, NEW h, NEW S, IsFiniteSet(S), IsFold(f, g, S), IsFold(f, h, S)
  PROVE  g[S] = h[S]
<1>1. PICK T : T = {s \in SUBSET S : g[s] # h[s]}
  OBVIOUS
<1> SUFFICES ASSUME T # {} PROVE FALSE
  BY <1>1
<1>2. IsWellFoundedOn(StrictSubsetOrdering(S), SUBSET S)
  BY FS_StrictSubsetOrderingWellFounded, FS_FiniteSubsetsOfFinite
<1>3. PICK s \in T : \A t \in T : <<t, s>> \notin StrictSubsetOrdering(S)
  BY <1>1, <1>2, WFMin
<1>4. g[s] = Folded(f, g, s) /\ h[s] = Folded(f, h, s) /\ g[s] # h[s]
  BY <1>1, <1>3 DEF IsFold
<1>5. s # {}
  BY <1>4 DEF Folded
<1>6. PICK x : x = CHOOSE y \in s : TRUE
  OBVIOUS
<1>7. x \in s
  BY <1>5, <1>6
<1>8. <<s \ {x}, s>> \in StrictSubsetOrdering(S)
  BY <1>1, <1>7 DEF StrictSubsetOrdering
<1>9. g[s \ {x}] = h[s \ {x}]
  BY <1>1, <1>3, <1>8
<1> QED
  BY <1>4, <1>5, <1>6, <1>9 DEF Folded

(* A finite set whose elements have keys in a finite set: the numbers of   *)
(* elements with each key add up to the number of elements.                *)
LEMMA PartsAddUp ==
  ASSUME NEW E, IsFiniteSet(E), NEW K, IsFiniteSet(K), NEW key, \A e \in E : key[e] \in K,
         NEW f, DOMAIN f = K, \A k \in K : f[k] = Cardinality({e \in E : key[e] = k})
  PROVE  SumFunction(f) = Cardinality(E)
<1> DEFINE Part(s) == {e \in E : key[e] \in s}
<1>1. PICK h : h = [s \in SUBSET K |-> Cardinality(Part(s))]
  OBVIOUS
<1>2. \A s : IsFiniteSet(Part(s)) /\ Cardinality(Part(s)) \in Nat
  BY FS_Subset, FS_CardinalityType
<1>3. ASSUME NEW s \in SUBSET K PROVE h[s] = Folded(f, h, s)
  <2>1. CASE s = {}
    <3>1. Part(s) = {}
      BY <2>1
    <3> HIDE DEF Part
    <3> QED
      BY <1>1, <2>1, <3>1, FS_EmptySet DEF Folded
  <2>2. CASE s # {}
    <3>1. PICK x : x = CHOOSE y \in s : TRUE
      OBVIOUS
    <3>2. x \in s /\ s \ {x} \in SUBSET K /\ x \in K
      BY <2>2, <3>1
    <3>3. /\ Part(s) = Part({x}) \cup Part(s \ {x})
          /\ Part({x}) \cap Part(s \ {x}) = {}
      BY <3>2
    <3>4. f[x] = Cardinality(Part({x}))
      <4>1. {e \in E : key[e] = x} = Part({x})
        OBVIOUS
      <4> QED
        BY <3>2, <4>1
    <3> HIDE DEF Part
    <3>5. Cardinality(Part({x}) \cap Part(s \ {x})) = 0
      BY <3>3, FS_EmptySet
    <3>6. Cardinality(Part(s)) =
            Cardinality(Part({x})) + Cardinality(Part(s \ {x}))
              - Cardinality(Part({x}) \cap Part(s \ {x}))
      BY <1>2, <3>3, FS_Union
    <3>7. h[s] = Cardinality(Part(s)) /\ h[s \ {x}] = Cardinality(Part(s \ {x}))
      BY <1>1, <3>2
    <3>8. h[s] = f[x] + h[s \ {x}]
      BY <1>2, <3>4, <3>5, <3>6, <3>7
    <3> QED
      BY <2>2, <3>1, <3>8 DEF Folded
  <2> QED
    BY <2>1, <2>2
<1>4. IsFold(f, h, K)
  BY <1>1, <1>3 DEF IsFold
<1>5. PICK g : g = CHOOSE gg : IsFold(f, gg, K)
  OBVIOUS
<1>6. IsFold(f, g, K)
  BY <1>4, <1>5
<1>7. g[K] = h[K]
  BY <1>4, <1>6, FoldsAgree
<1>8. SumFunction(f) = g[K]
  BY <1>5, SumIs
<1>9. Part(K) = E
  OBVIOUS
<1> HIDE DEF Part
<1> QED
  BY <1>1, <1>7, <1>8, <1>9

----------------------------------------------------------------------------
(* The statistics of any finite set of routed events.                      *)

(* The least of natural numbers.                                           *)
LEMMA LeastIs ==
  ASSUME NEW S, S \subseteq Nat, S # {}
  PROVE  Min(S) \in S /\ \A n \in S : Min(S) <= n
<1>1. PICK R : R = OpToRel(<, Nat)
  OBVIOUS
<1>2. \A m, n \in Nat : <<m, n>> \in R <=> m < n
  BY <1>1 DEF OpToRel
<1>3. IsWellFoundedOn(R, Nat)
  BY <1>1, NatLessThanWellFounded
<1>4. PICK n \in S : \A m \in S : <<m, n>> \notin R
  BY <1>3, WFMin
<1>5. ASSUME NEW m \in S PROVE n <= m
  <2>1. m \in Nat /\ n \in Nat /\ ~(m < n)
    BY <1>2, <1>4
  <2> QED
    BY <2>1
<1> QED
  BY <1>4, <1>5 DEF Min

(* The least of a number and a bound.                                      *)
LEMMA Capped ==
  ASSUME NEW n \in Nat, NEW bound \in Nat
  PROVE  Min({n, bound}) \in 0 .. bound /\ (bound # 0 => (Min({n, bound}) = 0 <=> n = 0))
<1>1. Min({n, bound}) \in {n, bound} /\ \A m \in {n, bound} : Min({n, bound}) <= m
  BY LeastIs
<1>2. PICK least : least = Min({n, bound})
  OBVIOUS
<1> QED
  BY <1>1, <1>2

\* A routed event as the statistics read it.
Read(ev) == Routes(ev) /\ ev.policy \in Keys /\ ev.attempts \in Tries

LEMMA ReadAttempts ==
  ASSUME NEW ev, Read(ev)
  PROVE  /\ Len(ev.attempts) \in Nat /\ (ev.attempts = <<>> <=> Len(ev.attempts) = 0)
         /\ ev.attempts # <<>> => Final(ev).candidate \in Names
<1>1. PICK s \in Seq(Tried) : s = ev.attempts
  BY DEF Read, Tries
<1>2. Len(s) \in Nat /\ (s = <<>> <=> Len(s) = 0)
  OBVIOUS
<1>3. ASSUME s # <<>> PROVE s[Len(s)] \in Tried
  BY <1>2, <1>3
<1> QED
  BY <1>1, <1>2, <1>3 DEF Final, Tried

LEMMA OutcomeIs ==
  ASSUME NEW ev
  PROVE  Outcome(ev) \in OutcomeKinds /\ (Outcome(ev) = "failed" <=> ~ev.success)
BY DEF Outcome, OutcomeKinds

LEMMA SmallKinds ==
  IsFiniteSet(OutcomeKinds) /\ IsFiniteSet(Names) /\ IsFiniteSet(Keys)
<1>1. IsFiniteSet({}) /\ OutcomeKinds = (({} \cup {"direct"}) \cup {"fallback"}) \cup {"failed"}
  BY FS_EmptySet DEF OutcomeKinds
<1>2. IsFiniteSet(OutcomeKinds)
  BY <1>1, FS_AddElement
<1>3. IsFiniteSet(Keys) /\ IsFiniteSet(Candidates)
  BY RoutingAssumption
<1> QED
  BY <1>2, <1>3, FS_AddElement DEF Names

LEMMA AggregateIs ==
  ASSUME NEW E, \A ev \in E : Read(ev)
  PROVE  /\ Aggregate(E).total = Cardinality(E)
         /\ Aggregate(E).stats = [o \in OutcomeKinds |-> Cardinality({ev \in E : Outcome(ev) = o})]
         /\ Aggregate(E).attempts =
              [n \in 0 .. 4 |-> Cardinality({ev \in E : Min({Len(ev.attempts), 4}) = n})]
         /\ Aggregate(E).hits =
              [h \in Names \X OutcomeKinds |->
                 Cardinality({ev \in E : /\ ev.attempts # <<>>
                                         /\ <<Final(ev).candidate, Outcome(ev)>> = h})]
         /\ Aggregate(E).reasons =
              [x \in {FailureReason(ev) : ev \in {e \in E : ~e.success}} |->
                 Cardinality({ev \in {e \in E : ~e.success} : FailureReason(ev) = x})]
         /\ Aggregate(E).policies =
              [k \in Keys |-> Cardinality({ev \in E : Outcome(ev) = "fallback" /\ ev.policy = k})]
<1>1. {ev \in E : Routes(ev)} = E
  BY DEF Read
<1> QED
  BY <1>1, Zenon DEF Aggregate, Names

(* By their outcomes.                                                      *)
LEMMA StatsAddUp ==
  ASSUME NEW E, IsFiniteSet(E), \A ev \in E : Read(ev)
  PROVE  /\ SumFunction(Aggregate(E).stats) = Cardinality(E)
         /\ \A o \in OutcomeKinds :
              Aggregate(E).stats[o] = Cardinality({ev \in E : Outcome(ev) = o})
<1>1. PICK key : key = [ev \in E |-> Outcome(ev)]
  OBVIOUS
<1>2. \A ev \in E : key[ev] \in OutcomeKinds
  BY <1>1, OutcomeIs
<1>3. \A o : {ev \in E : Outcome(ev) = o} = {ev \in E : key[ev] = o}
  BY <1>1
<1>4. PICK f : f = Aggregate(E).stats
  OBVIOUS
<1>5. f = [o \in OutcomeKinds |-> Cardinality({ev \in E : Outcome(ev) = o})]
  BY <1>4, AggregateIs
<1>6. /\ DOMAIN f = OutcomeKinds
      /\ \A o \in OutcomeKinds : f[o] = Cardinality({ev \in E : Outcome(ev) = o})
  BY <1>5
<1>7. \A o \in OutcomeKinds : f[o] = Cardinality({ev \in E : key[ev] = o})
  BY <1>3, <1>6
<1>8. SumFunction(f) = Cardinality(E)
  BY <1>2, <1>6, <1>7, SmallKinds, PartsAddUp
<1> QED
  BY <1>4, <1>6, <1>8

(* By the number of their attempts.                                        *)
LEMMA AttemptsAddUp ==
  ASSUME NEW E, IsFiniteSet(E), \A ev \in E : Read(ev)
  PROVE  /\ SumFunction(Aggregate(E).attempts) = Cardinality(E)
         /\ Aggregate(E).attempts[0] = Cardinality({ev \in E : ev.attempts = <<>>})
<1>1. PICK key : key = [ev \in E |-> Min({Len(ev.attempts), 4})]
  OBVIOUS
<1>2. ASSUME NEW ev \in E
      PROVE  key[ev] \in 0 .. 4 /\ (key[ev] = 0 <=> ev.attempts = <<>>)
  <2>1. PICK n : n = Len(ev.attempts)
    OBVIOUS
  <2>2. n \in Nat /\ (ev.attempts = <<>> <=> n = 0)
    BY <2>1, ReadAttempts
  <2>3. Min({n, 4}) \in 0 .. 4 /\ (Min({n, 4}) = 0 <=> n = 0)
    BY <2>2, Capped
  <2> QED
    BY <1>1, <2>1, <2>2, <2>3
<1>3. \A n : {ev \in E : Min({Len(ev.attempts), 4}) = n} = {ev \in E : key[ev] = n}
  BY <1>1
<1>4. PICK f : f = Aggregate(E).attempts
  OBVIOUS
<1>5. f = [n \in 0 .. 4 |-> Cardinality({ev \in E : Min({Len(ev.attempts), 4}) = n})]
  BY <1>4, AggregateIs
<1>6. /\ DOMAIN f = 0 .. 4
      /\ \A n \in 0 .. 4 : f[n] = Cardinality({ev \in E : Min({Len(ev.attempts), 4}) = n})
  BY <1>5
<1>7. \A n \in 0 .. 4 : f[n] = Cardinality({ev \in E : key[ev] = n})
  BY <1>3, <1>6
<1>8. PICK K : K = 0 .. 4
  OBVIOUS
<1>9. SumFunction(f) = Cardinality(E)
  <2>1. IsFiniteSet(K)
    BY <1>8, 0 \in Int, 4 \in Int, FS_Interval
  <2>2. /\ \A ev \in E : key[ev] \in K
        /\ DOMAIN f = K /\ \A n \in K : f[n] = Cardinality({ev \in E : key[ev] = n})
    BY <1>2, <1>6, <1>7, <1>8, Zenon
  <2> QED
    BY <2>1, <2>2, PartsAddUp
<1>10. {ev \in E : key[ev] = 0} = {ev \in E : ev.attempts = <<>>}
  BY <1>2
<1>11. f[0] = Cardinality({ev \in E : ev.attempts = <<>>})
  <2>1. 0 \in 0 .. 4
    OBVIOUS
  <2> QED
    BY <1>7, <1>10, <2>1, Zenon
<1> QED
  BY <1>4, <1>9, <1>11

(* By the candidate they ended at, if there was an attempt.                *)
LEMMA HitsAddUp ==
  ASSUME NEW E, IsFiniteSet(E), \A ev \in E : Read(ev)
  PROVE  SumFunction(Aggregate(E).hits) = Cardinality({ev \in E : ev.attempts # <<>>})
<1>1. PICK T : T = {ev \in E : ev.attempts # <<>>}
  OBVIOUS
<1>2. PICK key : key = [ev \in T |-> <<Final(ev).candidate, Outcome(ev)>>]
  OBVIOUS
<1>3. PICK K : K = Names \X OutcomeKinds
  OBVIOUS
<1>4. IsFiniteSet(T) /\ IsFiniteSet(K)
  BY <1>1, <1>3, SmallKinds, FS_Subset, FS_Product
<1>5. \A ev \in T : key[ev] \in K
  BY <1>1, <1>2, <1>3, ReadAttempts, OutcomeIs
<1>6. \A h : {ev \in E : ev.attempts # <<>> /\ <<Final(ev).candidate, Outcome(ev)>> = h}
               = {ev \in T : key[ev] = h}
  BY <1>1, <1>2
<1>7. PICK f : f = Aggregate(E).hits
  OBVIOUS
<1>8. f = [h \in K |-> Cardinality({ev \in E : /\ ev.attempts # <<>>
                                               /\ <<Final(ev).candidate, Outcome(ev)>> = h})]
  BY <1>3, <1>7, AggregateIs, Zenon
<1>9. /\ DOMAIN f = K
      /\ \A h \in K : f[h] = Cardinality({ev \in E : /\ ev.attempts # <<>>
                                                     /\ <<Final(ev).candidate, Outcome(ev)>> = h})
  BY <1>8, Zenon
<1>10. \A h \in K : f[h] = Cardinality({ev \in T : key[ev] = h})
  BY <1>6, <1>9, Zenon
<1> QED
  BY <1>1, <1>4, <1>5, <1>7, <1>9, <1>10, PartsAddUp

(* The failed ones by their reason.                                        *)
LEMMA ReasonsAddUp ==
  ASSUME NEW E, IsFiniteSet(E), \A ev \in E : Read(ev)
  PROVE  /\ SumFunction(Aggregate(E).reasons) = Aggregate(E).stats["failed"]
         /\ Aggregate(E).stats["failed"] = Cardinality({ev \in E : ~ev.success})
<1>1. PICK T : T = {ev \in E : ~ev.success}
  OBVIOUS
<1>2. PICK key : key = [ev \in T |-> FailureReason(ev)]
  OBVIOUS
<1>3. PICK K : K = {FailureReason(ev) : ev \in T}
  OBVIOUS
<1>4. IsFiniteSet(T)
  BY <1>1, FS_Subset
<1>5. key \in Surjection(T, K)
  BY <1>2, <1>3 DEF Surjection
<1>6. IsFiniteSet(K)
  BY <1>4, <1>5, FS_Surjection
<1>7. \A x : {ev \in T : FailureReason(ev) = x} = {ev \in T : key[ev] = x}
  BY <1>2
<1>8. PICK f : f = Aggregate(E).reasons
  OBVIOUS
<1>9. f = [x \in K |-> Cardinality({ev \in T : FailureReason(ev) = x})]
  <2>1. f = [x \in {FailureReason(ev) : ev \in {e \in E : ~e.success}} |->
               Cardinality({ev \in {e \in E : ~e.success} : FailureReason(ev) = x})]
    BY <1>8, AggregateIs
  <2>2. {ev \in E : ~ev.success} = T
    BY <1>1
  <2> QED
    BY <1>3, <2>1, <2>2, Zenon
<1>10. DOMAIN f = K /\ \A x \in K : f[x] = Cardinality({ev \in T : FailureReason(ev) = x})
  BY <1>9
<1>11. \A x \in K : f[x] = Cardinality({ev \in T : key[ev] = x})
  BY <1>7, <1>10
<1>12. \A ev \in T : key[ev] \in K
  BY <1>2, <1>3
<1>13. SumFunction(f) = Cardinality(T)
  BY <1>4, <1>6, <1>10, <1>11, <1>12, PartsAddUp
<1>14. {ev \in E : Outcome(ev) = "failed"} = T
  BY <1>1, OutcomeIs
<1>15. Aggregate(E).stats["failed"] = Cardinality(T)
  BY <1>14, StatsAddUp DEF OutcomeKinds
<1> QED
  BY <1>1, <1>8, <1>13, <1>15

(* Those with a fallback by their policy.                                  *)
LEMMA PoliciesAddUp ==
  ASSUME NEW E, IsFiniteSet(E), \A ev \in E : Read(ev)
  PROVE  SumFunction(Aggregate(E).policies) = Aggregate(E).stats["fallback"]
<1>1. PICK T : T = {ev \in E : Outcome(ev) = "fallback"}
  OBVIOUS
<1>2. PICK key : key = [ev \in T |-> ev.policy]
  OBVIOUS
<1>3. IsFiniteSet(T)
  BY <1>1, FS_Subset
<1>4. \A ev \in T : key[ev] \in Keys
  BY <1>1, <1>2 DEF Read
<1>5. \A k : {ev \in E : Outcome(ev) = "fallback" /\ ev.policy = k} = {ev \in T : key[ev] = k}
  BY <1>1, <1>2
<1>6. PICK f : f = Aggregate(E).policies
  OBVIOUS
<1>7. f = [k \in Keys |-> Cardinality({ev \in E : Outcome(ev) = "fallback" /\ ev.policy = k})]
  BY <1>6, AggregateIs
<1>8. /\ DOMAIN f = Keys
      /\ \A k \in Keys : f[k] = Cardinality({ev \in E : Outcome(ev) = "fallback" /\ ev.policy = k})
  BY <1>7
<1>9. \A k \in Keys : f[k] = Cardinality({ev \in T : key[ev] = k})
  BY <1>5, <1>8
<1>10. Aggregate(E).stats["fallback"] = Cardinality(T)
  BY <1>1, StatsAddUp DEF OutcomeKinds
<1> QED
  BY <1>3, <1>4, <1>6, <1>8, <1>9, <1>10, SmallKinds, PartsAddUp

----------------------------------------------------------------------------
(* The trend.                                                              *)

\* The twelve steps from the start on.
Drawn(E, start, step, now) ==
  [o \in OutcomeKinds |-> [i \in 0 .. Buckets - 1 |->
     Cardinality({ev \in {e \in E : e.at \in start .. now} :
                    Outcome(ev) = o /\ BucketOf(ev.at, start, step) = i})]]

(* It starts before every event that is not younger than the query, and    *)
(* its steps are minutes at least.                                         *)
LEMMA TrendIs ==
  ASSUME NEW E, NEW now \in Nat, \A ev \in E : ev.at \in Nat /\ ev.at <= now
  PROVE  \E start \in Int, step \in Nat \ {0} :
           /\ \A ev \in E : start <= ev.at
           /\ Trend(E, None, now) = Drawn(E, start, step, now)
<1>1. PICK asked : asked = Min({now} \cup {ev.at : ev \in E})
  OBVIOUS
<1>2. asked \in Nat /\ asked <= now /\ \A ev \in E : asked <= ev.at
  <2>1. PICK S : S = {now} \cup {ev.at : ev \in E}
    OBVIOUS
  <2>2. S \subseteq Nat /\ S # {} /\ \A n \in S : n <= now
    BY <2>1
  <2>3. Min(S) \in S /\ \A n \in S : Min(S) <= n
    BY <2>2, LeastIs
  <2> QED
    BY <1>1, <2>1, <2>2, <2>3
<1>3. PICK from : from = IF asked < now THEN asked ELSE now - 60 * Minute
  OBVIOUS
<1>4. PICK wide : wide = ((now - from) \div Buckets >= Minute)
  OBVIOUS
<1>5. PICK step : step = IF wide THEN (now - from) \div Buckets ELSE Minute
  OBVIOUS
<1>6. PICK start : start = IF wide THEN from ELSE now - Buckets * Minute
  OBVIOUS
<1>7. Trend(E, None, now) = Drawn(E, start, step, now)
  BY <1>1, <1>3, <1>4, <1>5, <1>6, Zenon DEF Trend, Drawn
<1>8. from \in Int /\ start \in Int /\ step \in Nat \ {0} /\ start <= asked
  <2>1. PICK span : span = (now - from) \div 12
    OBVIOUS
  <2>2. from \in Int /\ (from = asked \/ (from = now - 36000 /\ asked = now))
    BY <1>2, <1>3 DEF Minute
  <2>3. span \in Int /\ 12 * span <= now - from /\ now - from < 12 * span + 12
    BY <2>1, <2>2
  <2>4. Minute = 600 /\ Buckets = 12
    BY DEF Minute, Buckets
  <2>5. wide = (span >= 600)
    BY <1>4, <2>1, <2>4
  <2>6. CASE wide
    <3>1. step = span /\ start = from /\ span >= 600
      BY <1>5, <1>6, <2>1, <2>4, <2>5, <2>6
    <3> QED
      BY <1>2, <2>2, <2>3, <3>1
  <2>7. CASE ~wide
    <3>1. step = 600 /\ start = now - 7200 /\ ~(span >= 600)
      <4>1. Buckets * Minute = 7200
        BY DEF Minute, Buckets
      <4>2. start = now - Buckets * Minute /\ step = Minute
        BY <1>5, <1>6, <2>7
      <4>3. step = 600 /\ start = now - 7200
        BY <2>4, <4>1, <4>2
      <4>4. ~(span >= 600)
        BY <2>5, <2>7
      <4> QED
        BY <4>3, <4>4
    <3> QED
      BY <1>2, <2>2, <2>3, <3>1
  <2> QED
    BY <2>6, <2>7
<1>9. \A ev \in E : start <= ev.at
  BY <1>2, <1>8
<1> QED
  BY <1>7, <1>8, <1>9

(* Every event is in one of the twelve buckets.                            *)
LEMMA TrendAddsUp ==
  ASSUME NEW E, IsFiniteSet(E), \A ev \in E : Read(ev),
         NEW now \in Nat, \A ev \in E : ev.at \in Nat /\ ev.at <= now, NEW o \in OutcomeKinds
  PROVE  SumFunction(Trend(E, None, now)[o]) = Aggregate(E).stats[o]
<1>1. PICK start \in Int, step \in Nat \ {0} :
        /\ \A ev \in E : start <= ev.at
        /\ Trend(E, None, now) = Drawn(E, start, step, now)
  BY TrendIs
<1>2. PICK T : T = {ev \in E : Outcome(ev) = o}
  OBVIOUS
<1>3. PICK key : key = [ev \in T |-> BucketOf(ev.at, start, step)]
  OBVIOUS
<1>4. PICK K : K = 0 .. Buckets - 1
  OBVIOUS
<1>5. ASSUME NEW ev \in T PROVE key[ev] \in K
  <2>1. PICK ago, n : ago = ev.at - start /\ n = ago \div step
    OBVIOUS
  <2>2. ago \in Nat
    BY <1>1, <1>2, <2>1
  <2>3. n \in Nat
    BY <1>1, <2>1, <2>2
  <2>4. Min({n, Buckets - 1}) \in 0 .. Buckets - 1
    BY <2>3, Capped DEF Buckets
  <2> QED
    BY <1>3, <1>4, <2>1, <2>4 DEF BucketOf
<1>6. {e \in E : e.at \in start .. now} = E
  BY <1>1
<1>7. \A i : {ev \in E : Outcome(ev) = o /\ BucketOf(ev.at, start, step) = i}
               = {ev \in T : key[ev] = i}
  BY <1>2, <1>3
<1>8. PICK f : f = Trend(E, None, now)[o]
  OBVIOUS
<1>9. f = [i \in K |->
             Cardinality({ev \in E : Outcome(ev) = o /\ BucketOf(ev.at, start, step) = i})]
  BY <1>1, <1>4, <1>6, <1>8, Zenon DEF Drawn
<1>10. /\ DOMAIN f = K
       /\ \A i \in K :
            f[i] = Cardinality({ev \in E : Outcome(ev) = o /\ BucketOf(ev.at, start, step) = i})
  BY <1>9
<1>11. \A i \in K : f[i] = Cardinality({ev \in T : key[ev] = i})
  BY <1>7, <1>10
<1>12. Aggregate(E).stats[o] = Cardinality(T)
  BY <1>2, StatsAddUp
<1>13. IsFiniteSet(T) /\ IsFiniteSet(K)
  <2>1. PICK m : m = Buckets - 1
    OBVIOUS
  <2>2. m \in Int /\ 0 \in Int
    BY <2>1 DEF Buckets
  <2> QED
    BY <1>2, <1>4, <2>1, <2>2, FS_Subset, FS_Interval
<1> QED
  BY <1>5, <1>8, <1>10, <1>11, <1>12, <1>13, PartsAddUp

----------------------------------------------------------------------------
(* The rows that the statistics read.                                      *)

(* What rises and stays in an interval does not move.                      *)
LEMMA RisingIs ==
  ASSUME NEW n \in Nat, NEW g \in [1 .. n -> 1 .. n],
         \A i, j \in 1 .. n : i < j => g[i] < g[j]
  PROVE  \A i \in 1 .. n : g[i] = i
<1>1. \A i \in 1 .. n : i <= g[i]
  <2> SUFFICES ASSUME NEW i \in 1 .. n, g[i] < i PROVE FALSE
    OBVIOUS
  <2>1. PICK B : B = {j \in 1 .. n : g[j] < j}
    OBVIOUS
  <2>2. B \subseteq Nat /\ B # {}
    BY <2>1
  <2>3. PICK b : b = Min(B)
    OBVIOUS
  <2>4. b \in 1 .. n /\ g[b] < b /\ \A j \in B : b <= j
    BY <2>1, <2>2, <2>3, LeastIs
  <2>5. b # 1 /\ b - 1 \in 1 .. n
    BY <2>4
  <2>6. b - 1 <= g[b - 1]
    BY <2>1, <2>4, <2>5
  <2> QED
    BY <2>4, <2>5, <2>6
<1>2. \A i \in 1 .. n : g[i] <= i
  <2> SUFFICES ASSUME NEW i \in 1 .. n, i < g[i] PROVE FALSE
    OBVIOUS
  <2>1. PICK B : B = {m \in 0 .. n : \E j \in 1 .. n : m = n - j /\ j < g[j]}
    OBVIOUS
  <2>2. n - i \in B /\ B \subseteq Nat
    BY <2>1
  <2>3. PICK least : least = Min(B)
    OBVIOUS
  <2>4. least \in B /\ \A m \in B : least <= m
    BY <2>2, <2>3, LeastIs
  <2>5. PICK b \in 1 .. n : least = n - b /\ b < g[b]
    BY <2>1, <2>4
  <2>6. b # n /\ b + 1 \in 1 .. n
    BY <2>5
  <2>7. n - (b + 1) \notin B /\ n - (b + 1) \in 0 .. n
    BY <2>4, <2>5, <2>6
  <2>8. g[b + 1] <= b + 1
    BY <2>1, <2>6, <2>7
  <2> QED
    BY <2>5, <2>6, <2>8
<1> QED
  BY <1>1, <1>2

(* Put in sequence, the attempts of an event are what they were.           *)
LEMMA InSequenceIs ==
  ASSUME NEW trace, NEW s \in Tries
  PROVE  InSequence(Numbered(trace, s)) = s
<1>1. PICK n : n = Len(s)
  OBVIOUS
<1>2. n \in Nat /\ DOMAIN s = 1 .. n /\ \A i \in 1 .. n : s[i] \in Tried
  BY <1>1 DEF Tries
<1>3. PICK found : found = Numbered(trace, s)
  OBVIOUS
<1>4. \A a \in found : a.sequence \in 1 .. n /\ a.attempt = s[a.sequence]
  BY <1>2, <1>3 DEF Numbered
<1>5. PICK f : f = [i \in 1 .. n |-> [trace |-> trace, sequence |-> i, attempt |-> s[i]]]
  OBVIOUS
<1>6. f \in [1 .. n -> found] /\ \A i \in 1 .. n : f[i].sequence = i
  BY <1>2, <1>3, <1>5 DEF Numbered
<1>7. \A a \in found : \E i \in 1 .. n : f[i] = a
  BY <1>2, <1>3, <1>5 DEF Numbered
<1>8. f \in Bijection(1 .. n, found)
  BY <1>6, <1>7 DEF Bijection, Injection, Surjection, IsInjective
<1>9. Cardinality(found) = n
  BY <1>2, <1>8, FS_CountingElements DEF ExistsBijection
<1> DEFINE c == CHOOSE t \in [1 .. Cardinality(found) -> found] :
                  \A i, j \in DOMAIN t : i < j => t[i].sequence < t[j].sequence
<1>10. \A i, j \in DOMAIN f : i < j => f[i].sequence < f[j].sequence
  BY <1>6
<1>11. /\ c \in [1 .. n -> found]
       /\ \A i, j \in DOMAIN c : i < j => c[i].sequence < c[j].sequence
  BY <1>6, <1>9, <1>10
<1>12. InSequence(found) = [i \in DOMAIN c |-> c[i].attempt]
  BY DEF InSequence
<1> HIDE DEF c
<1>13. PICK g : g = [i \in 1 .. n |-> c[i].sequence]
  OBVIOUS
<1>14. g \in [1 .. n -> 1 .. n] /\ \A i, j \in 1 .. n : i < j => g[i] < g[j]
  BY <1>4, <1>11, <1>13
<1>15. \A i \in 1 .. n : c[i].attempt = s[i]
  BY <1>2, <1>4, <1>11, <1>13, <1>14, RisingIs
<1>16. InSequence(found) = [i \in 1 .. n |-> s[i]]
  BY <1>11, <1>12, <1>15
<1>17. s = [i \in 1 .. n |-> s[i]]
  BY <1>2 DEF Tries
<1> QED
  BY <1>3, <1>16, <1>17

(* Without filters every row is read.                                      *)
LEMMA AllRows ==
  ASSUME HInv
  PROVE  SqlRows(StatsFilter(NoFilter), None) = rows
<1>1. PICK q : q = StatsFilter(NoFilter)
  OBVIOUS
<1>2. /\ q.decision = None /\ q.success = None /\ q.policy = None /\ q.strategy = None
      /\ q.model = None /\ q.provider = None /\ q.status = None /\ q.text = None
      /\ q.routeOnly = FALSE
  BY <1>1 DEF StatsFilter, NoFilter
<1>3. \A x \in rows : SqlWhere(x, q, None)
  BY <1>2 DEF SqlWhere, Asks, HInv, RowsKnown
<1> QED
  BY <1>1, <1>3 DEF SqlRows

(* Asked for routed requests only, the page of events reads the routed     *)
(* ones.                                                                   *)
LEMMA RoutedRows ==
  ASSUME HInv
  PROVE  SqlRows([NoFilter EXCEPT !.routeOnly = TRUE], None) = {x \in rows : Routes(x)}
<1>1. PICK q : q = [NoFilter EXCEPT !.routeOnly = TRUE]
  OBVIOUS
<1>2. /\ q.decision = None /\ q.success = None /\ q.policy = None /\ q.strategy = None
      /\ q.model = None /\ q.provider = None /\ q.status = None /\ q.text = None
      /\ q.routeOnly = TRUE
  BY <1>1 DEF NoFilter
<1>3. \A x \in rows : SqlWhere(x, q, None) <=> Routes(x)
  BY <1>2 DEF SqlWhere, Asks, HInv, RowsKnown
<1> QED
  BY <1>1, <1>3 DEF SqlRows

(* The joined lines are put together to the events of the second query.    *)
LEMMA JoinedAgain ==
  ASSUME SInv, NEW q
  PROVE  SqlRouteRows(q, None) = {Rebuilt(x) : x \in SqlRows(StatsFilter(q), None)}
<1>1. PICK S, lines : S = SqlRows(StatsFilter(q), None) /\ lines = UNION {Joined(x) : x \in S}
  OBVIOUS
<1> S \subseteq rows
  BY <1>1 DEF SqlRows
<1>2. SqlRouteRows(q, None) =
        {With(x, {l[2] : l \in {m \in lines : m[1] = x /\ m[2].sequence > 0}}) :
           x \in {l[1] : l \in lines}}
  BY <1>1, Zenon DEF SqlRouteRows
<1>3. ASSUME NEW x \in S
      PROVE  /\ x \in {l[1] : l \in lines}
             /\ {l[2] : l \in {m \in lines : m[1] = x /\ m[2].sequence > 0}} = AttemptsOf(x)
  <2>1. PICK found : found = AttemptsOf(x)
    OBVIOUS
  <2>2. \A a \in found : a.sequence \in Nat /\ a.sequence > 0
    <3>1. PICK s \in Tries : found = Numbered(x.trace, s)
      BY <2>1 DEF SInv, RowsComplete, RowKnown
    <3>2. \A i \in DOMAIN s : i \in Nat /\ i > 0
      BY DEF Tries
    <3> QED
      BY <3>1, <3>2 DEF Numbered
  <2>3. \A y \in S : \A l \in Joined(y) : l[1] = y
    BY DEF Joined
  <2>4. \A l : l \in lines /\ l[1] = x <=> l \in Joined(x)
    BY <1>1, <2>3
  <2>5. CASE found = {}
    <3>1. Joined(x) = {<<x, NoAttempt>>} /\ NoAttempt.sequence = 0
      BY <2>1, <2>5 DEF Joined, NoAttempt
    <3>2. \A l \in Joined(x) : ~(l[2].sequence > 0)
      BY <3>1
    <3> QED
      BY <2>1, <2>3, <2>4, <2>5, <3>1, <3>2
  <2>6. CASE found # {}
    <3>1. Joined(x) = {x} \X found
      BY <2>1, <2>6 DEF Joined
    <3>2. \A a \in found : <<x, a>> \in Joined(x) /\ <<x, a>>[2] = a
      BY <3>1
    <3>3. \A l \in Joined(x) : l[2] \in found
      BY <3>1
    <3>4. PICK some : some = {l \in lines : l[1] = x /\ l[2].sequence > 0}
      OBVIOUS
    <3>5. \A l : l \in some <=> l \in Joined(x)
      BY <2>2, <2>4, <3>3, <3>4
    <3>6. {l[2] : l \in some} = found
      BY <3>2, <3>3, <3>5
    <3>7. \E l \in some : l[1] = x
      BY <2>3, <2>6, <3>2, <3>5
    <3> QED
      BY <2>1, <3>4, <3>6, <3>7
  <2> QED
    BY <2>5, <2>6
<1>4. \A l \in lines : l[1] \in S
  BY <1>1 DEF Joined
<1>5. {l[1] : l \in lines} = S
  BY <1>3, <1>4
<1>6. \A x \in S :
        With(x, {l[2] : l \in {m \in lines : m[1] = x /\ m[2].sequence > 0}}) = Rebuilt(x)
  BY <1>3, Zenon DEF Rebuilt
<1>7. SqlRouteRows(q, None) =
        {With(x, {l[2] : l \in {m \in lines : m[1] = x /\ m[2].sequence > 0}}) : x \in S}
  BY <1>2, <1>5, Zenon
<1>8. SqlRouteRows(q, None) = {Rebuilt(x) : x \in S}
  BY <1>6, <1>7
<1> QED
  BY <1>1, <1>8, Zenon

LEMMA AllJoinedAgain ==
  ASSUME SInv
  PROVE  SqlRouteRows(NoFilter, None) = {Rebuilt(x) : x \in rows}
BY JoinedAgain, AllRows DEF SInv

(* An event of the second query has the values of its row and attempts.    *)
LEMMA RebuiltIs ==
  ASSUME SInv, NEW x \in rows
  PROVE  /\ Rebuilt(x).trace = x.trace /\ (Routes(Rebuilt(x)) <=> Routes(x))
         /\ Rebuilt(x).policy = x.policy /\ Rebuilt(x).at = x.at
         /\ Rebuilt(x).success = x.success
         /\ Rebuilt(x).attempts \in Tries
<1>1. DOMAIN x = Fields \ {"attempts"}
  BY DEF SInv, RowsComplete, RowKnown
<1>2. PICK e : e = Rebuilt(x)
  OBVIOUS
<1>3. /\ e.attempts = InSequence(AttemptsOf(x)) /\ e.trace = x.trace
      /\ e.decision = x.decision /\ e.policy = x.policy /\ e.at = x.at /\ e.success = x.success
  BY <1>1, <1>2 DEF Rebuilt, With, Fields
<1>4. InSequence(AttemptsOf(x)) \in Tries
  <2>1. PICK s \in Tries : AttemptsOf(x) = Numbered(x.trace, s)
    BY DEF SInv, RowsComplete, RowKnown
  <2> QED
    BY <2>1, InSequenceIs
<1> QED
  BY <1>2, <1>3, <1>4 DEF Routes

\* The routed events.
Counts == {ev \in SqlRouteRows(NoFilter, None) : Routes(ev)}

(* They are those of the routed rows, one each, and the same fail.         *)
LEMMA CountsAreRows ==
  ASSUME SInv
  PROVE  /\ IsFiniteSet(Counts)
         /\ \A ev \in Counts : Read(ev) /\ ev.at \in Nat /\ ev.at <= clock
         /\ Cardinality(Counts) = Cardinality({x \in rows : Routes(x)})
         /\ Cardinality({ev \in Counts : ~ev.success}) =
              Cardinality({x \in {y \in rows : Routes(y)} : ~x.success})
<1>1. PICK R : R = {x \in rows : Routes(x)}
  OBVIOUS
<1>2. PICK E : E = Counts
  OBVIOUS
<1>3. E = {Rebuilt(x) : x \in R}
  BY <1>1, <1>2, AllJoinedAgain, RebuiltIs DEF Counts
<1>4. PICK f : f = [x \in R |-> Rebuilt(x)]
  OBVIOUS
<1>5. \A x, y \in R : f[x] = f[y] => x = y
  BY <1>1, <1>4, RebuiltIs DEF SInv, RowsComplete
<1>6. f \in Bijection(R, E)
  BY <1>3, <1>4, <1>5 DEF Bijection, Injection, Surjection, IsInjective
<1>7. IsFiniteSet(R)
  BY <1>1, FS_Subset DEF SInv, RowsComplete
<1>8. IsFiniteSet(E) /\ Cardinality(E) = Cardinality(R)
  BY <1>6, <1>7, FS_Bijection DEF ExistsBijection
<1>9. ASSUME NEW ev \in E PROVE Read(ev) /\ ev.at \in Nat /\ ev.at <= clock
  <2>1. PICK x \in R : ev = Rebuilt(x)
    BY <1>3
  <2>2. x.policy \in Keys /\ x.at \in Nat /\ x.at <= clock
    BY <1>1 DEF SInv, HInv, RowsKnown, RowsComplete, RowKnown, Past
  <2> QED
    BY <1>1, <2>1, <2>2, RebuiltIs DEF Read
<1>10. PICK RF, EF : RF = {x \in R : ~x.success} /\ EF = {ev \in E : ~ev.success}
  OBVIOUS
<1>11. PICK g : g = [x \in RF |-> Rebuilt(x)]
  OBVIOUS
<1>12. EF = {Rebuilt(x) : x \in RF}
  BY <1>1, <1>3, <1>10, RebuiltIs
<1>13. \A x, y \in RF : g[x] = g[y] => x = y
  BY <1>4, <1>5, <1>10, <1>11
<1>14. g \in Bijection(RF, EF)
  BY <1>11, <1>12, <1>13 DEF Bijection, Injection, Surjection, IsInjective
<1>15. IsFiniteSet(RF)
  BY <1>7, <1>10, FS_Subset
<1>16. Cardinality(EF) = Cardinality(RF)
  BY <1>14, <1>15, FS_Bijection DEF ExistsBijection
<1> QED
  BY <1>1, <1>2, <1>8, <1>9, <1>10, <1>16

(* While every policy is valid, a routed row stands for a served request.  *)
LEMMA RowsAreServed ==
  ASSUME SInv, trusted
  PROVE  Cardinality({x \in rows : Routes(x)}) =
           Cardinality({r \in Requests : requests[r] = Done("served")})
<1>1. PICK R, S : /\ R = {x \in rows : Routes(x)}
                  /\ S = {r \in Requests : requests[r] = Done("served")}
  OBVIOUS
<1>2. PICK f : f = [x \in R |-> x.trace[1]]
  OBVIOUS
<1>3. ASSUME NEW x \in R PROVE f[x] \in S
  <2>1. RoutedKnown(x) /\ Routes(x) /\ x.reason \notin Turned
    BY <1>1 DEF SInv, HInv, RowsKnown, RowsComplete, RowKnown
  <2>2. PICK r \in Requests : x.trace = <<r, "execute">> /\ requests[r] = Done("served")
    BY <2>1 DEF RoutedKnown
  <2> QED
    BY <1>1, <1>2, <2>2
<1>4. ASSUME NEW x \in R, NEW y \in R, f[x] = f[y] PROVE x = y
  <2>1. PICK r : r = f[x]
    OBVIOUS
  <2>2. r \in Requests /\ x \in RowsOf(r) /\ y \in RowsOf(r)
    BY <1>1, <1>2, <1>3, <1>4, <2>1 DEF RowsOf
  <2> QED
    BY <2>2 DEF SInv, HInv, Counted, AtMostOne
<1>5. ASSUME NEW r \in S PROVE \E x \in R : f[x] = r
  <2>1. PICK x \in RowsOf(r) : x.trace[2] = "execute"
    BY <1>1 DEF SInv, HInv, Counted
  <2>2. x \in rows /\ x.trace[1] = r /\ RoutedKnown(x)
    BY DEF RowsOf, SInv, RowsComplete, RowKnown
  <2>3. Routes(x)
    BY <2>1, <2>2 DEF RoutedKnown
  <2> QED
    BY <1>1, <1>2, <2>2, <2>3
<1>6. f \in Bijection(R, S)
  BY <1>2, <1>3, <1>4, <1>5 DEF Bijection, Injection, Surjection, IsInjective
<1>7. IsFiniteSet(R)
  BY <1>1, FS_Subset DEF SInv, RowsComplete
<1> QED
  BY <1>1, <1>6, <1>7, FS_Bijection DEF ExistsBijection

(* Each routed request is counted once by its outcome, its number of       *)
(* attempts, the candidate it ended at and the bucket of the trend, a      *)
(* failure by its reason, the page of events counts the same, and while    *)
(* every policy is valid these are the requests that were served.          *)
THEOREM StatisticsAddUp == Spec => []StatsPartition
<1>1. Init => SInv
  BY InitiallyComplete
<1>2. SInv /\ [Next]_vars => SInv'
  BY InductiveComplete
<1>3. SInv => StatsPartition
  <2> SUFFICES ASSUME SInv PROVE StatsPartition
    OBVIOUS
  <2>1. PICK E : E = Counts
    OBVIOUS
  <2>2. PICK a : a = Aggregate(E)
    OBVIOUS
  <2>3. PICK listed : listed = SqlStats([NoFilter EXCEPT !.routeOnly = TRUE], None)
    OBVIOUS
  <2>4. IsFiniteSet(E) /\ \A ev \in E : Read(ev) /\ ev.at \in Nat /\ ev.at <= clock
    BY <2>1, CountsAreRows
  <2>5. a.total = Cardinality(E)
    BY <2>2, <2>4, AggregateIs
  <2>6. a.total = SumFunction(a.stats) /\ a.total = SumFunction(a.attempts)
    BY <2>2, <2>4, <2>5, StatsAddUp, AttemptsAddUp
  <2>7. a.total = SumFunction(a.hits) + a.attempts[0]
    <3>1. PICK T, U : T = {ev \in E : ev.attempts # <<>>} /\ U = {ev \in E : ev.attempts = <<>>}
      OBVIOUS
    <3>2. SumFunction(a.hits) = Cardinality(T) /\ a.attempts[0] = Cardinality(U)
      BY <2>2, <2>4, <3>1, HitsAddUp, AttemptsAddUp
    <3>3. T \cup U = E /\ T \cap U = {}
      BY <3>1
    <3>4. IsFiniteSet(T) /\ IsFiniteSet(U)
      BY <2>4, <3>1, FS_Subset
    <3>5. Cardinality(T) \in Nat /\ Cardinality(U) \in Nat
      BY <3>4, FS_CardinalityType
    <3>6. Cardinality(T \cup U) = Cardinality(T) + Cardinality(U) - Cardinality(T \cap U)
      BY <3>4, FS_Union
    <3>7. Cardinality(T \cap U) = 0
      BY <3>3, FS_EmptySet
    <3>8. PICK m, n : m = Cardinality(T) /\ n = Cardinality(U)
      OBVIOUS
    <3>9. Cardinality(E) = m + n
      <4>1. PICK both, all : both = Cardinality(T \cap U) /\ all = Cardinality(T \cup U)
        OBVIOUS
      <4>2. m \in Nat /\ n \in Nat /\ both = 0 /\ all = m + n - both
        BY <3>5, <3>6, <3>7, <3>8, <4>1
      <4>3. all = Cardinality(E)
        BY <3>3, <4>1
      <4> QED
        BY <4>2, <4>3
    <3> QED
      BY <2>5, <3>2, <3>8, <3>9
  <2>8. SumFunction(a.reasons) = a.stats["failed"] /\ SumFunction(a.policies) = a.stats["fallback"]
    BY <2>2, <2>4, ReasonsAddUp, PoliciesAddUp
  <2>9. ASSUME NEW o \in OutcomeKinds, NEW delay \in Delays
        PROVE  SumFunction(Trend(E, None, clock + delay)[o]) = a.stats[o]
    <3>1. PICK now : now = clock + delay
      OBVIOUS
    <3>2. now \in Nat /\ clock <= now
      BY <3>1, RouteHistoryAssumption DEF SInv
    <3>3. \A ev \in E : ev.at \in Nat /\ ev.at <= now
      BY <2>4, <3>2 DEF SInv
    <3> QED
      BY <2>2, <2>4, <3>1, <3>2, <3>3, TrendAddsUp
  <2>10. listed.total = a.total /\ listed.failed = a.stats["failed"]
    <3>1. PICK R : R = {x \in rows : Routes(x)}
      OBVIOUS
    <3>2. SqlRows([NoFilter EXCEPT !.routeOnly = TRUE], None) = R
      BY <3>1, RoutedRows DEF SInv
    <3>3. listed.total = Cardinality(R) /\ listed.failed = Cardinality({x \in R : ~x.success})
      BY <2>3, <3>2 DEF SqlStats
    <3>4. a.stats["failed"] = Cardinality({ev \in E : ~ev.success})
      BY <2>2, <2>4, ReasonsAddUp
    <3> QED
      BY <2>1, <2>5, <3>1, <3>3, <3>4, CountsAreRows
  <2>11. trusted => a.total = Cardinality({r \in Requests : requests[r] = Done("served")})
    BY <2>1, <2>5, CountsAreRows, RowsAreServed
  <2> QED
    BY <2>1, <2>2, <2>3, <2>6, <2>7, <2>8, <2>9, <2>10, <2>11 DEF StatsPartition, Counts
<1> QED
  BY <1>1, <1>2, <1>3, PTL DEF Spec

----------------------------------------------------------------------------
(* The memory.  Until the plugin is loaded again it holds the same events  *)
(* as the rows, each once.                                                 *)

EventKnown(ev) ==
  Plain(ev) /\ ev.duration \in Nat /\ ev.attempts \in Tries /\ ev.reason # "no_policy"

Mirror ==
  /\ \E S : recent \in Seq(S)
  /\ \A i \in DOMAIN recent : EventKnown(recent[i])
  /\ \A i, j \in DOMAIN recent : recent[i].trace = recent[j].trace => i = j
  /\ rows = {Row(recent[i]) : i \in DOMAIN recent}
  /\ attempts = UNION {AttemptRows(recent[i]) : i \in DOMAIN recent}

MInv == SInv /\ loads \in Nat /\ (Complete => Mirror)

LEMMA InitiallyMirror ==
  ASSUME Init
  PROVE  MInv
<1>1. SInv
  BY InitiallyComplete
<1>2. recent = <<>> /\ rows = {} /\ attempts = {} /\ loads = 0
  BY DEF Init
<1>3. recent \in Seq({}) /\ DOMAIN recent = {}
  BY <1>2
<1> QED
  BY <1>1, <1>2, <1>3 DEF MInv, Mirror

(* An event with a new trace is added to both.                             *)
LEMMA ObservedByBoth ==
  ASSUME Mirror, NEW ev, Observe(ev), Plain(ev), ev.duration \in Nat, ev.attempts \in Tries,
         \A x \in rows : x.trace # ev.trace
  PROVE  Mirror'
<1>1. CASE UNCHANGED events
  BY <1>1 DEF events, Mirror
<1>2. ASSUME NEW e \in Prepared(ev), recent' = Append(recent, e),
             rows' = {x \in rows : x.trace # e.trace} \cup {Row(e)},
             attempts' = {a \in attempts : a.trace # e.trace} \cup AttemptRows(e)
      PROVE  Mirror'
  <2>1. EventKnown(e) /\ e.trace = ev.trace
    <3>1. e.reason # "no_policy"
      <4>1. CASE ev.reason # "no_policy"
        BY <1>2, <4>1 DEF Prepared
      <4>2. CASE ev.reason = "no_policy"
        <5>1. PICK why \in {"policy_lookup_miss", "policy_disabled"} :
                e = [ev EXCEPT !.policy = ev.key, !.reason = why]
          BY <1>2, <4>2 DEF Prepared
        <5> QED
          BY <5>1, PlainDomain DEF Fields
      <4> QED
        BY <4>1, <4>2
    <3> QED
      BY <1>2, <3>1, KeptComplete, PlainDomain DEF EventKnown
  <2>2. PICK n : n = Len(recent)
    OBVIOUS
  <2>3. n \in Nat /\ DOMAIN recent = 1 .. n
    BY <2>2 DEF Mirror
  <2>4. /\ \E S : recent' \in Seq(S)
        /\ DOMAIN recent' = 1 .. n + 1 /\ recent'[n + 1] = e
        /\ \A i \in 1 .. n : recent'[i] = recent[i]
    <3>1. PICK S : recent \in Seq(S)
      BY DEF Mirror
    <3>2. recent \in Seq(S \cup {e})
      BY <3>1
    <3>3. recent' \in Seq(S \cup {e})
      BY <1>2, <3>2
    <3> QED
      BY <1>2, <2>2, <3>2, <3>3
  <2>5. \A i \in 1 .. n + 1 : (i \in 1 .. n \/ i = n + 1)
    BY <2>3
  <2>6. \A i \in 1 .. n : i \in 1 .. n + 1 /\ i # n + 1 /\ n + 1 \in 1 .. n + 1
    BY <2>3
  <2>7. ASSUME NEW i \in 1 .. n
        PROVE  recent[i].trace # e.trace /\ Row(recent[i]).trace = recent[i].trace
    <3>1. DOMAIN recent[i] = Fields
      BY <2>3, PlainDomain DEF Mirror, EventKnown
    <3>2. Row(recent[i]).trace = recent[i].trace
      BY <3>1, RowFields
    <3>3. Row(recent[i]) \in rows
      BY <2>3 DEF Mirror
    <3> QED
      BY <2>1, <3>2, <3>3
  <2>8. \A i \in DOMAIN recent' : EventKnown(recent'[i])
    BY <2>1, <2>3, <2>4, <2>5 DEF Mirror
  <2>9. \A i, j \in DOMAIN recent' : recent'[i].trace = recent'[j].trace => i = j
    BY <2>3, <2>4, <2>5, <2>7 DEF Mirror
  <2>10. rows' = {Row(recent'[i]) : i \in DOMAIN recent'}
    <3>1. rows' = rows \cup {Row(e)}
      BY <1>2, <2>1
    <3>2. \A x : x \in rows <=> \E i \in 1 .. n : x = Row(recent'[i])
      BY <2>3, <2>4 DEF Mirror
    <3>3. PICK new : new = recent'
      OBVIOUS
    <3>4. DOMAIN new = 1 .. n + 1 /\ new[n + 1] = e /\ n + 1 \in 1 .. n + 1
      BY <2>3, <2>4, <3>3
    <3>5. \A x : x \in rows <=> \E i \in 1 .. n : x = Row(new[i])
      BY <3>2, <3>3
    <3>6. \A i \in 1 .. n + 1 : Row(new[i]) \in rows'
      BY <2>5, <3>1, <3>4, <3>5
    <3>7. \A x \in rows' : \E i \in 1 .. n + 1 : x = Row(new[i])
      BY <2>6, <3>1, <3>4, <3>5
    <3> QED
      BY <3>3, <3>4, <3>6, <3>7
  <2>11. attempts' = UNION {AttemptRows(recent'[i]) : i \in DOMAIN recent'}
    <3>1. \A a : a \in attempts <=> \E i \in 1 .. n : a \in AttemptRows(recent'[i])
      BY <2>3, <2>4 DEF Mirror
    <3>2. \A i \in 1 .. n : \A a \in AttemptRows(recent'[i]) : a.trace # e.trace
      BY <2>4, <2>7 DEF AttemptRows
    <3>3. attempts' = attempts \cup AttemptRows(e)
      BY <1>2, <3>1, <3>2
    <3>4. PICK new : new = recent'
      OBVIOUS
    <3>5. DOMAIN new = 1 .. n + 1 /\ new[n + 1] = e /\ n + 1 \in 1 .. n + 1
      BY <2>3, <2>4, <3>4
    <3>6. \A a : a \in attempts <=> \E i \in 1 .. n : a \in AttemptRows(new[i])
      BY <3>1, <3>4
    <3>7. \A i \in 1 .. n + 1 : \A a \in AttemptRows(new[i]) : a \in attempts'
      BY <2>5, <3>3, <3>5, <3>6
    <3>8. \A a \in attempts' : \E i \in 1 .. n + 1 : a \in AttemptRows(new[i])
      BY <2>6, <3>3, <3>5, <3>6
    <3> QED
      BY <3>4, <3>5, <3>7, <3>8
  <2> QED
    BY <2>4, <2>8, <2>9, <2>10, <2>11 DEF Mirror
<1> QED
  BY <1>1, <1>2 DEF Observe

LEMMA InductiveMirror ==
  ASSUME MInv, [Next]_vars
  PROVE  MInv'
<1>0. SInv'
  BY InductiveComplete DEF MInv
<1>1. CASE UNCHANGED <<events, loads>>
  BY <1>0, <1>1 DEF MInv, Complete, Mirror, events
<1>2. ASSUME NEW r \in Requests, ObserveRoute(r)
      PROVE  MInv'
  <2>1. /\ requests[r].at = "observing" /\ Observe(requests[r].event) /\ loads' = loads
    BY <1>2 DEF ObserveRoute, settings
  <2>2. PICK ev : ev = requests[r].event
    OBVIOUS
  <2>3. ObservingKnown(requests[r], r, trusted) /\ CarriedKnown(requests[r], clock)
    BY <2>1 DEF MInv, SInv, HInv, StatesKnown, EventsComplete
  <2>4. /\ Plain(ev) /\ ev.duration \in Nat /\ ev.attempts \in Tries /\ ev.trace = <<r, "route">>
        /\ <<r, "route">>[1] = r
    BY <2>2, <2>3 DEF ObservingKnown, CarriedKnown
  <2>5. \A x \in rows : x.trace # ev.trace
    <3>1. RowsOf(r) = {}
      BY <2>1 DEF MInv, SInv, HInv, Counted
    <3> QED
      BY <2>4, <3>1 DEF RowsOf
  <2>6. Mirror => Mirror'
    BY <2>1, <2>2, <2>4, <2>5, ObservedByBoth
  <2> QED
    BY <1>0, <2>1, <2>6 DEF MInv, Complete
<1>3. ASSUME NEW r \in Requests, Finish(r)
      PROVE  MInv'
  <2>1. /\ requests[r].at = "running" /\ loads' = loads
    BY <1>3 DEF Finish, settings
  <2>2. PICK ev \in Explained(requests[r]) : Observe(ev)
    BY <1>3 DEF Finish
  <2>3. /\ RunningKnown(requests[r], r, trusted) /\ Matched(requests[r])
        /\ CarriedKnown(requests[r], clock) /\ clock \in Nat
    BY <2>1 DEF MInv, SInv, HInv, StatesKnown, IInv, RunningMatched, EventsComplete
  <2>4. Recorded(requests[r], ev)
    BY <2>3, ExplainedFields DEF RunningKnown
  <2>5. Plain(ev) /\ ev.attempts \in Tries /\ ev.trace = <<r, "execute">>
    BY <2>3, <2>4 DEF Recorded, RunningKnown
  <2>6. ev.duration \in Nat
    <3>1. PICK at : at = requests[r].event.at
      OBVIOUS
    <3>2. at \in Nat /\ at <= clock /\ ev.duration = clock + Duration - at
      BY <2>3, <2>4, <3>1 DEF Recorded, CarriedKnown, Past
    <3> QED
      BY <2>3, <3>2, RoutingAssumption
  <2>7. ASSUME NEW x \in rows PROVE x.trace # ev.trace
    <3>1. RoutedKnown(x)
      BY DEF MInv, SInv, RowsComplete, RowKnown
    <3>2. requests[r] # Done("served")
      BY <2>1 DEF Done
    <3> QED
      BY <2>5, <3>1, <3>2 DEF RoutedKnown
  <2>8. Mirror => Mirror'
    BY <2>2, <2>5, <2>6, <2>7, ObservedByBoth
  <2> QED
    BY <1>0, <2>1, <2>8 DEF MInv, Complete
<1>4. ASSUME NEW k \in Keys, NEW found \in Reloads, Reload(k, found)
      PROVE  MInv'
  BY <1>0, <1>4 DEF MInv, Complete, Reload
<1>5. ASSUME NEW r \in Requests,
             \/ Ignore(r) \/ Abandon(r)
             \/ \E k \in Keys, model \in Models : Accept(r, k, model) \/ Decide(r, k, model)
             \/ \E model \in Models : Execute(r, model) \/ Refuse(r, model)
      PROVE  UNCHANGED <<events, loads>>
  BY <1>5 DEF Ignore, Abandon, Accept, Decide, Execute, Refuse, settings
<1>6. ASSUME NEW k \in Keys, (\E p \in Documents : SavePolicy(k, p)) \/ DeletePolicy(k)
      PROVE  UNCHANGED <<events, loads>>
  BY <1>6 DEF SavePolicy, DeletePolicy
<1>7. CASE UNCHANGED vars
  BY <1>1, <1>7 DEF vars
<1> QED
  BY <1>1, <1>2, <1>3, <1>4, <1>5, <1>6, <1>7 DEF Next

(* An event in memory and its row.                                         *)
LEMMA MirrorRow ==
  ASSUME MInv, Mirror, NEW i \in DOMAIN recent
  PROVE  LET ev == recent[i] x == Row(recent[i])
         IN  /\ x \in rows
             /\ x.trace = ev.trace /\ x.at = ev.at /\ x.decision = ev.decision
             /\ x.reason = ev.reason /\ x.policy = ev.policy /\ x.strategy = ev.strategy
             /\ x.model = ev.model /\ x.provider = ev.provider /\ x.status = ev.status
             /\ x.duration = ev.duration /\ x.success = ev.success /\ x.error = ev.error
             /\ x.reasons = ev.reasons
             /\ AttemptsOf(x) = AttemptRows(ev)
             /\ Rebuilt(x) = ev
<1>1. PICK ev, x : ev = recent[i] /\ x = Row(ev)
  OBVIOUS
<1>2. EventKnown(ev) /\ DOMAIN ev = Fields /\ x \in rows
  BY <1>1, PlainDomain DEF Mirror, EventKnown
<1>3. /\ x.trace = ev.trace /\ x.at = ev.at /\ x.decision = ev.decision
      /\ x.reason = ev.reason /\ x.policy = ev.policy /\ x.strategy = ev.strategy
      /\ x.model = ev.model /\ x.provider = ev.provider /\ x.status = ev.status
      /\ x.duration = ev.duration /\ x.success = ev.success /\ x.error = ev.error
      /\ x.reasons = ev.reasons
  BY <1>1, <1>2 DEF Row, Fields
<1>4. AttemptsOf(x) = AttemptRows(ev)
  <2>1. \A j \in DOMAIN recent : \A a \in AttemptRows(recent[j]) : a.trace = recent[j].trace
    BY DEF AttemptRows
  <2>2. \A a \in attempts : a.trace = ev.trace <=> a \in AttemptRows(ev)
    BY <1>1, <2>1 DEF Mirror
  <2>3. \A a \in AttemptRows(ev) : a \in attempts
    BY <1>1 DEF Mirror
  <2> QED
    BY <1>3, <2>2, <2>3 DEF AttemptsOf
<1>5. Rebuilt(x) = ev
  <2>1. AttemptRows(ev) = Numbered(ev.trace, ev.attempts) /\ ev.attempts \in Tries
    BY <1>2 DEF AttemptRows, Numbered, EventKnown
  <2>2. InSequence(AttemptsOf(x)) = ev.attempts
    BY <1>4, <2>1, InSequenceIs
  <2>3. PICK s : s = InSequence(AttemptsOf(x))
    OBVIOUS
  <2>4. Rebuilt(x) = [f \in DOMAIN x \cup {"attempts"} |-> IF f = "attempts" THEN s ELSE x[f]]
    BY <2>3, Zenon DEF Rebuilt, With
  <2>5. DOMAIN x = Fields \ {"attempts"} /\ \A f \in Fields \ {"attempts"} : x[f] = ev[f]
    BY <1>1, <1>2 DEF Row
  <2>6. DOMAIN x \cup {"attempts"} = Fields
    BY <2>5 DEF Fields
  <2>7. Rebuilt(x) = [f \in Fields |-> ev[f]]
    BY <2>2, <2>3, <2>4, <2>5, <2>6
  <2> QED
    BY <1>2, <2>7 DEF EventKnown, Plain
<1> QED
  BY <1>1, <1>2, <1>3, <1>4, <1>5, Zenon

(* A set of positions and the set of their rows.                           *)
LEMMA Alike ==
  ASSUME MInv, Mirror, NEW M \in SUBSET DOMAIN recent, NEW S \in SUBSET rows,
         \A i \in DOMAIN recent : i \in M <=> Row(recent[i]) \in S
  PROVE  /\ IsFiniteSet(M) /\ IsFiniteSet(S) /\ Cardinality(M) = Cardinality(S)
         /\ [i \in M |-> Row(recent[i])] \in Bijection(M, S)
<1>1. PICK f : f = [i \in M |-> Row(recent[i])]
  OBVIOUS
<1>2. \A i \in DOMAIN recent : Row(recent[i]).trace = recent[i].trace
  BY MirrorRow
<1>3. \A i, j \in M : f[i] = f[j] => i = j
  BY <1>1, <1>2 DEF Mirror
<1>4. \A x \in S : \E i \in M : f[i] = x
  BY <1>1 DEF Mirror
<1>5. f \in Bijection(M, S)
  BY <1>1, <1>3, <1>4 DEF Bijection, Injection, Surjection, IsInjective
<1>6. IsFiniteSet(M)
  <2>1. PICK n : n = Len(recent)
    OBVIOUS
  <2>2. n \in Nat /\ DOMAIN recent = 1 .. n
    BY <2>1 DEF Mirror
  <2>3. IsFiniteSet(1 .. n)
    BY <2>2, FS_Interval
  <2> QED
    BY <2>2, <2>3, FS_Subset
<1> QED
  BY <1>1, <1>5, <1>6, FS_Bijection DEF ExistsBijection

(* Lowered once, a text stays as it is.                                    *)
LEMMA LoweredOnce == \A t : Lowered(Lowered(t)) = Lowered(t)
BY RouteHistoryAssumption DEF Lowered

(* A text without letters that only Go folds is alike to itself only.      *)
LEMMA AlikeToItself ==
  ASSUME NEW t, t \notin Unicode
  PROVE  Lowered(t) = t /\ \A u : Lowered(t) = Lowered(u) => t = u
BY DEF Lowered, Unicode

(* The JSON of reasons has the reasons that need no escapes, and else only *)
(* what is in no text.                                                     *)
LEMMA JsonIs ==
  ASSUME NEW why
  PROVE  /\ \A t \in why : t \notin DOMAIN Json => t \in JsonTexts(why)
         /\ \A t \in JsonTexts(why) : t \notin JsonOnly => t \in why
<1>1. CASE why = {}
  BY <1>1 DEF JsonTexts, JsonOnly
<1>2. CASE why # {}
  <2>1. JsonTexts(why) = {"["} \cup {IF t \in DOMAIN Json THEN Json[t] ELSE t : t \in why}
    BY <1>2 DEF JsonTexts
  <2> QED
    BY <2>1 DEF JsonOnly
<1> QED
  BY <1>1, <1>2

(* What the filters read of an event and of its row.                       *)
LEMMA SameTexts ==
  ASSUME MInv, Mirror, NEW i \in DOMAIN recent
  PROVE  LET ev == recent[i] x == Row(recent[i])
         IN  /\ Routes(x) <=> Routes(ev)
             /\ \A bucket : InBucket(x, bucket) <=> InBucket(ev, bucket)
             /\ TextsOf(x) = TextsOf(ev)
             /\ \A a : (\E l \in AttemptsOf(x) : l.attempt = a) <=>
                       \E j \in DOMAIN ev.attempts : ev.attempts[j] = a
<1>1. PICK ev, x : ev = recent[i] /\ x = Row(recent[i])
  OBVIOUS
<1>2. /\ x.decision = ev.decision
      /\ x.reason = ev.reason /\ x.policy = ev.policy /\ x.strategy = ev.strategy
      /\ x.model = ev.model /\ x.provider = ev.provider /\ x.status = ev.status
      /\ x.success = ev.success /\ x.error = ev.error
      /\ AttemptsOf(x) = AttemptRows(ev)
  BY <1>1, MirrorRow, Zenon
<1>3. \A a : (\E l \in AttemptsOf(x) : l.attempt = a) <=>
              \E j \in DOMAIN ev.attempts : ev.attempts[j] = a
  <2>1. \A l \in AttemptsOf(x) : \E j \in DOMAIN ev.attempts : l.attempt = ev.attempts[j]
    BY <1>2 DEF AttemptRows
  <2>2. \A j \in DOMAIN ev.attempts : \E l \in AttemptsOf(x) : l.attempt = ev.attempts[j]
    <3> SUFFICES ASSUME NEW j \in DOMAIN ev.attempts
                 PROVE  \E l \in AttemptsOf(x) : l.attempt = ev.attempts[j]
      OBVIOUS
    <3>1. PICK l : l = [trace |-> ev.trace, sequence |-> j, attempt |-> ev.attempts[j]]
      OBVIOUS
    <3>2. l \in AttemptRows(ev)
      BY <3>1 DEF AttemptRows
    <3>3. l.attempt = ev.attempts[j]
      BY <3>1
    <3> QED
      BY <1>2, <3>2, <3>3
  <2> QED
    BY <2>1, <2>2
<1>4. Routes(x) <=> Routes(ev)
  BY <1>2 DEF Routes
<1>5. \A bucket : InBucket(x, bucket) <=> InBucket(ev, bucket)
  BY <1>2 DEF InBucket
<1>6. TextsOf(x) = TextsOf(ev)
  BY <1>2, Zenon DEF TextsOf
<1> QED
  BY <1>1, <1>3, <1>4, <1>5, <1>6, Zenon

(* What is found in the database is found in memory, if it is not searched *)
(* for what is only JSON.                                                  *)
LEMMA FoundInMemory ==
  ASSUME MInv, Mirror, NEW q, NothingAdded(q), NEW i \in DOMAIN recent,
         Row(recent[i]) \in SqlRows(q, None)
  PROVE  i \in MemoryEvents(q, None)
<1>1. PICK ev, x : ev = recent[i] /\ x = Row(recent[i])
  OBVIOUS
<1>2. /\ x \in rows
      /\ x.decision = ev.decision /\ x.success = ev.success
      /\ x.reason = ev.reason /\ x.policy = ev.policy /\ x.strategy = ev.strategy
      /\ x.model = ev.model /\ x.provider = ev.provider /\ x.reasons = ev.reasons
  BY <1>1, MirrorRow, Zenon
<1>3. /\ Routes(x) <=> Routes(ev)
      /\ InBucket(x, q.status) <=> InBucket(ev, q.status)
      /\ TextsOf(x) = TextsOf(ev)
      /\ \A a \in AttemptsOf(x) : \E j \in DOMAIN ev.attempts : ev.attempts[j] = a.attempt
  BY <1>1, SameTexts, Zenon
<1>4. SqlWhere(x, q, None)
  BY <1>1 DEF SqlRows
<1>5. q.provider # None => HasProvider(ev, q.provider)
  BY <1>2, <1>3, <1>4 DEF SqlWhere, HasProvider
<1>6. ASSUME q.text # None
      PROVE  \E t \in SearchTexts(ev) : Lowered(t) = Lowered(q.text)
  <2>1. PICK t : t = Lowered(q.text)
    OBVIOUS
  <2>2. Lowered(t) = t /\ t \notin JsonOnly
    BY <1>6, <2>1, LoweredOnce DEF NothingAdded
  <2>3. CASE t \in TextsOf(x)
    BY <1>3, <2>1, <2>2, <2>3 DEF SearchTexts
  <2>4. CASE t \in JsonTexts(x.reasons)
    <3>1. t \in ev.reasons
      BY <1>2, <2>2, <2>4, JsonIs
    <3> QED
      BY <2>1, <2>2, <3>1 DEF SearchTexts
  <2>5. ASSUME NEW a \in AttemptsOf(x), t \in AttemptTexts(a.attempt)
        PROVE  t \in SearchTexts(ev)
    <3>1. a.attempt \in ToSet(ev.attempts)
      BY <1>3 DEF ToSet
    <3> QED
      BY <2>5, <3>1 DEF SearchTexts
  <2> QED
    BY <1>4, <1>6, <2>1, <2>2, <2>3, <2>4, <2>5 DEF SqlWhere, RowTexts
<1>7. EventMatches(ev, q, None)
  BY <1>2, <1>3, <1>4, <1>5, <1>6, Zenon DEF SqlWhere, EventMatches, Asks, AsksFolded
<1> QED
  BY <1>1, <1>2, <1>3, <1>4, <1>7 DEF MemoryEvents, SqlWhere

(* What is found in memory is found in the database, if it is not asked    *)
(* with letters that only Go folds, or with characters that JSON escapes.  *)
LEMMA FoundInDatabase ==
  ASSUME MInv, Mirror, NEW q, NothingMissed(q), NEW i \in DOMAIN recent,
         i \in MemoryEvents(q, None)
  PROVE  Row(recent[i]) \in SqlRows(q, None)
<1>1. PICK ev, x : ev = recent[i] /\ x = Row(recent[i])
  OBVIOUS
<1>2. /\ x \in rows
      /\ x.decision = ev.decision /\ x.success = ev.success
      /\ x.reason = ev.reason /\ x.policy = ev.policy /\ x.strategy = ev.strategy
      /\ x.model = ev.model /\ x.provider = ev.provider /\ x.reasons = ev.reasons
  BY <1>1, MirrorRow, Zenon
<1>3. /\ Routes(x) <=> Routes(ev)
      /\ InBucket(x, q.status) <=> InBucket(ev, q.status)
      /\ TextsOf(x) = TextsOf(ev)
      /\ \A j \in DOMAIN ev.attempts : \E a \in AttemptsOf(x) : a.attempt = ev.attempts[j]
  BY <1>1, SameTexts, Zenon
<1>4. /\ ev.reason # "no_policy" /\ (q.routeOnly => Routes(ev))
      /\ EventMatches(ev, q, None)
  BY <1>1 DEF MemoryEvents
<1>5. /\ q.policy \notin Unicode /\ q.provider \notin Unicode /\ q.model \notin Unicode
      /\ q.text \notin Unicode /\ q.text \notin DOMAIN Json
  BY DEF NothingMissed
<1>6. Asks(q.policy, ev.policy) /\ Asks(q.model, ev.model)
  BY <1>4, <1>5, AlikeToItself, Zenon DEF EventMatches, Asks, AsksFolded
<1>7. q.provider # None =>
        x.provider = q.provider \/ \E a \in AttemptsOf(x) : a.attempt.provider = q.provider
  <2> SUFFICES ASSUME q.provider # None
               PROVE  \/ x.provider = q.provider
                      \/ \E a \in AttemptsOf(x) : a.attempt.provider = q.provider
    OBVIOUS
  <2>1. HasProvider(ev, q.provider)
    BY <1>4 DEF EventMatches
  <2>2. \/ ev.provider = q.provider
        \/ \E j \in DOMAIN ev.attempts : ev.attempts[j].provider = q.provider
    BY <1>5, <2>1, AlikeToItself DEF HasProvider
  <2> QED
    BY <1>2, <1>3, <2>2
<1>8. ASSUME q.text # None
      PROVE  \/ Lowered(q.text) \in RowTexts(x)
             \/ \E a \in AttemptsOf(x) : Lowered(q.text) \in AttemptTexts(a.attempt)
  <2>1. PICK t \in SearchTexts(ev) : Lowered(t) = Lowered(q.text)
    BY <1>4, <1>8 DEF EventMatches
  <2>2. t = q.text /\ Lowered(q.text) = t /\ t \notin DOMAIN Json
    BY <1>5, <2>1, AlikeToItself
  <2>3. CASE t \in TextsOf(ev)
    BY <1>3, <2>2, <2>3 DEF RowTexts
  <2>4. CASE t \in ev.reasons
    <3>1. t \in JsonTexts(x.reasons)
      BY <1>2, <2>2, <2>4, JsonIs
    <3> QED
      BY <2>2, <3>1 DEF RowTexts
  <2>5. ASSUME NEW j \in DOMAIN ev.attempts, t \in AttemptTexts(ev.attempts[j])
        PROVE  \E a \in AttemptsOf(x) : t \in AttemptTexts(a.attempt)
    BY <1>3, <2>5
  <2> QED
    BY <2>1, <2>2, <2>3, <2>4, <2>5 DEF SearchTexts, ToSet
<1>9. SqlWhere(x, q, None)
  BY <1>2, <1>3, <1>4, <1>6, <1>7, <1>8, Zenon DEF SqlWhere, EventMatches, Asks
<1> QED
  BY <1>1, <1>2, <1>9 DEF SqlRows

(* Without a cut-off in time both select the same events.                  *)
LEMMA SameSelection ==
  ASSUME MInv, Mirror, NEW q, NothingAdded(q), NothingMissed(q), NEW i \in DOMAIN recent
  PROVE  i \in MemoryEvents(q, None) <=> Row(recent[i]) \in SqlRows(q, None)
BY FoundInMemory, FoundInDatabase

(* Functions to natural numbers with the same values have the same sum.    *)
LEMMA SumsAlike ==
  ASSUME NEW K, IsFiniteSet(K), NEW f \in [K -> Nat],
         NEW L, NEW g \in [L -> Nat], NEW b \in Bijection(K, L), \A k \in K : f[k] = g[b[k]]
  PROVE  SumFunction(f) = SumFunction(g) /\ SumFunction(f) \in Nat
<1> DEFINE Part(k) == {k} \X (1 .. f[k])
<1>1. \A k \in K : IsFiniteSet(Part(k)) /\ Cardinality(Part(k)) = f[k]
  <2> SUFFICES ASSUME NEW k \in K PROVE IsFiniteSet(Part(k)) /\ Cardinality(Part(k)) = f[k]
    OBVIOUS
  <2>1. PICK n : n = f[k]
    OBVIOUS
  <2>2. n \in Nat /\ IsFiniteSet(1 .. n) /\ Cardinality(1 .. n) = n
    BY <2>1, FS_Interval
  <2>3. IsFiniteSet({k}) /\ Cardinality({k}) = 1
    BY FS_Singleton
  <2>4. PICK S, T : S = {k} /\ T = 1 .. n
    OBVIOUS
  <2>5. IsFiniteSet(S \X T) /\ Cardinality(S \X T) = Cardinality(S) * Cardinality(T)
    BY <2>2, <2>3, <2>4, FS_Product
  <2>6. Cardinality(S) * Cardinality(T) = n
    BY <2>2, <2>3, <2>4
  <2> QED
    BY <2>1, <2>4, <2>5, <2>6
<1>2. \A k \in K : \A e \in Part(k) : e[1] = k
  OBVIOUS
<1>3. PICK E : E = UNION {Part(k) : k \in K}
  OBVIOUS
<1> HIDE DEF Part
<1>4. IsFiniteSet(E)
  <2>1. PICK h : h = [k \in K |-> Part(k)]
    OBVIOUS
  <2>2. h \in Surjection(K, {Part(k) : k \in K})
    BY <2>1 DEF Surjection
  <2>3. IsFiniteSet({Part(k) : k \in K})
    BY <2>2, FS_Surjection
  <2> QED
    BY <1>1, <1>3, <2>3, FS_UNION
<1>5. \A k \in K : {e \in E : e[1] = k} = Part(k)
  BY <1>2, <1>3
<1>6. PICK first : first = [e \in E |-> e[1]]
  OBVIOUS
<1>7. SumFunction(f) = Cardinality(E)
  <2>1. \A e \in E : first[e] \in K
    BY <1>2, <1>3, <1>6
  <2>2. \A k \in K : {e \in E : first[e] = k} = Part(k)
    BY <1>5, <1>6
  <2>3. DOMAIN f = K /\ \A k \in K : f[k] = Cardinality({e \in E : first[e] = k})
    BY <1>1, <2>2
  <2> QED
    BY <1>4, <2>1, <2>3, PartsAddUp
<1>8. PICK second : second = [e \in E |-> b[e[1]]]
  OBVIOUS
<1>9. SumFunction(g) = Cardinality(E)
  <2>1. /\ \A k \in K : b[k] \in L
        /\ \A k, l \in K : b[k] = b[l] => k = l
        /\ \A l \in L : \E k \in K : b[k] = l
    BY DEF Bijection, Injection, Surjection, IsInjective
  <2>2. \A e \in E : e[1] \in K
    BY <1>2, <1>3
  <2>3. \A e \in E : second[e] \in L
    BY <1>8, <2>1, <2>2
  <2>4. ASSUME NEW l \in L PROVE g[l] = Cardinality({e \in E : second[e] = l})
    <3>1. PICK k \in K : b[k] = l
      BY <2>1
    <3>2. \A e \in E : second[e] = l <=> e[1] = k
      BY <1>8, <2>1, <2>2, <3>1
    <3>3. {e \in E : second[e] = l} = Part(k)
      BY <1>5, <3>2
    <3> QED
      BY <1>1, <3>1, <3>3
  <2>5. IsFiniteSet(L)
    BY FS_Bijection DEF ExistsBijection
  <2>6. DOMAIN g = L
    OBVIOUS
  <2> QED
    BY <1>4, <2>3, <2>4, <2>5, <2>6, PartsAddUp
<1> QED
  BY <1>4, <1>7, <1>9, FS_CardinalityType

\* s lists the positions in T once each, the shortest duration first.
Ascending(s, T) ==
  /\ s \in [1 .. Cardinality(T) -> T]
  /\ \A i, j \in DOMAIN s :
       i < j => s[i] # s[j] /\ recent[s[i]].duration <= recent[s[j]].duration

(* Any finite set of positions can be sorted.                              *)
LEMMA SortedExists ==
  ASSUME NEW M, IsFiniteSet(M), \A i \in M : recent[i].duration \in Nat
  PROVE  \E s : Ascending(s, M)
<1>1. PICK B : B = {T \in SUBSET M : ~\E s : Ascending(s, T)}
  OBVIOUS
<1> SUFFICES ASSUME B # {} PROVE FALSE
  BY <1>1
<1>2. IsWellFoundedOn(StrictSubsetOrdering(M), SUBSET M)
  BY FS_StrictSubsetOrderingWellFounded, FS_FiniteSubsetsOfFinite
<1>3. PICK T \in B : \A U \in B : <<U, T>> \notin StrictSubsetOrdering(M)
  BY <1>1, <1>2, WFMin
<1>4. T \in SUBSET M /\ ~\E s : Ascending(s, T)
  BY <1>1
<1>5. IsFiniteSet(T) /\ Cardinality(T) \in Nat
  BY <1>4, FS_Subset, FS_CardinalityType
<1>6. T # {}
  <2> SUFFICES ASSUME T = {} PROVE FALSE
    OBVIOUS
  <2>1. PICK s : s = [i \in 1 .. 0 |-> i]
    OBVIOUS
  <2>2. Cardinality(T) = 0 /\ 1 .. 0 = {}
    BY FS_EmptySet
  <2>3. s \in [1 .. Cardinality(T) -> T] /\ DOMAIN s = {}
    BY <2>1, <2>2
  <2> QED
    BY <1>4, <2>3 DEF Ascending
<1>7. PICK t \in T : \A i \in T : recent[t].duration <= recent[i].duration
  <2>1. PICK D : D = {recent[i].duration : i \in T}
    OBVIOUS
  <2>2. D \subseteq Nat /\ D # {}
    BY <1>4, <1>6, <2>1
  <2>3. Min(D) \in D /\ \A d \in D : Min(D) <= d
    BY <2>2, LeastIs
  <2> QED
    BY <2>1, <2>3
<1>8. PICK U : U = T \ {t}
  OBVIOUS
<1>9. <<U, T>> \in StrictSubsetOrdering(M)
  BY <1>4, <1>8 DEF StrictSubsetOrdering
<1>10. PICK u : Ascending(u, U)
  BY <1>1, <1>3, <1>4, <1>8, <1>9
<1>11. PICK n : n = Cardinality(U)
  OBVIOUS
<1>12. n \in Nat /\ Cardinality(T) = n + 1
  <2>1. IsFiniteSet(U) /\ Cardinality(U) = Cardinality(T) - 1
    BY <1>5, <1>8, FS_RemoveElement
  <2>2. Cardinality(U) \in Nat
    BY <2>1, FS_CardinalityType
  <2> QED
    BY <1>5, <1>11, <2>1, <2>2
<1>13. /\ u \in [1 .. n -> U]
       /\ \A i, j \in 1 .. n :
             i < j => u[i] # u[j] /\ recent[u[i]].duration <= recent[u[j]].duration
  BY <1>10, <1>11 DEF Ascending
<1>14. PICK s : s = [i \in 1 .. n + 1 |-> IF i = 1 THEN t ELSE u[i - 1]]
  OBVIOUS
<1>15. \A i \in 1 .. n + 1 : i = 1 \/ i - 1 \in 1 .. n
  BY <1>12
<1>16. s \in [1 .. n + 1 -> T]
  BY <1>8, <1>13, <1>14, <1>15
<1>17. ASSUME NEW i \in 1 .. n + 1, NEW j \in 1 .. n + 1, i < j
       PROVE  s[i] # s[j] /\ recent[s[i]].duration <= recent[s[j]].duration
  <2>1. j # 1 /\ j - 1 \in 1 .. n /\ s[j] = u[j - 1] /\ s[j] \in U
    BY <1>12, <1>13, <1>14, <1>15, <1>17
  <2>2. CASE i = 1
    BY <1>7, <1>8, <1>14, <2>1, <2>2
  <2>3. CASE i # 1
    <3>1. i - 1 \in 1 .. n /\ s[i] = u[i - 1] /\ i - 1 < j - 1
      BY <1>12, <1>14, <1>15, <1>17, <2>3
    <3> QED
      BY <1>13, <2>1, <3>1
  <2> QED
    BY <2>2, <2>3
<1>18. Ascending(s, T)
  BY <1>12, <1>14, <1>16, <1>17 DEF Ascending
<1> QED
  BY <1>4, <1>18

(* The p-th of the sorted durations is the one with fewer than p below it  *)
(* and at least p up to it.                                                *)
LEMMA SameDuration ==
  ASSUME MInv, Mirror, NEW M \in SUBSET DOMAIN recent, NEW S \in SUBSET rows,
         \A i \in DOMAIN recent : i \in M <=> Row(recent[i]) \in S,
         NEW p \in 1 .. Cardinality(M)
  PROVE  recent[ByDuration(M)[p]].duration =
           CHOOSE d \in {x.duration : x \in S} :
             /\ Cardinality({x \in S : x.duration < d}) < p
             /\ p <= Cardinality({x \in S : x.duration <= d})
<1>1. PICK n : n = Cardinality(M)
  OBVIOUS
<1>2. IsFiniteSet(M) /\ IsFiniteSet(S) /\ n \in Nat /\ p \in 1 .. n
  BY <1>1, Alike, FS_CardinalityType
<1>3. \A i \in M : Row(recent[i]) \in S /\ Row(recent[i]).duration = recent[i].duration
  BY MirrorRow
<1>4. \A i \in M : recent[i].duration \in Nat
  BY DEF Mirror, EventKnown
<1>5. \A x \in S : \E i \in M : x = Row(recent[i])
  BY DEF Mirror
<1>6. \A x \in S : x.duration \in Nat
  BY <1>3, <1>4, <1>5
<1> DEFINE s == ByDuration(M)
<1>7. Ascending(s, M)
  <2>1. \E u : Ascending(u, M)
    BY <1>2, <1>4, SortedExists
  <2>2. PICK F : F = [1 .. Cardinality(M) -> M]
    OBVIOUS
  <2> DEFINE Rising(u) == \A i, j \in DOMAIN u :
               i < j => u[i] # u[j] /\ recent[u[i]].duration <= recent[u[j]].duration
  <2>3. \E u \in F : Rising(u)
    BY <2>1, <2>2 DEF Ascending
  <2>4. s = CHOOSE u \in F : Rising(u)
    BY <2>2 DEF ByDuration
  <2> HIDE DEF Rising, s
  <2>5. s \in F /\ Rising(s)
    BY <2>3, <2>4
  <2> QED
    BY <2>2, <2>5 DEF Ascending, Rising
<1> HIDE DEF s
<1>8. /\ s \in [1 .. n -> M]
      /\ \A i, j \in 1 .. n : i < j => s[i] # s[j] /\ recent[s[i]].duration <= recent[s[j]].duration
  BY <1>1, <1>7 DEF Ascending
<1>9. s \in Injection(1 .. n, M)
  <2>1. ASSUME NEW i \in 1 .. n, NEW j \in 1 .. n, s[i] = s[j] PROVE i = j
    <3>1. ~(i < j) /\ ~(j < i)
      BY <1>8, <2>1
    <3> QED
      BY <3>1
  <2> QED
    BY <1>8, <2>1 DEF Injection, IsInjective
<1>10. \A m \in M : \E i \in 1 .. n : s[i] = m
  <2>1. PICK I : I = 1 .. n
    OBVIOUS
  <2>2. IsFiniteSet(I) /\ Cardinality(I) = n
    BY <1>2, <2>1, FS_Interval
  <2>3. s \in Injection(I, M) /\ Cardinality(I) = Cardinality(M)
    BY <1>1, <1>9, <2>1, <2>2
  <2>4. s \in Surjection(I, M)
    BY <1>2, <2>3, FS_Injection
  <2> QED
    BY <2>1, <2>4 DEF Surjection
<1>11. PICK d : d = recent[s[p]].duration
  OBVIOUS
<1>12. d \in Nat /\ d \in {x.duration : x \in S}
  BY <1>2, <1>3, <1>4, <1>8, <1>11
<1> DEFINE Below(e) == {x \in S : x.duration < e}
           UpTo(e) == {x \in S : x.duration <= e}
<1>13. /\ \A e : IsFiniteSet(Below(e)) /\ Cardinality(Below(e)) \in Nat
       /\ \A e : IsFiniteSet(UpTo(e)) /\ Cardinality(UpTo(e)) \in Nat
  BY <1>2, FS_Subset, FS_CardinalityType
<1>14. Cardinality(Below(d)) < p
  <2>1. PICK m, I : m = p - 1 /\ I = {Row(recent[s[i]]) : i \in 1 .. m}
    OBVIOUS
  <2>2. m \in Nat /\ m < p /\ \A i \in 1 .. m : i \in 1 .. n
    BY <1>2, <2>1
  <2>3. PICK g : g = [i \in 1 .. m |-> Row(recent[s[i]])]
    OBVIOUS
  <2>4. g \in Surjection(1 .. m, I)
    BY <2>1, <2>3 DEF Surjection
  <2>5. IsFiniteSet(I) /\ Cardinality(I) <= m
    <3>1. PICK J : J = 1 .. m
      OBVIOUS
    <3>2. IsFiniteSet(J) /\ Cardinality(J) = m
      BY <2>2, <3>1, FS_Interval
    <3>3. IsFiniteSet(I) /\ Cardinality(I) <= Cardinality(J)
      BY <2>4, <3>1, <3>2, FS_Surjection
    <3> QED
      BY <3>2, <3>3
  <2>6. Below(d) \subseteq I
    <3> SUFFICES ASSUME NEW x \in S, x.duration < d PROVE x \in I
      OBVIOUS
    <3>1. PICK i \in 1 .. n : x = Row(recent[s[i]])
      BY <1>5, <1>10
    <3>2. recent[s[i]].duration < d
      BY <1>3, <1>8, <3>1
    <3>3. ~(p <= i)
      <4>1. p # i
        BY <1>2, <1>4, <1>8, <1>11, <3>2
      <4>2. ~(p < i)
        BY <1>2, <1>4, <1>8, <1>11, <3>2
      <4> QED
        BY <4>1, <4>2
    <3>4. i \in 1 .. m
      BY <1>2, <2>1, <3>3
    <3> QED
      BY <2>1, <3>1, <3>4
  <2>7. Cardinality(Below(d)) <= Cardinality(I) /\ Cardinality(I) \in Nat
    BY <2>5, <2>6, FS_Subset, FS_CardinalityType
  <2> HIDE DEF Below
  <2> QED
    BY <1>2, <1>13, <2>2, <2>5, <2>7
<1>15. p <= Cardinality(UpTo(d))
  <2>1. PICK J : J = 1 .. p
    OBVIOUS
  <2>2. IsFiniteSet(J) /\ Cardinality(J) = p
    BY <1>2, <2>1, FS_Interval
  <2>3. \A i \in J : i \in 1 .. n /\ (i = p \/ i < p)
    BY <1>2, <2>1
  <2>4. PICK g : g = [i \in J |-> Row(recent[s[i]])]
    OBVIOUS
  <2>5. \A i \in J : g[i] \in UpTo(d)
    <3> SUFFICES ASSUME NEW i \in J PROVE g[i] \in UpTo(d)
      OBVIOUS
    <3>1. s[i] \in M /\ recent[s[i]].duration <= d
      BY <1>2, <1>4, <1>8, <1>11, <2>3
    <3> QED
      BY <1>3, <2>4, <3>1
  <2>6. \A i, j \in J : g[i] = g[j] => i = j
    <3> SUFFICES ASSUME NEW i \in J, NEW j \in J, g[i] = g[j] PROVE i = j
      OBVIOUS
    <3>1. s[i] \in M /\ s[j] \in M /\ Row(recent[s[i]]).trace = Row(recent[s[j]]).trace
      BY <1>8, <2>3, <2>4
    <3>2. recent[s[i]].trace = recent[s[j]].trace
      BY <3>1, MirrorRow
    <3>3. s[i] = s[j]
      BY <3>1, <3>2 DEF Mirror
    <3> QED
      BY <1>9, <2>3, <3>3 DEF Injection, IsInjective
  <2> HIDE DEF UpTo
  <2>7. g \in Injection(J, UpTo(d))
    BY <2>4, <2>5, <2>6 DEF Injection, IsInjective
  <2>8. Cardinality(J) <= Cardinality(UpTo(d))
    BY <1>13, <2>7, FS_Injection
  <2> QED
    BY <2>2, <2>8
<1>16. ASSUME NEW e \in {x.duration : x \in S}, NEW h \in {x.duration : x \in S}, e < h,
              p <= Cardinality(UpTo(e)), Cardinality(Below(h)) < p
       PROVE  FALSE
  <2>1. UpTo(e) \subseteq Below(h)
    BY <1>6, <1>16
  <2> HIDE DEF UpTo, Below
  <2>2. Cardinality(UpTo(e)) <= Cardinality(Below(h))
    BY <1>13, <2>1, FS_Subset
  <2> QED
    BY <1>2, <1>13, <1>16, <2>2
<1>17. PICK D : D = {x.duration : x \in S}
  OBVIOUS
<1>18. D \subseteq Nat
  BY <1>6, <1>17
<1> DEFINE c == CHOOSE e \in D : Cardinality(Below(e)) < p /\ p <= Cardinality(UpTo(e))
<1> HIDE DEF Below, UpTo
<1>19. c \in D /\ Cardinality(Below(c)) < p /\ p <= Cardinality(UpTo(c))
  BY <1>12, <1>14, <1>15, <1>17
<1> HIDE DEF c
<1>20. ~(c < d) /\ ~(d < c)
  BY <1>12, <1>14, <1>15, <1>16, <1>17, <1>19
<1>21. c = d
  BY <1>12, <1>18, <1>19, <1>20
<1> QED
  BY <1>11, <1>17, <1>21, Zenon DEF c, Below, UpTo, s

(* Numbered attempts are as many as the attempts.                          *)
LEMMA NumberedSize ==
  ASSUME NEW trace, NEW s \in Tries
  PROVE  IsFiniteSet(Numbered(trace, s)) /\ Cardinality(Numbered(trace, s)) = Len(s)
<1>1. PICK n : n = Len(s)
  OBVIOUS
<1>2. n \in Nat /\ DOMAIN s = 1 .. n
  BY <1>1 DEF Tries
<1>3. PICK found : found = Numbered(trace, s)
  OBVIOUS
<1>4. PICK f : f = [i \in 1 .. n |-> [trace |-> trace, sequence |-> i, attempt |-> s[i]]]
  OBVIOUS
<1>5. f \in [1 .. n -> found] /\ \A i \in 1 .. n : f[i].sequence = i
  BY <1>2, <1>3, <1>4 DEF Numbered
<1>6. \A a \in found : \E i \in 1 .. n : f[i] = a
  BY <1>2, <1>3, <1>4 DEF Numbered
<1>7. f \in Bijection(1 .. n, found)
  BY <1>5, <1>6 DEF Bijection, Injection, Surjection, IsInjective
<1>8. IsFiniteSet(1 .. n) /\ Cardinality(1 .. n) = n
  BY <1>2, FS_Interval
<1> QED
  BY <1>1, <1>3, <1>7, <1>8, FS_Bijection DEF ExistsBijection

(* The attempts of the selected events and the lines of their rows.        *)
LEMMA AttemptsAlike ==
  ASSUME MInv, Mirror, NEW M \in SUBSET DOMAIN recent, NEW S \in SUBSET rows,
         \A i \in DOMAIN recent : i \in M <=> Row(recent[i]) \in S
  PROVE  SumFunction([i \in M |-> Len(recent[i].attempts)]) =
           Cardinality(UNION {AttemptsOf(x) : x \in S})
<1>1. PICK E : E = UNION {AttemptsOf(x) : x \in S}
  OBVIOUS
<1>2. PICK P : P = [i \in M |-> AttemptRows(recent[i])]
  OBVIOUS
<1>3. \A i \in M : P[i] = AttemptRows(recent[i]) /\ P[i] = AttemptsOf(Row(recent[i]))
  BY <1>2, MirrorRow
<1>4. IsFiniteSet(M)
  BY Alike
<1>5. \A i \in M : IsFiniteSet(P[i]) /\ Cardinality(P[i]) = Len(recent[i].attempts)
  <2> SUFFICES ASSUME NEW i \in M
               PROVE  IsFiniteSet(P[i]) /\ Cardinality(P[i]) = Len(recent[i].attempts)
    OBVIOUS
  <2>1. recent[i].attempts \in Tries
    BY DEF Mirror, EventKnown
  <2>2. P[i] = Numbered(recent[i].trace, recent[i].attempts)
    BY <1>3 DEF AttemptRows, Numbered
  <2> QED
    BY <2>1, <2>2, NumberedSize
<1>6. \A x \in S : \E i \in M : x = Row(recent[i])
  BY DEF Mirror
<1>7. \A a : a \in E <=> \E i \in M : a \in P[i]
  BY <1>1, <1>3, <1>6
<1>8. IsFiniteSet(E)
  <2>1. PICK R : R = {P[i] : i \in M}
    OBVIOUS
  <2>2. P \in Surjection(M, R)
    BY <1>2, <2>1 DEF Surjection
  <2>3. IsFiniteSet(R) /\ \A T \in R : IsFiniteSet(T)
    BY <1>4, <1>5, <2>1, <2>2, FS_Surjection
  <2>4. E = UNION R
    BY <1>7, <2>1
  <2> QED
    BY <2>3, <2>4, FS_UNION
<1>9. \A i \in M : \A a \in P[i] : a.trace = recent[i].trace
  BY <1>3 DEF AttemptRows
<1>10. \A i, j \in M : recent[i].trace = recent[j].trace => i = j
  BY DEF Mirror
<1>11. \A i, j \in M : \A a \in P[i] : a \in P[j] => i = j
  BY <1>9, <1>10
<1>12. PICK key : key = [a \in E |-> CHOOSE i \in M : a \in P[i]]
  OBVIOUS
<1>13. \A a \in E : key[a] \in M /\ a \in P[key[a]]
  BY <1>7, <1>12
<1>14. \A i \in M : {a \in E : key[a] = i} = P[i]
  BY <1>7, <1>11, <1>13
<1>15. PICK f : f = [i \in M |-> Len(recent[i].attempts)]
  OBVIOUS
<1>16. DOMAIN f = M /\ \A i \in M : f[i] = Cardinality({a \in E : key[a] = i})
  BY <1>5, <1>14, <1>15
<1> HIDE <1>15
<1>17. SumFunction(f) = Cardinality(E)
  BY <1>4, <1>8, <1>13, <1>16, PartsAddUp
<1> QED
  BY <1>1, <1>15, <1>17

(* The position of the percentile is one of the positions.                 *)
LEMMA PercentileInside == \A n \in Nat \ {0} : Percentile95(n) \in 1 .. n
BY DEF Percentile95

(* The numbers of the two.                                                 *)
LEMMA SameStats ==
  ASSUME MInv, Mirror, NEW q, NothingAdded(q), NothingMissed(q)
  PROVE  MemoryStats(q, None) = SqlStats(q, None)
<1>1. PICK M, S : M = MemoryEvents(q, None) /\ S = SqlRows(q, None)
  OBVIOUS
<1>2. /\ M \in SUBSET DOMAIN recent /\ S \in SUBSET rows
      /\ \A i \in DOMAIN recent : i \in M <=> Row(recent[i]) \in S
  BY <1>1, SameSelection DEF MemoryEvents, SqlRows
<1>3. IsFiniteSet(M) /\ IsFiniteSet(S) /\ Cardinality(M) = Cardinality(S) /\ Cardinality(M) \in Nat
  BY <1>2, Alike, FS_CardinalityType
<1>4. \A i \in DOMAIN recent : /\ Row(recent[i]).decision = recent[i].decision
                              /\ Row(recent[i]).success = recent[i].success
  BY MirrorRow
<1>5. \A d : Cardinality({i \in M : recent[i].decision = d}) =
              Cardinality({x \in S : x.decision = d})
  <2> SUFFICES ASSUME NEW d
               PROVE  Cardinality({i \in M : recent[i].decision = d}) =
                        Cardinality({x \in S : x.decision = d})
    OBVIOUS
  <2>1. PICK N, T : N = {i \in M : recent[i].decision = d} /\ T = {x \in S : x.decision = d}
    OBVIOUS
  <2>2. /\ N \in SUBSET DOMAIN recent /\ T \in SUBSET rows
        /\ \A i \in DOMAIN recent : i \in N <=> Row(recent[i]) \in T
    BY <1>2, <1>4, <2>1
  <2>3. Cardinality(N) = Cardinality(T)
    BY <2>2, Alike
  <2> QED
    BY <2>1, <2>3
<1>6. PICK N, T : N = {i \in M : recent[i].success} /\ T = {x \in S : x.success}
  OBVIOUS
<1>7. Cardinality(N) = Cardinality(T)
  <2>1. /\ N \in SUBSET DOMAIN recent /\ T \in SUBSET rows
        /\ \A i \in DOMAIN recent : i \in N <=> Row(recent[i]) \in T
    BY <1>2, <1>4, <1>6
  <2> QED
    BY <2>1, Alike
<1>8. Cardinality(M) - Cardinality(N) = Cardinality({x \in S : ~x.success})
  <2>1. S \ T = {x \in S : ~x.success} /\ S \cap T = T
    BY <1>6
  <2>2. Cardinality(S \ T) = Cardinality(S) - Cardinality(S \cap T)
    BY <1>3, FS_Difference
  <2> QED
    BY <1>3, <1>7, <2>1, <2>2
<1>9. SumFunction([i \in M |-> Len(recent[i].attempts)]) =
        Cardinality(UNION {AttemptsOf(x) : x \in S})
  BY <1>2, AttemptsAlike
<1>10. M = {} <=> S = {}
  BY <1>3, FS_EmptySet
<1>11. PICK p : p = Percentile95(Cardinality(M))
  OBVIOUS
<1> DEFINE Longest == CHOOSE d \in {x.duration : x \in S} :
                        /\ Cardinality({x \in S : x.duration < d}) < p
                        /\ p <= Cardinality({x \in S : x.duration <= d})
<1>12. CASE M = {}
  <2>1. /\ MemoryStats(q, None) =
             [total |-> Cardinality(M),
              handled |-> Cardinality({i \in M : recent[i].decision = "handled"}),
              fallback |-> Cardinality({i \in M : recent[i].decision = "fallback"}),
              bypass |-> Cardinality({i \in M : recent[i].decision = "bypass"}),
              success |-> Cardinality(N), failed |-> Cardinality(M) - Cardinality(N),
              attempts |-> SumFunction([i \in M |-> Len(recent[i].attempts)]), p95 |-> 0]
    BY <1>1, <1>6, <1>12, Zenon DEF MemoryStats
  <2>2. /\ SqlStats(q, None) =
             [total |-> Cardinality(S),
              handled |-> Cardinality({x \in S : x.decision = "handled"}),
              fallback |-> Cardinality({x \in S : x.decision = "fallback"}),
              bypass |-> Cardinality({x \in S : x.decision = "bypass"}),
              success |-> Cardinality(T), failed |-> Cardinality({x \in S : ~x.success}),
              attempts |-> Cardinality(UNION {AttemptsOf(x) : x \in S}), p95 |-> 0]
    BY <1>1, <1>6, <1>10, <1>12, Zenon DEF SqlStats
  <2> QED
    BY <1>3, <1>5, <1>7, <1>8, <1>9, <2>1, <2>2, Zenon
<1>13. CASE M # {}
  <2>1. recent[ByDuration(M)[p]].duration = Longest
    <3>1. Cardinality(M) # 0
      BY <1>3, <1>13, FS_EmptySet
    <3>2. p \in 1 .. Cardinality(M)
      BY <1>3, <1>11, <3>1, PercentileInside
    <3> QED
      BY <1>2, <3>2, SameDuration
  <2>2. /\ MemoryStats(q, None) =
             [total |-> Cardinality(M),
              handled |-> Cardinality({i \in M : recent[i].decision = "handled"}),
              fallback |-> Cardinality({i \in M : recent[i].decision = "fallback"}),
              bypass |-> Cardinality({i \in M : recent[i].decision = "bypass"}),
              success |-> Cardinality(N), failed |-> Cardinality(M) - Cardinality(N),
              attempts |-> SumFunction([i \in M |-> Len(recent[i].attempts)]),
              p95 |-> recent[ByDuration(M)[p]].duration]
    BY <1>1, <1>6, <1>11, <1>13, Zenon DEF MemoryStats
  <2>3. /\ SqlStats(q, None) =
             [total |-> Cardinality(S),
              handled |-> Cardinality({x \in S : x.decision = "handled"}),
              fallback |-> Cardinality({x \in S : x.decision = "fallback"}),
              bypass |-> Cardinality({x \in S : x.decision = "bypass"}),
              success |-> Cardinality(T), failed |-> Cardinality({x \in S : ~x.success}),
              attempts |-> Cardinality(UNION {AttemptsOf(x) : x \in S}), p95 |-> Longest]
    BY <1>1, <1>3, <1>6, <1>10, <1>11, <1>13, Zenon DEF SqlStats
  <2> HIDE DEF Longest
  <2> QED
    BY <1>3, <1>5, <1>7, <1>8, <1>9, <2>1, <2>2, <2>3, Zenon
<1> QED
  BY <1>12, <1>13

(* Division with a remainder.                                              *)
LEMMA Divided ==
  ASSUME NEW a \in Nat, NEW n \in Nat \ {0}
  PROVE  a \div n \in Nat /\ n * (a \div n) <= a /\ a < n * (a \div n) + n
OBVIOUS

LEMMA FewerTimes ==
  ASSUME NEW n \in Nat \ {0}, NEW q \in Int, NEW k \in Int, n * q < n * k
  PROVE  q < k
OBVIOUS

(* Rounding adds at most one to what is truncated.                         *)
LEMMA Rounded ==
  ASSUME NEW sum \in Nat, NEW n \in Nat \ {0}
  PROVE  (2 * sum + n) \div (2 * n) - sum \div n \in {0, 1}
<1>1. PICK q : q = sum \div n
  OBVIOUS
<1>2. q \in Nat /\ n * q <= sum /\ sum < n * q + n
  BY <1>1, Divided
<1>3. PICK m : m = 2 * n
  OBVIOUS
<1>4. m \in Nat \ {0} /\ 2 * sum + n \in Nat
  BY <1>3
<1>5. PICK k : k = (2 * sum + n) \div m
  OBVIOUS
<1>6. k \in Nat /\ m * k <= 2 * sum + n /\ 2 * sum + n < m * k + m
  BY <1>4, <1>5, Divided
<1>7. PICK nq : nq = n * q
  OBVIOUS
<1>8. nq \in Nat /\ m * q = 2 * nq
  BY <1>2, <1>3, <1>7
<1>9. m * (q + 2) = 2 * nq + 4 * n
  BY <1>2, <1>3, <1>7
<1>10. m * (k + 1) = m * k + m
  BY <1>4, <1>6
<1>11. PICK mk : mk = m * k
  OBVIOUS
<1>12. mk \in Nat
  BY <1>4, <1>6, <1>11
<1>13. mk < 2 * nq + 4 * n /\ 2 * nq < mk + m
  BY <1>2, <1>3, <1>6, <1>7, <1>8, <1>11, <1>12
<1>14. m * k < m * (q + 2) /\ m * q < m * (k + 1)
  BY <1>8, <1>9, <1>10, <1>11, <1>13
<1>15. k < q + 2 /\ q < k + 1
  BY <1>2, <1>4, <1>6, <1>14, FewerTimes
<1>16. k - q \in {0, 1}
  BY <1>2, <1>6, <1>15
<1> QED
  BY <1>1, <1>3, <1>5, <1>16

(* The averages of the two.                                                *)
LEMMA CloseAverages ==
  ASSUME MInv, Mirror, NEW q, NothingAdded(q), NothingMissed(q)
  PROVE  SqlAverage(q, None) - MemoryAverage(q, None) \in {0, 1}
<1>1. PICK M, S : M = MemoryEvents(q, None) /\ S = SqlRows(q, None)
  OBVIOUS
<1>2. /\ M \in SUBSET DOMAIN recent /\ S \in SUBSET rows
      /\ \A i \in DOMAIN recent : i \in M <=> Row(recent[i]) \in S
  BY <1>1, SameSelection DEF MemoryEvents, SqlRows
<1>3. PICK b : b = [i \in M |-> Row(recent[i])]
  OBVIOUS
<1>4. IsFiniteSet(M) /\ IsFiniteSet(S) /\ Cardinality(M) = Cardinality(S) /\ b \in Bijection(M, S)
  BY <1>2, <1>3, Alike
<1>5. PICK f, g : f = [i \in M |-> recent[i].duration] /\ g = [x \in S |-> x.duration]
  OBVIOUS
<1>6. \A i \in M : recent[i].duration \in Nat
  BY <1>2 DEF Mirror, EventKnown
<1>7. \A i \in M : b[i] \in S /\ b[i].duration = recent[i].duration
  BY <1>2, <1>3, MirrorRow
<1>8. \A x \in S : \E i \in M : x = b[i]
  BY <1>2, <1>3 DEF Mirror
<1>9. f \in [M -> Nat] /\ g \in [S -> Nat] /\ \A i \in M : f[i] = g[b[i]]
  BY <1>5, <1>6, <1>7, <1>8
<1>10. PICK sum, n : sum = SumFunction(f) /\ n = Cardinality(M)
  OBVIOUS
<1>11. SumFunction(g) = sum /\ sum \in Nat
  BY <1>4, <1>9, <1>10, SumsAlike
<1>12. n \in Nat /\ (n = 0 <=> M = {}) /\ (n = 0 <=> S = {})
  BY <1>4, <1>10, FS_CardinalityType, FS_EmptySet
<1>13. MemoryAverage(q, None) = IF M = {} THEN 0 ELSE sum \div n
  BY <1>1, <1>5, <1>10, Zenon DEF MemoryAverage
<1>14. SqlAverage(q, None) = IF S = {} THEN 0 ELSE (2 * sum + n) \div (2 * n)
  BY <1>1, <1>4, <1>5, <1>10, <1>11, Zenon DEF SqlAverage
<1>15. CASE M = {}
  BY <1>12, <1>13, <1>14, <1>15
<1>16. CASE M # {}
  <2>1. (2 * sum + n) \div (2 * n) - sum \div n \in {0, 1}
    BY <1>11, <1>12, <1>16, Rounded
  <2> QED
    BY <1>12, <1>13, <1>14, <1>16, <2>1
<1> QED
  BY <1>15, <1>16

(* The values that the filters offer.                                      *)
LEMMA SameFacets ==
  ASSUME MInv, Mirror
  PROVE  MemoryFacets = SqlFacets
<1>1. PICK all, shown : /\ all = {ev \in ToSet(recent) : ev.reason # "no_policy"}
                        /\ shown = {x \in rows : x.reason # "no_policy"}
  OBVIOUS
<1>2. all = {recent[i] : i \in DOMAIN recent}
  BY <1>1 DEF ToSet, Mirror, EventKnown
<1>3. shown = {Row(recent[i]) : i \in DOMAIN recent}
  <2>1. shown = rows
    BY <1>1 DEF MInv, SInv, HInv, RowsKnown
  <2> QED
    BY <2>1 DEF Mirror
<1>4. \A i \in DOMAIN recent :
        /\ Row(recent[i]).policy = recent[i].policy /\ Row(recent[i]).strategy = recent[i].strategy
        /\ Row(recent[i]).model = recent[i].model /\ Row(recent[i]).provider = recent[i].provider
  BY MirrorRow
<1>5. /\ {ev.policy : ev \in all} = {x.policy : x \in shown}
      /\ {ev.strategy : ev \in all} = {x.strategy : x \in shown}
      /\ {ev.model : ev \in all} = {x.model : x \in shown}
      /\ {ev.provider : ev \in all} = {x.provider : x \in shown}
  BY <1>2, <1>3, <1>4
<1>6. UNION {{a.provider : a \in ToSet(ev.attempts)} : ev \in all} =
        {a.attempt.provider : a \in attempts}
  <2>1. \A ev \in all : \A a \in ToSet(ev.attempts) : \E l \in attempts : l.attempt = a
    <3> SUFFICES ASSUME NEW i \in DOMAIN recent, NEW j \in DOMAIN recent[i].attempts
                 PROVE  \E l \in attempts : l.attempt = recent[i].attempts[j]
      BY <1>2 DEF ToSet
    <3>1. PICK l : l = [trace |-> recent[i].trace, sequence |-> j,
                        attempt |-> recent[i].attempts[j]]
      OBVIOUS
    <3>2. l \in AttemptRows(recent[i]) /\ l.attempt = recent[i].attempts[j]
      BY <3>1 DEF AttemptRows
    <3>3. l \in attempts
      BY <3>2 DEF Mirror
    <3> QED
      BY <3>2, <3>3
  <2>2. \A l \in attempts : \E ev \in all : l.attempt \in ToSet(ev.attempts)
    <3> SUFFICES ASSUME NEW l \in attempts
                 PROVE  \E ev \in all : l.attempt \in ToSet(ev.attempts)
      OBVIOUS
    <3>1. PICK i \in DOMAIN recent : l \in AttemptRows(recent[i])
      BY DEF Mirror
    <3>2. \E j \in DOMAIN recent[i].attempts : l.attempt = recent[i].attempts[j]
      BY <3>1 DEF AttemptRows
    <3>3. l.attempt \in ToSet(recent[i].attempts)
      BY <3>2 DEF ToSet
    <3> QED
      BY <1>2, <3>3
  <2>3. PICK U, V : /\ U = UNION {{a.provider : a \in ToSet(ev.attempts)} : ev \in all}
                    /\ V = {a.attempt.provider : a \in attempts}
    OBVIOUS
  <2>4. ASSUME NEW v \in U PROVE v \in V
    <3>1. PICK ev \in all : \E a \in ToSet(ev.attempts) : v = a.provider
      BY <2>3
    <3>2. PICK l \in attempts : v = l.attempt.provider
      BY <2>1, <3>1
    <3> QED
      BY <2>3, <3>2
  <2>5. ASSUME NEW v \in V PROVE v \in U
    <3>1. PICK l \in attempts : v = l.attempt.provider
      BY <2>3
    <3>2. PICK ev \in all : l.attempt \in ToSet(ev.attempts)
      BY <2>2
    <3>3. v \in {a.provider : a \in ToSet(ev.attempts)}
      BY <3>1, <3>2
    <3> QED
      BY <2>3, <3>3
  <2> QED
    BY <2>3, <2>4, <2>5
<1> QED
  BY <1>1, <1>5, <1>6, Zenon DEF MemoryFacets, SqlFacets

(* The events that the page lists, from the memory and from the database.  *)
LEMMA ListedFrom ==
  ASSUME MInv, Mirror, NEW q
  PROVE  /\ \A ev : ev \in Listed(MemoryEvents(q, None)) <=>
              \E i \in DOMAIN recent : ev = recent[i] /\ i \in MemoryEvents(q, None)
         /\ \A ev : ev \in SqlEvents(q, None) <=>
              \E i \in DOMAIN recent : ev = recent[i] /\ Row(recent[i]) \in SqlRows(q, None)
<1>1. PICK M, S : M = MemoryEvents(q, None) /\ S = SqlRows(q, None)
  OBVIOUS
<1>2. M \subseteq DOMAIN recent /\ S \subseteq rows
  BY <1>1 DEF MemoryEvents, SqlRows
<1>3. \A i \in DOMAIN recent : Rebuilt(Row(recent[i])) = recent[i]
  BY MirrorRow, Zenon
<1>4. \A x \in rows : \E i \in DOMAIN recent : x = Row(recent[i])
  BY DEF Mirror
<1>5. \A ev : ev \in {recent[i] : i \in M} <=> \E i \in DOMAIN recent : ev = recent[i] /\ i \in M
  BY <1>2
<1>6. \A ev : ev \in {Rebuilt(x) : x \in S} <=>
                \E i \in DOMAIN recent : ev = recent[i] /\ Row(recent[i]) \in S
  BY <1>2, <1>3, <1>4
<1> QED
  BY <1>1, <1>5, <1>6, Zenon DEF Listed, SqlEvents

LEMMA NoneAdded ==
  ASSUME MInv, Mirror, NEW q, NothingAdded(q)
  PROVE  SqlEvents(q, None) \subseteq Listed(MemoryEvents(q, None))
BY ListedFrom, FoundInMemory

LEMMA NoneMissed ==
  ASSUME MInv, Mirror, NEW q, NothingMissed(q)
  PROVE  Listed(MemoryEvents(q, None)) \subseteq SqlEvents(q, None)
BY ListedFrom, FoundInDatabase

(* The query for all events, and the filters of the statistics.            *)
LEMMA PlainQueries ==
  /\ NothingAdded(NoFilter) /\ NothingMissed(NoFilter)
  /\ \A q : NothingAdded(StatsFilter(q))
  /\ \A q : NothingMissed(q) => NothingMissed(StatsFilter(q))
<1>1. None \notin Unicode /\ None \notin DOMAIN Json
  BY RouteHistoryAssumption, Zenon
<1>2. ASSUME NEW q
      PROVE  /\ StatsFilter(q).text = None /\ StatsFilter(q).policy = q.policy
             /\ StatsFilter(q).provider = q.provider /\ StatsFilter(q).model = q.model
  BY DEF StatsFilter, NoFilter
<1>3. /\ NoFilter.text = None /\ NoFilter.policy = None /\ NoFilter.provider = None
      /\ NoFilter.model = None
  BY DEF NoFilter
<1>4. NothingAdded(NoFilter) /\ NothingMissed(NoFilter)
  BY <1>1, <1>3 DEF NothingAdded, NothingMissed
<1>5. ASSUME NEW q PROVE NothingAdded(StatsFilter(q))
  BY <1>2 DEF NothingAdded
<1>6. ASSUME NEW q, NothingMissed(q) PROVE NothingMissed(StatsFilter(q))
  BY <1>1, <1>2, <1>6 DEF NothingMissed
<1> QED
  BY <1>4, <1>5, <1>6

(* As texts, times in different seconds keep their order.                  *)
LEMMA TextOrder ==
  ASSUME NEW s \in Nat, NEW t \in Nat, ~(s >= t <=> AsText(s) >= AsText(t))
  PROVE  s \div 10 = t \div 10
BY DEF AsText

(* A cut-off in time is uncertain only in its own second.                  *)
LEMMA SameSecond ==
  ASSUME MInv, Mirror, NEW since \in Cutoffs
  PROVE  LET m == Listed(MemoryEvents(NoFilter, since))
             s == SqlEvents(NoFilter, since)
         IN  \A ev \in (m \ s) \cup (s \ m) : ev.at \div 10 = since \div 10
<1>1. PICK m, s : m = Listed(MemoryEvents(NoFilter, since)) /\ s = SqlEvents(NoFilter, since)
  OBVIOUS
<1>2. \A x \in rows : x.at \in Nat
  BY DEF MInv, SInv, RowsComplete, RowKnown, Past
<1>3. since \in Nat
  BY <1>2 DEF Cutoffs
<1>4. CASE since = None
  <2>1. PICK q : q = NoFilter
    OBVIOUS
  <2>2. NothingAdded(q) /\ NothingMissed(q)
    BY <2>1, PlainQueries
  <2>3. SqlEvents(q, None) = Listed(MemoryEvents(q, None))
    BY <2>2, NoneAdded, NoneMissed
  <2>4. m = s
    BY <1>1, <1>4, <2>1, <2>3, Zenon
  <2> QED
    BY <1>1, <2>4
<1>5. CASE since # None
  <2>1. PICK q : q = NoFilter
    OBVIOUS
  <2>2. /\ q.decision = None /\ q.success = None /\ q.policy = None /\ q.strategy = None
        /\ q.model = None /\ q.provider = None /\ q.status = None /\ q.text = None
        /\ q.routeOnly = FALSE
    BY <2>1 DEF NoFilter
  <2>3. \A i \in DOMAIN recent :
          /\ Row(recent[i]) \in rows /\ Row(recent[i]).at = recent[i].at
          /\ Rebuilt(Row(recent[i])) = recent[i]
    BY MirrorRow, Zenon
  <2>4. \A i \in DOMAIN recent : i \in MemoryEvents(q, since) <=> recent[i].at >= since
    BY <1>5, <2>2 DEF MemoryEvents, EventMatches, Asks, AsksFolded, Mirror, EventKnown
  <2>5. \A x \in rows : x \in SqlRows(q, since) <=> AsText(x.at) >= AsText(since)
    BY <1>5, <2>2 DEF SqlRows, SqlWhere, Asks, MInv, SInv, HInv, RowsKnown
  <2>6. \A ev : ev \in m <=> \E i \in DOMAIN recent : ev = recent[i] /\ ev.at >= since
    <3>1. PICK M : M = MemoryEvents(q, since)
      OBVIOUS
    <3>2. m = {recent[i] : i \in M} /\ M \subseteq DOMAIN recent
      BY <1>1, <2>1, <3>1 DEF Listed, MemoryEvents
    <3> QED
      BY <2>4, <3>1, <3>2
  <2>7. \A ev : ev \in s <=>
          \E i \in DOMAIN recent : ev = recent[i] /\ AsText(ev.at) >= AsText(since)
    <3>1. PICK S : S = SqlRows(q, since)
      OBVIOUS
    <3>2. s = {Rebuilt(x) : x \in S} /\ S \subseteq rows
      BY <1>1, <2>1, <3>1 DEF SqlEvents, SqlRows
    <3>3. \A x \in rows : \E i \in DOMAIN recent : x = Row(recent[i])
      BY DEF Mirror
    <3>4. \A ev \in s : \E i \in DOMAIN recent : ev = recent[i] /\ Row(recent[i]) \in S
      BY <2>3, <3>2, <3>3
    <3>5. \A i \in DOMAIN recent : Row(recent[i]) \in S => recent[i] \in s
      BY <2>3, <3>2
    <3>6. \A i \in DOMAIN recent : Row(recent[i]) \in S <=> AsText(recent[i].at) >= AsText(since)
      BY <2>3, <2>5, <3>1
    <3> QED
      BY <3>4, <3>5, <3>6
  <2>8. ASSUME NEW ev \in (m \ s) \cup (s \ m)
        PROVE  ev.at \div 10 = since \div 10
    <3>1. PICK i \in DOMAIN recent : ev = recent[i]
      BY <2>6, <2>7
    <3>2. ev.at \in Nat
      BY <1>2, <2>3, <3>1
    <3>3. ev \in m <=> ev.at >= since
      BY <2>6, <3>1
    <3>4. ev \in s <=> AsText(ev.at) >= AsText(since)
      BY <2>7, <3>1
    <3>5. ~(ev.at >= since <=> AsText(ev.at) >= AsText(since))
      BY <3>3, <3>4
    <3> QED
      BY <1>3, <3>2, <3>5, TextOrder
  <2> QED
    BY <1>1, <2>8
<1> QED
  BY <1>4, <1>5

(* The rows of the route statistics.                                       *)
LEMMA RouteRowsFrom ==
  ASSUME MInv, Mirror, NEW q
  PROVE  /\ SqlRouteRows(q, None) \subseteq MemoryRouteRows(q, None)
         /\ NothingMissed(q) => MemoryRouteRows(q, None) = SqlRouteRows(q, None)
<1>1. PICK f : f = StatsFilter(q)
  OBVIOUS
<1>2. f.routeOnly = FALSE
  BY <1>1 DEF StatsFilter, NoFilter
<1>3. MemoryRouteRows(q, None) = Listed(MemoryEvents(f, None))
  <2>1. ToSet(recent) = {recent[i] : i \in DOMAIN recent}
    BY DEF ToSet
  <2>2. \A ev : ev \in MemoryRouteRows(q, None) <=>
                  \E i \in DOMAIN recent : /\ ev = recent[i] /\ recent[i].reason # "no_policy"
                                           /\ EventMatches(recent[i], f, None)
    BY <1>1, <2>1 DEF MemoryRouteRows
  <2>3. \A ev : ev \in Listed(MemoryEvents(f, None)) <=>
                  \E i \in DOMAIN recent : /\ ev = recent[i] /\ recent[i].reason # "no_policy"
                                           /\ EventMatches(recent[i], f, None)
    BY <1>2 DEF Listed, MemoryEvents
  <2>4. \A ev : ev \in MemoryRouteRows(q, None) <=> ev \in Listed(MemoryEvents(f, None))
    BY <2>2, <2>3, Zenon
  <2> QED
    BY <2>4 DEF MemoryRouteRows, Listed
<1>4. SqlRouteRows(q, None) = SqlEvents(f, None)
  BY <1>1, JoinedAgain, Zenon DEF MInv, SqlEvents
<1>5. SqlEvents(f, None) \subseteq Listed(MemoryEvents(f, None))
  BY <1>1, NoneAdded, PlainQueries
<1>6. ASSUME NothingMissed(q)
      PROVE  Listed(MemoryEvents(f, None)) \subseteq SqlEvents(f, None)
  BY <1>1, <1>6, NoneMissed, PlainQueries
<1> QED
  BY <1>3, <1>4, <1>5, <1>6

(* While the memory is complete, memory and database list the same events  *)
(* with the same numbers for a query without letters that only Go folds,   *)
(* characters that JSON escapes or words that are only JSON; a query with  *)
(* one of these is answered by more on the one side only.  They give the   *)
(* same facets, and route statistics likewise; the average is rounded, and *)
(* a cut-off is uncertain in its own second (queryEventsV4,                *)
(* querySQLiteEventsV62, queryRouteStatsV83).                              *)
THEOREM SourcesAlwaysAgree == Spec => []SourcesAgree
<1>1. Init => MInv
  BY InitiallyMirror
<1>2. MInv /\ [Next]_vars => MInv'
  BY InductiveMirror
<1>3. MInv => SourcesAgree
  <2> SUFFICES ASSUME MInv, Complete PROVE SourcesAgree
    BY DEF SourcesAgree
  <2>1. Mirror
    BY DEF MInv
  <2>2. EventsAgree
    <3>1. \A q : /\ NothingAdded(q) =>
                      SqlEvents(q, None) \subseteq Listed(MemoryEvents(q, None))
                 /\ NothingMissed(q) =>
                      Listed(MemoryEvents(q, None)) \subseteq SqlEvents(q, None)
                 /\ NothingAdded(q) /\ NothingMissed(q) =>
                      /\ MemoryStats(q, None) = SqlStats(q, None)
                      /\ SqlAverage(q, None) - MemoryAverage(q, None) \in {0, 1}
      BY <2>1, NoneAdded, NoneMissed, SameStats, CloseAverages
    <3>2. MemoryFacets = SqlFacets
      BY <2>1, SameFacets
    <3> QED
      BY <2>1, <3>1, <3>2, SameSecond, Zenon DEF EventsAgree
  <2>3. ASSUME NEW q
        PROVE  /\ SqlRouteRows(q, None) \subseteq MemoryRouteRows(q, None)
               /\ NothingMissed(q) =>
                    Aggregate(MemoryRouteRows(q, None)) = Aggregate(SqlRouteRows(q, None))
    <3>1. /\ SqlRouteRows(q, None) \subseteq MemoryRouteRows(q, None)
          /\ NothingMissed(q) => MemoryRouteRows(q, None) = SqlRouteRows(q, None)
      BY <2>1, RouteRowsFrom
    <3> QED
      BY <3>1, Zenon
  <2> QED
    BY <2>2, <2>3, Zenon DEF SourcesAgree
<1> QED
  BY <1>1, <1>2, <1>3, PTL DEF Spec
==============================================================================
