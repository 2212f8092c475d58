------------------------------ MODULE Routing ------------------------------
(***************************************************************************)
(* From model.route to the event in the history (v4_routing.go,            *)
(* v4_state.go, v4_observability.go).  The host asks model.route whether   *)
(* the plugin takes a request, and calls the executor later when it does;  *)
(* the executor looks policy and rule up again.  Operators edit policies   *)
(* and the host reloads the plugin in between.                             *)
(*                                                                         *)
(* The loop over the candidates is one step here (FailoverChain models it):*)
(* only the attempts it leaves in the event matter.  Events reach memory   *)
(* and database in the same step (EventLog models their way).              *)
(*                                                                         *)
(* Times count tenths of a second.                                         *)
(***************************************************************************)
EXTENDS RuleMatch

CONSTANTS
  Requests,
  Keys,         \* downstream keys
  Providers,
  Candidates,   \* names
  Documents,    \* the policies that operators save and state files hold
  Reloads,      \* records: what a reload finds, enabled and the document or None
  Failures,     \* records: status and error of an attempt that fails
  Duration,     \* of an execution, and the time between events
  MaxEdits,     \* bound on the edits and reloads
  None

CPADefault == "CPA Default"

Candidate == [name : Candidates, provider : Providers, oauth : BOOLEAN, enabled : BOOLEAN]

\* fallback: whether failures, or only the end of the candidates, lead to CPA's default.
Rule ==
  [patterns : SUBSET Pattern, ranked : BOOLEAN, candidates : SUBSET Candidate,
   fallback : {"never", "action", "exhausted"}]

Policy ==
  [enabled : BOOLEAN, affinity : {"off", "strict", "other"}, client : Providers \cup {None},
   rules : Seq(Rule)]

ASSUME RoutingAssumption ==
  /\ None \notin Keys \cup Providers \cup Candidates
  /\ IsFiniteSet(Keys) /\ IsFiniteSet(Candidates)
  /\ Documents \subseteq Policy
  /\ \A p \in Documents : /\ Len(p.rules) <= MaxRules
                          /\ \A i \in DOMAIN p.rules : IsFiniteSet(p.rules[i].candidates)
  /\ Reloads \subseteq [enabled : BOOLEAN, document : Documents \cup {None}]
  /\ Failures \subseteq [status : {0} \cup 400 .. 599, error : STRING]
  /\ Duration \in Nat \ {0} /\ MaxEdits \in Nat

VARIABLES
  on,        \* the plugin is enabled in CPA's configuration
  policies,  \* per key, its policy or None
  requests,
  clock,
  recent,    \* the events in memory, in the order of their completion
  rows,      \* routing_events
  attempts,  \* routing_attempts
  edits,     \* the edits and reloads so far
  loads,     \* history: the reloads so far
  trusted    \* history: every policy so far has passed validatePolicy

events == <<recent, rows, attempts>>
vars == <<on, policies, requests, clock, events, edits, loads, trusted>>

----------------------------------------------------------------------------
(* Candidates and policies.                                                *)

Allowed(p, c) ==
  CASE p.affinity = "off"    -> TRUE
    [] p.affinity = "strict" -> c.oauth \/ (p.client # None /\ c.provider = p.client)
    [] p.affinity = "other"  -> FALSE

Enabled(rule) == {c \in rule.candidates : c.enabled}

\* What the ranking orders.
Eligible(p, rule) == {c \in Enabled(rule) : Allowed(p, c)}

\* The places where patterns of a kind stand.
Places(p, kind) ==
  UNION {{i} \X {q \in p.rules[i].patterns : q.kind = kind} : i \in DOMAIN p.rules}

\* Faulty variant: one allowed candidate is enough for each rule.
Valid_Some(p) ==
  /\ p.affinity \in {"off", "strict"}
  /\ p.affinity = "strict" => p.client # None
  /\ p.rules # <<>>
  /\ \E i \in DOMAIN p.rules : p.rules[i].ranked => Eligible(p, p.rules[i]) # {}

\* validatePolicy; the patterns of one rule are a set already (normalizeV4Models).
Valid(p) ==
  /\ p.affinity \in {"off", "strict"}
  /\ p.affinity = "strict" => p.client # None
  /\ p.rules # <<>>
  /\ \A i \in DOMAIN p.rules : p.rules[i].ranked =>
       /\ Enabled(p.rules[i]) # {}
       /\ p.affinity = "strict" => \A c \in Enabled(p.rules[i]) : Allowed(p, c)
  /\ Cardinality(Places(p, "star")) <= 1
  /\ \A s, t \in Places(p, "exact") : s[2].covers = t[2].covers => s = t

\* findPolicyRuleV4 treats a disabled policy as none.
FindPolicy(k) ==
  IF policies[k] # None /\ policies[k].enabled THEN policies[k] ELSE None

----------------------------------------------------------------------------
(* Events.                                                                 *)

\* A new event of request r that says nothing yet; every handler draws a trace of its own.
Event(r, handler, k, model) ==
  [trace |-> <<r, handler>>, at |-> clock + Duration, decision |-> "bypass", reason |-> "",
   key |-> k, policy |-> None, strategy |-> None, model |-> model, provider |-> None, status |-> 0,
   duration |-> 0, success |-> FALSE, error |-> "", reasons |-> {}, attempts |-> <<>>]

Strategy(rule) == IF rule.ranked THEN "ranked" ELSE "cpa-default"

\* Faulty variant: an unknown key is recorded too.
Prepared_KeepsAll(ev) == {ev}

\* prepareObservationV6: an event without a policy is dropped, or labelled by what the
\* policies are by now.
Prepared(ev) ==
  IF ev.reason # "no_policy" THEN {ev}
  ELSE IF policies[ev.key] = None THEN {}
  ELSE {[ev EXCEPT !.policy = ev.key,
                   !.reason = IF policies[ev.key].enabled THEN "policy_lookup_miss"
                              ELSE "policy_disabled"]}

\* The reasons are a column of JSON text, which is decoded again when it is read.
Row(ev) == [f \in DOMAIN ev \ {"attempts"} |-> ev[f]]

AttemptRows(ev) ==
  {[trace |-> ev.trace, sequence |-> i, attempt |-> ev.attempts[i]] : i \in DOMAIN ev.attempts}

\* observeV4, with insert at the end of the queue.
Observe(ev) ==
  \E kept \in {Prepared(ev)} :
    \/ kept = {} /\ UNCHANGED events
    \/ \E e \in kept :
         /\ recent' = Append(recent, e)
         /\ rows' = {x \in rows : x.trace # e.trace} \cup {Row(e)}
         /\ attempts' = {a \in attempts : a.trace # e.trace} \cup AttemptRows(e)

----------------------------------------------------------------------------

Idle == [at |-> "idle"]
Done(how) == [at |-> "done", how |-> how]
Routed(k, model) == [at |-> "routed", key |-> k, model |-> model]

Init ==
  /\ on = TRUE
  /\ policies \in [Keys -> Documents \cup {None}]
  /\ requests = [r \in Requests |-> Idle]
  /\ clock = 0
  /\ recent = <<>> /\ rows = {} /\ attempts = {}
  /\ edits = 0 /\ loads = 0
  /\ trusted = \A k \in Keys : policies[k] # None => Valid(policies[k])

Goes(r, state) == requests' = [requests EXCEPT ![r] = state]

Passes == clock' = clock + Duration

settings == <<on, policies, edits, loads, trusted>>

\* handleModelRouteV4 of a disabled plugin, or without a key.
Ignore(r) ==
  /\ requests[r] = Idle
  /\ Goes(r, Done("ignored"))
  /\ UNCHANGED <<settings, clock, events>>

\* Why the plugin does not take a request, or takes it only to fail it.
RouteReason(p, model) ==
  IF p = None THEN "no_policy"
  ELSE LET i == FindRule(p.rules, model)
       IN  CASE i = 0                        -> "no_matching_rule"
             [] i # 0 /\ ~p.rules[i].ranked  -> "rule_cpa_default"
             [] i # 0 /\ p.rules[i].ranked   ->
                  IF p.affinity \notin {"off", "strict"} THEN "unsupported_client_affinity"
                  ELSE IF Eligible(p, p.rules[i]) = {} THEN "no_enabled_candidates"
                  ELSE "policy"

\* handleModelRouteV4 takes the request and leaves the event to the executor.
Accept(r, k, model) ==
  /\ requests[r] = Idle /\ on
  /\ RouteReason(FindPolicy(k), model) = "policy"
  /\ Goes(r, Routed(k, model))
  /\ UNCHANGED <<settings, clock, events>>

\* An unknown client affinity is left to the executor too.
Refused(p, model) == RouteReason(p, model) = "unsupported_client_affinity"

\* What handleModelRouteV4 records of a request that the executor does not record.
RouteEvent(r, k, model) ==
  LET p == FindPolicy(k)
      reason == RouteReason(p, model)
      i == IF p = None THEN 0 ELSE FindRule(p.rules, model)
  IN  [Event(r, "route", k, model) EXCEPT
         !.decision = IF Refused(p, model) THEN "handled" ELSE "bypass",
         !.reason = reason,
         !.policy = IF p = None THEN None ELSE k,
         !.strategy = IF i = 0 THEN None ELSE Strategy(p.rules[i]),
         !.success = ~Refused(p, model) /\ reason # "no_enabled_candidates",
         !.error = IF Refused(p, model) THEN "unsupported" ELSE ""]

AfterRoute(k, model) ==
  IF Refused(FindPolicy(k), model) THEN Routed(k, model) ELSE Done("bypassed")

\* handleModelRouteV4 creates an event of its own.
Decide(r, k, model) ==
  /\ requests[r] = Idle /\ on
  /\ RouteReason(FindPolicy(k), model) # "policy"
  /\ Goes(r, [at |-> "observing", event |-> RouteEvent(r, k, model),
              next |-> AfterRoute(k, model)])
  /\ Passes
  /\ UNCHANGED <<settings, events>>

\* The event of model.route is observed under another lock than the lookup's.
ObserveRoute(r) ==
  /\ requests[r].at = "observing"
  /\ Observe(requests[r].event)
  /\ Goes(r, requests[r].next)
  /\ UNCHANGED <<settings, clock>>

\* What handleExecuteV4 can serve.
Servable(p, model) ==
  p # None /\ FindRule(p.rules, model) # 0 /\ p.rules[FindRule(p.rules, model)].ranked

\* handleExecuteV4 looks up the policy, with the model that the body names, and ranks.
Execute(r, named) ==
  /\ requests[r].at = "routed"
  /\ LET k == requests[r].key
         p == FindPolicy(k)
     IN  /\ Servable(p, named)
         /\ Goes(r, [at |-> "running", key |-> k, model |-> named, policy |-> p,
                     rule |-> FindRule(p.rules, named),
                     event |-> Event(r, "execute", k, named)])
  /\ Passes
  /\ UNCHANGED <<settings, events>>

Refuse(r, named) ==
  /\ requests[r].at = "routed"
  /\ ~Servable(FindPolicy(requests[r].key), named)
  /\ Goes(r, Done("refused"))
  /\ UNCHANGED <<settings, clock, events>>

----------------------------------------------------------------------------
(* The end of an execution, and its event.                                 *)

Attempt(name, provider, status, error) ==
  [candidate |-> name, provider |-> provider, status |-> status, error |-> error]

\* The attempts that fail: distinct candidates in any order, each with its failure.
Trials(E) ==
  {t \in UNION {[1 .. n -> E \X Failures] : n \in 0 .. Cardinality(E)} :
     \A i, j \in DOMAIN t : t[i][1] = t[j][1] => i = j}

Failed(t) ==
  [i \in DOMAIN t |-> LET c == t[i][1] f == t[i][2]
                      IN  Attempt(c.name, c.provider, f.status, f.error)]

TriedIn(t) == {t[i][1] : i \in DOMAIN t}

\* A failure without a text is an answer with a failing status.
ErrorOf(f) == IF f.error = "" THEN "status" ELSE f.error

LastError(t) == IF t = <<>> THEN "none left" ELSE ErrorOf(t[Len(t)][2])

RuleOf(run) == run.policy.rules[run.rule]
Ranking(run) == Eligible(run.policy, RuleOf(run))

\* The event of a run at its end, before what its attempts say.
Ended(run) ==
  [run.event EXCEPT !.decision = "handled", !.policy = run.key,
     !.strategy = Strategy(RuleOf(run)), !.duration = clock + Duration - run.event.at]

\* Candidate c serves the request after trials t, or its stream breaks after a payload.
Served(run, t, c) ==
  LET ev == [Ended(run) EXCEPT !.attempts =
               Append(Failed(t), Attempt(c.name, c.provider, 200, ""))]
  IN  {[ev EXCEPT !.provider = c.provider, !.status = 200, !.success = TRUE],
       [ev EXCEPT !.error = "broken"]}

\* No candidate is left after trials t, or a failure stops the loop.
Exhausted(run, t) ==
  [Ended(run) EXCEPT !.attempts = Failed(t), !.reason = "candidates_exhausted",
                     !.error = LastError(t)]

AskedDefault(run, t, status, error) ==
  [Ended(run) EXCEPT !.decision = "fallback", !.reason = "policy_fallback_to_cpa",
     !.attempts = Append(Failed(t), Attempt(CPADefault, None, status, error))]

\* A call takes a failing status of CPA's default for a failure, a stream does not.
DefaultAnswers(run, t, status) ==
  LET ev == [AskedDefault(run, t, status, "") EXCEPT !.status = status]
  IN  {[ev EXCEPT !.success = (status < 400)], [ev EXCEPT !.success = TRUE]}

DefaultFails(run, t, status, error, text) ==
  [AskedDefault(run, t, status, error) EXCEPT !.error = text]

\* CPA's default answers, breaks after a payload, or fails.
ByDefault(run, t) ==
  DefaultAnswers(run, t, 200)
  \cup (UNION {DefaultAnswers(run, t, f.status) : f \in {x \in Failures : x.status # 0}})
  \cup {DefaultFails(run, t, 200, "", "broken")}
  \cup {DefaultFails(run, t, f.status, f.error, f.error) : f \in {x \in Failures : x.error # ""}}

FallsBack(rule, t) ==
  rule.fallback = "exhausted" \/ (rule.fallback = "action" /\ t # <<>>)

\* What the executor may record of a run.
Outcomes(run) ==
  LET T == Trials(Ranking(run)) rule == RuleOf(run)
  IN  (UNION {UNION {Served(run, t, c) : c \in Ranking(run) \ TriedIn(t)} : t \in T})
      \cup {Exhausted(run, t) : t \in {x \in T : rule.fallback # "exhausted"}}
      \cup (UNION {ByDefault(run, t) : t \in {x \in T : FallsBack(rule, x)}})

\* Why the candidates were selected (enrichRoutingSelectionReasonsV6, in observeV4): a text
\* for each attempt, which names the attempted candidate with those that were skipped for
\* their health, if there were any, or else the one that failed before it.
Reasons(run, ev) ==
  LET n == Len(ev.attempts)
      Chosen(i) == ev.attempts[i].candidate
      Left(i) == {c.name : c \in Ranking(run)} \ {Chosen(j) : j \in 1 .. i}
      Skips == {s \in [1 .. n -> SUBSET {c.name : c \in Ranking(run)}] :
                  \A i \in 1 .. n : s[i] \subseteq IF Chosen(i) = CPADefault THEN {} ELSE Left(i)}
      Named(i, skipped) ==
        IF skipped # {} THEN skipped \cup {Chosen(i)}
        ELSE IF i > 1 THEN {Chosen(i - 1)} ELSE {}
  IN  IF n = 0 THEN {{}}
      ELSE {{"selected"} \cup UNION {Named(i, s[i]) : i \in 1 .. n} : s \in Skips}

Explained(run) ==
  UNION {{[ev EXCEPT !.reasons = reasons] : reasons \in Reasons(run, ev)} : ev \in Outcomes(run)}

\* runNonStreamPolicyV4 and runStreamPolicyV4 end, and observe their event.
Finish(r) ==
  /\ requests[r].at = "running"
  /\ \E ev \in Explained(requests[r]) : Observe(ev)
  /\ Goes(r, Done("served"))
  /\ Passes
  /\ UNCHANGED settings

\* The client of a stream has gone, or the execution panics: there is no event.
Abandon(r) ==
  /\ requests[r].at = "running"
  /\ Goes(r, Done("abandoned"))
  /\ UNCHANGED <<settings, clock, events>>

----------------------------------------------------------------------------
(* Operators.                                                              *)

\* Bound: edits come while a request is under way; the others are like other initial states.
Edits ==
  /\ edits < MaxEdits /\ edits' = edits + 1
  /\ \E r \in Requests : requests[r].at \in {"observing", "routed", "running"}

SavePolicy(k, p) ==
  /\ Edits /\ Valid(p)
  /\ policies' = [policies EXCEPT ![k] = p]
  /\ UNCHANGED <<on, requests, clock, events, loads, trusted>>

DeletePolicy(k) ==
  /\ Edits /\ policies[k] # None
  /\ policies' = [policies EXCEPT ![k] = None]
  /\ UNCHANGED <<on, requests, clock, events, loads, trusted>>

\* configureV4 takes what the state file holds and empties the memory.
Reload(k, found) ==
  /\ Edits
  /\ on' = found.enabled
  /\ policies' = [policies EXCEPT ![k] = found.document]
  /\ recent' = <<>>
  /\ loads' = loads + 1
  /\ trusted' = (trusted /\ (found.document # None => Valid(found.document)))
  /\ UNCHANGED <<requests, clock, rows, attempts>>

Next ==
  \/ \E r \in Requests :
       \/ Ignore(r) \/ ObserveRoute(r) \/ Finish(r) \/ Abandon(r)
       \/ \E k \in Keys, model \in Models : Accept(r, k, model) \/ Decide(r, k, model)
       \/ \E model \in Models : Execute(r, model) \/ Refuse(r, model)
  \/ \E k \in Keys, p \in Documents : SavePolicy(k, p)
  \/ \E k \in Keys : DeletePolicy(k)
  \/ \E k \in Keys, found \in Reloads : Reload(k, found)

Spec == Init /\ [][Next]_vars

----------------------------------------------------------------------------
(* Properties.                                                             *)

\* A request is served by the rule with the most specific pattern for the model it runs
\* with: an exact name before a glob, a longer glob before a shorter, "*" last, and the
\* earlier rule among equals (findPolicyRuleV4 packs all this into one number).
MostSpecificServes ==
  \A r \in Requests : requests[r].at = "running" =>
    MostSpecific(requests[r].policy.rules, requests[r].model, requests[r].rule)

\* While every policy has come through save_policy, no request runs with an empty ranking
\* and none is turned away for want of candidates or for its client affinity, whatever is
\* edited between model.route and the execution (validatePolicy, handleExecuteV4).
ValidatedNeverEmpty ==
  trusted =>
    /\ \A r \in Requests : requests[r].at = "running" =>
         Eligible(requests[r].policy, requests[r].policy.rules[requests[r].rule]) # {}
    /\ \A x \in rows : x.reason \notin {"no_enabled_candidates", "unsupported_client_affinity"}

RowsOf(r) == {x \in rows : x.trace[1] = r}

\* A served request leaves exactly one event, of its execution, any other at most one of
\* model.route, under a policy that the key had; only an unknown client affinity, which
\* validatePolicy refuses, leaves two (observeV4 is called in both handlers).
OneEventEach ==
  /\ \A r \in Requests :
       /\ trusted => Cardinality(RowsOf(r)) <= 1
       /\ requests[r] = Done("served") => \E x \in RowsOf(r) : x.trace[2] = "execute"
       /\ requests[r] \in {Idle, Done("ignored")} => RowsOf(r) = {}
  /\ \A x \in rows : x.policy = x.key /\ x.reason # "no_policy"
=============================================================================
