---------------------------- MODULE MCRouteStats ----------------------------
(* Small instances of RouteStats. *)
EXTENDS RouteStats, TLC

Symmetry == Permutations(Requests)

CONSTANTS m1, m2, px, py, ca, cb

Exact(m) == [kind |-> "exact", length |-> 2, covers |-> {m}]
Glob(n, models) == [kind |-> "glob", length |-> n, covers |-> models]
Star == [kind |-> "star", length |-> 0, covers |-> Models]

\* A has the provider of the client type, B is an OAuth account of another.
A == [name |-> ca, provider |-> px, oauth |-> FALSE, enabled |-> TRUE]
B == [name |-> cb, provider |-> py, oauth |-> TRUE, enabled |-> TRUE]
Foreign == [B EXCEPT !.oauth = FALSE]

Ranked(patterns, candidates, fallback) ==
  [patterns |-> patterns, ranked |-> TRUE, candidates |-> candidates, fallback |-> fallback]

Default(patterns) ==
  [patterns |-> patterns, ranked |-> FALSE, candidates |-> {}, fallback |-> "never"]

Saved(affinity, client, rules) ==
  [enabled |-> TRUE, affinity |-> affinity, client |-> client, rules |-> rules]

\* Names, globs of two lengths and "*" against each other, in both orders; strict affinity;
\* disabled; then documents that validatePolicy refuses.
Unlimited == Saved("off", None, <<Ranked({Glob(1, Models), Glob(2, {m2})}, {A}, "action"),
                                  Default({Exact(m2)})>>)
Strict == Saved("strict", px, <<Default({Star}), Ranked({Exact(m1)}, {A, B}, "never")>>)
Disabled == [Saved("off", None, <<Ranked({Star}, {A}, "action")>>) EXCEPT !.enabled = FALSE]
TurnedAway ==
  Saved("strict", px, <<Ranked({Glob(1, Models)}, {Foreign}, "exhausted"),
                       Ranked({Star, Glob(2, {m1})}, {A, Foreign}, "never")>>)
Unknown == Saved("other", None, <<Ranked({Exact(m1)}, {A}, "exhausted")>>)

SavedPolicies == {Unlimited, Strict, Disabled, TurnedAway, Unknown}

SomeReloads ==
  {[enabled |-> TRUE, document |-> p] : p \in {None, TurnedAway}}
    \cup {[enabled |-> FALSE, document |-> Unknown]}

\* The name of cb begins with a capital beyond ASCII, and so does py; that of ca has a
\* character that JSON escapes.
SomeLower == (cb :> "cb") @@ (py :> "py")
SomeJson == ca :> "escaped"

\* The host names the status in its error.
SomeFailures == {[status |-> 503, error |-> "timeout"]}

SomeQueries ==
  {NoFilter, [NoFilter EXCEPT !.routeOnly = TRUE]}
    \cup {[NoFilter EXCEPT !.decision = d] : d \in {"handled", "bypass"}}
    \cup {[NoFilter EXCEPT !.success = s] : s \in BOOLEAN}
    \cup {[NoFilter EXCEPT !.strategy = "ranked"], [NoFilter EXCEPT !.model = m1]}
    \cup {[NoFilter EXCEPT !.provider = p] : p \in {px, py, "py"}}
    \cup {[NoFilter EXCEPT !.status = s] : s \in {"2xx", "5xx", "error"}}
    \cup {[NoFilter EXCEPT !.text = t] : t \in {ca, "escaped", cb, "cb", "null", "selected"}}
    \cup {[NoFilter EXCEPT !.provider = px, !.success = TRUE, !.status = "2xx"]}
=============================================================================
