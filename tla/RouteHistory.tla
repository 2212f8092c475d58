---------------------------- MODULE RouteHistory ----------------------------
(***************************************************************************)
(* What the management page reads: the events with their statistics and    *)
(* facets (v4_management_events.go, v062_sqlite_query.go) and the route    *)
(* statistics (v083_route_stats.go).  Both are written twice, in Go over   *)
(* the events in memory and in SQL over two tables; the page does not say  *)
(* which of the two it shows.                                              *)
(*                                                                         *)
(* A query is a record of filters, None where there is none.  Bounds of    *)
(* what is returned (1000 events, 12 candidates, 10 paths) are left out.   *)
(***************************************************************************)
EXTENDS Routing, SequencesExt

CONSTANTS
  Queries,   \* the filters that are asked for
  Delays,    \* between the latest event and a query
  Lower,     \* of the texts with capitals beyond ASCII: with small letters for them
  Json       \* of the texts with characters that JSON escapes: with the escapes

\* The texts of which Go and SQLite disagree whether they are alike but for capitals.
Unicode == DOMAIN Lower \cup {Lower[t] : t \in DOMAIN Lower}

\* The texts that occur in the JSON of a list of texts ("[" stands for its brackets, quotes
\* and commas), but in none of the texts.
JsonOnly == {"null", "["} \cup {Json[t] : t \in DOMAIN Json}

Terms == Keys \cup Models \cup Providers \cup Candidates \cup Unicode

Query ==
  [decision : {"handled", "fallback", "bypass", None}, success : BOOLEAN \cup {None},
   policy : Terms \cup {None}, strategy : {"ranked", "cpa-default", None},
   provider : Terms \cup {None}, model : Terms \cup {None},
   status : {"2xx", "4xx", "5xx", "error", None},
   text : STRING \cup Terms \cup JsonOnly \cup {None},
   routeOnly : BOOLEAN]

NoFilter ==
  [decision |-> None, success |-> None, policy |-> None, strategy |-> None, provider |-> None,
   model |-> None, status |-> None, text |-> None, routeOnly |-> FALSE]

ASSUME RouteHistoryAssumption ==
  /\ Queries \subseteq Query /\ Delays \subseteq Nat
  /\ \A t \in DOMAIN Lower : Lower[t] \notin DOMAIN Lower
  /\ None \notin Unicode \cup DOMAIN Json \cup JsonOnly

Asks(filter, value) == filter \in {None, value}

Routes(x) == x.decision \in {"handled", "fallback"}

\* The middle of eventStatusMatchesV6 and of the switch in sqliteWhereV62.
InBucket(x, bucket) ==
  \/ bucket = "2xx" /\ x.status \in 200 .. 299
  \/ bucket = "4xx" /\ x.status \in 400 .. 499
  \/ bucket = "5xx" /\ x.status \in 500 .. 599
  \/ bucket = "error" /\ (~x.success \/ x.status = 0)

\* The position of the 95th percentile among n durations in ascending order.
Percentile95(n) == (n * 95 + 99) \div 100

----------------------------------------------------------------------------
(* In memory.                                                              *)

\* strings.ToLower, and what strings.EqualFold compares.  (Letters of ASCII are left out:
\* Go and SQLite fold them alike.)
Lowered(t) == IF t \in DOMAIN Lower THEN Lower[t] ELSE t

AsksFolded(filter, value) == filter = None \/ Lowered(filter) = Lowered(value)

HasProvider(ev, provider) ==
  \/ Lowered(ev.provider) = Lowered(provider)
  \/ \E i \in DOMAIN ev.attempts : Lowered(ev.attempts[i].provider) = Lowered(provider)

\* The texts that a search looks through, besides the reasons.
TextsOf(x) == {x.decision, x.reason, x.policy, x.strategy, x.model, x.provider, x.error}

AttemptTexts(a) == {a.candidate, a.provider, a.error}

\* eventSearchTextV6
SearchTexts(ev) ==
  TextsOf(ev) \cup ev.reasons \cup UNION {AttemptTexts(a) : a \in ToSet(ev.attempts)}

EventMatches(ev, q, since) ==
  /\ since # None => ev.at >= since
  /\ Asks(q.decision, ev.decision) /\ Asks(q.success, ev.success)
  /\ AsksFolded(q.policy, ev.policy) /\ Asks(q.strategy, ev.strategy)
  /\ AsksFolded(q.model, ev.model)
  /\ q.provider # None => HasProvider(ev, q.provider)
  /\ q.status # None => InBucket(ev, q.status)
  /\ q.text # None => \E t \in SearchTexts(ev) : Lowered(t) = Lowered(q.text)

\* The positions in memory of what queryEventsV4 selects; the order in which the page
\* lists them is left out.
MemoryEvents(q, since) ==
  {i \in DOMAIN recent : /\ recent[i].reason # "no_policy"
                         /\ q.routeOnly => Routes(recent[i])
                         /\ EventMatches(recent[i], q, since)}

Listed(m) == {recent[i] : i \in m}

\* The positions of m, the shortest duration first.
ByDuration(m) ==
  CHOOSE s \in [1 .. Cardinality(m) -> m] :
    \A i, j \in DOMAIN s :
      i < j => s[i] # s[j] /\ recent[s[i]].duration <= recent[s[j]].duration

MemoryStats(q, since) ==
  LET m == MemoryEvents(q, since)
      n == Cardinality(m)
      Number(decision) == Cardinality({i \in m : recent[i].decision = decision})
      good == Cardinality({i \in m : recent[i].success})
  IN  [total |-> n, handled |-> Number("handled"), fallback |-> Number("fallback"),
       bypass |-> Number("bypass"), success |-> good, failed |-> n - good,
       attempts |-> SumFunction([i \in m |-> Len(recent[i].attempts)]),
       p95 |-> IF m = {} THEN 0 ELSE recent[ByDuration(m)[Percentile95(n)]].duration]

\* The average is truncated.
MemoryAverage(q, since) ==
  LET m == MemoryEvents(q, since)
  IN  IF m = {} THEN 0 ELSE SumFunction([i \in m |-> recent[i].duration]) \div Cardinality(m)

MemoryFacets ==
  LET all == {ev \in ToSet(recent) : ev.reason # "no_policy"}
      Known(values) == values \ {None}
  IN  [policies |-> Known({ev.policy : ev \in all}),
       strategies |-> Known({ev.strategy : ev \in all}),
       models |-> Known({ev.model : ev \in all}),
       providers |-> Known({ev.provider : ev \in all} \cup
                           UNION {{a.provider : a \in ToSet(ev.attempts)} : ev \in all})]

----------------------------------------------------------------------------
(* In the database.                                                        *)

\* Times as texts, in tenths: RFC3339Nano omits a fraction of zero, and the "Z" that
\* follows then sorts after every fraction of the same second.
AsText(time) == IF time % 10 = 0 THEN time + 10 ELSE time

AttemptsOf(x) == {a \in attempts : a.trace = x.trace}

\* The column selection_reasons.
JsonTexts(reasons) ==
  IF reasons = {} THEN {"null"}
  ELSE {"["} \cup {IF t \in DOMAIN Json THEN Json[t] ELSE t : t \in reasons}

\* Faulty variant: the reasons are not searched.
RowTexts_NoReasons(x) == TextsOf(x)

\* The texts that a search looks through in a row.
RowTexts(x) == TextsOf(x) \cup JsonTexts(x.reasons)

\* sqliteWhereV62, which compares times as texts.  SQLite's lower knows ASCII only; the text
\* of a search has been through strings.ToLower.
SqlWhere(x, q, since) ==
  /\ x.reason # "no_policy"
  /\ q.routeOnly => Routes(x)
  /\ since # None => AsText(x.at) >= AsText(since)
  /\ Asks(q.decision, x.decision) /\ Asks(q.success, x.success)
  /\ Asks(q.policy, x.policy) /\ Asks(q.strategy, x.strategy) /\ Asks(q.model, x.model)
  /\ q.provider # None =>
       x.provider = q.provider \/ \E a \in AttemptsOf(x) : a.attempt.provider = q.provider
  /\ q.status # None => InBucket(x, q.status)
  /\ q.text # None =>
       \/ Lowered(q.text) \in RowTexts(x)
       \/ \E a \in AttemptsOf(x) : Lowered(q.text) \in AttemptTexts(a.attempt)

SqlRows(q, since) == {x \in rows : SqlWhere(x, q, since)}

InSequence(found) ==
  LET s == CHOOSE s \in [1 .. Cardinality(found) -> found] :
             \A i, j \in DOMAIN s : i < j => s[i].sequence < s[j].sequence
  IN  [i \in DOMAIN s |-> s[i].attempt]

\* A row with the attempts that were found for it.
With(x, found) ==
  [f \in DOMAIN x \cup {"attempts"} |-> IF f = "attempts" THEN InSequence(found) ELSE x[f]]

\* The attempts are read by a second query.
Rebuilt(x) == With(x, AttemptsOf(x))

SqlEvents(q, since) == {Rebuilt(x) : x \in SqlRows(q, since)}

SqlStats(q, since) ==
  LET S == SqlRows(q, since)
      Number(decision) == Cardinality({x \in S : x.decision = decision})
      Below(d) == Cardinality({x \in S : x.duration < d})
      UpTo(d) == Cardinality({x \in S : x.duration <= d})
      n == Percentile95(Cardinality(S))
  IN  [total |-> Cardinality(S), handled |-> Number("handled"), fallback |-> Number("fallback"),
       bypass |-> Number("bypass"), success |-> Cardinality({x \in S : x.success}),
       failed |-> Cardinality({x \in S : ~x.success}),
       attempts |-> Cardinality(UNION {AttemptsOf(x) : x \in S}),
       p95 |-> IF S = {} THEN 0
               ELSE CHOOSE d \in {x.duration : x \in S} : Below(d) < n /\ n <= UpTo(d)]

\* The average is rounded.
SqlAverage(q, since) ==
  LET S == SqlRows(q, since)
      n == Cardinality(S)
      sum == SumFunction([x \in S |-> x.duration])
  IN  IF S = {} THEN 0 ELSE (2 * sum + n) \div (2 * n)

\* The attempts are not joined with their events: nothing but events has attempts.
SqlFacets ==
  LET shown == {x \in rows : x.reason # "no_policy"}
      Known(values) == values \ {None}
  IN  [policies |-> Known({x.policy : x \in shown}),
       strategies |-> Known({x.strategy : x \in shown}),
       models |-> Known({x.model : x \in shown}),
       providers |-> Known({x.provider : x \in shown} \cup {a.attempt.provider : a \in attempts})]

----------------------------------------------------------------------------
(* What the two have in common.                                            *)

\* The memory holds all events: it is empty after a reload.
Complete == loads = 0

Quiet == \A r \in Requests : requests[r].at \in {"idle", "done"}

\* The cut-offs that can matter.
Cutoffs == UNION {{x.at, x.at + 3} : x \in rows}

\* No event is found by the database alone: no text is searched for that is only JSON.
NothingAdded(q) == q.text # None => Lowered(q.text) \notin JsonOnly

\* No event is found in memory alone: nothing is asked for with letters that only Go folds,
\* or that JSON escapes.
NothingMissed(q) ==
  {q.policy, q.provider, q.model, q.text} \cap Unicode = {} /\ q.text \notin DOMAIN Json

\* The database lists no other events than the memory, with the same attempts, and no
\* fewer, but for the queries above; both give the same numbers and the same facets; the
\* average duration differs by its rounding, and a cut-off in time only on events of the
\* cut-off's own second.
EventsAgree ==
  /\ \A q \in Queries :
       LET m == Listed(MemoryEvents(q, None))
           s == SqlEvents(q, None)
       IN  /\ NothingAdded(q) => s \subseteq m
           /\ NothingMissed(q) => m \subseteq s
           /\ NothingAdded(q) /\ NothingMissed(q) =>
                /\ MemoryStats(q, None) = SqlStats(q, None)
                /\ SqlAverage(q, None) - MemoryAverage(q, None) \in {0, 1}
  /\ MemoryFacets = SqlFacets
  /\ \A since \in Cutoffs :
       LET m == Listed(MemoryEvents(NoFilter, since))
           s == SqlEvents(NoFilter, since)
       IN  \A ev \in (m \ s) \cup (s \ m) : ev.at \div 10 = since \div 10
=============================================================================
