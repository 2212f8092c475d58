----------------------------- MODULE RouteStats -----------------------------
(***************************************************************************)
(* The statistics of the routed requests (v083_route_stats.go): rows from  *)
(* the memory or from one joined SQL query, one aggregation over them, and *)
(* a trend of twelve buckets.                                              *)
(***************************************************************************)
EXTENDS RouteHistory

Minute == 600
Buckets == 12

\* routeStatRowsMemoryV83 ignores the other filters, routeStatsSQLiteWhereV83 as well.
StatsFilter(q) ==
  [NoFilter EXCEPT !.policy = q.policy, !.provider = q.provider, !.model = q.model]

MemoryRouteRows(q, since) ==
  {ev \in ToSet(recent) : ev.reason # "no_policy" /\ EventMatches(ev, StatsFilter(q), since)}

NoAttempt == [sequence |-> 0, attempt |-> Attempt("", "", 0, "")]

\* LEFT JOIN: an event without attempts has one line with an empty attempt.
Joined(x) ==
  IF AttemptsOf(x) = {} THEN {<<x, NoAttempt>>} ELSE {x} \X AttemptsOf(x)

\* The lines of one event are put together again; sequence 0 is not an attempt.
SqlRouteRows(q, since) ==
  LET lines == UNION {Joined(x) : x \in SqlRows(StatsFilter(q), since)}
      Found(x) == {l[2] : l \in {m \in lines : m[1] = x /\ m[2].sequence > 0}}
  IN  {With(x, Found(x)) : x \in {l[1] : l \in lines}}

----------------------------------------------------------------------------
(* aggregateRouteStatsV83                                                  *)

Outcome(ev) ==
  IF ~ev.success THEN "failed"
  ELSE IF Len(ev.attempts) > 1 \/ ev.decision = "fallback" THEN "fallback"
  ELSE "direct"

Final(ev) == ev.attempts[Len(ev.attempts)]

\* routePathV83: the names in their order, repetitions removed.
Path(ev) ==
  LET names == [i \in DOMAIN ev.attempts |-> ev.attempts[i].candidate]
      changes == {i \in DOMAIN names : i = 1 \/ names[i] # names[i - 1]}
      order == SetToSortSeq(changes, <)
  IN  [i \in DOMAIN order |-> names[order[i]]]

\* routeFailureReasonV83: the first case that holds.
FailureReason(ev) ==
  LET final == IF ev.attempts = <<>> THEN Attempt("", "", 0, "") ELSE Final(ev)
      status == IF final.status # 0 THEN final.status ELSE ev.status
      error == IF final.error # "" THEN final.error ELSE ev.error
      cases == <<<<status = 429, "429">>,
                 <<status \in 500 .. 599, "5xx">>,
                 <<status = 408 \/ error = "timeout", "timeout">>,
                 <<status \in {401, 403}, "401 / 403">>,
                 <<status = 409, "409">>,
                 <<status = 0 /\ error # "", "network">>,
                 <<ev.reason \in {"unsupported_client_affinity", "no_enabled_candidates",
                                   "candidates_exhausted"}, "config">>,
                 <<TRUE, "other">>>>
  IN  cases[Min({i \in DOMAIN cases : cases[i][1]})][2]

OutcomeKinds == {"direct", "fallback", "failed"}

\* Faulty variant: what falls behind the last bucket is dropped.
BucketOf_Uncapped(at, start, step) == (at - start) \div step

\* The rounded step leaves a rest behind the twelfth bucket.
BucketOf(at, start, step) == Min({(at - start) \div step, Buckets - 1})

\* routeTrendV83, from its own reading of the clock; window is None or the span asked for.
Trend(E, window, now) ==
  LET asked == IF window = None THEN Min({now} \cup {ev.at : ev \in E}) ELSE now - window
      from == IF asked < now THEN asked ELSE now - 60 * Minute
      wide == (now - from) \div Buckets >= Minute
      step == IF wide THEN (now - from) \div Buckets ELSE Minute
      start == IF wide THEN from ELSE now - Buckets * Minute
      shown == {ev \in E : ev.at \in start .. now}
  IN  [o \in OutcomeKinds |-> [i \in 0 .. Buckets - 1 |->
         Cardinality({ev \in shown : Outcome(ev) = o /\ BucketOf(ev.at, start, step) = i})]]

Aggregate(E) ==
  LET el == {ev \in E : Routes(ev)}
      failed == {ev \in el : ~ev.success}
      long == {ev \in el : Len(ev.attempts) > 1 \/ ev.decision = "fallback"}
  IN  [stats |-> [o \in OutcomeKinds |-> Cardinality({ev \in el : Outcome(ev) = o})],
       total |-> Cardinality(el),
       attempts |-> [n \in 0 .. 4 |-> Cardinality({ev \in el : Min({Len(ev.attempts), 4}) = n})],
       hits |-> [h \in (Candidates \cup {CPADefault}) \X OutcomeKinds |->
                   Cardinality({ev \in el : /\ ev.attempts # <<>>
                                            /\ <<Final(ev).candidate, Outcome(ev)>> = h})],
       paths |-> [p \in {Path(ev) : ev \in long} \ {<<>>} |->
                    Cardinality({ev \in long : Path(ev) = p})],
       reasons |-> [x \in {FailureReason(ev) : ev \in failed} |->
                      Cardinality({ev \in failed : FailureReason(ev) = x})],
       policies |-> [k \in Keys |->
                       Cardinality({ev \in el : Outcome(ev) = "fallback" /\ ev.policy = k})]]

----------------------------------------------------------------------------
(* Properties.                                                             *)

\* Memory and database answer a query alike, as far as EventsAgree says, and give the same
\* route statistics; of filters with letters that only Go folds the database knows some of
\* the requests (the filters of queryEventsV4, querySQLiteEventsV62 and queryRouteStatsV83
\* are written once in Go and twice in SQL).
SourcesAgree ==
  Quiet /\ Complete =>
    /\ EventsAgree
    /\ \A q \in {StatsFilter(x) : x \in Queries} :
         /\ SqlRouteRows(q, None) \subseteq MemoryRouteRows(q, None)
         /\ NothingMissed(q) =>
              Aggregate(MemoryRouteRows(q, None)) = Aggregate(SqlRouteRows(q, None))

\* Every routed request is counted once by each of the statistics, however it is looked
\* at: by its outcome, by its number of attempts, by the candidate it ended at, by the
\* bucket of the trend, the failures by their reason; the page of events, asked for routed
\* requests only, counts the same; and while every policy is valid these are the requests
\* that were served (aggregateRouteStatsV83, routeTrendV83).
StatsPartition ==
  Quiet =>
    LET E == {ev \in SqlRouteRows(NoFilter, None) : Routes(ev)}
        a == Aggregate(E)
        listed == SqlStats([NoFilter EXCEPT !.routeOnly = TRUE], None)
        Shown(o, delay) == SumFunction(Trend(E, None, clock + delay)[o])
    IN  /\ a.total = SumFunction(a.stats) /\ a.total = SumFunction(a.attempts)
        /\ a.total = SumFunction(a.hits) + a.attempts[0]
        /\ SumFunction(a.reasons) = a.stats["failed"]
        /\ SumFunction(a.policies) = a.stats["fallback"]
        /\ \A o \in OutcomeKinds, delay \in Delays : Shown(o, delay) = a.stats[o]
        /\ listed.total = a.total /\ listed.failed = a.stats["failed"]
        /\ trusted => a.total = Cardinality({r \in Requests : requests[r] = Done("served")})
=============================================================================
