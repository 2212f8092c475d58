# TLA+ models of the CPA key chain router

The router is a Go plugin of CPA (a proxy for model APIs). A client's request is
matched with the *policy* of its API key; a *rule* of the policy lists *candidates*
(credentials with a provider and a model), and the router executes the request
through the host with one candidate after the other until one answers. This
directory models that behaviour in TLA+, checks it with TLC on small instances and
proves part of it with TLAPS for every instance. Paths below are relative to
`src/src/` unless they say otherwise.

## 1. Inventory

### Entry points

The host calls `handleMethod` (main.go) from any number of threads:

| call | handler | part |
|---|---|---|
| `register`, `reconfigure` | `configure` -> `configureV4` | policy store |
| `model.route` | `handleModelRouteV4` | routing and ranking |
| `executor.execute[_stream]` | `handleExecuteV4` -> `runNonStreamPolicyV4`, `runStreamPolicyV4` | request loops |
| `scheduler.pick` | `handleSchedulerPick` | execution tickets |
| `management.handle` | `handleAPIV4` | policy store, observability |

The program's state is two globals: `runtimeState` (configuration, paths, the ticket
table, one RW lock) and `v4Runtime` (the policies, the ring of recent events, the
round-robin counters, the smooth weights, the circuit health, the SQLite sink and the
reload generation, one RW lock). Nothing but the policies, and the events when SQLite is
on, survives a restart.

### Components

| component | state | operations | talks to | must be correct |
|---|---|---|---|---|
| **Circuit health** (v4_health.go) | per candidate: CLOSED / OPEN / HALF_OPEN, backoff level, deadline, probe lease; the configuration it belongs to | acquire (maybe as probe), success, failure, release; reset and prune on edits; clear on reload | called by the request loops, by the management API and by `configureV4` | one probe at a time; the lease always comes back, and only from its holder; late results neither escalate, shorten nor recover; no failure is inherited over an edit or a reload; a candidate is never shut out for good |
| **Execution tickets** (ticket_claim.go, main.go) | token -> credential, claimed, expiry | issue, claim (with clean-up), finish | issued and finished by the request loops, claimed by `scheduler.pick` | a ticket lives as long as its execution, serves one selection and tells the truth about it |
| **Request loops** (v4_execution_core.go, v4_execution_stream.go, routing_control_health.go) | per request: copy of the rule, attempts, last action, probe ownership, streams | choose, execute, forward, fail over, CPA default, recover from a panic | all of the above, the host, the client's stream | each candidate once and in the order of the failover action; no second execution after the ownership was lost; one source per answer; streams closed, events recorded, leases returned |
| **Routing and ranking** (v4_routing.go, client_affinity_v1.go) | round-robin counters, smooth weights | decide on a request, match a rule, rank candidates by strategy | reads the policies twice per request | the most specific rule serves; a validated policy never leaves a request without candidates; fair shares, sticky sessions stay |
| **Policy store** (v4_state.go, v4_management_api.go) | policies in memory, the state file | save, delete, import, reload | resets and prunes the health; `state.json` | memory and file agree after a save; a reload never loses a saved policy |
| **Observability** (v4_observability.go, v4_management_events.go, v062_sqlite_query.go) | ring of recent events, bounded queue and writer of SQLite | observe, enqueue, restart, clean up, query | called at the end of every request | one event per request; none lost silently; memory and SQLite answer alike |
| **Route statistics** (v083_route_stats.go) | none (computed) | aggregate events, trend | reads the ring or the database | each request counted once by every statistic |
| **Identity resolution and rebinding** (scheduler_auth.go, live_auth_reconcile.go, rebind_logic_v10.go, model_scope_v10.go, ...) | none (asks the host, reads config.yaml) | resolve the live credential of a candidate, bind it on save, find its prefix | host `auth.list`, execution, `scheduler.pick`, `save_policy` | one identity per execution; never another account; no prefix of a credential with another index |
| Envelopes, YAML reader, diagnostics, management page, scripts | none of their own | conversions, reports | | see "Not modelled" |

The chains of v0.1 to v0.3 (`handleModelRoute`, `runNonStreamChain`, `runStreamChain`
and their helpers in main.go) are still in the source but no entry point reaches them.

### What is hard

- A result is reported minutes after the lock under which its attempt was acquired was
  released. In between other requests, edits and reloads change the same record.
- A probe lease is a resource: every way an attempt can end has to give it back.
- The host is free to use another scheduler, no scheduler, or ours twice.
- Streams fail in the middle, the client goes away, the loop panics.
- The failover actions combine (`stop`, `cpa-default`, `exhausted`, priorities, attempt
  limit) into orders nobody tests one by one.
- Shared round-robin state, and a state file written outside the lock.
- A request looks its policy up twice, in `model.route` and when it is executed, and its
  credential up to three times; policies, auth files and config.yaml change in between.
- The history is kept twice and queried by two implementations of the same filters.
- The queue of the SQLite writer is taken under the lock and used after it, and its
  goroutine is stopped and replaced while requests still send to it.

`PROJECT.json` lists each hazard at its line with the properties that cover it; a hazard
without one says why.

## 2. The modules

```
HealthRecord            the circuit record as pure operators
   |         \
CandidateHealth  FailoverChain      both refine ->  CircuitBreaker

ExecutionTicket   LiveIdentity
          \        /
       PinnedExecution              one execution's credential, from resolution to pick

RuleMatch -> Routing -> RouteHistory -> RouteStats
                                    from model.route to the figures of the page

Ranking                 the order the chain walks; FailoverChain takes any order
PolicyStore             refines ->  AtomicStore
EventLog                what becomes of the event each request leaves behind
```

Each `MC...` module gives its module's constants their small values; each `..._proofs`
module holds its theorems.

### HealthRecord.tla

`candidateHealthState` and what each report does to it, as pure operators:
`AfterAcquire`, `AfterSuccess`, `AfterFailure` (split into probe, normal and other
failures), `AfterRelease`, `Cooldown`. Failures are filed under the seven classes that
`candidateFailureCooldownV4` and `failureActionV4` distinguish by status and error. The
absolute deadline `NextProbeAt` is represented by the time left, `wait`: every
comparison in the code only asks how far the deadline is in the future. Fields that are
only displayed (counters, last error, timestamps) are left out.

### CandidateHealth.tla

`v4Runtime.health` under concurrency. An *attempt* is a candidate of a request, from the
copy of the policy the request took (`Plan`), over `AcquireNormal` / `AcquireProbe` /
`Skip` (`acquireCandidateHealthWithReasonV4`), to its report: `Succeed`, `Fail`,
`Release`. Edits are `SavePolicy` (`resetChangedCandidateHealthLockedV4` and then
`pruneCandidateHealthLockedV4`, as `save_policy` calls them), `DeletePolicy` and
`Reconfigure` (clears the health and advances the generation). Each action is one
critical section of the lock. `Current` is `candidateHealthConfigCurrentLockedV4`: a
report counts only if the candidate's configuration and the generation still match.

`config` is the active configuration of a candidate: a value of the tuple the code
compares, `Disabled` or `Absent`. `holder` and `blame` are history variables for the
properties. The constant `RestoreWhileInFlight` says whether an edit may bring back a
configuration under which an attempt of the same generation still runs: with it the code
breaks one of its promises (finding 1), without it all properties hold.

### CircuitBreaker.tla

The abstract specification: a circuit and one lease per candidate; only the end of a
running attempt moves a circuit, while the lease is out only its holder's end, and the
circuits of edited candidates start over. `CandidateHealth` and `FailoverChain` are both
checked and proved to implement it (`ImplementsCircuitBreaker`).

### ExecutionTicket.tla

`runtimeState.tickets`: `Issue` and `Finish` by the execution, `Claim`, `Refuse` and
`Answer` by concurrent `scheduler.pick` calls, each with the clean-up of expired tickets
that `claimTicket` makes. Picks may come late, twice, or with a token whose execution is
over. What the execution learned is `owned`; `selections` counts the picks it served. It
is checked as part of `PinnedExecution`. Every execution that got a ticket finishes it:
`finishExecutionTicket` is not deferred (v4_execution_core.go:99), so a panic between the
two, which only the stream loop recovers, would leave a ticket that never expires in the
table. `FailoverChain` has that panic and `LeftClean` excepts it; this module does not.

### LiveIdentity.tla, PinnedExecution.tla

CPA gives each credential a live ID; a candidate names it (`AuthID`) or, from an older
release, only an `AuthIndex`, which several credentials may share. `LiveIdentity` has the
auth files and credentials of CPA (`registry`), the entries of config.yaml (`config`,
which CPA reloads later) and the saved candidates (`policy`). Its operators are the
resolution (`ByIndex`, `LiveIds`: auth files first, then config entries, an error when
ambiguous, `resolveAuthIDByIndex`), the resource lists, the binding on save (`Rebound`)
and the resource of a candidate (`ExactResource`). A resource list is made in two readings
of config.yaml, as `resourcesWithExactIDsV10` makes it: `Environments` is what
`currentEnvironment` lists, the entries with their prefixes and the auth files, without
those whose index came before (`mergeResources`, which is skipped when config.yaml cannot
be read); `ResourceLists` adds the live IDs that the entries' indexes have by then.
`SavePolicy` takes what a page may send: any old snapshot's binding, or a newly picked
resource. A candidate's `account` and `picked` are history: whom the operator meant and
whether the live ID was visible then.

`PinnedExecution` composes it with `ExecutionTicket`, whose actions it uses unchanged:
`List` and `Scope` (`candidateScopedModelV10`, one step per reading of config.yaml), `Pin`
(resolve, issue a ticket for the live ID, call the host with it), `PickClaimed` and
`PickAnswered` (`handleSchedulerPick`: claim the ticket, resolve what it names, check it
against the credentials CPA offered), `PinnedFinish`. Everything may change between any
two of them. `PrefixesOf` says whose prefix a resource has: an entry's was read with the
list; an auth file's is asked of `host.auth.get`, which takes an `AuthIndex` and so may
answer for any file that has it.

### FailoverChain.tla

`runNonStreamPolicyV4`, `runStreamPolicyV4` and their CPA default variants, over the
shared circuit records. A request is a record; its `at` says where the loop is:

| `at` | code |
|---|---|
| `scan` | `chooseHealthyCandidateV4`, one candidate per step (`Take`, `Pass`), or nothing left (`GiveUp`) |
| `pin` | resolving the credential and issuing the ticket (`ResolveFails`, `IssueFails`, `Issue`) |
| `call` | the nested host execution (`Pick`, `PickedElsewhere`, `Return...`) |
| `read` | passing the host stream on (`Forward`, `EmitFails`, `ReadFails...`, `ReadDone`) |
| `cpaCall`, `cpaRead` | the execution under CPA's own routing (`Default...`) |
| `done`, `broken`, `panicked` | answered; client gone; recovered by the stream loop |

`Proceed` is what both loops do after a failed attempt: the action of its class, the
attempt limit, `exhausted`. `Stopped` is the terminal loss of the scheduler's ownership,
which overrules `exhausted` (`recordCandidateExecutionFailureV8`). The scan looks at the
candidates one by one and lets other requests move in between, as the lock is taken per
candidate. The code reads the clock once per scan, the model at every candidate: they
differ by the duration of a scan, in which no host call is made.

Assumptions on the host, which is not part of the repository: it uses one scheduler per
nested execution, it rejects an exact credential only before it asks a scheduler, and its
calls return.

### Ranking.tla

`rankCandidatesV4` and the state its strategies share, `rr` and `smooth`. The strategies
are operators on a rule: the sorts (`Sorted`, stable as `sort.SliceStable` is), the
rotation, the smooth pick (`Gained`, `SmoothLeader`, `Paid`), the affinity filter
(`Eligible`). A sorted list is the one sequence of its members in the order of a relation
(`InOrder`), which says what the code's sorting and filtering loops return and can be
reasoned about. A request copies the rule (`Plan`) and ranks it later (`Rank`), in one
critical section per shared counter; `Edit` replaces the rule and leaves the shared state
alone, as `save_policy` does, and `Reload` clears it, as `configureV4` does. `steady` and
`tally` are history: whether the smooth weights belong to the saved rule alone, and how
often each candidate led in the current cycle, or since the round-robin counter wrapped.

The rendezvous score `u^(1/w)` of a hash `u` is compared through its logarithm: with
`Distance` = -ln u, `Nearer` compares `Distance / w` by cross multiplication. The model
follows one rule; rules have counters of their own.

### RuleMatch.tla, Routing.tla

`RuleMatch` is `findPolicyRuleV4`'s choice as pure operators: `PatternScore` and `Weight`
are the numbers of the code, `FindRule` the rule with the first strict maximum;
`MostSpecific` is the promised order (README.md: exact > glob > `*`). A pattern is its
kind, the length that counts and the set of models it covers.

`Routing` follows a request: `Ignore`, `Accept` or `Decide` (`handleModelRouteV4`: left to
CPA silently, taken over, or decided with an event, which `ObserveRoute` records under
another lock), `Execute` or `Refuse` (`handleExecuteV4` looks policy and rule up again,
with the model that the body names), `Finish` or `Abandon`. `Outcomes` is the set of
events that the two loops and their CPA default variants may record: any trials of
distinct candidates and every way to end; `FailoverChain` says which of them a policy
leads to. `Explained` adds the selection reasons (`enrichRoutingSelectionReasonsV6`), of
which the model keeps the candidates that they name: those skipped for their health with
the one attempted, or the one that failed before it. `Observe` is `prepareObservationV6`,
the ring and both tables. `SavePolicy` saves what `Valid` (`validatePolicy`) admits;
`Reload` takes whatever the state file holds, valid or not, and empties the memory.

### RouteHistory.tla, RouteStats.tla

The queries of the page, each twice: over the events in memory (`MemoryEvents`,
`MemoryStats`, `MemoryFacets`, `MemoryRouteRows`) and over the rows of the two tables
(`SqlWhere`, `SqlStats`, `SqlFacets`, `Joined`, `SqlRouteRows`), translated from the Go code
and from the SQL text. `AsText` orders times as the texts SQLite compares. The search in
memory goes through the reasons as they are (`SearchTexts`), that in SQL through the JSON
that is stored of them (`RowTexts`, `JsonTexts`: `null`, brackets, escaped characters). A
text contains another only if it is the same, which is what tells the two apart.
`Lower` is `strings.ToLower` on texts with letters beyond ASCII, which SQLite's `lower`
leaves as they are; of ASCII nothing is modelled, as both fold it alike. `NothingAdded` and
`NothingMissed` name the queries for which the two must not differ in one direction or the
other. `Aggregate` is
`aggregateRouteStatsV83`, `Trend` is `routeTrendV83`; one `Delay` passes between an
event and the query. What is selected in memory is a set of positions in `recent`; the order in
which the page lists events is left out.

### PolicyStore.tla, AtomicStore.tla

The memory, `state.json`, its temporary file and the inodes behind the names. A request
(`operators`) goes through `Edit` (memory, under the lock), `Marshal` (copy, under the
lock again), `Open` (truncates), one `Write` per block, `Chmod` and `Rename`, each of which
may fail; `chmod` and `rename` go by the name, writes go to the inode that was opened. A
state is the number of the edit that made it, a document is its blocks, so that a
truncated file, a mixture and a hole are told from a whole document. `configure` reads
the file twice (`ReadFirst` in `loadState`, `ReadSecond` in `configureV4`): the first
reading refuses a file that does not decode, the second takes it for an old state without
policies. The variable `overlapping`, chosen at the start, says whether requests and
`configure` may overlap in a behaviour. `saved`, `floor` and `failing` are history: the
last acknowledged state, what the file held when the requests in progress began, and
whether one of them failed.

`AtomicStore` is the abstract specification: memory and disk are whole states, and one
step replaces one by the other.

### EventLog.tla

`observeV4`, the queue, the goroutine of a sink (`loop`, `insert`, `cleanup`) and
`restartSQLiteSinkV4`. An observer passes `Observe` (time and configuration), `Remember`
(the ring), `Aim` (takes the sink under the lock), `Send` (after it), `ReportDrop`. The
goroutine takes from the queue (`Take`, the insert transaction), records the outcome
(`Record`), cleans up in four statements (`Clean`) and stops (`NoticeStop`, `Drained`).
An operator saves the configuration or reloads, then goes through `Swap`, `Closed`,
`Open`, `Confirm`, `Install`. `Crash` leaves the database. `Source` is where
`queryEventsSQLiteV62` takes the history from. `owed` and `lossy` are history: what a sink
was sent while it was in service, and whether it lost any of that.

Events are numbered in the order of their times. The code stores times as
RFC3339Nano text, which omits trailing zeros and therefore does not sort like time within
a second; this model ignores that, `RouteHistory` does not.

## 3. What the runs check

| run | instance | properties |
|---|---|---|
| `health` | 3 attempts, 1 candidate, 3 configurations, 1 reload, levels 0..3, no restored configuration | only the holder of the lease ends it; backoff only by probe failures; implements `CircuitBreaker` |
| `health_live` | 2 attempts, 2 candidates, 2 configurations, any edits, fairness | every lease has a live owner; no inherited failure; deadlines are never shortened; recovery only by the lease; a circuit that is not closed becomes selectable again |
| `health_aba` | 2 attempts, any edits | **violated** `OnlyHolderReturnsLease` (finding 1) |
| `pinned` | 1 execution after the other, 2 picks, 2 tokens, 2 auth files that share an index, 2 variants of one config entry, each with a prefix of its own, 1 candidate, 1 change or save, clock 0..1, TTL 0 | tickets live with their execution; one selection; truthful ownership; nothing left in the table; the pick answers what was pinned; it is the account the operator meant; a bound candidate's prefix is the pinned credential's, but for two exceptions |
| `chain` | 1 request after the other, 3 candidates in 2 priorities, 4 rankings, 4 failover policies that use all five actions and both `exhausted`, attempt limit none or 2, both modes | each candidate once, within the limit, CPA default last; one source; nothing left behind; no replay after the ownership was lost; every request ends (fairness) |
| `chain_shared` | 2 concurrent requests, 2 candidates, both modes, levels 0..1 | leases always have an owner; no verdict without a claimed ticket; implements `CircuitBreaker` |
| `ranking` | 1 request, 3 candidates, 2 sessions, 8 rules of every strategy and affinity edited into each other, reloads, fairness | each admitted candidate once; no lower priority before a higher one; while the shared state is the rule's own, nobody a turn ahead of its share or a turn per other candidate behind it, and exact shares after each cycle; an edit keeps a session's order of the candidates it does not touch; after the last edit everyone with a share leads again and again |
| `event_log` | 2 observers, 2 events, 2 sinks, 1 operator, SQLite on and off, any failing inserts, a failing deletion, expiring events, crashes | SQLite is the source only while complete; restarts lose nothing; one writer; no orphaned attempts |
| `event_log_live` | the same with SQLite on, no expiry, fairness | restarts end |
| `event_log_queue_loss` | as `event_log_live` | **violated** `QueueLossDegrades` (finding 2) |
| `store` | 3 operators, one at a time or overlapping, 3 edits, documents of 1 to 3 blocks, 4 inodes, failures and crashes anywhere | one at a time: implements `AtomicStore`, memory agrees with the file; overlapping: the file is whole, and not older than these saves found it, once all were answered with success |
| `routing` | 2 requests, 1 key, 2 models, 2 providers, 2 candidates, policies of up to 2 rules, 1 edit or reload, 1 kind of failure, 21 queries, delays up to 15 minutes | the most specific rule serves; validated policies never leave a request without candidates; one event each; memory and SQLite agree on every query, but for certain words (section 4); every statistic counts each request once |

Each property of a passing run has a mutant in `PROJECT.json`: a plausible bug (a dropped
guard, a kept lease, a missing reset) under which TLC reports that property violated. The
faulty variants stand in the modules, each before the definition it distorts.

**Bounds.** One time unit stands for 30 s; with `MaxCooldown` 3 the cap is reached after
two doublings, so all further levels behave alike, as levels above 4 do in the code
(cooldowns 30 s, 60 s and 5 min, cap 5 min). `RetryAfters` contains a value above the
cap, the case in which a server's answer wins over it. Two attempts on a candidate show
every race of two reports; the third in `health` lets a lease be taken between two of
them. Two configurations and one reload are enough for an edit, an edit undone and a
stale generation; candidates interact only in edits of the whole policy, hence two in
`health_live` and one in `health`. In `chain` one
request exercises every order of failures over three candidates with two priorities,
which is the smallest set where the two passes of same-priority-first differ from the
ranking; the ranking `c3, c1, c2` contradicts the priorities.

In `health_live` `MaxLevel` is 0, as backoff is the subject of `health`. `CounterSize` 5
stands for 2^64: the counter wraps in the middle of a round, as 2^64 does with three
candidates, and the rotation jumps. The history starts over there, and `FairShare` is
about the cycles between two wraps. Weights up to 4 over three candidates give cycles of 4
to 7 picks; the versions of a rule with other weights, fewer candidates and another
strategy are what stale weights can come from, and a request that holds its copy over
edits is the stale reader. `EventLog` has a queue of one, so that it is full whenever the
writer is behind, and cleans up after every second event; two sinks are the old one and
the new one. The rows are not bounded over repeated crashes, since the ring and the queue
are what the code bounds. In `PolicyStore` documents grow and shrink from one edit to the
next, so that a longer document is overwritten by a shorter one; three overlapping saves
are one that renames, one that loses its file and one that writes on behind them
(`WholeUnlessFailed` covers any number of saves and edits). Four inodes are the state
file, the temporary file and those that writers still hold.

In `pinned` executions follow each other, so that a late pick of one meets the ticket of the
next, or a token that is used again; two picks race for one ticket. Executions at the same
time have tickets of their own and share nothing but the table, from which each claim
removes only what has expired; the proofs are for any number of them. One change between any
two steps is enough to separate two resolutions or two readings of config.yaml, and `Sent`
admits what pages of any age may send, so that no history of changes is needed to make a
page stale. `PinnedExecution_proofs` has no such bound. The page's resource lists come in any
order and either source may fail; `registry` is what CPA offers to a pick. A candidate's
`ResourceID`, a hash of provider and live ID, is folded into the live ID; auth files and
config entries have different indexes, as the hashes that make them have different seeds.

In `routing` one edit or reload comes while a request is under way (`Edits`); the other
edits are other initial states, since the policies start as any of the documents, valid or
not. Two requests are enough for any two events of different kinds in one history, and
for the first and the last bucket of the trend. The searched texts are a candidate whose name
JSON escapes and one whose name has a capital beyond ASCII (`ca`, `cb`), either as it is
written and as JSON or Go turn it, `null`, and a word of a reason; one provider has such a
capital, too. `Duration` is 7205 tenths of a second, so
that events lie minutes apart and times with and without a fraction occur; `Delays` keep
the trend's span at zero, off a multiple of twelve, and long. The twelve buckets and the
minute are the code's. The limits on what is returned (1000 events, 12 candidates, 10
paths) are far above these histories and left out. `RuleMatchAssumption` bounds patterns
below 99000 characters and policies to 1000 rules: beyond, the packed number would mix
them up, and nothing in `validatePolicy` forbids it.

**Symmetry** is used only in runs without liveness, over values the specification never
distinguishes. **Deadlock** is checked in all
runs but `routing`, which ends when its requests are answered.

**Fairness.** `health_live`: time passes and the host call behind a running attempt
returns (`WF` of `Tick` and of each `Finish`); the router calls the host synchronously,
so an attempt that ran is always reported, unless the host never returns. Nothing is
assumed of arrivals, planned attempts or operators. `chain`: the loop's goroutine is
scheduled, host calls return and host streams end. Nothing is assumed of what they
return. `ranking`: clients keep asking and each request that took a copy ranks it (written as
`[]<>` of its steps, one of which is always enabled).
`event_log_live`: goroutines are scheduled (weak fairness of every step of an observer, a
writer and a restart); `Take` and `NoticeStop` get strong fairness, as Go's `select`
chooses at random among the cases that are ready and both are ready again and again. The
ticker, operators and crashes get none.

## 4. Findings

Shown by a run:

1. **A restored configuration lets an old probe end a newer lease** (`health_aba`,
   v4_health.go:516). Reports are matched by configuration and generation, and only a
   reload advances the generation. If a candidate is switched off and on again while its
   probe runs, the record is dropped, may open again and be probed by another request;
   the old probe's report then ends that lease. CHANGELOG.md:184-185 promises release by
   ownership.
2. **An event sent behind a restart is lost without a trace** (`event_log_queue_loss`,
   v4_observability.go:359). The request took the sink before the restart and sends after
   the old goroutine has drained the queue and returned; the channel accepts the event,
   nothing counts it as dropped, and the new writer is healthy. README.md:201-203 says that
   an event lost by the queue degrades the writer.

Met while modelling; the models contain the behaviour, and no run is spent on it:

- `stop` does not stop with `exhausted: cpa-default` (v4_execution_core.go:41): it leaves
  the loop, and what follows the loop applies `exhausted`. README.md:137 says it stops the
  failover.
- An unknown affinity mode falls back to CPA default (v4_execution_core.go:44): the
  ranking is empty, and an empty ranking with `exhausted: cpa-default` is an unpinned
  execution. CHANGELOG.md:121 says it is not.
- Two restarts at once heal a degraded writer (v4_observability.go:307): both take the old
  sink and both open one; the second opening declares the writer healthy while the first
  sink, which may have lost an event, is still in service, and the sink installed first is
  never closed. `SingleWriter` and `SourceComplete` hold with one operator and fail with
  two.
- With two management requests at once the later rename may carry the older copy, so
  `MemoryOnDisk` holds for one request at a time only, while the file never falls behind
  what the requests found (`WholeUnlessError`); and a `configure` during a save can load
  the state before it, or, if its second reading meets a torn file, none at all. No
  document promises otherwise. Nothing is synced to disk, so a power failure is outside the
  promise of `AtomicStore`.
- An old candidate whose `AuthIndex` two auth files share is bound to the one that
  `host.auth.list` returns first (main.go:1421): `mergeResources` drops the other before
  `exactRebindResourceV10` looks for ambiguity. README.md:63 says that the router fails
  closed unless one credential is provably meant, CHANGELOG.md:237 that it no longer
  depends on that order. `ServesChosen` therefore speaks of candidates whose live ID the
  operator saw or whose index means one account only (`Sure`).
- One credential's prefix may stand with another's live ID (scheduler_auth.go:107). The
  entries of config.yaml and their prefixes come from one reading (main.go:1367), their live
  IDs from the next (scheduler_auth.go:62). If an entry is replaced in between by one of the
  same key and base URL, the old one's prefix stands beside the new one's live ID, and the
  model of a candidate bound to the new one is scoped with it. Of auth files that share an
  index the same needs no change at all: `host.auth.get` is asked with the index
  (oauth_scope_v10.go:18). The comment at scheduler_auth.go:124-127 says that a bound
  candidate never gets a prefix by `AuthIndex`. `PrefixOfPin` states what holds: with an
  unchanged config.yaml an entry's prefix is its own, and no prefix comes from a credential
  with another index.
- What a search of the page finds depends on where the events are (v062_sqlite_query.go:399).
  In SQL it runs over the stored JSON of the selection reasons, in memory over the reasons:
  `null` finds every event without attempts in SQL and none in memory, `[` those with
  attempts, and a reason with an escaped character is found in memory only. SQLite's `lower`
  knows ASCII only, Go's folding all letters, so that the filters by policy, model, provider
  and text miss some names in SQL. CHANGELOG.md:285 says that the database supports the
  existing search and filters completely. `SourcesAgree` states what holds for all other
  queries, and for these in the direction in which it still does.
- The page of events asks for an `offset` (ui.js:732), which CHANGELOG.md:40 announces;
  `queryEventsV4` applies it to the memory, `querySQLiteEventsV62` ignores it: with SQLite
  on, every page is the first (v062_sqlite_query.go:257).
- Times are compared as texts in SQL: an event without a fraction of a second sorts behind
  all others of its second, so a cut-off may take or leave events of its own second
  (`EventsAgree` allows exactly that). The average duration is rounded in SQL and
  truncated in Go.
- A query of the route statistics with `since` reads the clock twice, for the cut-off and
  for the trend (v083_route_stats.go:57, 342): an event between the two is counted and not
  drawn. `StatsPartition` is about queries without `since`.
- A request that ranks with an old copy of its rule after an edit counts with the shared
  weights of the new one (v4_routing.go:296) and disturbs their shares; `FairShare` speaks of
  cycles without that (`steady`), `EveryoneLeads` of what is left of it.
- `configPriorityForCandidateV10` looks a candidate up by `AuthIndex` even if it has a live
  ID, against the comment at scheduler_auth.go:123-125; it only feeds a report.
- A diagnosis ranks the candidates with `rankCandidatesV4` and thereby advances the shared
  round-robin counter or smooth weights (v4_management_diagnose.go:27).
- CPA's default stream is a success whatever its status (v4_execution_stream.go:223),
  the default call only below 400 (`DefaultAnswers`).

## 5. Proofs

TLAPS proves the theorems listed in `PROJECT.json` for every value of the constants: any
number of candidates, attempts, requests, configurations, tokens and picks, any cooldowns
and backoff limit, any policies and rankings, documents, queues and histories of any
length. Eight modules hold them: one `_proofs` module for each of `HealthRecord`,
`CandidateHealth`, `FailoverChain`, `PolicyStore`, `PinnedExecution` (with
`ExecutionTicket`), `Ranking`, `Routing` (with `RuleMatch`, `RouteHistory`
and `RouteStats`) and `EventLog`. The type invariants of the state machines
among them are proved for every value of the constants, so no run spends time on them.

**Assumptions.** `CooldownAssumption`: base cooldowns lie between one unit and the cap.
`CandidateHealthAssumption` and `TicketAssumption`: the marks for "none", "absent" and
"disabled" are not values of the things they stand beside; bounds are naturals.
`ChainAssumption`: CPA default is no candidate, a ranking names a candidate once
(`normalizeRule` gives every candidate a random id of its own; nothing rejects an imported
rule that repeats one), policies are of the type `Failover`. `PolicyStoreAssumption` and
`AuthsAssumption` type constants. `IdentityAssumption`: live IDs and indexes are different
things, and the index of a config.yaml entry belongs to entries of one account only, as it
is a hash of key and base URL; config.yaml has finitely many entries. `RankingAssumption`:
a rule lists a candidate once, weights are positive, hashes have scaled logarithms.
`RuleMatchAssumption` bounds patterns and policies (section 3, Bounds);
`RoutingAssumption` and `RouteHistoryAssumption` type documents, reloads, failures and
queries, and say that keys, candidates and the candidates of a rule are finitely many, as
the configuration lists them, and that a text with small letters has no capitals left.
`EventLogAssumption`: the queue holds an event, at least one row is kept. TLC evaluates
all of them in the runs. Three theorems about `EventLog` assume one operator.

**The record** (`HealthRecord_proofs`). Three lemmas carry everything that happens to a
circuit: a report keeps the record's type (`ReportTypes`); it keeps the shape *half-open
means leased, closed means reset* (`ReportShapes`); and it *settles* the record
(`ReportSettles`), that is, it never creates a lease, ends one and closes an open circuit
only for an owner of the lease, always ends it for an owner, and never brings a deadline
nearer. Both state machines use only these three facts about the reports.

**CandidateHealth.** The inductive invariant `IInv` is `TypeOK`, `CircuitShape`,
`LeaseHeld` and `NoInheritedFailure` with two strengthenings. `Stamped` says that no
attempt carries a generation from the future: without it, the reload that advances the
generation could make an old report current again. `HolderShape` says that a recorded
holder means a lease that is out. `LeaseHeld` is inductive only together with the stamps:
the owner's report must still be current for the lease to come back. Edits are proved
once for all three operations (`EditPreserves`: a candidate keeps its record only with
its configuration and generation); arrivals, acquisitions and reports have a lemma each.
`DeadlineNeverShortened` and `RecoveryOnlyByLease` are proved as action properties from
`IInv`; for the second, a circuit that closes without an edit can only have closed by a
report that settles it for an owner. `LeaseEndsByOwner` says the same of every end of a
lease, whatever is edited.

Three properties hold only while no edit restores a configuration under which an attempt
still runs (`RestoreWhileInFlight` FALSE); `health_aba` shows that they fail otherwise, so
the theorems name that condition. With it, `OwnedInv` adds `SoleOwner` to `IInv`: an attempt
that is a current probe is the recorded holder. It is what turns "an owner" into "the
holder" (`LeaseReturnedByHolder`), makes the report that backs off the probe's own
(`BackoffByProbeOnly`) and gives the refinement of `CircuitBreaker` (`HealthRefinesBreaker`):
acquisitions are `Start` and `Probe`, current reports `EndNormal` or `EndProbe`, edits
`Forget`, everything else a stutter.

**ExecutionTicket** (in `PinnedExecution_proofs`). The inductive invariant adds to the
checked properties that tickets and executions in progress correspond one to one, that the
ticket of an execution in progress never expires, and that an execution's ticket is
claimed exactly if a pick was served. The clean-up inside each claim removes expired
tickets only, hence none of these.

**FailoverChain.** `RequestOK` says what holds of one request by itself: what it has
tried, at which point CPA default may be among it (`AttemptShape`), what the client has
received (`SourceShape`), what is still to be given back (`ResourceShape`) and how it
ended (`EndShape`). The first half of the module shows that every decision of the loop,
`Proceed`, `Stopped`, `Exhausted`, `ToDefault`, leads from good requests to good ones.
`HolderOK` ties the leases to the requests: a lease is out exactly when a holder is
recorded, the holder is in an attempt on that candidate, and an attempt that is a probe is
its candidate's holder. For it, a step of a request counts only as one of three kinds
(`StepKind`): it touches no circuit (`Keeps`), it takes a candidate (`Takes`), or it ends
an attempt with a report that settles the record (`Ends`). `RequestStep` classifies every
action; `KeepsInv`, `TakesInv` and `EndsInv` preserve the invariant, and the same three
kinds give the refinement: `Keeps` is a stutter of `CircuitBreaker`, `Takes` its `Start`
or `Probe`, `Ends` its `EndNormal` or `EndProbe` (`RefinesCircuitBreaker`).

**PolicyStore.** The theorems hold for any number of operators. What they say of memory
and file is about behaviours in which requests and `configure` do not overlap
(`overlapping`). The invariant says that the state file is the document of the state saved last
(`FileShape`), that a save in progress works on a copy of the memory, in the temporary
file, of which it has written the first blocks (`SaveShape`), that nothing is read during
a request, and that memory and file agree between requests unless a failure is known. The
lemmas on documents (`BlockContinues`, `WholeDocument`, `DocumentDecodes`) make the file's
content after each write exact for documents of any length; `TmpWritten` covers the steps
that write, `FilesKept` those that do not, `FailureKept` the failing ones. Only `Rename`
changes what the file decodes to, and by the invariant to the memory: hence
`RefinesAtomicStore`, with every other step of a save a stutter.

`WholeUnlessFailed` is about saves that do overlap, and needs an invariant of its own,
`SharedInv`. A successful save renames the one temporary file, and only opening a file
that is gone makes a new one: once two saves share it, or it was renamed under one, some
save in progress will miss it and fail, and nothing needs to be known of the files until
all are over. Until then saves are *orderly*: one at most has the file open, and
`OrderlyShape` says that this one has written the first blocks of its own document, that
copies and memory are not older than `floor`, and neither is the state file.

**Ranking.** The library's induction theorems take operators, but well-founded induction
has a form that speaks of sets. From it follow induction over the numbers and over finite
sets (`SetInduction`, `FiniteInduction`), and with these what the model's recursive sums
compute (`SumRemoves`, `SumAdds`, `SumAtMost`, `SumConstant`) and that any finite set in the
order of a relation that is total on it has an arrangement (`InOrderArranges`); so sorting
returns each member once and respects the relation (`SortedArranges`, `SortedRespects`), for
every relation the strategies sort by (`PriorityThenWeak`, `HeavierWeak`, `NearerWeak`, the
last by arithmetic on cross products). `OrdersAreSound` follows with the types of the
shared state as its invariant, `EditsMoveLittle` because what places two candidates is
theirs alone (`SamePlaces`). `SharesFair` has the invariant `FairInv`: under weights, each
candidate stands at what it gained in the cycle less what it paid (`Owed`); the values sum
up to zero and each is above minus one turn (`Balanced`), which a turn preserves, as the
one that stands highest stands above zero (`TurnBalances`). Nobody owes a turn, so nobody is
a turn ahead; what one is owed the others owe (`OwedAtMost`); and at the end of a cycle all
values are multiples of a turn, hence zero (`BalancedWhole`). Under round-robin those have
led whose turn it was (`Turned`), by division with remainder (`RoundApart`,
`RoundComplete`).

**PinnedExecution.** Every step of the composition is a step of `ExecutionTicket` or leaves
its variables alone (`UsesTickets`), so the theorems about tickets carry over. On top of
them the invariant says what an execution and a late pick have in their hands: every candidate,
saved or copied, is bound to a live ID that its index may mean, and to the account that
its operator saw (`Fits`); a pinned live ID is the candidate's own, if it has one, and the
one the ticket names (`Pinnable`); a bound candidate's prefix is that of one of the
`Lenders`, which are its own live ID alone if it is an entry's and config.yaml was the same
in both readings (`Scoped`). That no other index lends one is `EntryIds`: an entry's live ID
is found by its own index. Changes of auth files and configuration are steps like any other; nothing
limits their number.

**Routing.** `RuleMatch` first: `BestIsMostSpecific` shows by arithmetic that the packed
number orders rules like the promised order, `BestIsUnique` that no two rules share the
greatest. Two inductive invariants carry the rest. `IInv` (`PoliciesKnown`, `KeysKnown`,
`RunningMatched`) says that a running request has the best rule of a policy that was saved
or found. `HInv` adds the history: while every policy has been validated, running requests
have valid ones (`PoliciesValid`, `StatesKnown`), and the rows a request has left are known
from how far it is (`Counted`, `RowsKnown`).

`SInv` adds what the statistics read: a row has the key of a policy and is not younger than
the clock, its attempts are numbered from 1 and are those of its event, one row has one
trace, and the row of an execution is routed and its request served (`RowKnown`). That
every statistic adds up is one lemma about finite sets, `PartsAddUp`: if every element of
a set has a key, the numbers of elements with each key add up to the number of elements.
The sums are folds, so it goes by the well-founded order of finite subsets. The lines of
the joined query are put together to the events of the second query (`JoinedAgain`), and
the trend starts before the oldest event, whatever its steps are (`TrendIs`); hence
`StatisticsAddUp`.

`MInv` adds the memory: until a reload the events in memory and the rows *mirror* each other,
one for one and attempt for attempt (`Mirror`). The search is two one-sided lemmas: what is
found in the database is found in memory unless only JSON contains it (`FoundInMemory`),
what is found in memory is found in the database unless JSON escapes it or only Go folds it
(`FoundInDatabase`). Under the conditions of either a filter that selects the one selects the
other (`NoneAdded`, `NoneMissed`), under both it selects an event exactly when it selects its
row (`SameSelection`), a selection and its rows are in bijection (`Alike`), and
counts, sums (`SumsAlike`) and attempts (`AttemptsAlike`) are equal. The percentile is where
the two differ most, a position in a sorted list against a number of rows below and up
to a value: `SortedExists` gives the list, `SameDuration` says that both are the same value.
Rounding adds at most one (`Rounded`), and two times whose texts compare differently lie in
one second (`TextOrder`). `SourcesAlwaysAgree` follows, with the conditions on queries that
the search needs, and with any requests under way.

**EventLog.** `SInv` holds with any number of restarts at once: the sink in service and those
on their way there work and have not been told to stop (`ServiceShape`), and what a sink
owes waits in its queue (`QueueShape`); hence `RestartLosesNothing`. With one operator,
`WriterShape` says which goroutine may run at each step of a restart (`SingleWriter`),
`LossShape` that a loss of the sink in service has degraded the writer or is about to
(`SourceComplete`), and `CleanShape` what the statements of a cleanup leave to the next
ones; as no other goroutine inserts in between, the attempts of the deleted events are
gone (`NoOrphanedAttempts`).

**What the proofs corrected.** Three attempts failed for a reason in the model. `FairShare`
used to say that nobody is a turn *behind* its share either, which holds with three
candidates and fails from four on (weights 1, 11, 51 and 48): it now states the bound
that holds, and exactness after each cycle. The turns of round-robin are fair only between
two wraps of the counter. And `floor`, the history of `PolicyStore`, was not restarted when
the second reading of `configure` ended a batch in which a save had failed; it takes four
edits to show, the run has three.

**Only model-checked**: the liveness properties `RecoveryPossible`, `RequestsEnd`,
`EveryoneLeads` and `RestartEnds`; fairness is outside the provers' reach. Every
other property of a passing run is stated by a theorem, some under the conditions named above.

## 6. Plan

Done: HealthRecord, CandidateHealth, CircuitBreaker, ExecutionTicket, FailoverChain,
Ranking, PolicyStore, AtomicStore, EventLog, RuleMatch, Routing, RouteHistory, RouteStats,
LiveIdentity, PinnedExecution. What would come next:

1. A composition of CandidateHealth and FailoverChain in which policies are edited while
   requests walk their copies, and of Ranking with the health it filters by.
2. Normalisation, aliases and the migration of old states in the policy store.

## 7. Not modelled

- JSON envelopes, the cgo ABI, the line-based YAML reader, request body rewriting, the
  rewriting of a model's name and its check against the registered models: conversions
  without state. What is modelled of prefixes is whose prefix a model gets.
- Model aliases, the normalisation of documents beyond what `Routing` needs, and the
  migration of states of older releases (`ReadSecond` models only that a file of another
  kind loads as an empty state).
- `configPriorityForCandidateV10` and the priority report, which no decision reads.
- Limits on what a query returns (events, candidates, paths) and the shares and labels of
  the statistics page.
- The management page, diagnostics, the smoke-test scripts: no part in routing.
- The legacy chains: unreachable.
- Durations of attempts, masking, and of skip and selection reasons all but the candidates
  that they name: no property is about them.
- A panic outside the stream loop: only that loop recovers; anywhere else it ends the
  process, and with it all state that the models describe.
