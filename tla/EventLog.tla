------------------------------ MODULE EventLog ------------------------------
(***************************************************************************)
(* What happens to the event that every request leaves behind              *)
(* (v4_observability.go): it goes to the ring in memory and, with SQLite   *)
(* on, through the bounded queue of the current sink to the goroutine that *)
(* writes it to the database, while operators change the configuration and *)
(* restart the sink.                                                       *)
(*                                                                         *)
(* Observers are requests that end; operators are save_observability,      *)
(* reloads and the shutdown of the plugin.  Every action is one critical   *)
(* section of v4Runtime or of the health record, one channel operation or  *)
(* one SQL statement.  Events are numbered in the order of their times.    *)
(***************************************************************************)
EXTENDS Integers, Sequences, FiniteSets, SequencesExt

CONSTANTS
  Observers,
  Operators,
  Sinks,         \* channels and goroutines; one that nobody refers to is used again
  Configs,       \* records: ring, the limit of the ring or 0; sqlite; keep, the rows kept
  MaxEvents,     \* bound on the events
  MaxExpired,    \* bound on the events that outlive the retention
  MaxFailures,   \* bound on the deletions that fail
  QueueSize,     \* 1024
  CleanupEvery,  \* 100
  None

ASSUME EventLogAssumption ==
  /\ None \notin Sinks
  /\ Configs \subseteq [ring : Nat, sqlite : BOOLEAN, keep : Nat \ {0}]
  /\ {MaxEvents, MaxExpired, MaxFailures} \subseteq Nat
  /\ {QueueSize, CleanupEvery} \subseteq Nat \ {0}

VARIABLES
  config,     \* v4Runtime.state.Observability
  recent,     \* v4Runtime.recent
  active,     \* v4Runtime.sqlite
  sinks,
  rows,       \* routing_events
  attempts,   \* the events that have rows in routing_attempts
  healthy,    \* sqliteHealthV62.WriteHealthy
  observers,
  operators,
  now,        \* the latest event
  expired,    \* events up to this one are older than the retention
  torn,       \* the deletions that failed
  owed,       \* history: per sink, the events sent to it in service and not yet tried
  lossy       \* history: sinks that lost an event they were sent in service

memory == <<config, recent, active>>
database == <<rows, attempts, torn>>
history == <<owed, lossy>>
vars == <<config, recent, active, sinks, rows, attempts, healthy, observers, operators,
          now, expired, torn, owed, lossy>>

Events == 1 .. MaxEvents

\* What a writer does between two receives.
Ready == [do |-> "ready"]
Recording(ok) == [do |-> "record", ok |-> ok]
Cleaning(statement, cut) == [do |-> "clean", statement |-> statement, cut |-> cut]

Job ==
  {Ready} \cup {Recording(ok) : ok \in BOOLEAN}
    \cup {Cleaning(i, cut) : i \in 1 .. 4, cut \in 0 .. MaxEvents}

Stopped ==
  [running |-> FALSE, stop |-> FALSE, draining |-> FALSE, queue |-> <<>>, count |-> 0,
   keep |-> 1, job |-> Ready]

\* Of a goroutine that has returned only the channel is left.
Ended(s) == [Stopped EXCEPT !.queue = sinks[s].queue]

Opened(keep) == [Stopped EXCEPT !.running = TRUE, !.keep = keep]

Idle == [at |-> "idle"]

----------------------------------------------------------------------------

Init ==
  /\ config \in Configs
  /\ recent = <<>>
  /\ active = None
  /\ sinks = [s \in Sinks |-> Stopped]
  /\ rows = {} /\ attempts = {}
  /\ healthy = FALSE
  /\ observers = [o \in Observers |-> Idle]
  \* configureV4 of the registration
  /\ \E p \in Operators : operators = [x \in Operators |->
                                         IF x = p THEN [at |-> "swap"] ELSE Idle]
  /\ now = 0 /\ expired = 0
  /\ torn = 0
  /\ owed = [s \in Sinks |-> {}]
  /\ lossy = {}

----------------------------------------------------------------------------
(* Requests: observeV4.                                                    *)

\* The event gets its time, then the configuration is read.
Observe(o) ==
  /\ observers[o] = Idle
  /\ now < MaxEvents
  /\ now' = now + 1
  /\ observers' = [observers EXCEPT ![o] =
                     [at |-> "stamped", event |-> now + 1, ring |-> config.ring]]
  /\ UNCHANGED <<memory, sinks, database, healthy, operators, expired, history>>

Trimmed(events, limit) ==
  IF Len(events) > limit THEN SubSeq(events, Len(events) - limit + 1, Len(events)) ELSE events

\* The ring is trimmed by the limit that was read before.
Remember(o) ==
  /\ observers[o].at = "stamped"
  /\ LET e == observers[o].event
         limit == observers[o].ring
     IN  /\ recent' = IF limit > 0 THEN Trimmed(Append(recent, e), limit) ELSE recent
         /\ observers' = [observers EXCEPT ![o] = [at |-> "remembered", event |-> e]]
  /\ UNCHANGED <<config, active, sinks, database, healthy, operators, now, expired, history>>

\* enqueueSQLiteV4 takes the current sink under the lock.
Aim(o) ==
  /\ observers[o].at = "remembered"
  /\ observers' = [observers EXCEPT ![o] =
                     IF config.sqlite /\ active # None
                       THEN [at |-> "aimed", event |-> @.event, sink |-> active]
                       ELSE Idle]
  /\ UNCHANGED <<memory, sinks, database, healthy, operators, now, expired, history>>

\* Faulty variant: a full queue is not reported.
ReportedAs_Silent(e) == Idle

ReportedAs(e) == [at |-> "dropped", event |-> e]

\* The send does not wait; nothing tells whether the sink still runs.
Send(o) ==
  /\ observers[o].at = "aimed"
  /\ LET s == observers[o].sink
         e == observers[o].event
     IN  IF Len(sinks[s].queue) < QueueSize
           THEN /\ sinks' = [sinks EXCEPT ![s].queue = Append(@, e)]
                /\ owed' = IF s = active THEN [owed EXCEPT ![s] = @ \cup {e}] ELSE owed
                /\ observers' = [observers EXCEPT ![o] = Idle]
                /\ UNCHANGED lossy
           ELSE /\ observers' = [observers EXCEPT ![o] = ReportedAs(e)]
                /\ lossy' = IF s = active THEN lossy \cup {s} ELSE lossy
                /\ UNCHANGED <<sinks, owed>>
  /\ UNCHANGED <<memory, database, healthy, operators, now, expired>>

\* The drop is recorded.
ReportDrop(o) ==
  /\ observers[o].at = "dropped"
  /\ observers' = [observers EXCEPT ![o] = Idle]
  /\ healthy' = FALSE
  /\ UNCHANGED <<memory, sinks, database, operators, now, expired, history>>

----------------------------------------------------------------------------
(* The goroutine of a sink: loop, insert, cleanup.                         *)

Free(s) == sinks[s].running /\ sinks[s].job = Ready

\* insert is one transaction.
Take(s) ==
  /\ Free(s)
  /\ sinks[s].queue # <<>>
  /\ \E ok \in BOOLEAN :
       LET e == Head(sinks[s].queue)
       IN  /\ rows' = IF ok THEN rows \cup {e} ELSE rows
           /\ attempts' = IF ok THEN attempts \cup {e} ELSE attempts
           /\ lossy' = IF ok \/ e \notin owed[s] THEN lossy ELSE lossy \cup {s}
           /\ owed' = [owed EXCEPT ![s] = @ \ {e}]
           /\ sinks' = [sinks EXCEPT
                ![s].queue = Tail(@),
                ![s].count = IF sinks[s].draining THEN @ ELSE (@ + 1) % CleanupEvery,
                ![s].job = Recording(ok)]
  /\ UNCHANGED <<memory, healthy, observers, operators, now, expired, torn>>

\* The outcome is recorded; every CleanupEvery-th event is followed by a cleanup.
Record(s) ==
  /\ sinks[s].running /\ sinks[s].job.do = "record"
  /\ healthy' = (healthy /\ sinks[s].job.ok)
  /\ sinks' = [sinks EXCEPT ![s].job =
       IF ~sinks[s].draining /\ sinks[s].count = 0 THEN Cleaning(1, expired) ELSE Ready]
  /\ UNCHANGED <<memory, database, observers, operators, now, expired, history>>

\* The ticker.
CleanNow(s) ==
  /\ Free(s) /\ ~sinks[s].draining
  /\ sinks' = [sinks EXCEPT ![s].job = Cleaning(1, expired)]
  /\ UNCHANGED <<memory, database, healthy, observers, operators, now, expired, history>>

\* Faulty variant: the goroutine stops where it stands.
NoticeStop_Abrupt(s) ==
  /\ Free(s) /\ sinks[s].stop /\ ~sinks[s].draining
  /\ sinks' = [sinks EXCEPT ![s] = Ended(s)]
  /\ UNCHANGED <<memory, database, healthy, observers, operators, now, expired, history>>

\* select may choose stop although events are waiting.
NoticeStop(s) ==
  /\ Free(s) /\ sinks[s].stop /\ ~sinks[s].draining
  /\ sinks' = [sinks EXCEPT ![s].draining = TRUE]
  /\ UNCHANGED <<memory, database, healthy, observers, operators, now, expired, history>>

\* The queue is found empty: the last cleanup.
Drained(s) ==
  /\ Free(s) /\ sinks[s].draining /\ sinks[s].queue = <<>>
  /\ sinks' = [sinks EXCEPT ![s].job = Cleaning(1, expired)]
  /\ UNCHANGED <<memory, database, healthy, observers, operators, now, expired, history>>

\* All but the newest events.
Surplus(keep) == {e \in rows : Cardinality({f \in rows : f > e}) >= keep}

\* Faulty variant: each statement takes the time anew.
Condemned_Anew(statement, cut, keep) ==
  IF statement <= 2 THEN {e \in rows : e <= expired} ELSE Surplus(keep)

\* What the statement of a cleanup deletes.
Condemned(statement, cut, keep) ==
  IF statement <= 2 THEN {e \in rows : e <= cut} ELSE Surplus(keep)

Deletes(statement) == IF statement \in {1, 3} THEN "attempts" ELSE "rows"

\* Faulty variant: the drained loop starts over.
Returns_Never(s) == FALSE

\* The goroutine ends after the cleanup that follows the drain.
Returns(s) == sinks[s].draining

\* cleanup: four statements, each by itself; failures are ignored.
Clean(s) ==
  /\ sinks[s].running /\ sinks[s].job.do = "clean"
  /\ LET job == sinks[s].job
         condemned == Condemned(job.statement, job.cut, sinks[s].keep)
         attempted == Deletes(job.statement) = "attempts"
     IN  /\ \/ /\ attempts' = IF attempted THEN attempts \ condemned ELSE attempts
               /\ rows' = IF attempted THEN rows ELSE rows \ condemned
               /\ UNCHANGED torn
            \/ /\ torn < MaxFailures
               /\ torn' = torn + 1
               /\ UNCHANGED <<rows, attempts>>
         /\ sinks' = [sinks EXCEPT ![s] =
              IF job.statement < 4 THEN [@ EXCEPT !.job = Cleaning(job.statement + 1, job.cut)]
              ELSE IF Returns(s) THEN Ended(s)
              ELSE [@ EXCEPT !.job = Ready]]
  /\ UNCHANGED <<memory, healthy, observers, operators, now, expired, history>>

----------------------------------------------------------------------------
(* Operators: save_observability, reloads, restartSQLiteSinkV4, shutdown.  *)

Steps(p, op) == operators' = [operators EXCEPT ![p] = op]

SaveObservability(p, new) ==
  /\ operators[p] = Idle
  /\ config' = new
  /\ Steps(p, [at |-> "save"])
  /\ UNCHANGED <<recent, active, sinks, database, healthy, observers, now, expired, history>>

\* Writing the state file; if it fails the sink is not restarted.
SaveState(p) ==
  /\ operators[p].at = "save"
  /\ Steps(p, [at |-> "swap"]) \/ Steps(p, Idle)
  /\ UNCHANGED <<memory, sinks, database, healthy, observers, now, expired, history>>

\* configureV4
Reload(p, new) ==
  /\ operators[p] = Idle
  /\ config' = new
  /\ recent' = <<>>
  /\ Steps(p, [at |-> "swap"])
  /\ UNCHANGED <<active, sinks, database, healthy, observers, now, expired, history>>

ClearMemory ==
  /\ recent # <<>>
  /\ recent' = <<>>
  /\ UNCHANGED <<config, active, sinks, database, healthy, observers, operators,
                 now, expired, history>>

\* The current sink is taken out of service and told to stop.
Retire(p, wanted) ==
  /\ active' = None
  /\ sinks' = [s \in Sinks |->
                 IF s = active THEN [sinks[s] EXCEPT !.stop = TRUE] ELSE sinks[s]]
  /\ Steps(p, [at |-> "close", old |-> active, wanted |-> wanted])

Swap(p) ==
  /\ operators[p].at = "swap"
  /\ Retire(p, <<config>>)
  /\ UNCHANGED <<config, recent, database, healthy, observers, now, expired, history>>

Shutdown(p) ==
  /\ operators[p] = Idle
  /\ Retire(p, <<>>)
  /\ UNCHANGED <<config, recent, database, healthy, observers, now, expired, history>>

\* Faulty variant: the old writer is left to finish by itself.
OldIsGone_NoWait(old) == TRUE

OldIsGone(old) == old # None => ~sinks[old].running

\* The goroutine of the old sink has returned.
Closed(p) ==
  /\ operators[p].at = "close"
  /\ OldIsGone(operators[p].old)
  /\ LET wanted == operators[p].wanted
         off == wanted # <<>> /\ ~wanted[1].sqlite
     IN  /\ healthy' = (healthy /\ ~off)
         /\ IF wanted = <<>> \/ off
              THEN Steps(p, Idle)
              ELSE Steps(p, [at |-> "open", keep |-> wanted[1].keep])
  /\ UNCHANGED <<memory, sinks, database, observers, now, expired, history>>

\* The operation goes on in memory only.
OpenFails(p) ==
  /\ operators[p].at = "open"
  /\ Steps(p, Idle)
  /\ UNCHANGED <<memory, sinks, database, healthy, observers, now, expired, history>>

Referred ==
  {active} \cup {observers[o].sink : o \in {x \in Observers : observers[x].at = "aimed"}}
    \cup {operators[p].sink : p \in {x \in Operators : operators[x].at \in {"confirm", "install"}}}
    \cup {operators[p].old : p \in {x \in Operators : operators[x].at = "close"}}

\* newSQLiteSinkV4 records the opening, and restartSQLiteSinkV4 records it again.
Open(p) ==
  /\ operators[p].at = "open"
  /\ \E s \in Sinks \ Referred :
       /\ ~sinks[s].running
       /\ sinks' = [sinks EXCEPT ![s] = Opened(operators[p].keep)]
       /\ owed' = [owed EXCEPT ![s] = {}]
       /\ lossy' = lossy \ {s}
       /\ Steps(p, [at |-> "confirm", sink |-> s])
  /\ healthy' = TRUE
  /\ UNCHANGED <<memory, database, observers, now, expired>>

Confirm(p) ==
  /\ operators[p].at = "confirm"
  /\ healthy' = TRUE
  /\ Steps(p, [at |-> "install", sink |-> operators[p].sink])
  /\ UNCHANGED <<memory, sinks, database, observers, now, expired, history>>

Install(p) ==
  /\ operators[p].at = "install"
  /\ active' = operators[p].sink
  /\ Steps(p, Idle)
  /\ UNCHANGED <<config, recent, sinks, database, healthy, observers, now, expired, history>>

----------------------------------------------------------------------------
(* The environment.                                                        *)

\* Time passes.
Expire ==
  /\ expired < now /\ expired < MaxExpired
  /\ expired' = expired + 1
  /\ UNCHANGED <<memory, sinks, database, healthy, observers, operators, now, history>>

\* The process dies and the plugin is registered again; the database stays.
Crash(new) ==
  /\ config' = new
  /\ recent' = <<>>
  /\ active' = None
  /\ sinks' = [s \in Sinks |-> Stopped]
  /\ healthy' = FALSE
  /\ observers' = [o \in Observers |-> Idle]
  /\ \E p \in Operators :
       operators' = [x \in Operators |-> IF x = p THEN [at |-> "swap"] ELSE Idle]
  /\ owed' = [s \in Sinks |-> {}]
  /\ lossy' = {}
  /\ UNCHANGED <<database, now, expired>>

ObserverStep(o) == Observe(o) \/ Remember(o) \/ Aim(o) \/ Send(o) \/ ReportDrop(o)

WriterStep(s) ==
  Take(s) \/ Record(s) \/ CleanNow(s) \/ NoticeStop(s) \/ Drained(s) \/ Clean(s)

RestartStep(p) ==
  SaveState(p) \/ Swap(p) \/ Closed(p) \/ OpenFails(p) \/ Open(p) \/ Confirm(p) \/ Install(p)

Next ==
  \/ \E o \in Observers : ObserverStep(o)
  \/ \E s \in Sinks : WriterStep(s)
  \/ \E p \in Operators : RestartStep(p) \/ Shutdown(p)
  \/ \E p \in Operators, new \in Configs : SaveObservability(p, new) \/ Reload(p, new)
  \/ \E new \in Configs : Crash(new)
  \/ ClearMemory
  \/ Expire

Spec == Init /\ [][Next]_vars

\* Goroutines are scheduled and select is fair between the cases that are ready.
Fairness ==
  /\ \A o \in Observers : WF_vars(Remember(o) \/ Aim(o) \/ Send(o) \/ ReportDrop(o))
  /\ \A s \in Sinks : /\ SF_vars(Take(s)) /\ SF_vars(NoticeStop(s))
                      /\ WF_vars(Record(s)) /\ WF_vars(Drained(s)) /\ WF_vars(Clean(s))
  /\ \A p \in Operators : WF_vars(RestartStep(p))

LiveSpec == Spec /\ Fairness

----------------------------------------------------------------------------

Queued(s) == ToSet(sinks[s].queue)

\* Losses at s that are not recorded yet.
Unrecorded(s) ==
  \/ sinks[s].running /\ sinks[s].job = Recording(FALSE)
  \/ \E o \in Observers : observers[o].at = "dropped"

\* queryEventsSQLiteV62: where the history page takes its events from.
Source == IF config.sqlite /\ active # None /\ healthy THEN "sqlite" ELSE "memory"

ObserverState ==
  {Idle} \cup [at : {"stamped"}, event : Events, ring : {c.ring : c \in Configs}]
    \cup [at : {"remembered", "dropped"}, event : Events]
    \cup [at : {"aimed"}, event : Events, sink : Sinks]

OperatorState ==
  {Idle, [at |-> "save"], [at |-> "swap"]}
    \cup [at : {"close"}, old : Sinks \cup {None}, wanted : {<<>>} \cup {<<c>> : c \in Configs}]
    \cup [at : {"open"}, keep : Nat \ {0}]
    \cup [at : {"confirm", "install"}, sink : Sinks]

SinkState ==
  [running : BOOLEAN, stop : BOOLEAN, draining : BOOLEAN, queue : Seq(Events),
   count : 0 .. CleanupEvery - 1, keep : Nat \ {0}, job : Job]

\* The queue and the ring stay within their limits, whatever limits are configured.
TypeOK ==
  /\ config \in Configs
  /\ recent \in Seq(Events)
  /\ \E c \in Configs : Len(recent) <= c.ring
  /\ active \in Sinks \cup {None}
  /\ sinks \in [Sinks -> SinkState]
  /\ \A s \in Sinks : Len(sinks[s].queue) <= QueueSize
  /\ rows \subseteq Events /\ attempts \subseteq Events
  /\ healthy \in BOOLEAN
  /\ observers \in [Observers -> ObserverState]
  /\ operators \in [Operators -> OperatorState]
  /\ now \in 0 .. MaxEvents /\ expired \in 0 .. MaxEvents
  /\ torn \in 0 .. MaxFailures
  /\ owed \in [Sinks -> SUBSET Events]
  /\ lossy \subseteq Sinks

(* While the history is read from SQLite, the current sink has written     *)
(* every event it was sent, but for those that still wait in its queue.    *)
SourceComplete ==
  Source = "sqlite" =>
    \/ Unrecorded(active)
    \/ active \notin lossy /\ owed[active] \subseteq Queued(active)

(* A restart loses nothing: when the goroutine of a sink ends, every event *)
(* it was sent in service has been written or has degraded the writer.     *)
RestartLosesNothing == \A s \in Sinks : ~sinks[s].running => owed[s] = {}

(* Attempts never outlive their event, through crashes in the middle of a  *)
(* cleanup and events that expire meanwhile, unless a deletion failed.     *)
NoOrphanedAttempts == torn = 0 => attempts \subseteq rows

(* At most one goroutine works on the database.                            *)
SingleWriter == \A s, t \in Sinks : sinks[s].running /\ sinks[t].running => s = t

(* An event that a queue loses while the history is read from SQLite       *)
(* degrades the writer: here, an event sent to a sink nobody empties.      *)
QueueLossDegrades ==
  [][\A s \in Sinks :
       (Source = "sqlite" /\ ~sinks[s].running /\ Len(sinks'[s].queue) > Len(sinks[s].queue))
         => ~healthy']_vars

(* A restart ends: the goroutine of the old sink stops, whatever is still  *)
(* sent to it.                                                             *)
RestartEnds == \A p \in Operators : operators[p].at = "close" ~> operators[p].at # "close"
=============================================================================
