-------------------------- MODULE EventLog_proofs --------------------------
(***************************************************************************)
(* Theorems about EventLog, for any number of requests, sinks and events:  *)
(* first those that hold with any number of restarts at once, then those   *)
(* that need one operator.                                                 *)
(***************************************************************************)
EXTENDS EventLog, SequenceTheorems, TLAPS

----------------------------------------------------------------------------
(* The inductive invariants.                                               *)

\* A sink that takes events and has not been told to stop.
Serves(s) == sinks[s].running /\ ~sinks[s].stop /\ ~sinks[s].draining

Opening(p) == operators[p].at \in {"confirm", "install"}

\* The sink in service, and those on the way there, work; the latter are new.
ServiceShape ==
  /\ active # None => Serves(active)
  /\ \A p \in Operators :
       Opening(p) =>
         LET s == operators[p].sink
         IN  s # active /\ Serves(s) /\ owed[s] = {} /\ s \notin lossy
  /\ \A p, q \in Operators :
       Opening(p) /\ Opening(q) /\ operators[p].sink = operators[q].sink => p = q

\* What a sink owes waits in its queue; the last cleanup starts when the queue is empty.
QueueShape ==
  \A s \in Sinks :
    /\ owed[s] \subseteq Queued(s)
    /\ ~sinks[s].running => owed[s] = {}
    /\ sinks[s].draining => sinks[s].stop
    /\ sinks[s].draining /\ sinks[s].job.do = "clean" => owed[s] = {}

SInv == TypeOK /\ ServiceShape /\ QueueShape

\* Where the only goroutine stands while an operator restarts the sink.
WriterShape(p) ==
  /\ operators[p].at \in {"close", "open", "confirm", "install"} => active = None
  /\ \A s \in Sinks :
       sinks[s].running =>
         /\ operators[p].at \in {"idle", "save", "swap"} => s = active
         /\ operators[p].at = "close" => s = operators[p].old
         /\ operators[p].at # "open"
         /\ Opening(p) => s = operators[p].sink

\* The sink in service lost an event: the writer is degraded, or will be.
LossShape == active # None /\ active \in lossy /\ healthy => Unrecorded(active)

\* The second and the fourth statement find the attempts of their events deleted.
CleanShape ==
  torn = 0 =>
    /\ attempts \subseteq rows
    /\ \A s \in Sinks :
         sinks[s].running /\ sinks[s].job.do = "clean" =>
           /\ sinks[s].job.statement = 2 => \A e \in attempts : e > sinks[s].job.cut
           /\ sinks[s].job.statement = 4 => attempts \cap Surplus(sinks[s].keep) = {}

WInv(p) == SInv /\ WriterShape(p) /\ LossShape /\ CleanShape

----------------------------------------------------------------------------
(* Facts about sequences and jobs.                                         *)

LEMMA QueueLast ==
  ASSUME NEW T, NEW q \in Seq(T), NEW e \in T
  PROVE  /\ Append(q, e) \in Seq(T) /\ Len(Append(q, e)) = Len(q) + 1
         /\ ToSet(q) \subseteq ToSet(Append(q, e)) /\ e \in ToSet(Append(q, e))
<1>1. Append(q, e) \in Seq(T) /\ Len(Append(q, e)) = Len(q) + 1
  OBVIOUS
<1>2. DOMAIN q = 1 .. Len(q) /\ DOMAIN Append(q, e) = 1 .. Len(q) + 1
  OBVIOUS
<1>3. \A i \in 1 .. Len(q) : Append(q, e)[i] = q[i]
  OBVIOUS
<1>4. Append(q, e)[Len(q) + 1] = e
  OBVIOUS
<1> QED
  BY <1>1, <1>2, <1>3, <1>4 DEF ToSet

LEMMA QueueFirst ==
  ASSUME NEW T, NEW q \in Seq(T), q # <<>>
  PROVE  /\ Head(q) \in T /\ Tail(q) \in Seq(T) /\ Len(Tail(q)) = Len(q) - 1
         /\ ToSet(q) \subseteq ToSet(Tail(q)) \cup {Head(q)}
<1>1. Head(q) \in T /\ Tail(q) \in Seq(T) /\ Len(Tail(q)) = Len(q) - 1
  BY HeadTailProperties
<1>2. Head(q) = q[1] /\ DOMAIN q = 1 .. Len(q) /\ Len(q) \in Nat
  OBVIOUS
<1>3. \A j \in 1 .. Len(q) - 1 : Tail(q)[j] = q[j + 1]
  BY <1>1, HeadTailProperties
<1>4. DOMAIN Tail(q) = 1 .. Len(q) - 1
  BY <1>1
<1>5. ASSUME NEW i \in 1 .. Len(q), i # 1
      PROVE  q[i] \in ToSet(Tail(q))
  <2>1. i - 1 \in 1 .. Len(q) - 1 /\ (i - 1) + 1 = i
    BY <1>2, <1>5
  <2>2. i - 1 \in DOMAIN Tail(q) /\ Tail(q)[i - 1] = q[i]
    BY <1>3, <1>4, <2>1
  <2> QED
    BY <2>2 DEF ToSet
<1>6. ASSUME NEW x \in ToSet(q) PROVE x \in ToSet(Tail(q)) \cup {Head(q)}
  BY <1>2, <1>5 DEF ToSet
<1> QED
  BY <1>1, <1>6

LEMMA QueueEmpty == ToSet(<<>>) = {}
BY DEF ToSet

LEMMA RingTrimmed ==
  ASSUME NEW q \in Seq(Events), NEW limit \in Nat
  PROVE  Trimmed(q, limit) \in Seq(Events) /\ Len(Trimmed(q, limit)) <= limit
<1>1. CASE Len(q) <= limit
  BY <1>1 DEF Trimmed
<1>2. CASE Len(q) > limit
  <2>1. Len(q) - limit + 1 \in 1 .. Len(q) + 1
    BY <1>2
  <2>2. SubSeq(q, Len(q) - limit + 1, Len(q)) \in Seq(Events)
    BY <2>1, SubSeqProperties
  <2>3. Len(SubSeq(q, Len(q) - limit + 1, Len(q))) = limit
    BY <2>1, SubSeqProperties
  <2> QED
    BY <1>2, <2>2, <2>3 DEF Trimmed
<1> QED
  BY <1>1, <1>2

\* Jobs and how they are told apart.
LEMMA Jobs ==
  /\ Ready \in Job /\ Ready.do = "ready" /\ Ready.do # "record" /\ Ready.do # "clean"
  /\ \A ok \in BOOLEAN :
       /\ Recording(ok) \in Job /\ Recording(ok).do = "record" /\ Recording(ok).ok = ok
       /\ Recording(ok) # Ready
  /\ \A i \in 1 .. 4, cut \in 0 .. MaxEvents :
       /\ Cleaning(i, cut) \in Job /\ Cleaning(i, cut).do = "clean"
       /\ Cleaning(i, cut).statement = i /\ Cleaning(i, cut).cut = cut
       /\ Cleaning(i, cut) # Ready
<1>1. /\ Ready \in Job
      /\ \A ok \in BOOLEAN : Recording(ok) \in Job
      /\ \A i \in 1 .. 4, cut \in 0 .. MaxEvents : Cleaning(i, cut) \in Job
  BY DEF Job
<1>2. Ready.do = "ready"
  BY DEF Ready
<1>3. \A ok : Recording(ok).do = "record" /\ Recording(ok).ok = ok
  BY DEF Recording
<1>4. \A i, cut : /\ Cleaning(i, cut).do = "clean"
                  /\ Cleaning(i, cut).statement = i /\ Cleaning(i, cut).cut = cut
  BY DEF Cleaning
<1>5. /\ \A ok : Recording(ok) # Ready
      /\ \A i, cut : Cleaning(i, cut) # Ready
  BY <1>2, <1>3, <1>4
<1> QED
  BY <1>1, <1>2, <1>3, <1>4, <1>5

LEMMA JobKinds ==
  ASSUME NEW job \in Job
  PROVE  /\ job.do = "record" => job.ok \in BOOLEAN /\ job = Recording(job.ok)
         /\ job.do = "clean" => job.statement \in 1 .. 4 /\ job.cut \in 0 .. MaxEvents
         /\ job.do \notin {"record", "clean"} => job = Ready
BY DEF Job, Ready, Recording, Cleaning

----------------------------------------------------------------------------
(* Types.                                                                  *)

LEMMA NewSinks ==
  /\ Stopped \in SinkState /\ Stopped.queue = <<>> /\ ~Stopped.running
  /\ \A keep \in Nat \ {0} :
       /\ Opened(keep) \in SinkState /\ Opened(keep).queue = <<>> /\ Opened(keep).running
       /\ ~Opened(keep).stop /\ ~Opened(keep).draining /\ Opened(keep).job = Ready
<1>1. Ready \in Job /\ 0 \in 0 .. CleanupEvery - 1 /\ <<>> \in Seq(Events)
  BY EventLogAssumption, Jobs
<1>2. Stopped \in SinkState
  BY <1>1 DEF Stopped, SinkState
<1> QED
  BY <1>2 DEF Stopped, Opened, SinkState

LEMMA TypeInit == Init => TypeOK
<1> SUFFICES ASSUME Init PROVE TypeOK
  OBVIOUS
<1> USE EventLogAssumption
<1>1. Stopped \in SinkState /\ Stopped.queue = <<>>
  BY NewSinks
<1>2. operators \in [Operators -> OperatorState]
  BY DEF Init, OperatorState, Idle
<1>3. observers \in [Observers -> ObserverState]
  BY DEF Init, ObserverState
<1>4. recent \in Seq(Events) /\ \E c \in Configs : Len(recent) <= c.ring
  BY DEF Init
<1>5. sinks \in [Sinks -> SinkState] /\ \A s \in Sinks : Len(sinks[s].queue) <= QueueSize
  BY <1>1 DEF Init
<1>6. /\ now \in 0 .. MaxEvents /\ expired \in 0 .. MaxEvents /\ torn \in 0 .. MaxFailures
      /\ owed \in [Sinks -> SUBSET Events]
  BY DEF Init
<1>7. /\ config \in Configs /\ active \in Sinks \cup {None}
      /\ rows \subseteq Events /\ attempts \subseteq Events
      /\ healthy \in BOOLEAN /\ lossy \subseteq Sinks
  BY DEF Init
<1> QED
  BY <1>2, <1>3, <1>4, <1>5, <1>6, <1>7 DEF TypeOK

\* What an operator's step leaves.
LEMMA OperatorStates ==
  /\ Idle \in OperatorState
  /\ [at |-> "save"] \in OperatorState /\ [at |-> "swap"] \in OperatorState
  /\ \A old \in Sinks \cup {None} :
       /\ [at |-> "close", old |-> old, wanted |-> <<>>] \in OperatorState
       /\ \A c \in Configs : [at |-> "close", old |-> old, wanted |-> <<c>>] \in OperatorState
  /\ \A keep \in Nat \ {0} : [at |-> "open", keep |-> keep] \in OperatorState
  /\ \A s \in Sinks : /\ [at |-> "confirm", sink |-> s] \in OperatorState
                      /\ [at |-> "install", sink |-> s] \in OperatorState
BY DEF OperatorState

LEMMA OperatorFields ==
  ASSUME NEW op \in OperatorState
  PROVE  /\ op.at \in {"idle", "save", "swap", "close", "open", "confirm", "install"}
         /\ op.at = "idle" <=> op = Idle
         /\ op.at = "close" => op.old \in Sinks \cup {None}
         /\ op.at = "open" => op.keep \in Nat \ {0}
         /\ op.at \in {"confirm", "install"} => op.sink \in Sinks
BY DEF OperatorState, Idle

LEMMA ClosingFields ==
  ASSUME NEW op \in OperatorState, op.at = "close", op.wanted # <<>>
  PROVE  op.wanted[1] \in Configs
BY DEF OperatorState, Idle

LEMMA ObserverFields ==
  ASSUME NEW ob \in ObserverState
  PROVE  /\ ob.at = "idle" <=> ob = Idle
         /\ ob # Idle => ob.event \in Events
         /\ ob.at = "stamped" => \E c \in Configs : ob.ring = c.ring
         /\ ob.at = "aimed" => ob.sink \in Sinks
BY DEF ObserverState, Idle
LEMMA TypeStep == TypeOK /\ [Next]_vars => TypeOK'
<1> SUFFICES ASSUME TypeOK, [Next]_vars PROVE TypeOK'
  OBVIOUS
<1> USE EventLogAssumption
<1>a. ASSUME NEW p \in Operators, NEW op \in OperatorState, Steps(p, op)
      PROVE  operators' \in [Operators -> OperatorState]
  BY <1>a DEF TypeOK, Steps
<1>b. ASSUME NEW o \in Observers, NEW ob \in ObserverState,
             observers' = [observers EXCEPT ![o] = ob]
      PROVE  observers' \in [Observers -> ObserverState]
  BY <1>b DEF TypeOK
<1>c. ASSUME NEW s \in Sinks, NEW sink \in SinkState, Len(sink.queue) <= QueueSize,
             sinks' = [sinks EXCEPT ![s] = sink]
      PROVE  sinks' \in [Sinks -> SinkState] /\ \A t \in Sinks : Len(sinks'[t].queue) <= QueueSize
  BY <1>c DEF TypeOK
<1>1. ASSUME NEW o \in Observers, Observe(o) PROVE TypeOK'
  <2>1. now + 1 \in Events
    BY <1>1 DEF Observe, TypeOK, Events
  <2>2. [at |-> "stamped", event |-> now + 1, ring |-> config.ring] \in ObserverState
    BY <2>1 DEF ObserverState, TypeOK
  <2> QED
    BY <1>1, <1>b, <2>1, <2>2 DEF Observe, TypeOK, Events, memory, database, history
<1>2. ASSUME NEW o \in Observers, Remember(o) PROVE TypeOK'
  <2> DEFINE e == observers[o].event
             limit == observers[o].ring
  <2>1. e \in Events /\ \E c \in Configs : limit = c.ring
    BY <1>2, ObserverFields DEF Remember, TypeOK, Idle
  <2>2. limit \in Nat
    BY <2>1
  <2>3. [at |-> "remembered", event |-> e] \in ObserverState
    BY <2>1 DEF ObserverState
  <2>4. Append(recent, e) \in Seq(Events)
    BY <2>1 DEF TypeOK
  <2>5. recent' \in Seq(Events) /\ \E c \in Configs : Len(recent') <= c.ring
    <3>1. CASE limit > 0
      BY <1>2, <2>1, <2>2, <2>4, <3>1, RingTrimmed DEF Remember
    <3>2. CASE ~(limit > 0)
      BY <1>2, <3>2 DEF Remember, TypeOK
    <3> QED
      BY <3>1, <3>2
  <2>6. observers' \in [Observers -> ObserverState]
    BY <1>2, <1>b, <2>3 DEF Remember
  <2> QED
    BY <1>2, <2>5, <2>6 DEF Remember, TypeOK, database, history
<1>3. ASSUME NEW o \in Observers, Aim(o) PROVE TypeOK'
  <2>1. observers[o].event \in Events
    BY <1>3, ObserverFields DEF Aim, TypeOK, Idle
  <2>2. CASE config.sqlite /\ active # None
    <3>1. [at |-> "aimed", event |-> observers[o].event, sink |-> active] \in ObserverState
      BY <2>1, <2>2 DEF ObserverState, TypeOK
    <3> QED
      BY <1>3, <1>b, <2>2, <3>1 DEF Aim, TypeOK, memory, database, history
  <2>3. CASE ~(config.sqlite /\ active # None)
    <3>1. Idle \in ObserverState
      BY DEF ObserverState
    <3> QED
      BY <1>3, <1>b, <2>3, <3>1 DEF Aim, TypeOK, memory, database, history
  <2> QED
    BY <2>2, <2>3
<1>4. ASSUME NEW o \in Observers, Send(o) PROVE TypeOK'
  <2> DEFINE s == observers[o].sink
             e == observers[o].event
  <2>1. e \in Events /\ s \in Sinks
    BY <1>4, ObserverFields DEF Send, TypeOK, Idle
  <2>2. sinks[s] \in SinkState /\ sinks[s].queue \in Seq(Events)
    BY <2>1 DEF TypeOK, SinkState
  <2>3. Idle \in ObserverState /\ [at |-> "dropped", event |-> e] \in ObserverState
    BY <2>1 DEF ObserverState
  <2>4. CASE Len(sinks[s].queue) < QueueSize
    <3> DEFINE new == [sinks[s] EXCEPT !.queue = Append(@, e)]
    <3>1. Append(sinks[s].queue, e) \in Seq(Events) /\ Len(Append(sinks[s].queue, e)) <= QueueSize
      BY <2>1, <2>2, <2>4
    <3>2. new \in SinkState /\ Len(new.queue) <= QueueSize
      BY <2>2, <3>1 DEF SinkState
    <3>3. sinks' = [sinks EXCEPT ![s] = new]
      BY <1>4, <2>4 DEF Send
    <3>4. owed' \in [Sinks -> SUBSET Events]
      <4>1. owed' = [owed EXCEPT ![s] = @ \cup {e}] \/ owed' = owed
        BY <1>4, <2>4 DEF Send
      <4>2. owed \in [Sinks -> SUBSET Events]
        BY DEF TypeOK
      <4> QED
        BY <2>1, <4>1, <4>2
    <3>5. observers' \in [Observers -> ObserverState]
      BY <1>4, <1>b, <2>3, <2>4 DEF Send
    <3>6. sinks' \in [Sinks -> SinkState] /\ \A t \in Sinks : Len(sinks'[t].queue) <= QueueSize
      BY <1>c, <2>1, <3>2, <3>3
    <3> QED
      BY <1>4, <2>4, <3>4, <3>5, <3>6 DEF Send, TypeOK, memory, database
  <2>5. CASE ~(Len(sinks[s].queue) < QueueSize)
    <3>1. observers' \in [Observers -> ObserverState]
      BY <1>4, <1>b, <2>3, <2>5 DEF Send, ReportedAs
    <3> QED
      BY <1>4, <2>1, <2>5, <3>1 DEF Send, TypeOK, memory, database
  <2> QED
    BY <2>4, <2>5
<1>5. ASSUME NEW o \in Observers, ReportDrop(o) PROVE TypeOK'
  <2>1. Idle \in ObserverState
    BY DEF ObserverState
  <2> QED
    BY <1>5, <1>b, <2>1 DEF ReportDrop, TypeOK, memory, database, history
<1>6. ASSUME NEW s \in Sinks, Take(s) PROVE TypeOK'
  <2>1. PICK ok \in BOOLEAN :
          /\ rows' = IF ok THEN rows \cup {Head(sinks[s].queue)} ELSE rows
          /\ attempts' = IF ok THEN attempts \cup {Head(sinks[s].queue)} ELSE attempts
          /\ lossy' = IF ok \/ Head(sinks[s].queue) \notin owed[s] THEN lossy ELSE lossy \cup {s}
          /\ owed' = [owed EXCEPT ![s] = @ \ {Head(sinks[s].queue)}]
          /\ sinks' = [sinks EXCEPT
               ![s].queue = Tail(@),
               ![s].count = IF sinks[s].draining THEN @ ELSE (@ + 1) % CleanupEvery,
               ![s].job = Recording(ok)]
    BY <1>6 DEF Take
  <2>2. sinks[s] \in SinkState /\ sinks[s].queue \in Seq(Events) /\ sinks[s].queue # <<>>
    BY <1>6 DEF Take, TypeOK, SinkState
  <2>3. /\ Head(sinks[s].queue) \in Events
        /\ Tail(sinks[s].queue) \in Seq(Events)
        /\ Len(Tail(sinks[s].queue)) = Len(sinks[s].queue) - 1
    BY <2>2, QueueFirst
  <2> DEFINE new == [sinks[s] EXCEPT
               !.queue = Tail(@),
               !.count = IF sinks[s].draining THEN @ ELSE (@ + 1) % CleanupEvery,
               !.job = Recording(ok)]
  <2>4. sinks' = [sinks EXCEPT ![s] = new]
    BY <2>1
  <2>5. sinks[s].count \in 0 .. CleanupEvery - 1 /\ (sinks[s].count + 1) % CleanupEvery \in 0 .. CleanupEvery - 1
    BY <2>2 DEF SinkState
  <2>6. Recording(ok) \in Job
    BY Jobs
  <2>7. Len(Tail(sinks[s].queue)) <= QueueSize
    BY <2>2, <2>3 DEF TypeOK
  <2>8. new \in SinkState /\ Len(new.queue) <= QueueSize
    BY <2>2, <2>3, <2>5, <2>6, <2>7 DEF SinkState
  <2>9. sinks' \in [Sinks -> SinkState] /\ \A t \in Sinks : Len(sinks'[t].queue) <= QueueSize
    BY <1>c, <2>4, <2>8
  <2>10. /\ rows' \subseteq Events /\ attempts' \subseteq Events /\ lossy' \subseteq Sinks
         /\ owed' \in [Sinks -> SUBSET Events]
    BY <2>1, <2>3 DEF TypeOK
  <2> QED
    BY <1>6, <2>9, <2>10 DEF Take, TypeOK, memory
<1>d. ASSUME NEW s \in Sinks, NEW job \in Job, sinks' = [sinks EXCEPT ![s].job = job]
      PROVE  sinks' \in [Sinks -> SinkState] /\ \A t \in Sinks : Len(sinks'[t].queue) <= QueueSize
  BY <1>d DEF TypeOK, SinkState
<1>e. Ready \in Job /\ Cleaning(1, expired) \in Job
  BY Jobs DEF TypeOK
<1>7. ASSUME NEW s \in Sinks, Record(s) PROVE TypeOK'
  <2>1. healthy' \in BOOLEAN
    BY <1>7 DEF Record
  <2>2. sinks' \in [Sinks -> SinkState] /\ \A t \in Sinks : Len(sinks'[t].queue) <= QueueSize
    BY <1>7, <1>d, <1>e DEF Record
  <2> QED
    BY <1>7, <2>1, <2>2 DEF Record, TypeOK, memory, database, history
<1>8. ASSUME NEW s \in Sinks, CleanNow(s) \/ Drained(s) PROVE TypeOK'
  <2>1. sinks' \in [Sinks -> SinkState] /\ \A t \in Sinks : Len(sinks'[t].queue) <= QueueSize
    BY <1>8, <1>d, <1>e DEF CleanNow, Drained
  <2> QED
    BY <1>8, <2>1 DEF CleanNow, Drained, TypeOK, memory, database, history
<1>9. ASSUME NEW s \in Sinks, NoticeStop(s) PROVE TypeOK'
  <2>1. sinks' \in [Sinks -> SinkState] /\ \A t \in Sinks : Len(sinks'[t].queue) <= QueueSize
    BY <1>9 DEF NoticeStop, TypeOK, SinkState
  <2> QED
    BY <1>9, <2>1 DEF NoticeStop, TypeOK, memory, database, history
<1>10. ASSUME NEW s \in Sinks, Clean(s) PROVE TypeOK'
  <2> DEFINE job == sinks[s].job
             next == IF job.statement < 4 THEN [sinks[s] EXCEPT !.job = Cleaning(job.statement + 1, job.cut)]
                     ELSE IF Returns(s) THEN Ended(s)
                     ELSE [sinks[s] EXCEPT !.job = Ready]
  <2>1. sinks[s] \in SinkState /\ job \in Job /\ job.do = "clean"
    BY <1>10 DEF Clean, TypeOK, SinkState
  <2>2. job.statement \in 1 .. 4 /\ job.cut \in 0 .. MaxEvents
    BY <2>1, JobKinds
  <2>3. next \in SinkState /\ Len(next.queue) <= QueueSize
    <3>1. CASE job.statement < 4
      <4>1. Cleaning(job.statement + 1, job.cut) \in Job
        BY <2>2, <3>1, Jobs
      <4> QED
        BY <2>1, <3>1, <4>1 DEF SinkState, TypeOK
    <3>2. CASE ~(job.statement < 4)
      <4>1. Len(sinks[s].queue) <= QueueSize /\ sinks[s].queue \in Seq(Events)
        BY <2>1 DEF TypeOK, SinkState
      <4>2. Ended(s) \in SinkState /\ Ended(s).queue = sinks[s].queue
        BY <4>1, NewSinks DEF Ended, SinkState
      <4>3. [sinks[s] EXCEPT !.job = Ready] \in SinkState
        BY <2>1, <1>e DEF SinkState
      <4> QED
        BY <2>1, <3>2, <4>1, <4>2, <4>3 DEF SinkState
    <3> QED
      BY <3>1, <3>2
  <2>4. sinks' = [sinks EXCEPT ![s] = next]
    BY <1>10 DEF Clean
  <2>5. sinks' \in [Sinks -> SinkState] /\ \A t \in Sinks : Len(sinks'[t].queue) <= QueueSize
    BY <1>c, <2>3, <2>4
  <2>6. rows' \subseteq rows /\ attempts' \subseteq attempts /\ torn' \in 0 .. MaxFailures
    BY <1>10 DEF Clean, TypeOK
  <2> QED
    BY <1>10, <2>5, <2>6 DEF Clean, TypeOK, memory, history
<1>11. ASSUME NEW p \in Operators, NEW new \in Configs, SaveObservability(p, new) \/ Reload(p, new)
       PROVE  TypeOK'
  <2>1. operators' \in [Operators -> OperatorState]
    BY <1>11, <1>a, OperatorStates DEF SaveObservability, Reload
  <2>2. recent' = recent \/ recent' = <<>>
    BY <1>11 DEF SaveObservability, Reload
  <2>3. recent' \in Seq(Events) /\ \E c \in Configs : Len(recent') <= c.ring
    <3>1. CASE recent' = recent
      BY <3>1 DEF TypeOK
    <3>2. CASE recent' = <<>>
      <4>1. new.ring \in Nat /\ Len(recent') = 0
        BY <3>2
      <4> QED
        BY <3>2, <4>1
    <3> QED
      BY <2>2, <3>1, <3>2
  <2> QED
    BY <1>11, <2>1, <2>3 DEF SaveObservability, Reload, TypeOK, database, history
<1>12. ASSUME NEW p \in Operators, SaveState(p) \/ Confirm(p) \/ OpenFails(p) \/ Install(p)
       PROVE  TypeOK'
  <2>1. Opening(p) => operators[p].sink \in Sinks
    BY OperatorFields DEF Opening, TypeOK
  <2>2. operators' \in [Operators -> OperatorState]
    BY <1>12, <1>a, <2>1, OperatorStates DEF SaveState, Confirm, OpenFails, Install, Opening
  <2>3. active' \in Sinks \cup {None} /\ healthy' \in BOOLEAN
    BY <1>12, <2>1 DEF SaveState, Confirm, OpenFails, Install, Opening, TypeOK, memory
  <2> QED
    BY <1>12, <2>2, <2>3
    DEF SaveState, Confirm, OpenFails, Install, TypeOK, memory, database, history
<1>13. ASSUME NEW p \in Operators, Swap(p) \/ Shutdown(p) PROVE TypeOK'
  <2>1. operators' \in [Operators -> OperatorState]
    BY <1>13, <1>a, OperatorStates DEF Swap, Shutdown, Retire, TypeOK
  <2>2. sinks' \in [Sinks -> SinkState] /\ \A t \in Sinks : Len(sinks'[t].queue) <= QueueSize
    <3>1. sinks' = [t \in Sinks |-> IF t = active THEN [sinks[t] EXCEPT !.stop = TRUE] ELSE sinks[t]]
      BY <1>13 DEF Swap, Shutdown, Retire
    <3>2. ASSUME NEW t \in Sinks
          PROVE  sinks'[t] \in SinkState /\ Len(sinks'[t].queue) <= QueueSize
      <4>1. sinks[t] \in SinkState /\ Len(sinks[t].queue) <= QueueSize
        BY DEF TypeOK
      <4>2. /\ [sinks[t] EXCEPT !.stop = TRUE] \in SinkState
            /\ [sinks[t] EXCEPT !.stop = TRUE].queue = sinks[t].queue
        BY <4>1 DEF SinkState
      <4> QED
        BY <3>1, <4>1, <4>2
    <3> QED
      BY <3>1, <3>2
  <2> QED
    BY <1>13, <2>1, <2>2 DEF Swap, Shutdown, Retire, TypeOK, database, history
<1>14. ASSUME NEW p \in Operators, Closed(p) PROVE TypeOK'
  <2>1. operators[p] \in OperatorState /\ operators[p].at = "close"
    BY <1>14 DEF Closed, TypeOK
  <2>2. operators[p].wanted # <<>> => operators[p].wanted[1] \in Configs
    BY <2>1, ClosingFields
  <2>3. operators' \in [Operators -> OperatorState]
    <3>1. \/ Steps(p, Idle)
          \/ /\ operators[p].wanted # <<>>
             /\ Steps(p, [at |-> "open", keep |-> operators[p].wanted[1].keep])
      BY <1>14 DEF Closed
    <3>2. operators[p].wanted # <<>> => operators[p].wanted[1].keep \in Nat \ {0}
      BY <2>2
    <3> QED
      BY <1>a, <3>1, <3>2, OperatorStates
  <2>4. healthy' \in BOOLEAN
    BY <1>14 DEF Closed
  <2> QED
    BY <1>14, <2>3, <2>4 DEF Closed, TypeOK, memory, database, history
<1>15. ASSUME NEW p \in Operators, Open(p) PROVE TypeOK'
  <2>1. PICK s \in Sinks : /\ sinks' = [sinks EXCEPT ![s] = Opened(operators[p].keep)]
                           /\ owed' = [owed EXCEPT ![s] = {}]
                           /\ lossy' = lossy \ {s}
                           /\ Steps(p, [at |-> "confirm", sink |-> s])
    BY <1>15 DEF Open
  <2>2. operators[p].keep \in Nat \ {0}
    BY <1>15, OperatorFields DEF Open, TypeOK
  <2>3. /\ Opened(operators[p].keep) \in SinkState
        /\ Len(Opened(operators[p].keep).queue) <= QueueSize
    BY <2>2, NewSinks
  <2>4. sinks' \in [Sinks -> SinkState] /\ \A t \in Sinks : Len(sinks'[t].queue) <= QueueSize
    BY <1>c, <2>1, <2>3
  <2>5. operators' \in [Operators -> OperatorState]
    BY <1>a, <2>1, OperatorStates
  <2>6. owed' \in [Sinks -> SUBSET Events] /\ lossy' \subseteq Sinks
    BY <2>1 DEF TypeOK
  <2> QED
    BY <1>15, <2>4, <2>5, <2>6 DEF Open, TypeOK, memory, database
<1>16. ASSUME NEW new \in Configs, Crash(new) PROVE TypeOK'
  <2>1. Stopped \in SinkState /\ Stopped.queue = <<>>
    BY NewSinks
  <2>2. sinks' \in [Sinks -> SinkState] /\ \A t \in Sinks : Len(sinks'[t].queue) <= QueueSize
    BY <1>16, <2>1 DEF Crash
  <2>3. operators' \in [Operators -> OperatorState]
    BY <1>16, OperatorStates DEF Crash
  <2>4. observers' \in [Observers -> ObserverState]
    BY <1>16 DEF Crash, ObserverState
  <2>5. recent' \in Seq(Events) /\ \E c \in Configs : Len(recent') <= c.ring
    BY <1>16 DEF Crash
  <2>6. owed' \in [Sinks -> SUBSET Events] /\ lossy' \subseteq Sinks
    BY <1>16 DEF Crash
  <2> QED
    BY <1>16, <2>2, <2>3, <2>4, <2>5, <2>6 DEF Crash, TypeOK, database
<1>17. CASE ClearMemory
  <2>1. recent' \in Seq(Events) /\ \E c \in Configs : Len(recent') <= c.ring
    BY <1>17 DEF ClearMemory, TypeOK
  <2> QED
    BY <1>17, <2>1 DEF ClearMemory, TypeOK, database, history
<1>18. CASE Expire
  <2>1. expired' \in 0 .. MaxEvents
    BY <1>18 DEF Expire, TypeOK
  <2> QED
    BY <1>18, <2>1 DEF Expire, TypeOK, memory, database, history
<1>19. CASE UNCHANGED vars
  BY <1>19 DEF vars, TypeOK
<1> QED
  BY <1>1, <1>2, <1>3, <1>4, <1>5, <1>6, <1>7, <1>8, <1>9, <1>10, <1>11, <1>12, <1>13, <1>14,
     <1>15, <1>16, <1>17, <1>18, <1>19
  DEF Next, ObserverStep, WriterStep, RestartStep

(* The ring in memory and the queues of the sinks stay within their limits *)
(* (observeV4, enqueueSQLiteV4), whatever is configured meanwhile.         *)
THEOREM TypeInvariant == Spec => []TypeOK
BY TypeInit, TypeStep, PTL DEF Spec

----------------------------------------------------------------------------
(* Sinks in service and what they owe.                                     *)

LEMMA ShapeInit == Init => ServiceShape /\ QueueShape
<1> SUFFICES ASSUME Init PROVE ServiceShape /\ QueueShape
  OBVIOUS
<1>1. \A p \in Operators : ~Opening(p)
  BY DEF Init, Opening, Idle
<1>2. \A s \in Sinks : owed[s] = {} /\ ~sinks[s].draining
  BY DEF Init, Stopped
<1> QED
  BY <1>1, <1>2 DEF Init, ServiceShape, QueueShape

\* A step that leaves the sinks, and no operator begins to open one.
LEMMA ShapeKept ==
  ASSUME ServiceShape, QueueShape,
         UNCHANGED <<active, sinks, owed, lossy>>,
         \A p \in Operators :
           Opening(p)' => Opening(p) /\ operators'[p].sink = operators[p].sink
  PROVE  ServiceShape' /\ QueueShape'
<1>1. ServiceShape'
  BY DEF ServiceShape, Serves
<1>2. QueueShape'
  BY DEF QueueShape, Queued
<1> QED
  BY <1>1, <1>2

\* A step on the sink s that leaves its flags and gives the operators nothing.
LEMMA ShapeOfSink ==
  ASSUME TypeOK, ServiceShape, NEW s \in Sinks,
         UNCHANGED <<active, operators>>,
         \A t \in Sinks : t # s => sinks'[t] = sinks[t] /\ owed'[t] = owed[t],
         Serves(s) => Serves(s)',
         owed[s] = {} /\ s # active => owed'[s] = {},
         \/ lossy' = lossy
         \/ lossy' = lossy \cup {s} /\ (s = active \/ owed[s] # {})
  PROVE  ServiceShape'
<1>1. \A t \in Sinks : Serves(t) => Serves(t)'
  BY DEF Serves
<1>2. active # None => active' \in Sinks /\ Serves(active)'
  BY <1>1 DEF ServiceShape, TypeOK
<1>3. ASSUME NEW p \in Operators, Opening(p)'
      PROVE  (LET t == operators[p].sink
              IN  t # active /\ Serves(t) /\ owed[t] = {} /\ t \notin lossy)'
  <2>1. Opening(p) /\ operators[p].sink \in Sinks /\ operators'[p].sink = operators[p].sink
    BY <1>3, OperatorFields DEF Opening, TypeOK
  <2>2. /\ operators[p].sink # active /\ Serves(operators[p].sink)
        /\ owed[operators[p].sink] = {} /\ operators[p].sink \notin lossy
    BY <2>1 DEF ServiceShape
  <2>3. operators[p].sink # active' /\ Serves(operators[p].sink)'
    BY <1>1, <2>1, <2>2
  <2>4. owed'[operators[p].sink] = {}
    BY <2>1, <2>2
  <2>5. operators[p].sink \notin lossy'
    BY <2>1, <2>2
  <2> QED
    BY <2>1, <2>3, <2>4, <2>5
<1>4. \A p, q \in Operators :
        Opening(p)' /\ Opening(q)' /\ operators'[p].sink = operators'[q].sink => p = q
  BY DEF ServiceShape, Opening
<1> QED
  BY <1>2, <1>3, <1>4 DEF ServiceShape

LEMMA ShapeStep == SInv /\ [Next]_vars => ServiceShape' /\ QueueShape'
<1> SUFFICES ASSUME SInv, [Next]_vars PROVE ServiceShape' /\ QueueShape'
  OBVIOUS
<1> USE DEF SInv
<1>1. ASSUME NEW o \in Observers, Observe(o) \/ Remember(o) \/ Aim(o) \/ ReportDrop(o)
      PROVE  ServiceShape' /\ QueueShape'
  BY <1>1, ShapeKept DEF Observe, Remember, Aim, ReportDrop, Opening, memory, history
<1>2. ASSUME NEW o \in Observers, Send(o) PROVE ServiceShape' /\ QueueShape'
  <2>1. PICK s \in Sinks, e \in Events : observers[o].sink = s /\ observers[o].event = e
    BY <1>2, ObserverFields DEF Send, TypeOK, Idle
  <2>2. sinks[s].queue \in Seq(Events)
    BY <2>1 DEF TypeOK, SinkState
  <2>3. CASE Len(sinks[s].queue) < QueueSize
    <3>1. /\ sinks' = [sinks EXCEPT ![s].queue = Append(@, e)]
          /\ (s = active /\ owed' = [owed EXCEPT ![s] = @ \cup {e}]) \/ owed' = owed
          /\ UNCHANGED <<active, operators, lossy>>
      BY <1>2, <2>1, <2>3 DEF Send, memory
    <3>2. \A t \in Sinks : t # s => sinks'[t] = sinks[t] /\ owed'[t] = owed[t]
      BY <2>1, <3>1 DEF TypeOK
    <3>3. /\ sinks'[s].queue = Append(sinks[s].queue, e)
          /\ sinks'[s].running = sinks[s].running /\ sinks'[s].stop = sinks[s].stop
          /\ sinks'[s].draining = sinks[s].draining /\ sinks'[s].job = sinks[s].job
          /\ owed'[s] = owed[s] \/ (s = active /\ owed'[s] = owed[s] \cup {e})
      BY <2>1, <3>1 DEF TypeOK, SinkState
    <3>4. ServiceShape'
      BY <2>1, <3>1, <3>2, <3>3, ShapeOfSink DEF Serves
    <3>5. s = active => Serves(s)
      BY <2>1, EventLogAssumption DEF ServiceShape
    <3>6. Queued(s) \cup {e} \subseteq Queued(s)'
      <4>1. Queued(s)' = ToSet(Append(sinks[s].queue, e))
        BY <3>3 DEF Queued
      <4>2. Queued(s) \subseteq ToSet(Append(sinks[s].queue, e)) /\ e \in ToSet(Append(sinks[s].queue, e))
        BY <2>1, <2>2, QueueLast DEF Queued
      <4> QED
        BY <4>1, <4>2
    <3>7. QueueShape'
      <4>1. ASSUME NEW t \in Sinks, t # s
            PROVE  Queued(t)' = Queued(t) /\ sinks'[t] = sinks[t] /\ owed'[t] = owed[t]
        BY <3>2, <4>1 DEF Queued
      <4>2. /\ owed'[s] \subseteq Queued(s)'
            /\ ~sinks'[s].running => owed'[s] = {}
            /\ sinks'[s].draining => sinks'[s].stop
            /\ sinks'[s].draining /\ sinks'[s].job.do = "clean" => owed'[s] = {}
        BY <2>1, <3>3, <3>5, <3>6 DEF QueueShape, Serves
      <4> QED
        BY <4>1, <4>2 DEF QueueShape
    <3> QED
      BY <3>4, <3>7
  <2>4. CASE ~(Len(sinks[s].queue) < QueueSize)
    <3>1. /\ UNCHANGED <<sinks, owed, active, operators>>
          /\ lossy' = lossy \/ (lossy' = lossy \cup {s} /\ s = active)
      BY <1>2, <2>1, <2>4 DEF Send, memory
    <3>2. ServiceShape'
      BY <2>1, <3>1, ShapeOfSink DEF Serves
    <3>3. QueueShape'
      BY <3>1 DEF QueueShape, Queued
    <3> QED
      BY <3>2, <3>3
  <2> QED
    BY <2>3, <2>4
<1>3. ASSUME NEW s \in Sinks, Take(s) PROVE ServiceShape' /\ QueueShape'
  <2>1. PICK ok \in BOOLEAN :
          /\ lossy' = IF ok \/ Head(sinks[s].queue) \notin owed[s] THEN lossy ELSE lossy \cup {s}
          /\ owed' = [owed EXCEPT ![s] = @ \ {Head(sinks[s].queue)}]
          /\ sinks' = [sinks EXCEPT
               ![s].queue = Tail(@),
               ![s].count = IF sinks[s].draining THEN @ ELSE (@ + 1) % CleanupEvery,
               ![s].job = Recording(ok)]
    BY <1>3 DEF Take
  <2>2. UNCHANGED <<active, operators>> /\ sinks[s].running
    BY <1>3 DEF Take, Free, memory
  <2>3. sinks[s] \in SinkState /\ sinks[s].queue \in Seq(Events) /\ sinks[s].queue # <<>>
    BY <1>3 DEF Take, TypeOK, SinkState
  <2>4. \A t \in Sinks : t # s => sinks'[t] = sinks[t] /\ owed'[t] = owed[t]
    BY <2>1 DEF TypeOK
  <2>5. /\ sinks'[s].queue = Tail(sinks[s].queue) /\ sinks'[s].job = Recording(ok)
        /\ sinks'[s].running = sinks[s].running /\ sinks'[s].stop = sinks[s].stop
        /\ sinks'[s].draining = sinks[s].draining
        /\ owed'[s] = owed[s] \ {Head(sinks[s].queue)}
    BY <2>1, <2>3 DEF TypeOK, SinkState
  <2>6. ServiceShape'
    <3>1. lossy' = lossy \/ (lossy' = lossy \cup {s} /\ owed[s] # {})
      BY <2>1
    <3>2. owed[s] = {} => owed'[s] = {}
      BY <2>5
    <3>3. Serves(s) => Serves(s)'
      BY <2>5 DEF Serves
    <3> QED
      BY <2>2, <2>4, <3>1, <3>2, <3>3, ShapeOfSink
  <2>7. Queued(s) \subseteq Queued(s)' \cup {Head(sinks[s].queue)}
    BY <2>3, <2>5, QueueFirst DEF Queued
  <2>8. sinks'[s].job.do # "clean"
    BY <2>5, Jobs
  <2>9. QueueShape'
    BY <2>2, <2>4, <2>5, <2>7, <2>8 DEF QueueShape, Queued
  <2> QED
    BY <2>6, <2>9
<1>4. ASSUME NEW s \in Sinks, Record(s) \/ CleanNow(s) \/ NoticeStop(s) \/ Drained(s) \/ Clean(s)
      PROVE  ServiceShape' /\ QueueShape'
  <2>1. UNCHANGED <<active, operators, owed, lossy>> /\ sinks[s].running
    BY <1>4 DEF Record, CleanNow, NoticeStop, Drained, Clean, Free, memory, history
  <2>2. sinks[s] \in SinkState /\ \A t \in Sinks : t # s => sinks'[t] = sinks[t]
    BY <1>4 DEF Record, CleanNow, NoticeStop, Drained, Clean, TypeOK
  \* The goroutine goes on, notices that it has to stop, or ends.
  <2>3. /\ sinks'[s].queue = sinks[s].queue
        /\ \/ /\ sinks'[s].running /\ sinks'[s].stop = sinks[s].stop
              /\ sinks'[s].draining = sinks[s].draining
              /\ sinks'[s].draining /\ sinks'[s].job.do = "clean" =>
                   sinks[s].job.do = "clean" \/ sinks[s].queue = <<>>
           \/ /\ sinks'[s].running /\ sinks'[s].stop /\ sinks[s].stop
              /\ sinks'[s].job.do # "clean"
           \/ /\ sinks[s].draining /\ sinks[s].job.do = "clean"
              /\ ~sinks'[s].running /\ ~sinks'[s].draining
    <3>1. CASE Record(s)
      BY <2>1, <2>2, <3>1, Jobs DEF Record, SinkState, TypeOK
    <3>2. CASE CleanNow(s)
      BY <2>1, <2>2, <3>2 DEF CleanNow, SinkState, TypeOK
    <3>3. CASE NoticeStop(s)
      <4>1. sinks[s].job = Ready /\ sinks[s].stop /\ sinks' = [sinks EXCEPT ![s].draining = TRUE]
        BY <3>3 DEF NoticeStop, Free
      <4>2. /\ sinks'[s].queue = sinks[s].queue /\ sinks'[s].job = sinks[s].job
            /\ sinks'[s].running = sinks[s].running /\ sinks'[s].stop = sinks[s].stop
        BY <2>2, <4>1 DEF TypeOK, SinkState
      <4> QED
        BY <2>1, <4>1, <4>2, Jobs
    <3>4. CASE Drained(s)
      BY <2>1, <2>2, <3>4 DEF Drained, SinkState, TypeOK
    <3>5. CASE Clean(s)
      <4>1. sinks[s].job.do = "clean"
        BY <3>5 DEF Clean
      <4>2. Ended(s).queue = sinks[s].queue /\ ~Ended(s).running /\ ~Ended(s).draining
        BY DEF Ended, Stopped
      <4>3. \/ \E job \in Job : sinks'[s] = [sinks[s] EXCEPT !.job = job]
            \/ sinks[s].draining /\ sinks'[s] = Ended(s)
        <5>1. sinks[s].job.statement \in 1 .. 4 /\ sinks[s].job.cut \in 0 .. MaxEvents
          BY <2>2, <4>1, JobKinds DEF SinkState
        <5>2. /\ Ready \in Job
              /\ sinks[s].job.statement < 4 =>
                   Cleaning(sinks[s].job.statement + 1, sinks[s].job.cut) \in Job
          BY <5>1, Jobs
        <5> QED
          BY <3>5, <5>2 DEF Clean, Returns, TypeOK
      <4> QED
        BY <2>1, <2>2, <4>1, <4>2, <4>3 DEF SinkState
    <3> QED
      BY <1>4, <3>1, <3>2, <3>3, <3>4, <3>5
  <2>4. ServiceShape'
    <3>1. Serves(s) => Serves(s)'
      BY <2>3 DEF Serves, QueueShape
    <3> QED
      BY <2>1, <2>2, <3>1, ShapeOfSink
  <2>5. QueueShape'
    <3>1. \A t \in Sinks : Queued(t)' = Queued(t)
      BY <2>2, <2>3 DEF Queued
    <3>2. sinks[s].queue = <<>> => owed[s] = {}
      BY QueueEmpty DEF QueueShape, Queued
    <3>3. /\ ~sinks'[s].running => owed[s] = {}
          /\ sinks'[s].draining => sinks'[s].stop
          /\ sinks'[s].draining /\ sinks'[s].job.do = "clean" => owed[s] = {}
      BY <2>3, <3>2 DEF QueueShape
    <3> QED
      BY <2>1, <2>2, <3>1, <3>3 DEF QueueShape
  <2> QED
    BY <2>4, <2>5
<1>5. ASSUME NEW p \in Operators, NEW new \in Configs, SaveObservability(p, new) \/ Reload(p, new)
      PROVE  ServiceShape' /\ QueueShape'
  <2>1. \A q \in Operators : Opening(q)' => Opening(q) /\ operators'[q] = operators[q]
    BY <1>5 DEF SaveObservability, Reload, Steps, Opening, TypeOK
  <2> QED
    BY <1>5, <2>1, ShapeKept DEF SaveObservability, Reload, history
<1>6. ASSUME NEW p \in Operators, SaveState(p) \/ Closed(p) \/ OpenFails(p) \/ Confirm(p)
      PROVE  ServiceShape' /\ QueueShape'
  <2>1. /\ UNCHANGED <<active, sinks, owed, lossy>>
        /\ \E op : Steps(p, op) /\ (op.at \notin {"confirm", "install"}
                                      \/ (operators[p].at = "confirm" /\ op.sink = operators[p].sink))
    <3>1. Idle.at \notin {"confirm", "install"}
      BY DEF Idle
    <3> QED
      BY <1>6, <3>1 DEF SaveState, Closed, OpenFails, Confirm, memory, history
  <2>2. \A q \in Operators : Opening(q)' => Opening(q) /\ operators'[q].sink = operators[q].sink
    BY <2>1 DEF Steps, Opening, TypeOK
  <2> QED
    BY <2>1, <2>2, ShapeKept
<1>7. ASSUME NEW p \in Operators, Swap(p) \/ Shutdown(p) PROVE ServiceShape' /\ QueueShape'
  <2>1. /\ active' = None /\ UNCHANGED <<owed, lossy>>
        /\ sinks' = [s \in Sinks |-> IF s = active THEN [sinks[s] EXCEPT !.stop = TRUE] ELSE sinks[s]]
        /\ \E op : Steps(p, op) /\ op.at = "close"
    BY <1>7 DEF Swap, Shutdown, Retire, history
  <2>2. \A q \in Operators :
          Opening(q)' => Opening(q) /\ operators'[q] = operators[q] /\ operators[q].sink \in Sinks
    BY <2>1, OperatorFields DEF Steps, Opening, TypeOK
  <2>3. \A s \in Sinks : s # active => sinks'[s] = sinks[s]
    BY <2>1
  <2>4. \A s \in Sinks : /\ sinks'[s].queue = sinks[s].queue /\ sinks'[s].job = sinks[s].job
                         /\ sinks'[s].running = sinks[s].running
                         /\ sinks'[s].draining = sinks[s].draining
                         /\ sinks[s].stop => sinks'[s].stop
    BY <2>1 DEF TypeOK, SinkState
  <2>5. ServiceShape'
    <3>1. ASSUME NEW q \in Operators, Opening(q)'
          PROVE  (LET s == operators[q].sink
                  IN  s # active /\ Serves(s) /\ owed[s] = {} /\ s \notin lossy)'
      <4>1. PICK s \in Sinks : operators[q].sink = s /\ operators'[q].sink = s /\ Opening(q)
        BY <2>2, <3>1
      <4>2. s # active /\ Serves(s) /\ owed[s] = {} /\ s \notin lossy
        BY <4>1 DEF ServiceShape
      <4>3. s # None
        BY EventLogAssumption
      <4> QED
        BY <2>1, <2>3, <4>1, <4>2, <4>3 DEF Serves
    <3>2. \A q, r \in Operators :
            Opening(q)' /\ Opening(r)' /\ operators'[q].sink = operators'[r].sink => q = r
      BY <2>2 DEF ServiceShape
    <3> QED
      BY <2>1, <3>1, <3>2 DEF ServiceShape
  <2>6. QueueShape'
    <3>1. \A s \in Sinks : Queued(s)' = Queued(s)
      BY <2>4 DEF Queued
    <3> QED
      BY <2>1, <2>4, <3>1 DEF QueueShape
  <2> QED
    BY <2>5, <2>6
<1>8. ASSUME NEW p \in Operators, Open(p) PROVE ServiceShape' /\ QueueShape'
  <2>1. PICK s \in Sinks : /\ s \notin Referred /\ ~sinks[s].running
                           /\ sinks' = [sinks EXCEPT ![s] = Opened(operators[p].keep)]
                           /\ owed' = [owed EXCEPT ![s] = {}]
                           /\ lossy' = lossy \ {s}
                           /\ Steps(p, [at |-> "confirm", sink |-> s])
    BY <1>8 DEF Open
  <2>2. UNCHANGED active /\ operators[p].at = "open"
    BY <1>8 DEF Open, memory
  <2>3. s # active /\ \A q \in Operators : Opening(q) => operators[q].sink # s
    BY <2>1 DEF Referred, Opening
  <2>4. \A t \in Sinks : t # s => sinks'[t] = sinks[t] /\ owed'[t] = owed[t]
    BY <2>1 DEF TypeOK
  <2>5. operators[p].keep \in Nat \ {0}
    BY <2>2, OperatorFields DEF TypeOK
  <2>6. /\ sinks'[s].running /\ ~sinks'[s].stop /\ ~sinks'[s].draining
        /\ owed'[s] = {} /\ s \notin lossy'
    BY <2>1, <2>5, NewSinks DEF TypeOK
  <2>7. ServiceShape'
    <3>1. ASSUME NEW q \in Operators, Opening(q)'
          PROVE  (LET t == operators[q].sink
                  IN  t # active /\ Serves(t) /\ owed[t] = {} /\ t \notin lossy)'
      <4>1. CASE q = p
        <5>1. operators'[q].sink = s
          BY <2>1, <4>1 DEF Steps, TypeOK
        <5> QED
          BY <2>2, <2>3, <2>6, <5>1 DEF Serves
      <4>2. CASE q # p
        <5>1. operators'[q] = operators[q] /\ Opening(q)
          BY <2>1, <3>1, <4>2 DEF Steps, TypeOK, Opening
        <5>2. PICK t \in Sinks : operators[q].sink = t /\ operators'[q].sink = t /\ t # s
          BY <2>3, <5>1, OperatorFields DEF TypeOK, Opening
        <5>3. t # active /\ Serves(t) /\ owed[t] = {} /\ t \notin lossy
          BY <5>1, <5>2 DEF ServiceShape
        <5> QED
          BY <2>1, <2>2, <2>4, <5>2, <5>3 DEF Serves
      <4> QED
        BY <4>1, <4>2
    <3>2. ASSUME NEW q \in Operators, q # p, Opening(q)'
          PROVE  Opening(q) /\ operators'[q].sink = operators[q].sink /\ operators[q].sink # s
      BY <2>1, <2>3, <3>2 DEF Steps, TypeOK, Opening
    <3>3. operators'[p].sink = s
      BY <2>1 DEF Steps, TypeOK
    <3>4. \A q, r \in Operators :
            Opening(q)' /\ Opening(r)' /\ operators'[q].sink = operators'[r].sink => q = r
      BY <3>2, <3>3 DEF ServiceShape
    <3>5. active # None => sinks'[active] = sinks[active]
      BY <2>3, <2>4 DEF TypeOK
    <3> QED
      BY <2>2, <3>1, <3>4, <3>5 DEF ServiceShape, Serves
  <2>8. QueueShape'
    <3>1. \A t \in Sinks : t # s => Queued(t)' = Queued(t)
      BY <2>4 DEF Queued
    <3> QED
      BY <2>4, <2>6, <3>1 DEF QueueShape
  <2> QED
    BY <2>7, <2>8
<1>9. ASSUME NEW p \in Operators, Install(p) PROVE ServiceShape' /\ QueueShape'
  <2>1. PICK s \in Sinks : operators[p].sink = s /\ Opening(p) /\ active' = s
    BY <1>9, OperatorFields DEF Install, TypeOK, Opening
  <2>2. UNCHANGED <<sinks, owed, lossy>> /\ Steps(p, Idle)
    BY <1>9 DEF Install, history
  <2>3. Serves(s)
    BY <2>1 DEF ServiceShape
  <2>4. \A q \in Operators : Opening(q)' => q # p /\ Opening(q) /\ operators'[q] = operators[q]
    BY <2>2 DEF Steps, TypeOK, Opening, Idle
  <2>5. ServiceShape'
    <3>1. ASSUME NEW q \in Operators, Opening(q)'
          PROVE  (LET t == operators[q].sink
                  IN  t # active /\ Serves(t) /\ owed[t] = {} /\ t \notin lossy)'
      <4>1. q # p /\ Opening(q) /\ operators'[q] = operators[q]
        BY <2>4, <3>1
      <4>2. operators[q].sink # s
        BY <2>1, <4>1 DEF ServiceShape
      <4> QED
        BY <2>1, <2>2, <4>1, <4>2 DEF ServiceShape, Serves
    <3>2. Serves(active)'
      BY <2>1, <2>2, <2>3 DEF Serves
    <3> QED
      BY <2>4, <3>1, <3>2 DEF ServiceShape
  <2>6. QueueShape'
    BY <2>2 DEF QueueShape, Queued
  <2> QED
    BY <2>5, <2>6
<1>10. ASSUME NEW new \in Configs, Crash(new) PROVE ServiceShape' /\ QueueShape'
  <2>1. \A p \in Operators : ~Opening(p)'
    BY <1>10 DEF Crash, Opening, Idle
  <2>2. \A s \in Sinks : owed'[s] = {} /\ ~sinks'[s].draining
    BY <1>10 DEF Crash, Stopped
  <2> QED
    BY <1>10, <2>1, <2>2 DEF Crash, ServiceShape, QueueShape
<1>11. CASE ClearMemory \/ Expire \/ UNCHANGED vars
  BY <1>11, ShapeKept DEF ClearMemory, Expire, vars, memory, history, Opening
<1> QED
  BY <1>1, <1>2, <1>3, <1>4, <1>5, <1>6, <1>7, <1>8, <1>9, <1>10, <1>11
  DEF Next, ObserverStep, WriterStep, RestartStep

LEMMA SInvariant == Spec => []SInv
<1>1. Init => SInv
  BY TypeInit, ShapeInit DEF SInv
<1>2. SInv /\ [Next]_vars => SInv'
  BY TypeStep, ShapeStep DEF SInv
<1> QED
  BY <1>1, <1>2, PTL DEF Spec

(* A restart loses nothing, with any number of restarts at once: what a    *)
(* sink was sent in service waits in its queue until it is tried, and the  *)
(* goroutine ends only after it has found the queue empty (loop).          *)
THEOREM RestartsLoseNothing == Spec => []RestartLosesNothing
<1>1. SInv => RestartLosesNothing
  BY DEF SInv, QueueShape, RestartLosesNothing
<1> QED
  BY <1>1, SInvariant, PTL

----------------------------------------------------------------------------
(* One restart at a time.                                                  *)

\* What a sender and an operator leave of a sink.
LEMMA SinkSent ==
  ASSUME TypeOK, NEW o \in Observers, Send(o), NEW s \in Sinks
  PROVE  /\ sinks'[s].running = sinks[s].running /\ sinks'[s].job = sinks[s].job
         /\ sinks'[s].keep = sinks[s].keep
<1>1. PICK t \in Sinks : observers[o].sink = t
  BY ObserverFields DEF Send, TypeOK
<1>2. sinks' = sinks \/ sinks' = [sinks EXCEPT ![t].queue = Append(@, observers[o].event)]
  BY <1>1 DEF Send
<1>3. \/ sinks'[s] = sinks[s]
      \/ sinks'[s] = [sinks[s] EXCEPT !.queue = Append(@, observers[o].event)]
  BY <1>2 DEF TypeOK
<1>4. sinks[s] \in SinkState
  BY DEF TypeOK
<1> QED
  BY <1>3, <1>4 DEF SinkState

LEMMA SinkRetired ==
  ASSUME TypeOK, NEW p \in Operators, Swap(p) \/ Shutdown(p), NEW s \in Sinks
  PROVE  /\ sinks'[s].running = sinks[s].running /\ sinks'[s].job = sinks[s].job
         /\ sinks'[s].keep = sinks[s].keep
<1>1. sinks'[s] = sinks[s] \/ sinks'[s] = [sinks[s] EXCEPT !.stop = TRUE]
  BY DEF Swap, Shutdown, Retire
<1>2. sinks[s] \in SinkState
  BY DEF TypeOK
<1> QED
  BY <1>1, <1>2 DEF SinkState

LEMMA WriterShapeInit == ASSUME NEW p, Operators = {p}, Init PROVE WriterShape(p)
BY DEF Init, WriterShape, Stopped, Opening

LEMMA WriterShapeStep ==
  ASSUME NEW p, Operators = {p}, SInv, WriterShape(p), [Next]_vars
  PROVE  WriterShape(p)'
<1> USE DEF SInv
<1>1. ASSUME UNCHANGED <<active, operators>>,
             \A s \in Sinks : sinks'[s].running => sinks[s].running
      PROVE  WriterShape(p)'
  BY <1>1 DEF WriterShape, Opening
<1>2. ASSUME NEW o \in Observers, ObserverStep(o) PROVE WriterShape(p)'
  <2>1. CASE Send(o)
    <3>1. UNCHANGED <<active, operators>>
      BY <2>1 DEF Send, memory
    <3>2. \A s \in Sinks : sinks'[s].running = sinks[s].running
      BY <2>1, SinkSent
    <3> QED
      BY <1>1, <3>1, <3>2
  <2>2. CASE Observe(o) \/ Remember(o) \/ Aim(o) \/ ReportDrop(o)
    BY <1>1, <2>2 DEF Observe, Remember, Aim, ReportDrop, memory
  <2> QED
    BY <1>2, <2>1, <2>2 DEF ObserverStep
<1>3. ASSUME NEW s \in Sinks, WriterStep(s) PROVE WriterShape(p)'
  <2>1. UNCHANGED <<active, operators>> /\ sinks[s].running
    BY <1>3 DEF WriterStep, Take, Record, CleanNow, NoticeStop, Drained, Clean, Free, memory
  <2>2. \A t \in Sinks : t # s => sinks'[t] = sinks[t]
    BY <1>3 DEF WriterStep, Take, Record, CleanNow, NoticeStop, Drained, Clean, TypeOK
  <2> QED
    BY <1>1, <2>1, <2>2
<1>4. ASSUME NEW new \in Configs, SaveObservability(p, new) \/ Reload(p, new)
      PROVE  WriterShape(p)'
  <2>1. /\ UNCHANGED <<active, sinks>> /\ operators[p].at = "idle"
        /\ operators'[p].at \in {"save", "swap"}
    BY <1>4 DEF SaveObservability, Reload, Steps, TypeOK, Idle
  <2> QED
    BY <2>1 DEF WriterShape, Opening
<1>5. CASE SaveState(p)
  <2>1. /\ UNCHANGED <<active, sinks>> /\ operators[p].at = "save"
        /\ operators'[p].at \in {"idle", "swap"}
    BY <1>5 DEF SaveState, Steps, TypeOK, Idle, memory
  <2> QED
    BY <2>1 DEF WriterShape, Opening
<1>6. CASE Swap(p) \/ Shutdown(p)
  <2>1. /\ active' = None /\ operators[p].at \in {"idle", "swap"}
        /\ operators'[p].at = "close" /\ operators'[p].old = active
    BY <1>6 DEF Swap, Shutdown, Retire, Steps, TypeOK, Idle
  <2>2. \A s \in Sinks : sinks'[s].running = sinks[s].running
    BY <1>6, SinkRetired
  <2> QED
    BY <2>1, <2>2 DEF WriterShape, Opening
<1>7. CASE Closed(p)
  <2>1. /\ UNCHANGED <<active, sinks>> /\ operators[p].at = "close"
        /\ operators'[p].at \in {"idle", "open"} /\ OldIsGone(operators[p].old)
    BY <1>7 DEF Closed, Steps, TypeOK, Idle, memory
  <2>2. \A s \in Sinks : ~sinks[s].running
    BY <2>1, EventLogAssumption DEF WriterShape, OldIsGone
  <2> QED
    BY <2>1, <2>2 DEF WriterShape, Opening
<1>8. CASE OpenFails(p)
  <2>1. /\ UNCHANGED <<active, sinks>> /\ operators[p].at = "open" /\ operators'[p].at = "idle"
    BY <1>8 DEF OpenFails, Steps, TypeOK, Idle, memory
  <2> QED
    BY <2>1 DEF WriterShape, Opening
<1>9. CASE Open(p)
  <2>1. PICK s \in Sinks : /\ sinks' = [sinks EXCEPT ![s] = Opened(operators[p].keep)]
                           /\ Steps(p, [at |-> "confirm", sink |-> s])
    BY <1>9 DEF Open
  <2>2. operators[p].at = "open" /\ UNCHANGED active
    BY <1>9 DEF Open, memory
  <2>3. \A t \in Sinks : sinks'[t].running => t = s
    BY <2>1, <2>2 DEF WriterShape, TypeOK
  <2>4. operators'[p].at = "confirm" /\ operators'[p].sink = s
    BY <2>1 DEF Steps, TypeOK
  <2> QED
    BY <2>2, <2>3, <2>4 DEF WriterShape
<1>10. CASE Confirm(p)
  <2>1. /\ UNCHANGED <<active, sinks>> /\ operators[p].at = "confirm"
        /\ operators'[p].at = "install" /\ operators'[p].sink = operators[p].sink
    BY <1>10 DEF Confirm, Steps, TypeOK, memory
  <2> QED
    BY <2>1 DEF WriterShape, Opening
<1>11. CASE Install(p)
  <2>1. /\ UNCHANGED sinks /\ operators[p].at = "install"
        /\ operators'[p].at = "idle" /\ active' = operators[p].sink
    BY <1>11 DEF Install, Steps, TypeOK, Idle
  <2> QED
    BY <2>1 DEF WriterShape, Opening
<1>12. ASSUME NEW new \in Configs, Crash(new) PROVE WriterShape(p)'
  <2>1. operators'[p].at = "swap" /\ \A s \in Sinks : ~sinks'[s].running
    BY <1>12 DEF Crash, Stopped
  <2> QED
    BY <2>1 DEF WriterShape, Opening
<1>13. CASE ClearMemory \/ Expire \/ UNCHANGED vars
  BY <1>1, <1>13 DEF ClearMemory, Expire, vars, memory
<1> QED
  BY <1>2, <1>3, <1>4, <1>5, <1>6, <1>7, <1>8, <1>9, <1>10, <1>11, <1>12, <1>13
  DEF Next, RestartStep

LEMMA LossStep ==
  ASSUME NEW p, Operators = {p}, SInv, WriterShape(p), LossShape, [Next]_vars
  PROVE  LossShape'
<1> USE DEF SInv
\* The writer stays healthy and nothing is recorded: a known loss is still to be recorded.
<1>1. ASSUME UNCHANGED <<active, lossy>>, healthy' => healthy,
             \A o \in Observers : observers[o].at = "dropped" => observers'[o].at = "dropped",
             active # None /\ sinks[active].running /\ sinks[active].job = Recording(FALSE)
               => sinks'[active].running /\ sinks'[active].job = Recording(FALSE)
      PROVE  LossShape'
  BY <1>1 DEF LossShape, Unrecorded
<1>2. ASSUME ~healthy' \/ active' = None \/ active' \notin lossy' PROVE LossShape'
  BY <1>2 DEF LossShape
<1>3. ASSUME NEW o \in Observers, Observe(o) \/ Remember(o) \/ Aim(o) PROVE LossShape'
  <2>1. /\ UNCHANGED <<active, lossy, healthy, sinks>> /\ observers[o].at # "dropped"
        /\ \E ob : observers' = [observers EXCEPT ![o] = ob]
    BY <1>3 DEF Observe, Remember, Aim, Idle, memory, history
  <2>2. \A x \in Observers : observers[x].at = "dropped" => observers'[x].at = "dropped"
    BY <2>1 DEF TypeOK
  <2> QED
    BY <1>1, <2>1, <2>2
<1>4. ASSUME NEW o \in Observers, Send(o) PROVE LossShape'
  <2>1. PICK s \in Sinks : observers[o].sink = s
    BY <1>4, ObserverFields DEF Send, TypeOK
  <2>2. CASE Len(sinks[s].queue) < QueueSize
    <3>1. /\ UNCHANGED <<active, lossy, healthy>>
          /\ sinks' = [sinks EXCEPT ![s].queue = Append(@, observers[o].event)]
          /\ observers' = [observers EXCEPT ![o] = Idle] /\ observers[o].at = "aimed"
      BY <1>4, <2>1, <2>2 DEF Send, memory
    <3>2. \A t \in Sinks : sinks'[t].running = sinks[t].running /\ sinks'[t].job = sinks[t].job
      BY <3>1 DEF TypeOK, SinkState
    <3>3. \A x \in Observers : observers[x].at = "dropped" => observers'[x].at = "dropped"
      BY <3>1 DEF TypeOK
    <3> QED
      BY <1>1, <3>1, <3>2, <3>3 DEF TypeOK
  <2>3. CASE ~(Len(sinks[s].queue) < QueueSize)
    <3>1. observers'[o].at = "dropped"
      BY <1>4, <2>1, <2>3 DEF Send, ReportedAs, TypeOK
    <3> QED
      BY <3>1 DEF LossShape, Unrecorded
  <2> QED
    BY <2>2, <2>3
<1>5. ASSUME NEW o \in Observers, ReportDrop(o) PROVE LossShape'
  BY <1>2, <1>5 DEF ReportDrop
<1>6. ASSUME NEW s \in Sinks, Take(s) PROVE LossShape'
  <2>1. PICK ok \in BOOLEAN :
          /\ lossy' = IF ok \/ Head(sinks[s].queue) \notin owed[s] THEN lossy ELSE lossy \cup {s}
          /\ sinks' = [sinks EXCEPT
               ![s].queue = Tail(@),
               ![s].count = IF sinks[s].draining THEN @ ELSE (@ + 1) % CleanupEvery,
               ![s].job = Recording(ok)]
    BY <1>6 DEF Take
  <2>2. /\ UNCHANGED <<active, healthy, observers>>
        /\ sinks[s].running /\ sinks[s].job = Ready
    BY <1>6 DEF Take, Free, memory
  <2>3. sinks'[s].running /\ sinks'[s].job = Recording(ok)
    BY <2>1, <2>2 DEF TypeOK, SinkState
  <2>4. \A t \in Sinks : t # s => sinks'[t] = sinks[t]
    BY <2>1 DEF TypeOK
  <2>5. CASE lossy' = lossy
    <3>1. Ready # Recording(FALSE)
      BY Jobs
    <3> QED
      BY <1>1, <2>2, <2>4, <2>5, <3>1 DEF TypeOK
  <2>6. CASE lossy' # lossy /\ active = s
    <3>1. sinks'[active'].running /\ sinks'[active'].job = Recording(FALSE)
      BY <2>1, <2>2, <2>3, <2>6
    <3> QED
      BY <3>1 DEF LossShape, Unrecorded
  <2>7. CASE lossy' # lossy /\ active # s
    <3>1. active \in lossy' <=> active \in lossy
      BY <2>1, <2>7
    <3> QED
      BY <2>2, <2>4, <2>7, <3>1 DEF LossShape, Unrecorded, TypeOK
  <2> QED
    BY <2>5, <2>6, <2>7
<1>7. ASSUME NEW s \in Sinks, Record(s) PROVE LossShape'
  <2>1. /\ UNCHANGED <<active, lossy, observers>> /\ healthy' = (healthy /\ sinks[s].job.ok)
        /\ sinks[s].job.do = "record"
    BY <1>7 DEF Record, memory, history
  <2>2. \A t \in Sinks : t # s => sinks'[t] = sinks[t]
    BY <1>7 DEF Record, TypeOK
  <2>3. CASE sinks[s].job = Recording(FALSE)
    BY <1>2, <2>1, <2>3, Jobs
  <2>4. CASE sinks[s].job # Recording(FALSE)
    BY <1>1, <2>1, <2>2, <2>4 DEF TypeOK
  <2> QED
    BY <2>3, <2>4
<1>8. ASSUME NEW s \in Sinks, CleanNow(s) \/ NoticeStop(s) \/ Drained(s) \/ Clean(s)
      PROVE  LossShape'
  <2>1. UNCHANGED <<active, lossy, healthy, observers>>
    BY <1>8 DEF CleanNow, NoticeStop, Drained, Clean, memory, history
  <2>2. sinks[s].job # Recording(FALSE)
    BY <1>8, Jobs DEF CleanNow, NoticeStop, Drained, Clean, Free
  <2>3. \A t \in Sinks : t # s => sinks'[t] = sinks[t]
    BY <1>8 DEF CleanNow, NoticeStop, Drained, Clean, TypeOK
  <2> QED
    BY <1>1, <2>1, <2>2, <2>3 DEF TypeOK
<1>9. ASSUME NEW new \in Configs, SaveObservability(p, new) \/ Reload(p, new) PROVE LossShape'
  BY <1>1, <1>9 DEF SaveObservability, Reload, history
<1>10. CASE SaveState(p) \/ Closed(p) \/ OpenFails(p)
  BY <1>1, <1>10 DEF SaveState, Closed, OpenFails, memory, history
<1>11. CASE Swap(p) \/ Shutdown(p)
  BY <1>2, <1>11 DEF Swap, Shutdown, Retire
<1>12. CASE Open(p) \/ Confirm(p)
  BY <1>2, <1>12 DEF Open, Confirm, WriterShape, memory
<1>13. CASE Install(p)
  <2>1. operators[p].sink \notin lossy /\ active' = operators[p].sink /\ lossy' = lossy
    BY <1>13 DEF Install, ServiceShape, Opening, history
  <2> QED
    BY <1>2, <2>1
<1>14. ASSUME NEW new \in Configs, Crash(new) PROVE LossShape'
  BY <1>2, <1>14 DEF Crash
<1>15. CASE ClearMemory \/ Expire \/ UNCHANGED vars
  <2>1. UNCHANGED <<active, lossy, healthy, observers, sinks>>
    BY <1>15 DEF ClearMemory, Expire, vars, memory, history
  <2> QED
    BY <1>1, <2>1
<1> QED
  BY <1>3, <1>4, <1>5, <1>6, <1>7, <1>8, <1>9, <1>10, <1>11, <1>12, <1>13, <1>14, <1>15
  DEF Next, ObserverStep, WriterStep, RestartStep

LEMMA CleanStep ==
  ASSUME NEW p, Operators = {p}, SInv, WriterShape(p), CleanShape, [Next]_vars
  PROVE  CleanShape'
<1> USE DEF SInv
<1>1. \A s, t \in Sinks : sinks[s].running /\ sinks[t].running => s = t
  BY OperatorFields DEF WriterShape, Opening, TypeOK
\* A step that leaves the database, and starts no second or fourth statement.
<1>2. ASSUME UNCHANGED <<rows, attempts, torn>>,
             \A s \in Sinks :
               sinks'[s].running /\ sinks'[s].job.do = "clean" =>
                 \/ /\ sinks[s].running /\ sinks'[s].job = sinks[s].job
                    /\ sinks'[s].keep = sinks[s].keep
                 \/ sinks'[s].job.statement \notin {2, 4}
      PROVE  CleanShape'
  BY <1>2 DEF CleanShape, Surplus
<1>3. ASSUME UNCHANGED <<sinks, rows, attempts, torn>> PROVE CleanShape'
  BY <1>2, <1>3
<1>4. Cleaning(1, expired).statement = 1 /\ Ready.do # "clean"
  BY Jobs DEF TypeOK
<1>5. ASSUME NEW o \in Observers, ObserverStep(o) PROVE CleanShape'
  <2>1. CASE Send(o)
    <3>1. UNCHANGED <<rows, attempts, torn>>
      BY <2>1 DEF Send, database
    <3>2. \A s \in Sinks : /\ sinks'[s].running = sinks[s].running
                           /\ sinks'[s].job = sinks[s].job /\ sinks'[s].keep = sinks[s].keep
      BY <2>1, SinkSent
    <3> QED
      BY <1>2, <3>1, <3>2
  <2>2. CASE Observe(o) \/ Remember(o) \/ Aim(o) \/ ReportDrop(o)
    BY <1>3, <2>2 DEF Observe, Remember, Aim, ReportDrop, database
  <2> QED
    BY <1>5, <2>1, <2>2 DEF ObserverStep
\* The only goroutine inserts: no cleanup is under way.
<1>6. ASSUME NEW s \in Sinks, Take(s) PROVE CleanShape'
  <2>1. PICK ok \in BOOLEAN :
          /\ rows' = IF ok THEN rows \cup {Head(sinks[s].queue)} ELSE rows
          /\ attempts' = IF ok THEN attempts \cup {Head(sinks[s].queue)} ELSE attempts
          /\ sinks' = [sinks EXCEPT
               ![s].queue = Tail(@),
               ![s].count = IF sinks[s].draining THEN @ ELSE (@ + 1) % CleanupEvery,
               ![s].job = Recording(ok)]
    BY <1>6 DEF Take
  <2>2. sinks[s].running /\ torn' = torn
    BY <1>6 DEF Take, Free
  <2>3. \A t \in Sinks : ~(sinks'[t].running /\ sinks'[t].job.do = "clean")
    <3>1. sinks'[s].job = Recording(ok) /\ Recording(ok).do # "clean"
      BY <2>1, Jobs DEF TypeOK, SinkState
    <3>2. \A t \in Sinks : t # s => sinks'[t] = sinks[t]
      BY <2>1 DEF TypeOK
    <3> QED
      BY <1>1, <2>2, <3>1, <3>2
  <2> QED
    BY <2>1, <2>2, <2>3 DEF CleanShape
<1>7. ASSUME NEW s \in Sinks, Record(s) \/ CleanNow(s) \/ NoticeStop(s) \/ Drained(s)
      PROVE  CleanShape'
  <2>1. UNCHANGED <<rows, attempts, torn>>
    BY <1>7 DEF Record, CleanNow, NoticeStop, Drained, database
  <2>2. \A t \in Sinks : t # s => sinks'[t] = sinks[t]
    BY <1>7 DEF Record, CleanNow, NoticeStop, Drained, TypeOK
  <2>3. sinks'[s].job \in {Ready, Cleaning(1, expired)}
    BY <1>7 DEF Record, CleanNow, NoticeStop, Drained, Free, TypeOK, SinkState
  <2> QED
    BY <1>2, <1>4, <2>1, <2>2, <2>3
<1>8. ASSUME NEW s \in Sinks, Clean(s) PROVE CleanShape'
  <2> DEFINE job == sinks[s].job
  <2>1. sinks[s].running /\ job.do = "clean"
    BY <1>8 DEF Clean
  <2>2. job.statement \in 1 .. 4 /\ job.cut \in 0 .. MaxEvents
    BY <2>1, JobKinds DEF TypeOK, SinkState
  <2>3. \A t \in Sinks : t # s => sinks'[t] = sinks[t] /\ ~sinks'[t].running
    BY <1>1, <1>8, <2>1 DEF Clean, TypeOK
  <2>4. /\ sinks'[s].running /\ sinks'[s].job.do = "clean" =>
             /\ job.statement < 4 /\ sinks'[s].keep = sinks[s].keep
             /\ sinks'[s].job.statement = job.statement + 1 /\ sinks'[s].job.cut = job.cut
    <3>1. CASE job.statement < 4
      <4>1. sinks'[s] = [sinks[s] EXCEPT !.job = Cleaning(job.statement + 1, job.cut)]
        BY <1>8, <3>1 DEF Clean, TypeOK
      <4>2. /\ Cleaning(job.statement + 1, job.cut).statement = job.statement + 1
            /\ Cleaning(job.statement + 1, job.cut).cut = job.cut
        BY <2>2, <3>1, Jobs
      <4>3. sinks[s] \in SinkState
        BY DEF TypeOK
      <4> QED
        BY <3>1, <4>1, <4>2, <4>3 DEF SinkState
    <3>2. CASE ~(job.statement < 4)
      <4>1. sinks'[s] = Ended(s) \/ sinks'[s] = [sinks[s] EXCEPT !.job = Ready]
        BY <1>8, <3>2 DEF Clean, TypeOK
      <4>2. ~Ended(s).running /\ [sinks[s] EXCEPT !.job = Ready].job = Ready
        BY DEF Ended, Stopped, TypeOK, SinkState
      <4> QED
        BY <1>4, <4>1, <4>2
    <3> QED
      BY <3>1, <3>2
  <2>5. SUFFICES ASSUME torn' = 0
                 PROVE  /\ attempts' \subseteq rows'
                        /\ sinks'[s].running /\ sinks'[s].job.do = "clean" =>
                             /\ sinks'[s].job.statement = 2 => \A e \in attempts' : e > sinks'[s].job.cut
                             /\ sinks'[s].job.statement = 4 =>
                                  (attempts \cap Surplus(sinks[s].keep))' = {}
    BY <2>3 DEF CleanShape, Surplus
  <2>6. /\ torn = 0
        /\ attempts' = IF job.statement \in {1, 3}
                         THEN attempts \ Condemned(job.statement, job.cut, sinks[s].keep)
                         ELSE attempts
        /\ rows' = IF job.statement \in {1, 3}
                     THEN rows ELSE rows \ Condemned(job.statement, job.cut, sinks[s].keep)
    BY <1>8, <2>5 DEF Clean, Deletes, TypeOK
  <2>7. /\ attempts \subseteq rows
        /\ job.statement = 2 => \A e \in attempts : e > job.cut
        /\ job.statement = 4 => attempts \cap Surplus(sinks[s].keep) = {}
    BY <2>1, <2>6 DEF CleanShape
  <2>8. rows \subseteq Int
    BY DEF TypeOK, Events
  <2>9. CASE job.statement = 1
    <3>1. attempts' = attempts \ {e \in rows : e <= job.cut} /\ rows' = rows
      BY <2>6, <2>9 DEF Condemned
    <3>2. ASSUME NEW e \in attempts' PROVE e > job.cut
      <4>1. e \in rows /\ ~(e <= job.cut)
        BY <2>7, <3>1
      <4>2. e \in Int
        BY <2>8, <4>1
      <4>3. job.cut \in Int
        BY <2>2
      <4> QED
        BY <4>1, <4>2, <4>3
    <3> QED
      BY <2>4, <2>7, <2>9, <3>1, <3>2
  <2>10. CASE job.statement = 2
    <3>1. attempts' = attempts /\ rows' = rows \ {e \in rows : e <= job.cut}
      BY <2>6, <2>10 DEF Condemned
    <3>2. ASSUME NEW e \in attempts PROVE e \in rows /\ ~(e <= job.cut)
      <4>1. e \in rows /\ e > job.cut
        BY <2>7, <2>10
      <4>2. e \in Int
        BY <2>8, <4>1
      <4>3. job.cut \in Int
        BY <2>2
      <4> QED
        BY <4>1, <4>2, <4>3
    <3> QED
      BY <2>4, <2>10, <3>1, <3>2
  <2>11. CASE job.statement = 3
    <3>1. attempts' = attempts \ Surplus(sinks[s].keep) /\ rows' = rows
      BY <2>6, <2>11 DEF Condemned
    <3>2. Surplus(sinks[s].keep)' = Surplus(sinks'[s].keep)
      BY <3>1 DEF Surplus
    <3>3. attempts' \cap Surplus(sinks[s].keep) = {} /\ attempts' \subseteq rows'
      BY <2>7, <3>1
    <3>4. sinks'[s].running /\ sinks'[s].job.do = "clean" =>
            sinks'[s].job.statement = 4 /\ sinks'[s].keep = sinks[s].keep
      BY <2>4, <2>11
    <3>5. sinks'[s].running /\ sinks'[s].job.do = "clean" =>
            (attempts \cap Surplus(sinks[s].keep))' = {}
      BY <3>2, <3>3, <3>4
    <3> QED
      BY <3>3, <3>4, <3>5
  <2>12. CASE job.statement = 4
    <3>1. attempts' = attempts /\ rows' = rows \ Surplus(sinks[s].keep)
      BY <2>6, <2>12 DEF Condemned
    <3> QED
      BY <2>4, <2>7, <2>12, <3>1
  <2> QED
    BY <2>2, <2>9, <2>10, <2>11, <2>12
<1>9. ASSUME NEW new \in Configs, SaveObservability(p, new) \/ Reload(p, new) PROVE CleanShape'
  BY <1>3, <1>9 DEF SaveObservability, Reload, database
<1>10. CASE SaveState(p) \/ Closed(p) \/ OpenFails(p) \/ Confirm(p) \/ Install(p)
  BY <1>3, <1>10 DEF SaveState, Closed, OpenFails, Confirm, Install, database
<1>11. CASE Swap(p) \/ Shutdown(p)
  <2>1. UNCHANGED <<rows, attempts, torn>>
    BY <1>11 DEF Swap, Shutdown, database
  <2>2. \A s \in Sinks : /\ sinks'[s].running = sinks[s].running
                         /\ sinks'[s].job = sinks[s].job /\ sinks'[s].keep = sinks[s].keep
    BY <1>11, SinkRetired
  <2> QED
    BY <1>2, <2>1, <2>2
<1>12. CASE Open(p)
  <2>1. PICK s \in Sinks : sinks' = [sinks EXCEPT ![s] = Opened(operators[p].keep)]
    BY <1>12 DEF Open
  <2>2. UNCHANGED <<rows, attempts, torn>> /\ operators[p].keep \in Nat \ {0}
    BY <1>12, OperatorFields DEF Open, TypeOK, database
  <2>3. sinks'[s].job.do # "clean" /\ \A t \in Sinks : t # s => sinks'[t] = sinks[t]
    BY <1>4, <2>1, <2>2, NewSinks DEF TypeOK
  <2> QED
    BY <1>2, <2>2, <2>3
<1>13. ASSUME NEW new \in Configs, Crash(new) PROVE CleanShape'
  <2>1. UNCHANGED <<rows, attempts, torn>> /\ \A s \in Sinks : ~sinks'[s].running
    BY <1>13 DEF Crash, Stopped, database
  <2> QED
    BY <1>2, <2>1
<1>14. CASE ClearMemory \/ Expire \/ UNCHANGED vars
  BY <1>3, <1>14 DEF ClearMemory, Expire, vars, database
<1> QED
  BY <1>5, <1>6, <1>7, <1>8, <1>9, <1>10, <1>11, <1>12, <1>13, <1>14
  DEF Next, ObserverStep, WriterStep, RestartStep

LEMMA WInvariant == ASSUME NEW CONSTANT p, Operators = {p} PROVE Spec => []WInv(p)
<1>1. Init => WInv(p)
  <2> SUFFICES ASSUME Init PROVE WInv(p)
    OBVIOUS
  <2>1. LossShape
    BY DEF Init, LossShape
  <2>2. CleanShape
    BY DEF Init, CleanShape, Stopped
  <2> QED
    BY <2>1, <2>2, TypeInit, ShapeInit, WriterShapeInit DEF WInv, SInv
<1>2. WInv(p) /\ [Next]_vars => WInv(p)'
  <2> SUFFICES ASSUME WInv(p), [Next]_vars PROVE WInv(p)'
    OBVIOUS
  <2>1. SInv'
    BY TypeStep, ShapeStep DEF WInv, SInv
  <2>2. WriterShape(p)' /\ LossShape' /\ CleanShape'
    BY WriterShapeStep, LossStep, CleanStep DEF WInv
  <2> QED
    BY <2>1, <2>2 DEF WInv
<1> QED
  BY <1>1, <1>2, PTL DEF Spec

(* With one restart at a time (restartSQLiteSinkV4 waits for the goroutine *)
(* of the old sink), at most one goroutine works on the database.          *)
THEOREM WritersSingle ==
  ASSUME NEW CONSTANT p, Operators = {p} PROVE Spec => []SingleWriter
<1>1. WInv(p) => SingleWriter
  BY OperatorFields DEF WInv, SInv, WriterShape, Opening, TypeOK, SingleWriter
<1> QED
  BY <1>1, WInvariant, PTL

(* With one restart at a time, the history is read from SQLite only while  *)
(* the sink in service has written all it was sent, but for what waits in  *)
(* its queue (queryEventsSQLiteV62).                                       *)
THEOREM SourceIsComplete ==
  ASSUME NEW CONSTANT p, Operators = {p} PROVE Spec => []SourceComplete
<1>1. WInv(p) => SourceComplete
  BY DEF WInv, SInv, LossShape, QueueShape, TypeOK, SourceComplete, Source
<1> QED
  BY <1>1, WInvariant, PTL

(* With one restart at a time, attempts never outlive their event unless a *)
(* deletion failed (cleanup), wherever a crash cuts a cleanup short.       *)
THEOREM AttemptsAreOwned ==
  ASSUME NEW CONSTANT p, Operators = {p} PROVE Spec => []NoOrphanedAttempts
<1>1. WInv(p) => NoOrphanedAttempts
  BY DEF WInv, CleanShape, NoOrphanedAttempts
<1> QED
  BY <1>1, WInvariant, PTL
=============================================================================
