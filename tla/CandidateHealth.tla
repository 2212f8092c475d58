-------------------------- MODULE CandidateHealth --------------------------
(***************************************************************************)
(* The shared circuit health of the candidates (v4Runtime.health) under    *)
(* concurrent attempts, policy edits and runtime reloads.                  *)
(*                                                                         *)
(* An attempt is one candidate of one request: planned when the request    *)
(* takes its copy of the policy (findPolicyRuleV4), running from           *)
(* acquireCandidateHealthWithReasonV4 until its result is reported.  Each  *)
(* action is one critical section of v4Runtime's lock.  What runs between  *)
(* them (the host call, possibly minutes of streaming) is the gap in which *)
(* other attempts, edits and reloads interleave.                           *)
(*                                                                         *)
(* A configuration is the tuple candidateHealthConfigEqualV4 compares      *)
(* (resource, provider, auth index, override model, enabled); only its     *)
(* identity matters.                                                       *)
(***************************************************************************)
EXTENDS HealthRecord, FiniteSets

CONSTANTS
  Candidates,            \* candidate keys: policy fingerprint, rule, candidate id
  Attempts,              \* slots for attempts in progress
  Configs,               \* configurations under which a candidate can be tried
  Disabled,              \* the configuration of a candidate switched off
  Absent,                \* no such candidate: removed, or its policy deleted
  None,                  \* no value
  RetryAfters,           \* Retry-After values of 429 answers
  MaxGeneration,         \* bound on reloads
  RestoreWhileInFlight   \* may an edit bring back a configuration that an
                         \* attempt still running was started under?

ASSUME CandidateHealthAssumption ==
  /\ Disabled \notin Configs
  /\ Absent \notin Configs
  /\ Disabled # Absent
  /\ None \notin Attempts \cup ((Configs \cup {Disabled, Absent}) \X Nat)
  /\ RetryAfters \subseteq Nat
  /\ MaxGeneration \in Nat \ {0}
  /\ RestoreWhileInFlight \in BOOLEAN

VARIABLES
  generation,  \* v4Runtime.generation
  config,      \* the active configuration of each candidate
  health,      \* v4Runtime.health; a missing entry reads as ClosedHealth
  attempt,     \* the attempts in progress
  holder,      \* history: the attempt that took the probe lease in flight
  blame        \* history: the configuration and generation of the attempt
               \* whose failure opened the circuit, None while it is closed

vars == <<generation, config, health, attempt, holder, blame>>
ghosts == <<holder, blame>>

Idle == [phase |-> "idle"]

\* gen is runtimeGeneration, stamped when the attempt is acquired.
Attempt ==
  [phase : {"planned"}, cand : Candidates, cfg : Configs, gen : {0}, probe : {FALSE}]
  \cup
  [phase : {"running"}, cand : Candidates, cfg : Configs, gen : 1 .. MaxGeneration,
   probe : BOOLEAN]

Policy == [Candidates -> Configs \cup {Disabled, Absent}]

TypeOK ==
  /\ generation \in 1 .. MaxGeneration
  /\ config \in Policy
  /\ health \in [Candidates -> Health]
  /\ attempt \in [Attempts -> Attempt \cup {Idle}]
  /\ holder \in [Candidates -> Attempts \cup {None}]
  /\ blame \in [Candidates -> (Configs \X (1 .. MaxGeneration)) \cup {None}]

Planned(a) == attempt[a].phase = "planned"
Running(a) == attempt[a].phase = "running"

\* Faulty variant: the reload generation is not compared.
Current_AnyGeneration(t) == t.cfg = config[t.cand]

\* The attempt still speaks for the candidate that is configured now.
Current(t) ==
  /\ t.gen \in {0, generation}
  /\ t.cfg = config[t.cand]

\* a owns the probe lease of c.
HoldsLease(a, c) ==
  /\ Running(a)
  /\ attempt[a].cand = c
  /\ attempt[a].probe
  /\ Current(attempt[a])

----------------------------------------------------------------------------
Init ==
  /\ generation = 1
  /\ config \in Policy
  /\ health = [c \in Candidates |-> ClosedHealth]
  /\ attempt = [a \in Attempts |-> Idle]
  /\ holder = [c \in Candidates |-> None]
  /\ blame = [c \in Candidates |-> None]

\* A request copies the policy; the copy keeps the candidate's configuration.
Plan(a, c) ==
  /\ attempt[a] = Idle
  /\ config[c] \in Configs
  /\ attempt' = [attempt EXCEPT ![a] =
       [phase |-> "planned", cand |-> c, cfg |-> config[c], gen |-> 0, probe |-> FALSE]]
  /\ UNCHANGED <<generation, config, health, ghosts>>

\* The request ends without needing this candidate.
Abandon(a) ==
  /\ Planned(a)
  /\ attempt' = [attempt EXCEPT ![a] = Idle]
  /\ UNCHANGED <<generation, config, health, ghosts>>

\* A closed circuit, or a copy of a configuration that is no longer active.
AcquireNormal(a) ==
  /\ Planned(a)
  /\ ~Current(attempt[a]) \/ Closed(health[attempt[a].cand])
  /\ attempt' = [attempt EXCEPT ![a].phase = "running", ![a].gen = generation]
  /\ UNCHANGED <<generation, config, health, ghosts>>

\* An open circuit past its deadline: the attempt takes the probe lease.
AcquireProbe(a) ==
  LET c == attempt[a].cand
  IN  /\ Planned(a)
      /\ Current(attempt[a])
      /\ ~Closed(health[c])
      /\ Selectable(health[c])
      /\ attempt' = [attempt EXCEPT ![a].phase = "running", ![a].gen = generation,
                                    ![a].probe = TRUE]
      /\ health' = [health EXCEPT ![c] = AfterAcquire(@)]
      /\ holder' = [holder EXCEPT ![c] = a]
      /\ UNCHANGED <<generation, config, blame>>

\* The circuit keeps the attempt away; the request goes on without it.
Skip(a) ==
  /\ Planned(a)
  /\ Current(attempt[a])
  /\ ~Selectable(health[attempt[a].cand])
  /\ attempt' = [attempt EXCEPT ![a] = Idle]
  /\ UNCHANGED <<generation, config, health, ghosts>>

HolderAfter(h) == [c \in Candidates |-> IF h[c].probeInFlight THEN holder[c] ELSE None]
BlameAfter(h) == [c \in Candidates |-> IF Closed(h[c]) THEN None ELSE blame[c]]

\* A running attempt ends and leaves its candidate's record as h, unless it no
\* longer speaks for the candidate.
Report(a, h) ==
  LET t == attempt[a]
  IN  /\ Running(a)
      /\ attempt' = [attempt EXCEPT ![a] = Idle]
      /\ health' = IF Current(t) THEN [health EXCEPT ![t.cand] = h] ELSE health
      /\ holder' = HolderAfter(health')
      /\ blame' = [c \in Candidates |->
           CASE Closed(health'[c]) -> None
             [] Closed(health[c]) /\ ~Closed(health'[c]) -> <<t.cfg, t.gen>>
             [] OTHER -> blame[c]]
      /\ UNCHANGED <<generation, config>>

Succeed(a) ==
  Report(a, AfterSuccess(health[attempt[a].cand], attempt[a].probe))

Fail(a, class, retryAfter) ==
  Report(a, AfterFailure(health[attempt[a].cand], class, retryAfter, attempt[a].probe))

\* A routing-control failure, an output stream that cannot be written, or a
\* panic of the stream loop: no verdict, only the lease goes back.
Release(a) ==
  Report(a, AfterRelease(health[attempt[a].cand], attempt[a].probe))

----------------------------------------------------------------------------
\* Faulty variant: the entry of a candidate whose configuration changed stays.
ResetChanged_Keep(h, old, new) == h

\* A candidate whose configuration differs starts over.
ResetChanged(h, old, new) ==
  [c \in Candidates |->
     IF Absent \notin {old[c], new[c]} /\ old[c] # new[c] THEN ClosedHealth ELSE h[c]]

\* A candidate that is gone loses its entry.
Prune(h, new) == [c \in Candidates |-> IF new[c] = Absent THEN ClosedHealth ELSE h[c]]

\* Whether an edit to `new` respects RestoreWhileInFlight.
Restores(new) ==
  \E a \in Attempts :
    /\ Running(a)
    /\ attempt[a].gen = generation
    /\ new[attempt[a].cand] # config[attempt[a].cand]
    /\ new[attempt[a].cand] = attempt[a].cfg

SavePolicy(new) ==
  /\ RestoreWhileInFlight \/ ~Restores(new)
  /\ config' = new
  /\ health' = Prune(ResetChanged(health, config, new), new)
  /\ holder' = HolderAfter(health')
  /\ blame' = BlameAfter(health')
  /\ UNCHANGED <<generation, attempt>>

DeletePolicy ==
  /\ config' = [c \in Candidates |-> Absent]
  /\ health' = Prune(health, config')
  /\ holder' = HolderAfter(health')
  /\ blame' = BlameAfter(health')
  /\ UNCHANGED <<generation, attempt>>

\* configureV4: whatever the state file holds becomes active.
Reconfigure(new) ==
  /\ generation < MaxGeneration
  /\ generation' = generation + 1
  /\ config' = new
  /\ health' = [c \in Candidates |-> ClosedHealth]
  /\ holder' = HolderAfter(health')
  /\ blame' = BlameAfter(health')
  /\ UNCHANGED attempt

Tick ==
  /\ \E c \in Candidates : health[c].wait > 0
  /\ health' = [c \in Candidates |-> Elapsed(health[c])]
  /\ UNCHANGED <<generation, config, attempt, ghosts>>

----------------------------------------------------------------------------
Finish(a) ==
  \/ Succeed(a)
  \/ \E class \in FailureClass, retryAfter \in RetryAfters : Fail(a, class, retryAfter)
  \/ Release(a)

Acquire(a) == AcquireNormal(a) \/ AcquireProbe(a) \/ Skip(a)

Edit ==
  \/ \E new \in Policy : SavePolicy(new)
  \/ DeletePolicy
  \/ \E new \in Policy : Reconfigure(new)

Next ==
  \/ \E a \in Attempts, c \in Candidates : Plan(a, c)
  \/ \E a \in Attempts : Abandon(a) \/ Acquire(a) \/ Finish(a)
  \/ Edit
  \/ Tick

Spec == Init /\ [][Next]_vars

(***************************************************************************)
(* Fairness: time passes, and the host call behind a running attempt       *)
(* returns.  Nothing is assumed about when requests arrive, when a planned *)
(* attempt is acquired or what operators do.                               *)
(***************************************************************************)
Fairness ==
  /\ WF_vars(Tick)
  /\ \A a \in Attempts : WF_vars(Finish(a))

FairSpec == Spec /\ Fairness

----------------------------------------------------------------------------
(***************************************************************************)
(* Properties                                                              *)
(***************************************************************************)

(* A circuit is half-open exactly while a probe lease is out, and a closed *)
(* circuit has no backoff and no deadline: the first failure after any     *)
(* recovery, edit or reload starts again from the base cooldown.           *)
CircuitShape ==
  \A c \in Candidates :
    /\ health[c].state = "half-open" <=> health[c].probeInFlight
    /\ Closed(health[c]) => health[c] = ClosedHealth

(* A probe lease that is out belongs to an attempt that is still running   *)
(* and whose report will be accepted.  A lease without such an attempt     *)
(* would keep the candidate skipped for ever: acquireCandidateHealth...    *)
(* turns every request away while ProbeInFlight is set.                    *)
LeaseHeld ==
  \A c \in Candidates :
    health[c].probeInFlight => holder[c] # None /\ HoldsLease(holder[c], c)

(* An open circuit was opened by a failure of the configuration and the    *)
(* runtime generation that are active now: no edit or reload lets a new    *)
(* credential inherit the failures of the one it replaced.                 *)
NoInheritedFailure ==
  \A c \in Candidates :
    ~Closed(health[c]) => blame[c] = <<config[c], generation>>

(* No report, however late, brings the deadline of an open circuit nearer. *)
DeadlineNeverShortened ==
  [][attempt' # attempt =>
       \A c \in Candidates :
         ~Closed(health[c]) /\ ~Closed(health'[c]) => health'[c].wait >= health[c].wait]_vars

(* A circuit that is not closed closes only on the report of an attempt    *)
(* that owns its probe lease, or because the configuration or the runtime  *)
(* was replaced.                                                           *)
RecoveryOnlyByLease ==
  [][\A c \in Candidates :
       /\ ~Closed(health[c])
       /\ Closed(health'[c])
       /\ config'[c] = config[c]
       /\ generation' = generation
       => \E a \in Attempts : HoldsLease(a, c) /\ attempt'[a] = Idle]_vars

(* A probe lease that ends without an edit or a reload ends with the       *)
(* attempt that took it: no request gives back, wins or loses a probe that *)
(* another request took later.                                             *)
OnlyHolderReturnsLease ==
  [][\A c \in Candidates :
       /\ health[c].probeInFlight
       /\ ~health'[c].probeInFlight
       /\ config'[c] = config[c]
       /\ generation' = generation
       => holder[c] # None /\ attempt[holder[c]] # Idle /\ attempt'[holder[c]] = Idle]_vars

(* The backoff level rises one step at a time, and only when the probe in  *)
(* flight fails: any number of failures of one outage count once.          *)
BackoffOnlyByProbe ==
  [][\A c \in Candidates :
       health'[c].level > health[c].level =>
         /\ health'[c].level = health[c].level + 1
         /\ health[c].probeInFlight
         /\ \E a \in Attempts : HoldsLease(a, c) /\ attempt'[a] = Idle]_vars

(* The health tracking is a CircuitBreaker: the recorded holder is the one *)
(* whose end decides a half-open circuit.                                  *)
Breaker == INSTANCE CircuitBreaker WITH
  circuit <- [c \in Candidates |-> health[c].state],
  running <- {a \in Attempts : Running(a)}

ImplementsCircuitBreaker == Breaker!BreakerSpec

(* Every circuit that is not closed becomes selectable again: neither a    *)
(* lost lease nor a deadline pushed back again and again shuts a candidate *)
(* out for good.                                                           *)
RecoveryPossible ==
  \A c \in Candidates : ~Closed(health[c]) ~> Selectable(health[c])
=============================================================================
