----------------------- MODULE CandidateHealth_proofs -----------------------
(***************************************************************************)
(* Proofs about CandidateHealth for any number of candidates, attempts and *)
(* configurations and any cooldowns.                                       *)
(***************************************************************************)
EXTENDS CandidateHealth, HealthRecord_proofs

----------------------------------------------------------------------------
(* The inductive invariant.  LeaseHeld needs to know that reports are      *)
(* stamped no later than the current generation and that a recorded holder *)
(* means a lease is out; NoInheritedFailure needs the stamps.              *)
Stamped == \A a \in Attempts : Running(a) => attempt[a].gen <= generation

HolderShape == \A c \in Candidates : holder[c] # None => health[c].probeInFlight

IInv ==
  /\ TypeOK
  /\ CircuitShape
  /\ Stamped
  /\ HolderShape
  /\ LeaseHeld
  /\ NoInheritedFailure

(* The state's shape invariant is the record's shape, candidate by         *)
(* candidate.                                                              *)
LEMMA ShapedHealth ==
  ASSUME CircuitShape, NEW c \in Candidates
  PROVE  Shaped(health[c])
BY DEF CircuitShape, Shaped

(* A running attempt is a well-typed record. *)
LEMMA RunningTypes ==
  ASSUME TypeOK, NEW a \in Attempts, Running(a)
  PROVE  /\ attempt[a].cand \in Candidates
         /\ attempt[a].cfg \in Configs
         /\ attempt[a].gen \in 1 .. MaxGeneration
         /\ attempt[a].probe \in BOOLEAN
         /\ health[attempt[a].cand] \in Health
<1>1. attempt[a] \in Attempt \cup {Idle} /\ attempt[a].phase = "running"
  BY DEF TypeOK, Running
<1>2. Idle.phase = "idle"
  BY DEF Idle
<1>3. attempt[a] \in Attempt
  BY <1>1, <1>2
<1>4. /\ attempt[a].cand \in Candidates
      /\ attempt[a].cfg \in Configs
      /\ attempt[a].gen \in 1 .. MaxGeneration
      /\ attempt[a].probe \in BOOLEAN
  BY <1>1, <1>3 DEF Attempt
<1> QED
  BY <1>4 DEF TypeOK

(* The end of an attempt is a report that settles its candidate's record. *)
LEMMA FinishReports ==
  ASSUME TypeOK, CircuitShape, NEW a \in Attempts, Finish(a)
  PROVE  \E g \in Health :
           /\ Report(a, g)
           /\ Shaped(g)
           /\ Settles(health[attempt[a].cand], g, attempt[a].probe)
<1> DEFINE h == health[attempt[a].cand]
           p == attempt[a].probe
<1>1. Running(a)
  BY DEF Finish, Succeed, Fail, Release, Report
<1>2. h \in Health /\ p \in BOOLEAN /\ Shaped(h)
  BY <1>1, RunningTypes, ShapedHealth
<1>3. "network" \in FailureClass /\ 0 \in Nat
  BY DEF FailureClass
<1> HIDE DEF h, p
<1>4. CASE Succeed(a)
  <2>1. Report(a, AfterSuccess(h, p))
    BY <1>4 DEF Succeed, h, p
  <2>2. AfterSuccess(h, p) \in Health /\ Shaped(AfterSuccess(h, p))
        /\ Settles(h, AfterSuccess(h, p), p)
    BY <1>2, <1>3, ReportTypes, ReportShapes, ReportSettles
  <2> QED
    BY <2>1, <2>2 DEF h, p
<1>5. CASE Release(a)
  <2>1. Report(a, AfterRelease(h, p))
    BY <1>5 DEF Release, h, p
  <2>2. AfterRelease(h, p) \in Health /\ Shaped(AfterRelease(h, p))
        /\ Settles(h, AfterRelease(h, p), p)
    BY <1>2, <1>3, ReportTypes, ReportShapes, ReportSettles
  <2> QED
    BY <2>1, <2>2 DEF h, p
<1>6. ASSUME NEW class \in FailureClass, NEW retryAfter \in RetryAfters,
             Fail(a, class, retryAfter)
      PROVE  \E g \in Health :
               /\ Report(a, g)
               /\ Shaped(g)
               /\ Settles(health[attempt[a].cand], g, attempt[a].probe)
  <2>1. Report(a, AfterFailure(h, class, retryAfter, p))
    BY <1>6 DEF Fail, h, p
  <2>2. retryAfter \in Nat
    BY CandidateHealthAssumption
  <2>3. AfterFailure(h, class, retryAfter, p) \in Health
        /\ Shaped(AfterFailure(h, class, retryAfter, p))
        /\ Settles(h, AfterFailure(h, class, retryAfter, p), p)
    BY <1>2, <2>2, ReportTypes, ReportShapes, ReportSettles
  <2> QED
    BY <2>1, <2>3 DEF h, p
<1> QED
  BY <1>4, <1>5, <1>6 DEF Finish

(* A step that only moves an attempt that is not running disturbs nothing. *)
LEMMA OtherPhases ==
  ASSUME IInv, NEW a \in Attempts, ~Running(a), NEW t \in Attempt \cup {Idle},
         t.phase = "running" => t.gen = generation,
         attempt' = [attempt EXCEPT ![a] = t],
         UNCHANGED <<generation, config, health, ghosts>>
  PROVE  IInv'
<1> USE DEF ghosts
<1>1. TypeOK'
  BY DEF IInv, TypeOK
<1>2. CircuitShape'
  BY DEF IInv, CircuitShape, Closed
<1>3. attempt'[a] = t /\ \A b \in Attempts : b # a => attempt'[b] = attempt[b]
  BY DEF IInv, TypeOK
<1>4. Stamped'
  BY <1>3 DEF IInv, Stamped, Running, TypeOK
<1>5. HolderShape'
  BY DEF IInv, HolderShape
<1>6. LeaseHeld'
  <2> SUFFICES ASSUME NEW c \in Candidates, health[c].probeInFlight
               PROVE  (holder[c] # None /\ HoldsLease(holder[c], c))'
    BY DEF LeaseHeld
  <2>1. holder[c] # None /\ HoldsLease(holder[c], c)
    BY DEF IInv, LeaseHeld
  <2>2. holder[c] \in Attempts /\ holder[c] # a
    BY <2>1 DEF IInv, TypeOK, HoldsLease
  <2> QED
    BY <1>3, <2>1, <2>2 DEF HoldsLease, Running, Current
<1>7. NoInheritedFailure'
  BY DEF IInv, NoInheritedFailure, Closed
<1> QED
  BY <1>1, <1>2, <1>4, <1>5, <1>6, <1>7 DEF IInv

(* A report preserves the invariant: a lease it leaves out was out before, *)
(* and its holder is not the attempt that reports, for that one's own      *)
(* report would have been accepted and ended the lease.                    *)
LEMMA ReportPreserves ==
  ASSUME IInv, NEW a \in Attempts, NEW g \in Health,
         Report(a, g), Shaped(g),
         Settles(health[attempt[a].cand], g, attempt[a].probe)
  PROVE  IInv'
<1> DEFINE t == attempt[a]
           d == t.cand
<1>1. /\ TypeOK /\ Running(a)
      /\ generation' = generation /\ config' = config
      /\ attempt' = [attempt EXCEPT ![a] = Idle]
  BY DEF IInv, Report
<1>2. /\ d \in Candidates /\ t.cfg \in Configs /\ t.gen \in 1 .. MaxGeneration
      /\ t.probe \in BOOLEAN /\ health[d] \in Health
  BY <1>1, RunningTypes
<1>3. \A c \in Candidates : health'[c] = IF Current(t) /\ c = d THEN g ELSE health[c]
  BY <1>1, <1>2 DEF Report, TypeOK
<1>4. health' \in [Candidates -> Health]
  BY <1>1, <1>2 DEF Report, TypeOK
<1>5. /\ attempt'[a] = Idle
      /\ \A b \in Attempts : b # a => attempt'[b] = attempt[b]
      /\ attempt' \in [Attempts -> Attempt \cup {Idle}]
  BY <1>1 DEF TypeOK
<1>6. Idle.phase # "running"
  BY DEF Idle
<1>7. /\ holder' \in [Candidates -> Attempts \cup {None}]
      /\ \A c \in Candidates :
           holder'[c] = IF health'[c].probeInFlight THEN holder[c] ELSE None
  BY <1>1 DEF Report, HolderAfter, TypeOK
<1>8. \A c \in Candidates :
        blame'[c] = IF Closed(health'[c]) THEN None
                    ELSE IF Closed(health[c]) THEN <<t.cfg, t.gen>> ELSE blame[c]
  BY DEF Report
<1>9. blame' \in [Candidates -> (Configs \X (1 .. MaxGeneration)) \cup {None}]
  BY <1>1, <1>2 DEF Report, TypeOK
<1>10. TypeOK'
  BY <1>1, <1>4, <1>5, <1>7, <1>9 DEF TypeOK
<1>11. CircuitShape'
  <2> SUFFICES ASSUME NEW c \in Candidates PROVE Shaped(health'[c])
    BY DEF CircuitShape, Shaped, Closed
  <2>1. Shaped(health[c])
    BY ShapedHealth DEF IInv
  <2> QED
    BY <1>3, <2>1
<1>12. Stamped'
  BY <1>1, <1>5, <1>6 DEF IInv, Stamped, Running
<1>13. HolderShape'
  BY <1>7 DEF HolderShape
<1>14. LeaseHeld'
  <2> SUFFICES ASSUME NEW c \in Candidates, health'[c].probeInFlight
               PROVE  (holder[c] # None /\ HoldsLease(holder[c], c))'
    BY DEF LeaseHeld
  <2>1. health[c].probeInFlight
    BY <1>2, <1>3 DEF Settles
  <2>2. holder[c] # None /\ HoldsLease(holder[c], c)
    BY <2>1 DEF IInv, LeaseHeld
  <2>3. holder'[c] = holder[c] /\ holder[c] \in Attempts
    BY <1>1, <1>7, <2>2 DEF TypeOK
  <2>4. holder[c] # a
    <3> SUFFICES ASSUME holder[c] = a PROVE FALSE
      OBVIOUS
    <3>1. c = d /\ t.probe /\ Current(t)
      BY <2>2 DEF HoldsLease
    <3> QED
      BY <1>2, <1>3, <3>1 DEF Settles
  <2>5. attempt'[holder[c]] = attempt[holder[c]]
    BY <1>5, <2>3, <2>4
  <2> QED
    BY <1>1, <2>2, <2>3, <2>5 DEF HoldsLease, Running, Current
<1>15. NoInheritedFailure'
  <2> SUFFICES ASSUME NEW c \in Candidates, ~Closed(health'[c])
               PROVE  blame'[c] = <<config[c], generation>>
    BY <1>1 DEF NoInheritedFailure, Closed
  <2>1. CASE Closed(health[c])
    <3>1. Current(t) /\ c = d
      BY <1>3, <2>1
    <3>2. blame'[c] = <<t.cfg, t.gen>>
      BY <1>8, <2>1
    <3> QED
      BY <1>2, <3>1, <3>2 DEF Current
  <2>2. CASE ~Closed(health[c])
    BY <1>8, <2>2 DEF IInv, NoInheritedFailure
  <2> QED
    BY <2>1, <2>2
<1> QED
  BY <1>10, <1>11, <1>12, <1>13, <1>14, <1>15 DEF IInv

(* An edit or a reload preserves the invariant: it forgets the record of   *)
(* every candidate whose configuration or generation it changes.           *)
LEMMA EditPreserves ==
  ASSUME IInv, attempt' = attempt, config' \in Policy,
         generation' \in 1 .. MaxGeneration, generation <= generation',
         health' \in [Candidates -> Health],
         \A c \in Candidates :
           \/ health'[c] = ClosedHealth
           \/ /\ health'[c] = health[c]
              /\ config'[c] = config[c]
              /\ generation' = generation,
         holder' = HolderAfter(health'), blame' = BlameAfter(health')
  PROVE  IInv'
<1>1. TypeOK
  BY DEF IInv
<1>2. Shaped(ClosedHealth) /\ Closed(ClosedHealth) /\ ~ClosedHealth.probeInFlight
  BY DEF Shaped, ClosedHealth, Closed
<1>3. /\ holder' \in [Candidates -> Attempts \cup {None}]
      /\ \A c \in Candidates :
           holder'[c] = IF health'[c].probeInFlight THEN holder[c] ELSE None
  BY <1>1 DEF HolderAfter, TypeOK
<1>4. /\ blame' \in [Candidates -> (Configs \X (1 .. MaxGeneration)) \cup {None}]
      /\ \A c \in Candidates : blame'[c] = IF Closed(health'[c]) THEN None ELSE blame[c]
  BY <1>1 DEF BlameAfter, TypeOK
<1>5. TypeOK'
  BY <1>1, <1>3, <1>4 DEF TypeOK
<1>6. CircuitShape'
  <2> SUFFICES ASSUME NEW c \in Candidates PROVE Shaped(health'[c])
    BY DEF CircuitShape, Shaped, Closed
  <2> QED
    BY <1>2, ShapedHealth DEF IInv
<1>7. Stamped'
  <2> SUFFICES ASSUME NEW a \in Attempts, Running(a)
               PROVE  attempt[a].gen <= generation'
    BY DEF Stamped, Running
  <2>1. attempt[a].gen \in Nat /\ attempt[a].gen <= generation
    BY <1>1, RunningTypes DEF IInv, Stamped
  <2> QED
    BY <1>1, <2>1 DEF TypeOK
<1>8. HolderShape'
  BY <1>3 DEF HolderShape
<1>9. LeaseHeld'
  <2> SUFFICES ASSUME NEW c \in Candidates, health'[c].probeInFlight
               PROVE  (holder[c] # None /\ HoldsLease(holder[c], c))'
    BY DEF LeaseHeld
  <2>1. health'[c] = health[c] /\ config'[c] = config[c] /\ generation' = generation
    BY <1>2
  <2>2. holder[c] # None /\ HoldsLease(holder[c], c)
    BY <2>1 DEF IInv, LeaseHeld
  <2> QED
    BY <1>3, <2>1, <2>2 DEF HoldsLease, Running, Current
<1>10. NoInheritedFailure'
  <2> SUFFICES ASSUME NEW c \in Candidates, ~Closed(health'[c])
               PROVE  blame'[c] = <<config'[c], generation'>>
    BY DEF NoInheritedFailure, Closed
  <2>1. health'[c] = health[c] /\ config'[c] = config[c] /\ generation' = generation
    BY <1>2
  <2> QED
    BY <1>4, <2>1 DEF IInv, NoInheritedFailure
<1> QED
  BY <1>5, <1>6, <1>7, <1>8, <1>9, <1>10 DEF IInv

(* Saving a policy keeps the invariant: what changed or went starts over.  *)
LEMMA SavePolicyPreserves ==
  ASSUME IInv, NEW new \in Policy, SavePolicy(new)
  PROVE  IInv'
<1> USE DEF SavePolicy
<1>1. TypeOK /\ ClosedHealth \in Health
  BY CooldownAssumption DEF IInv, ClosedHealth, Health
<1>2. \A c \in Candidates :
        health'[c] = IF new[c] = Absent THEN ClosedHealth
                     ELSE IF config[c] # Absent /\ config[c] # new[c] THEN ClosedHealth
                     ELSE health[c]
  BY DEF Prune, ResetChanged
<1>3. health' \in [Candidates -> Health]
  BY <1>1 DEF Prune, ResetChanged, TypeOK
<1>4. ASSUME NEW c \in Candidates, health'[c] # ClosedHealth
      PROVE  health'[c] = health[c] /\ config'[c] = config[c]
  <2>1. health'[c] = health[c] /\ (config[c] = Absent \/ config[c] = new[c])
    BY <1>2, <1>4
  <2>2. ~Closed(health[c])
    BY <1>4, <2>1 DEF IInv, CircuitShape
  <2>3. blame[c] = <<config[c], generation>>
    BY <2>2 DEF IInv, NoInheritedFailure
  <2>4. config[c] \in Configs
    <3>1. config[c] \in Configs \cup {Disabled, Absent} /\ generation \in Nat
      BY <1>1 DEF TypeOK, Policy
    <3>2. blame[c] # None
      BY <2>3, <3>1, CandidateHealthAssumption
    <3>3. blame[c] \in Configs \X (1 .. MaxGeneration)
      BY <1>1, <3>2 DEF TypeOK
    <3> QED
      BY <2>3, <3>3
  <2> QED
    BY <2>1, <2>4, CandidateHealthAssumption
<1>5. generation' = generation /\ generation \in 1 .. MaxGeneration
  BY <1>1 DEF TypeOK
<1> QED
  BY <1>3, <1>4, <1>5, EditPreserves

(* Deleting the policy keeps it: every circuit starts over.                *)
LEMMA DeletePolicyPreserves ==
  ASSUME IInv, DeletePolicy
  PROVE  IInv'
<1> USE DEF DeletePolicy
<1>1. config' \in Policy
  BY DEF Policy
<1>2. health' = [c \in Candidates |-> ClosedHealth]
  BY DEF Prune
<1>3. ClosedHealth \in Health
  BY CooldownAssumption DEF ClosedHealth, Health
<1>4. generation' = generation /\ generation \in 1 .. MaxGeneration
  BY DEF IInv, TypeOK
<1> QED
  BY <1>1, <1>2, <1>3, <1>4, EditPreserves

(* A reload keeps it: older attempts no longer count.                      *)
LEMMA ReconfigurePreserves ==
  ASSUME IInv, NEW new \in Policy, Reconfigure(new)
  PROVE  IInv'
<1> USE DEF Reconfigure
<1>1. ClosedHealth \in Health
  BY CooldownAssumption DEF ClosedHealth, Health
<1>2. generation' \in 1 .. MaxGeneration /\ generation <= generation'
  BY CandidateHealthAssumption DEF IInv, TypeOK
<1>3. /\ health' \in [Candidates -> Health]
      /\ \A c \in Candidates : health'[c] = ClosedHealth
  BY <1>1
<1> QED
  BY <1>2, <1>3, EditPreserves

(* The passing of time keeps the invariant.                                *)
LEMMA TickPreserves ==
  ASSUME IInv, Tick
  PROVE  IInv'
<1> USE DEF Tick, ghosts
<1>1. TypeOK
  BY DEF IInv
<1>2. \A c \in Candidates : health[c] \in Health /\ health'[c] = Elapsed(health[c])
  BY <1>1 DEF TypeOK
<1>3. \A c \in Candidates :
        /\ health'[c].state = health[c].state
        /\ health'[c].probeInFlight = health[c].probeInFlight
        /\ health'[c] \in Health
  BY <1>2, SMTT(30) DEF Elapsed, Health
<1>4. TypeOK'
  <2>1. health' \in [Candidates -> Health]
    BY <1>3
  <2> QED
    BY <1>1, <2>1 DEF TypeOK
<1>5. CircuitShape'
  <2> SUFFICES ASSUME NEW c \in Candidates PROVE Shaped(health'[c])
    BY DEF CircuitShape, Shaped, Closed
  <2>1. "network" \in FailureClass /\ 0 \in Nat /\ TRUE \in BOOLEAN
    BY DEF FailureClass
  <2>2. Shaped(Elapsed(health[c]))
    BY <1>2, <2>1, ShapedHealth, ReportShapes DEF IInv
  <2> QED
    BY <1>2, <2>2
<1>6. Stamped'
  BY DEF IInv, Stamped, Running
<1>7. HolderShape'
  BY <1>3 DEF IInv, HolderShape
<1>8. LeaseHeld'
  BY <1>3 DEF IInv, LeaseHeld, HoldsLease, Running, Current
<1>9. NoInheritedFailure'
  BY <1>3 DEF IInv, NoInheritedFailure, Closed
<1> QED
  BY <1>4, <1>5, <1>6, <1>7, <1>8, <1>9 DEF IInv

(* The invariant holds at the start.                                       *)
LEMMA InitIInv == Init => IInv
<1> SUFFICES ASSUME Init PROVE IInv
  OBVIOUS
<1> USE DEF Init
<1>1. ClosedHealth \in Health /\ Shaped(ClosedHealth) /\ ~ClosedHealth.probeInFlight
      /\ Closed(ClosedHealth)
  BY CooldownAssumption DEF ClosedHealth, Health, Shaped, Closed
<1>2. \A c \in Candidates : health[c] = ClosedHealth
  OBVIOUS
<1>3. \A a \in Attempts : ~Running(a)
  BY DEF Running, Idle
<1>4. 1 \in 1 .. MaxGeneration
  BY CandidateHealthAssumption
<1>5. TypeOK
  BY <1>1, <1>4 DEF TypeOK
<1>6. CircuitShape
  BY <1>1, <1>2 DEF CircuitShape, Shaped
<1>7. Stamped /\ HolderShape /\ LeaseHeld /\ NoInheritedFailure
  BY <1>1, <1>2, <1>3 DEF Stamped, HolderShape, LeaseHeld, NoInheritedFailure
<1> QED
  BY <1>5, <1>6, <1>7 DEF IInv

(* What a slot holds before its attempt runs. *)
LEMMA PlannedTypes ==
  ASSUME TypeOK, NEW a \in Attempts, Planned(a)
  PROVE  /\ attempt[a] \in Attempt
         /\ attempt[a].phase = "planned"
         /\ attempt[a].cand \in Candidates
         /\ attempt[a].cfg \in Configs
         /\ attempt[a].gen = 0
         /\ attempt[a].probe = FALSE
         /\ health[attempt[a].cand] \in Health
         /\ ~Running(a)
<1>1. attempt[a] \in Attempt \cup {Idle} /\ attempt[a].phase = "planned"
  BY DEF TypeOK, Planned
<1>2. Idle.phase = "idle"
  BY DEF Idle
<1>3. attempt[a] \in Attempt
  BY <1>1, <1>2
<1>4. /\ attempt[a].cand \in Candidates
      /\ attempt[a].cfg \in Configs
      /\ attempt[a].gen = 0
      /\ attempt[a].probe = FALSE
  BY <1>1, <1>3 DEF Attempt
<1> QED
  BY <1>1, <1>3, <1>4 DEF TypeOK, Running

(* The record of an attempt that starts. *)
LEMMA StartedTypes ==
  ASSUME TypeOK, NEW a \in Attempts, Planned(a), NEW p \in BOOLEAN,
         attempt' = [attempt EXCEPT ![a].phase = "running", ![a].gen = generation,
                                    ![a].probe = p]
  PROVE  \E t \in Attempt :
           /\ attempt' = [attempt EXCEPT ![a] = t]
           /\ t.phase = "running" /\ t.gen = generation /\ t.probe = p
           /\ t.cand = attempt[a].cand /\ t.cfg = attempt[a].cfg
<1> DEFINE t == [attempt[a] EXCEPT !.phase = "running", !.gen = generation, !.probe = p]
<1>1. attempt[a] \in [phase : {"planned"}, cand : Candidates, cfg : Configs,
                      gen : {0}, probe : {FALSE}]
  BY PlannedTypes DEF Attempt
<1>2. /\ t.phase = "running" /\ t.gen = generation /\ t.probe = p
      /\ t.cand = attempt[a].cand /\ t.cfg = attempt[a].cfg
  BY <1>1
<1>3. t \in Attempt
  BY <1>1 DEF Attempt, TypeOK
<1>4. attempt' = [attempt EXCEPT ![a] = t]
  BY DEF TypeOK
<1> QED
  BY <1>2, <1>3, <1>4

(* Trying a candidate with a closed circuit keeps the invariant.           *)
LEMMA AcquireNormalPreserves ==
  ASSUME IInv, NEW a \in Attempts, AcquireNormal(a)
  PROVE  IInv'
<1>1. TypeOK /\ Planned(a)
  BY DEF IInv, AcquireNormal
<1>2. ~Running(a) /\ attempt[a] \in Attempt /\ attempt[a].probe = FALSE
  BY <1>1, PlannedTypes
<1> DEFINE t == [attempt[a] EXCEPT !.phase = "running", !.gen = generation]
<1>3. attempt[a] \in [phase : {"planned"}, cand : Candidates, cfg : Configs,
                      gen : {0}, probe : {FALSE}]
  BY <1>1, PlannedTypes DEF Attempt
<1>4. t \in Attempt /\ t.gen = generation
  BY <1>1, <1>3 DEF Attempt, TypeOK
<1>5. attempt' = [attempt EXCEPT ![a] = t]
  BY <1>1 DEF AcquireNormal, TypeOK
<1> HIDE DEF t
<1> QED
  BY <1>2, <1>4, <1>5, OtherPhases DEF AcquireNormal

(* Taking a probe lease keeps it: the lease was free and now has an owner. *)
LEMMA AcquireProbePreserves ==
  ASSUME IInv, NEW a \in Attempts, AcquireProbe(a)
  PROVE  IInv'
<1> DEFINE c == attempt[a].cand
<1>1. /\ TypeOK /\ Planned(a) /\ Current(attempt[a]) /\ ~Closed(health[c])
      /\ UNCHANGED <<generation, config, blame>>
      /\ health' = [health EXCEPT ![c] = AfterAcquire(@)]
      /\ holder' = [holder EXCEPT ![c] = a]
      /\ ~health[c].probeInFlight
  <2>1. Selectable(health[c]) /\ ~Closed(health[c])
    BY DEF AcquireProbe
  <2> QED
    BY <2>1 DEF IInv, AcquireProbe, Selectable
<1>2. PICK t \in Attempt :
        /\ attempt' = [attempt EXCEPT ![a] = t]
        /\ t.phase = "running" /\ t.gen = generation /\ t.probe = TRUE
        /\ t.cand = c /\ t.cfg = attempt[a].cfg
  BY <1>1, StartedTypes DEF AcquireProbe
<1>3. /\ c \in Candidates /\ health[c] \in Health /\ ~Running(a)
      /\ attempt[a].cfg = config[c]
  BY <1>1, PlannedTypes DEF Current
<1> HIDE DEF c
<1>4. /\ attempt'[a] = t
      /\ \A b \in Attempts : b # a => attempt'[b] = attempt[b]
  BY <1>1, <1>2 DEF TypeOK
<1>5. /\ health'[c] = [health[c] EXCEPT !.state = "half-open", !.probeInFlight = TRUE]
      /\ \A d \in Candidates : d # c => health'[d] = health[d]
      /\ \A d \in Candidates : health'[d] \in Health
      /\ health' \in [Candidates -> Health]
  BY <1>1, <1>3 DEF AfterAcquire, TypeOK, Health
<1>6. /\ health'[c].state = "half-open" /\ health'[c].probeInFlight = TRUE
      /\ ~Closed(health'[c])
  BY <1>3, <1>5 DEF Health, Closed
<1>7. /\ holder'[c] = a
      /\ \A d \in Candidates : d # c => holder'[d] = holder[d]
      /\ holder' \in [Candidates -> Attempts \cup {None}]
  BY <1>1, <1>3 DEF TypeOK
<1>8. TypeOK'
  BY <1>1, <1>2, <1>5, <1>7 DEF TypeOK
<1>9. CircuitShape'
  <2> SUFFICES ASSUME NEW d \in Candidates PROVE Shaped(health'[d])
    BY DEF CircuitShape, Shaped, Closed
  <2>1. CASE d = c
    BY <1>6, <2>1 DEF Shaped
  <2>2. CASE d # c
    BY <1>5, <2>2, ShapedHealth DEF IInv
  <2> QED
    BY <2>1, <2>2
<1>10. Stamped'
  BY <1>1, <1>2, <1>4 DEF IInv, Stamped, Running, TypeOK
<1>11. HolderShape'
  BY <1>5, <1>6, <1>7 DEF IInv, HolderShape
<1>12. LeaseHeld'
  <2> SUFFICES ASSUME NEW d \in Candidates, health'[d].probeInFlight
               PROVE  (holder[d] # None /\ HoldsLease(holder[d], d))'
    BY DEF LeaseHeld
  <2>1. CASE d = c
    <3>1. holder'[c] = a /\ a # None
      BY <1>7, CandidateHealthAssumption
    <3>2. t.gen \in {0, generation} /\ t.cfg = config[c]
      BY <1>2, <1>3
    <3> QED
      BY <1>1, <1>2, <1>4, <2>1, <3>1, <3>2 DEF HoldsLease, Running, Current
  <2>2. CASE d # c
    <3>1. holder[d] # None /\ HoldsLease(holder[d], d)
      BY <1>5, <2>2 DEF IInv, LeaseHeld
    <3>2. holder[d] \in Attempts /\ holder[d] # a
      BY <1>1, <1>3, <3>1 DEF TypeOK, HoldsLease
    <3> QED
      BY <1>1, <1>4, <1>7, <2>2, <3>1, <3>2 DEF HoldsLease, Running, Current
  <2> QED
    BY <2>1, <2>2
<1>13. NoInheritedFailure'
  <2> SUFFICES ASSUME NEW d \in Candidates, ~Closed(health'[d])
               PROVE  blame[d] = <<config[d], generation>>
    BY <1>1 DEF NoInheritedFailure, Closed
  <2>1. ~Closed(health[d])
    BY <1>1, <1>5 DEF c
  <2> QED
    BY <2>1 DEF IInv, NoInheritedFailure
<1> QED
  BY <1>8, <1>9, <1>10, <1>11, <1>12, <1>13 DEF IInv

(* Every step keeps the invariant.                                         *)
LEMMA NextIInv == IInv /\ [Next]_vars => IInv'
<1> SUFFICES ASSUME IInv, [Next]_vars PROVE IInv'
  OBVIOUS
<1>1. TypeOK
  BY DEF IInv
<1>2. Idle.phase = "idle"
  BY DEF Idle
<1>3. ASSUME NEW a \in Attempts, NEW c \in Candidates, Plan(a, c) PROVE IInv'
  <2> DEFINE t == [phase |-> "planned", cand |-> c, cfg |-> config[c], gen |-> 0,
                   probe |-> FALSE]
  <2>1. ~Running(a)
    BY <1>2, <1>3 DEF Plan, Running
  <2>2. t \in Attempt /\ t.phase # "running"
    BY <1>3 DEF Plan, Attempt
  <2>3. attempt' = [attempt EXCEPT ![a] = t]
    BY <1>3 DEF Plan
  <2> HIDE DEF t
  <2> QED
    BY <1>3, <2>1, <2>2, <2>3, OtherPhases DEF Plan
<1>4. ASSUME NEW a \in Attempts, Abandon(a) \/ Skip(a) PROVE IInv'
  <2>1. /\ Planned(a) /\ attempt' = [attempt EXCEPT ![a] = Idle]
        /\ UNCHANGED <<generation, config, health, ghosts>>
    BY <1>4 DEF Abandon, Skip
  <2>2. ~Running(a)
    BY <1>1, <2>1, PlannedTypes
  <2> QED
    BY <1>2, <2>1, <2>2, OtherPhases
<1>5. ASSUME NEW a \in Attempts, Finish(a) PROVE IInv'
  <2>1. TypeOK /\ CircuitShape
    BY DEF IInv
  <2>2. PICK g \in Health :
          /\ Report(a, g)
          /\ Shaped(g)
          /\ Settles(health[attempt[a].cand], g, attempt[a].probe)
    BY <1>5, <2>1, FinishReports
  <2> QED
    BY <2>2, ReportPreserves
<1>6. CASE UNCHANGED vars
  BY <1>6 DEF vars, ghosts, IInv, TypeOK, CircuitShape, Stamped, HolderShape, LeaseHeld,
     NoInheritedFailure, HoldsLease, Running, Current, Closed
<1> QED
  BY <1>3, <1>4, <1>5, <1>6, AcquireNormalPreserves, AcquireProbePreserves,
     SavePolicyPreserves, DeletePolicyPreserves, ReconfigurePreserves, TickPreserves
     DEF Next, Acquire, Edit

(* The invariant holds in every reachable state.                           *)
LEMMA IInvHolds == Spec => []IInv
BY InitIInv, NextIInv, PTL DEF Spec

----------------------------------------------------------------------------
(* Every variable keeps its type: the generation stamps, the backoff level *)
(* and the probe flags of attempts stay in range through every             *)
(* interleaving of attempts, edits and reloads.                            *)
THEOREM TypeInvariant == Spec => []TypeOK
BY IInvHolds, PTL DEF IInv

(* A circuit is half-open exactly while a probe lease is out, and a closed *)
(* one carries nothing over from its last outage.                          *)
THEOREM CircuitsWellFormed == Spec => []CircuitShape
BY IInvHolds, PTL DEF IInv

(* A probe lease that is out always has a running owner whose report will  *)
(* be accepted, so no candidate stays half-open without somebody to decide *)
(* it (the lease is taken by acquireCandidateHealthWithReasonV4 and ended  *)
(* by the record and release functions).                                   *)
THEOREM LeasesHeld == Spec => []LeaseHeld
BY IInvHolds, PTL DEF IInv

(* No candidate is held back by a failure of another configuration or of a *)
(* runtime before the last reload.                                         *)
THEOREM NoFailureInherited == Spec => []NoInheritedFailure
BY IInvHolds, PTL DEF IInv

(* What a step does to a record, by kind of step. *)
LEMMA StepEffects ==
  ASSUME IInv, [Next]_vars, attempt' # attempt
  PROVE  \/ UNCHANGED health
         \/ \E a \in Attempts :
              /\ Planned(a)
              /\ ~Closed(health[attempt[a].cand])
              /\ attempt[a].cand \in Candidates
              /\ health' = [health EXCEPT ![attempt[a].cand] = AfterAcquire(@)]
         \/ \E a \in Attempts, g \in Health :
              /\ Running(a) /\ Current(attempt[a])
              /\ attempt[a].cand \in Candidates
              /\ Settles(health[attempt[a].cand], g, attempt[a].probe)
              /\ health' = [health EXCEPT ![attempt[a].cand] = g]
              /\ attempt'[a] = Idle
<1>1. TypeOK /\ CircuitShape
  BY DEF IInv
<1>2. ASSUME NEW a \in Attempts, AcquireProbe(a)
      PROVE  /\ Planned(a)
             /\ ~Closed(health[attempt[a].cand])
             /\ attempt[a].cand \in Candidates
             /\ health' = [health EXCEPT ![attempt[a].cand] = AfterAcquire(@)]
  BY <1>1, <1>2, PlannedTypes DEF AcquireProbe
<1>3. ASSUME NEW a \in Attempts, Finish(a)
      PROVE  \/ UNCHANGED health
             \/ \E g \in Health :
                  /\ Running(a) /\ Current(attempt[a])
                  /\ attempt[a].cand \in Candidates
                  /\ Settles(health[attempt[a].cand], g, attempt[a].probe)
                  /\ health' = [health EXCEPT ![attempt[a].cand] = g]
                  /\ attempt'[a] = Idle
  <2>1. PICK g \in Health :
          /\ Report(a, g)
          /\ Shaped(g)
          /\ Settles(health[attempt[a].cand], g, attempt[a].probe)
    BY <1>1, <1>3, FinishReports
  <2>2. Running(a) /\ attempt'[a] = Idle
    BY <1>1, <2>1 DEF Report, TypeOK
  <2>3. attempt[a].cand \in Candidates
    BY <1>1, <2>2, RunningTypes
  <2>4. health' = IF Current(attempt[a]) THEN [health EXCEPT ![attempt[a].cand] = g]
                  ELSE health
    BY <2>1 DEF Report
  <2> QED
    BY <2>1, <2>2, <2>3, <2>4
<1>4. ASSUME NEW a \in Attempts, AcquireNormal(a) \/ Skip(a) \/ Abandon(a)
      PROVE  UNCHANGED health
  BY <1>4 DEF AcquireNormal, Skip, Abandon
<1>5. ASSUME NEW a \in Attempts, NEW c \in Candidates, Plan(a, c)
      PROVE  UNCHANGED health
  BY <1>5 DEF Plan
<1>6. ~Edit /\ ~Tick /\ ~UNCHANGED vars
  BY DEF Edit, SavePolicy, DeletePolicy, Reconfigure, Tick, vars
<1>7. \/ \E a \in Attempts, c \in Candidates : Plan(a, c)
      \/ \E a \in Attempts : AcquireProbe(a)
      \/ \E a \in Attempts : Finish(a)
      \/ \E a \in Attempts : AcquireNormal(a) \/ Skip(a) \/ Abandon(a)
  BY <1>6 DEF Next, Acquire
<1> QED
  BY <1>2, <1>3, <1>4, <1>5, <1>7

(* A step of an attempt never brings a deadline nearer.                    *)
LEMMA DeadlineStep ==
  ASSUME IInv, [Next]_vars, attempt' # attempt, NEW c \in Candidates,
         ~Closed(health[c]), ~Closed(health'[c])
  PROVE  health'[c].wait >= health[c].wait
<1>1. TypeOK /\ health[c] \in Health
  BY DEF IInv, TypeOK
<1>2. health[c].wait >= health[c].wait
  BY <1>1 DEF Health
<1>3. AfterAcquire(health[c]).wait = health[c].wait
  BY <1>1 DEF AfterAcquire, Health
<1>4. CASE UNCHANGED health
  BY <1>2, <1>4
<1>5. ASSUME NEW d \in Candidates,
             health' = [health EXCEPT ![d] = AfterAcquire(@)]
      PROVE  health'[c].wait >= health[c].wait
  BY <1>1, <1>2, <1>3, <1>5 DEF TypeOK
<1>6. ASSUME NEW d \in Candidates, NEW g \in Health, NEW p,
             Settles(health[d], g, p), health' = [health EXCEPT ![d] = g]
      PROVE  health'[c].wait >= health[c].wait
  BY <1>1, <1>2, <1>6 DEF TypeOK, Settles
<1> QED
  BY <1>4, <1>5, <1>6, StepEffects

(* No report of any attempt, however late it comes and whatever it says,   *)
(* brings the deadline of a circuit that is not closed nearer              *)
(* (recordCandidateFailureV4 keeps the later of both deadlines).           *)
THEOREM DeadlinesNeverShortened == Spec => DeadlineNeverShortened
<1>1. IInv /\ [Next]_vars =>
        [attempt' # attempt =>
           \A c \in Candidates :
             ~Closed(health[c]) /\ ~Closed(health'[c]) =>
               health'[c].wait >= health[c].wait]_vars
  BY DeadlineStep
<1> QED
  BY <1>1, IInvHolds, PTL DEF Spec, DeadlineNeverShortened

(* Every step of an attempt changes the attempt.                           *)
LEMMA UnattendedStep ==
  ASSUME TypeOK, [Next]_vars, attempt' = attempt
  PROVE  Edit \/ Tick \/ UNCHANGED vars
<1>1. \A a \in Attempts : \A d \in Candidates : ~Plan(a, d)
  BY DEF Plan, TypeOK, Idle
<1>2. \A a \in Attempts : ~Abandon(a) /\ ~Skip(a)
  BY DEF Abandon, Skip, TypeOK, Planned, Idle
<1>3. \A a \in Attempts : ~Finish(a)
  BY DEF Finish, Succeed, Fail, Release, Report, TypeOK, Running, Idle
<1>4. ASSUME NEW a \in Attempts, AcquireNormal(a) \/ AcquireProbe(a) PROVE FALSE
  <2>1. attempt[a].phase = "planned" /\ attempt[a].probe = FALSE
    BY <1>4, PlannedTypes DEF AcquireNormal, AcquireProbe, Planned
  <2>2. attempt'[a].phase = "running"
    <3>1. CASE AcquireProbe(a)
      <4>1. PICK t \in Attempt :
              attempt' = [attempt EXCEPT ![a] = t] /\ t.phase = "running"
        BY <3>1, StartedTypes DEF AcquireProbe
      <4> QED
        BY <4>1 DEF TypeOK
    <3>2. CASE AcquireNormal(a)
      <4>1. attempt[a] \in Attempt
        BY <3>2, PlannedTypes DEF AcquireNormal
      <4>2. attempt' =
              [attempt EXCEPT ![a] = [attempt[a] EXCEPT !.phase = "running",
                                                        !.gen = generation]]
        BY <3>2 DEF AcquireNormal, TypeOK
      <4> QED
        BY <4>1, <4>2 DEF Attempt, TypeOK
    <3> QED
      BY <1>4, <3>1, <3>2
  <2> QED
    BY <2>1, <2>2
<1> QED
  BY <1>1, <1>2, <1>3, <1>4 DEF Next, Acquire

(* Such a step, without an edit of the candidate or a reload, only lets    *)
(* time pass for a circuit that is not closed.                             *)
LEMMA QuietStep ==
  ASSUME IInv, [Next]_vars, attempt' = attempt, NEW c \in Candidates,
         ~Closed(health[c]), config'[c] = config[c], generation' = generation
  PROVE  health'[c] = health[c] \/ health'[c] = Elapsed(health[c])
<1>1. TypeOK
  BY DEF IInv
<1>2. CASE Tick \/ UNCHANGED vars
  BY <1>2 DEF vars, Tick
<1>3. CASE Edit
  <2>1. \A new \in Policy : ~Reconfigure(new)
    BY <1>1 DEF Reconfigure, TypeOK
  <2>2. config[c] # Absent
    <3>1. blame[c] = <<config[c], generation>>
      BY DEF IInv, NoInheritedFailure
    <3>2. config[c] \in Configs \cup {Disabled, Absent} /\ generation \in Nat
      BY <1>1 DEF TypeOK, Policy
    <3>3. blame[c] # None
      BY <3>1, <3>2, CandidateHealthAssumption
    <3>4. blame[c] \in Configs \X (1 .. MaxGeneration)
      BY <1>1, <3>3 DEF TypeOK
    <3> QED
      BY <3>1, <3>4, CandidateHealthAssumption
  <2>3. ~DeletePolicy
    BY <2>2 DEF DeletePolicy
  <2>4. ASSUME NEW new \in Policy, SavePolicy(new) PROVE health'[c] = health[c]
    BY <2>2, <2>4 DEF SavePolicy, Prune, ResetChanged
  <2> QED
    BY <1>3, <2>1, <2>3, <2>4 DEF Edit
<1> QED
  BY <1>1, <1>2, <1>3, UnattendedStep

(* A circuit closes only in the step in which its lease holder reports.    *)
LEMMA RecoveryStep ==
  ASSUME IInv, [Next]_vars, NEW c \in Candidates,
         ~Closed(health[c]), Closed(health'[c]),
         config'[c] = config[c], generation' = generation
  PROVE  \E a \in Attempts : HoldsLease(a, c) /\ attempt'[a] = Idle
<1>1. TypeOK /\ health[c] \in Health
  BY DEF IInv, TypeOK
<1>2. attempt' # attempt
  <2> SUFFICES ASSUME attempt' = attempt PROVE FALSE
    OBVIOUS
  <2>1. ~Closed(Elapsed(health[c]))
    BY <1>1 DEF Elapsed, Closed, Health
  <2> QED
    BY <2>1, QuietStep
<1>3. health' # health
  BY DEF Closed
<1>4. ASSUME NEW d \in Candidates, ~Closed(health[d]),
             health' = [health EXCEPT ![d] = AfterAcquire(@)]
      PROVE  FALSE
  <2>1. ~Closed(AfterAcquire(health[d]))
    BY <1>1, <1>4 DEF AfterAcquire, Closed, TypeOK, Health
  <2> QED
    BY <1>1, <1>4, <2>1 DEF TypeOK
<1>5. PICK a \in Attempts, g \in Health :
        /\ Running(a) /\ Current(attempt[a])
        /\ attempt[a].cand \in Candidates
        /\ Settles(health[attempt[a].cand], g, attempt[a].probe)
        /\ health' = [health EXCEPT ![attempt[a].cand] = g]
        /\ attempt'[a] = Idle
  BY <1>2, <1>3, <1>4, StepEffects
<1>6. attempt[a].cand = c
  BY <1>1, <1>5 DEF TypeOK
<1>7. Closed(g)
  BY <1>1, <1>5, <1>6 DEF TypeOK
<1>8. attempt[a].probe
  BY <1>5, <1>6, <1>7 DEF Settles
<1> QED
  BY <1>5, <1>6, <1>8 DEF HoldsLease

(* A circuit that is not closed recovers only through an owner of its      *)
(* probe lease: late successes of normal attempts never close it           *)
(* (recordCandidateSuccessWithLeaseV4).                                    *)
THEOREM RecoveriesOnlyByLease == Spec => RecoveryOnlyByLease
<1>1. IInv /\ [Next]_vars =>
        [\A c \in Candidates :
           /\ ~Closed(health[c])
           /\ Closed(health'[c])
           /\ config'[c] = config[c]
           /\ generation' = generation
           => \E a \in Attempts : HoldsLease(a, c) /\ attempt'[a] = Idle]_vars
  BY RecoveryStep
<1> QED
  BY <1>1, IInvHolds, PTL DEF Spec, RecoveryOnlyByLease

----------------------------------------------------------------------------
(* Who ends a lease.  As long as no edit restores a configuration under    *)
(* which an attempt still runs, an attempt that owns the lease of a        *)
(* candidate is the one that took it last: only the holder's report is     *)
(* accepted as the verdict of the probe.  With such edits an attempt can   *)
(* own the lease that another one holds.                                   *)
SoleOwner ==
  \A a \in Attempts, c \in Candidates : HoldsLease(a, c) => holder[c] = a

OwnedInv == IInv /\ SoleOwner

(* A recorded holder owns its lease; so an attempt that owns none is not   *)
(* recorded anywhere.                                                      *)
LEMMA HolderOwns ==
  ASSUME IInv, NEW c \in Candidates, holder[c] # None
  PROVE  /\ holder[c] \in Attempts
         /\ health[c].probeInFlight
         /\ HoldsLease(holder[c], c)
BY DEF IInv, TypeOK, HolderShape, LeaseHeld

(* Steps of an attempt that is not running, and the passing of time, keep  *)
(* sole ownership: they change no holder and make at most one owner, whose *)
(* lease they record.                                                      *)
LEMMA StartKeepsSole ==
  ASSUME OwnedInv, NEW a \in Attempts, ~Running(a), NEW t \in Attempt \cup {Idle},
         attempt' = [attempt EXCEPT ![a] = t],
         t.phase = "running" => t.probe = FALSE \/ holder'[t.cand] = a,
         \A c \in Candidates :
           holder[c] # None => holder'[c] = holder[c],
         UNCHANGED <<generation, config>>
  PROVE  SoleOwner'
<1>1. /\ TypeOK
      /\ attempt'[a] = t
      /\ \A b \in Attempts : b # a => attempt'[b] = attempt[b]
  BY DEF OwnedInv, IInv, TypeOK
<1> SUFFICES ASSUME NEW b \in Attempts, NEW c \in Candidates, HoldsLease(b, c)'
             PROVE  holder'[c] = b
  BY DEF SoleOwner
<1>2. CASE b = a
  BY <1>1, <1>2 DEF HoldsLease, Running
<1>3. CASE b # a
  <2>1. HoldsLease(b, c)
    BY <1>1, <1>3 DEF HoldsLease, Running, Current
  <2>2. holder[c] = b /\ b # None
    BY <2>1, CandidateHealthAssumption DEF OwnedInv, SoleOwner
  <2> QED
    BY <2>2
<1> QED
  BY <1>2, <1>3

(* A report keeps sole ownership: it ends a lease only as its owner, and   *)
(* then nobody else owns that one.                                         *)
LEMMA ReportKeepsSole ==
  ASSUME OwnedInv, NEW a \in Attempts, NEW g \in Health,
         Report(a, g), Settles(health[attempt[a].cand], g, attempt[a].probe)
  PROVE  SoleOwner'
<1> DEFINE d == attempt[a].cand
<1>1. /\ IInv /\ TypeOK /\ Running(a)
      /\ generation' = generation /\ config' = config
      /\ attempt' = [attempt EXCEPT ![a] = Idle]
  BY DEF OwnedInv, IInv, Report
<1>2. d \in Candidates /\ attempt[a].probe \in BOOLEAN
  BY <1>1, RunningTypes
<1>3. /\ attempt'[a] = Idle /\ Idle.phase # "running"
      /\ \A b \in Attempts : b # a => attempt'[b] = attempt[b]
  BY <1>1 DEF TypeOK, Idle
<1>4. \A c \in Candidates :
        /\ health'[c] = IF Current(attempt[a]) /\ c = d THEN g ELSE health[c]
        /\ holder'[c] = IF health'[c].probeInFlight THEN holder[c] ELSE None
  BY <1>1, <1>2 DEF Report, HolderAfter, TypeOK
<1> SUFFICES ASSUME NEW b \in Attempts, NEW c \in Candidates, HoldsLease(b, c)'
             PROVE  holder'[c] = b
  BY DEF SoleOwner
<1>5. b # a
  BY <1>3 DEF HoldsLease, Running
<1>6. HoldsLease(b, c)
  BY <1>1, <1>3, <1>5 DEF HoldsLease, Running, Current
<1>7. holder[c] = b /\ health[c].probeInFlight
  BY <1>1, <1>6, HolderOwns, CandidateHealthAssumption DEF OwnedInv, SoleOwner
<1>8. health'[c].probeInFlight
  <2> SUFFICES ASSUME Current(attempt[a]), c = d PROVE g.probeInFlight
    BY <1>4, <1>7
  <2>1. ~attempt[a].probe
    BY <1>1, <1>5, <1>7 DEF OwnedInv, SoleOwner, HoldsLease
  <2> QED
    BY <1>7, <2>1 DEF Settles
<1> QED
  BY <1>4, <1>7, <1>8

(* An edit that restores nothing keeps sole ownership: an attempt that     *)
(* owns a lease afterwards owned it before, and its candidate's record was *)
(* left alone.                                                             *)
LEMMA SavePolicyKeepsSole ==
  ASSUME RestoreWhileInFlight = FALSE, OwnedInv, NEW new \in Policy, SavePolicy(new)
  PROVE  SoleOwner'
<1>1. /\ IInv /\ TypeOK /\ ~Restores(new)
      /\ generation' = generation /\ attempt' = attempt /\ config' = new
  BY DEF OwnedInv, IInv, SavePolicy
<1> SUFFICES ASSUME NEW a \in Attempts, NEW c \in Candidates, HoldsLease(a, c)'
             PROVE  holder'[c] = a
  BY DEF SoleOwner
<1>2. /\ Running(a) /\ attempt[a].cand = c /\ attempt[a].probe
      /\ attempt[a].gen \in {0, generation} /\ attempt[a].cfg = new[c]
  BY <1>1 DEF HoldsLease, Running, Current
<1>3. attempt[a].gen = generation /\ new[c] \in Configs
  BY <1>1, <1>2, RunningTypes
<1>4. new[c] = config[c] /\ new[c] # Absent
  BY <1>1, <1>2, <1>3, CandidateHealthAssumption DEF Restores
<1>5. HoldsLease(a, c)
  BY <1>2, <1>3, <1>4 DEF HoldsLease, Current
<1>6. holder[c] = a /\ health[c].probeInFlight
  BY <1>1, <1>5, HolderOwns, CandidateHealthAssumption DEF OwnedInv, SoleOwner
<1>7. health'[c] = health[c]
  BY <1>1, <1>4 DEF SavePolicy, Prune, ResetChanged
<1>8. holder' = HolderAfter(health')
  BY DEF SavePolicy
<1> QED
  BY <1>6, <1>7, <1>8 DEF HolderAfter

(* Every step keeps sole ownership while no edit restores a configuration. *)
LEMMA NextOwnedInv ==
  RestoreWhileInFlight = FALSE => (OwnedInv /\ [Next]_vars => OwnedInv')
<1> SUFFICES ASSUME RestoreWhileInFlight = FALSE, OwnedInv, [Next]_vars PROVE OwnedInv'
  OBVIOUS
<1>1. IInv /\ TypeOK /\ CircuitShape
  BY DEF OwnedInv, IInv
<1>2. IInv'
  BY <1>1, NextIInv
<1>3. Idle.phase = "idle"
  BY DEF Idle
<1>4. ASSUME NEW a \in Attempts, NEW c \in Candidates, Plan(a, c) PROVE SoleOwner'
  <2> DEFINE t == [phase |-> "planned", cand |-> c, cfg |-> config[c], gen |-> 0,
                   probe |-> FALSE]
  <2>1. ~Running(a)
    BY <1>3, <1>4 DEF Plan, Running
  <2>2. t \in Attempt /\ t.phase # "running"
    BY <1>4 DEF Plan, Attempt
  <2>3. attempt' = [attempt EXCEPT ![a] = t]
    BY <1>4 DEF Plan
  <2> HIDE DEF t
  <2> QED
    BY <1>4, <2>1, <2>2, <2>3, StartKeepsSole DEF Plan, ghosts
<1>5. ASSUME NEW a \in Attempts, Abandon(a) \/ Skip(a) PROVE SoleOwner'
  <2>1. /\ Planned(a) /\ attempt' = [attempt EXCEPT ![a] = Idle]
        /\ UNCHANGED <<generation, config, health, ghosts>>
    BY <1>5 DEF Abandon, Skip
  <2>2. ~Running(a)
    BY <1>1, <2>1, PlannedTypes
  <2> QED
    BY <1>3, <2>1, <2>2, StartKeepsSole DEF ghosts
<1>6. ASSUME NEW a \in Attempts, AcquireNormal(a) PROVE SoleOwner'
  <2>1. Planned(a) /\ ~Running(a) /\ attempt[a].probe = FALSE
    BY <1>1, <1>6, PlannedTypes DEF AcquireNormal
  <2> DEFINE t == [attempt[a] EXCEPT !.phase = "running", !.gen = generation]
  <2>2. attempt[a] \in [phase : {"planned"}, cand : Candidates, cfg : Configs,
                        gen : {0}, probe : {FALSE}]
    BY <1>1, <2>1, PlannedTypes DEF Attempt
  <2>3. t \in Attempt /\ t.probe = FALSE
    BY <1>1, <2>2 DEF Attempt, TypeOK
  <2>4. attempt' = [attempt EXCEPT ![a] = t]
    BY <1>1, <1>6 DEF AcquireNormal, TypeOK
  <2> HIDE DEF t
  <2> QED
    BY <1>6, <2>1, <2>3, <2>4, StartKeepsSole DEF AcquireNormal, ghosts
<1>7. ASSUME NEW a \in Attempts, AcquireProbe(a) PROVE SoleOwner'
  <2> DEFINE c == attempt[a].cand
  <2>1. /\ Planned(a) /\ ~Running(a) /\ c \in Candidates
        /\ UNCHANGED <<generation, config>>
        /\ holder' = [holder EXCEPT ![c] = a]
        /\ ~health[c].probeInFlight
    BY <1>1, <1>7, PlannedTypes DEF AcquireProbe, Selectable
  <2>2. PICK t \in Attempt :
          /\ attempt' = [attempt EXCEPT ![a] = t]
          /\ t.phase = "running" /\ t.cand = c
    BY <1>1, <1>7, StartedTypes DEF AcquireProbe
  <2>3. holder[c] = None
    BY <1>1, <2>1, HolderOwns
  <2> HIDE DEF c
  <2>4. /\ holder'[c] = a
        /\ \A d \in Candidates : holder[d] # None => holder'[d] = holder[d]
    BY <1>1, <2>1, <2>3 DEF TypeOK
  <2> QED
    BY <2>1, <2>2, <2>4, StartKeepsSole
<1>8. ASSUME NEW a \in Attempts, Finish(a) PROVE SoleOwner'
  <2>1. PICK g \in Health :
          /\ Report(a, g)
          /\ Shaped(g)
          /\ Settles(health[attempt[a].cand], g, attempt[a].probe)
    BY <1>1, <1>8, FinishReports
  <2> QED
    BY <2>1, ReportKeepsSole
<1>9. ASSUME DeletePolicy PROVE SoleOwner'
  <2> SUFFICES ASSUME NEW a \in Attempts, NEW c \in Candidates, HoldsLease(a, c)'
               PROVE  FALSE
    BY DEF SoleOwner
  <2>1. Running(a) /\ attempt[a].cand = c /\ attempt[a].cfg = Absent
    BY <1>9 DEF DeletePolicy, HoldsLease, Running, Current
  <2> QED
    BY <1>1, <2>1, RunningTypes, CandidateHealthAssumption
<1>10. ASSUME NEW new \in Policy, Reconfigure(new) PROVE SoleOwner'
  <2> SUFFICES ASSUME NEW a \in Attempts, NEW c \in Candidates, HoldsLease(a, c)'
               PROVE  FALSE
    BY DEF SoleOwner
  <2>1. Running(a) /\ attempt[a].gen \in {0, generation + 1}
    BY <1>10 DEF Reconfigure, HoldsLease, Running, Current
  <2>2. attempt[a].gen \in 1 .. MaxGeneration /\ attempt[a].gen <= generation
    BY <1>1, <2>1, RunningTypes DEF IInv, Stamped
  <2> QED
    BY <1>1, <2>1, <2>2 DEF TypeOK
<1>11. ASSUME Tick \/ UNCHANGED vars PROVE SoleOwner'
  <2>1. UNCHANGED <<generation, config, attempt, holder>>
    BY <1>11 DEF Tick, vars, ghosts
  <2> QED
    BY <2>1 DEF OwnedInv, SoleOwner, HoldsLease, Running, Current
<1>12. SoleOwner'
  BY <1>4, <1>5, <1>6, <1>7, <1>8, <1>9, <1>10, <1>11, SavePolicyKeepsSole
     DEF Next, Acquire, Edit
<1> QED
  BY <1>2, <1>12 DEF OwnedInv

LEMMA OwnedInvHolds ==
  ASSUME RestoreWhileInFlight = FALSE PROVE Spec => []OwnedInv
<1>1. Init => OwnedInv
  <2> SUFFICES ASSUME Init PROVE SoleOwner
    BY InitIInv DEF OwnedInv
  <2> QED
    BY DEF Init, SoleOwner, HoldsLease, Running, Idle
<1>2. OwnedInv /\ [Next]_vars => OwnedInv'
  BY NextOwnedInv
<1> QED
  BY <1>1, <1>2, PTL DEF Spec

(* An attempt that owns a lease is its holder, and the lease is out. *)
LEMMA OwnerHolds ==
  ASSUME OwnedInv, NEW a \in Attempts, NEW c \in Candidates, HoldsLease(a, c)
  PROVE  /\ holder[c] = a /\ a # None
         /\ health[c].probeInFlight
         /\ attempt[a] # Idle
<1>1. holder[c] = a /\ a # None
  BY CandidateHealthAssumption DEF OwnedInv, SoleOwner
<1>2. attempt[a] # Idle
  BY DEF HoldsLease, Running, Idle
<1> QED
  BY <1>1, <1>2, HolderOwns DEF OwnedInv

(* A lease ends only in the step in which an owner of it reports.          *)
LEMMA LeaseEndStep ==
  ASSUME IInv, [Next]_vars, NEW c \in Candidates,
         health[c].probeInFlight, ~health'[c].probeInFlight,
         config'[c] = config[c], generation' = generation
  PROVE  \E a \in Attempts : HoldsLease(a, c) /\ attempt'[a] = Idle
<1>1. TypeOK /\ CircuitShape /\ health[c] \in Health
  BY DEF IInv, TypeOK
<1>2. ~Closed(health[c])
  BY <1>1 DEF CircuitShape, ClosedHealth, Closed
<1>3. attempt' # attempt
  <2>1. Elapsed(health[c]).probeInFlight = health[c].probeInFlight
    BY <1>1 DEF Elapsed, Health
  <2> QED
    BY <1>2, <2>1, QuietStep
<1>4. ASSUME NEW d \in Candidates, ~Closed(health[d]),
             health' = [health EXCEPT ![d] = AfterAcquire(@)]
      PROVE  FALSE
  <2>1. health[d] \in Health
    BY <1>1 DEF TypeOK
  <2>2. AfterAcquire(health[d]).probeInFlight
    BY <1>4, <2>1 DEF AfterAcquire, Health
  <2> QED
    BY <1>1, <1>4, <2>2 DEF TypeOK
<1>5. PICK a \in Attempts, g \in Health :
        /\ Running(a) /\ Current(attempt[a])
        /\ attempt[a].cand \in Candidates
        /\ Settles(health[attempt[a].cand], g, attempt[a].probe)
        /\ health' = [health EXCEPT ![attempt[a].cand] = g]
        /\ attempt'[a] = Idle
  BY <1>3, <1>4, StepEffects
<1>6. attempt[a].cand = c /\ health'[c] = g
  BY <1>1, <1>5 DEF TypeOK
<1>7. attempt[a].probe
  BY <1>1, <1>5, <1>6, RunningTypes DEF Settles
<1> QED
  BY <1>5, <1>6, <1>7 DEF HoldsLease

(* Whatever edits do, a probe lease ends only with an edit, a reload or    *)
(* the report of an attempt that took a lease of that candidate and speaks *)
(* for its configuration: a normal attempt and a late one never end it     *)
(* (releaseCandidateHealthLeaseV4 and the record functions).               *)
THEOREM LeaseEndsByOwner ==
  Spec => [][\A c \in Candidates :
               /\ health[c].probeInFlight
               /\ ~health'[c].probeInFlight
               /\ config'[c] = config[c]
               /\ generation' = generation
               => \E a \in Attempts : HoldsLease(a, c) /\ attempt'[a] = Idle]_vars
<1>1. IInv /\ [Next]_vars =>
        [\A c \in Candidates :
           /\ health[c].probeInFlight
           /\ ~health'[c].probeInFlight
           /\ config'[c] = config[c]
           /\ generation' = generation
           => \E a \in Attempts : HoldsLease(a, c) /\ attempt'[a] = Idle]_vars
  BY LeaseEndStep
<1> QED
  BY <1>1, IInvHolds, PTL DEF Spec

(* As long as no edit restores a configuration under which an attempt      *)
(* still runs, a probe lease ends only with the attempt that took it, an   *)
(* edit or a reload: no other request gives it back, wins or loses it      *)
(* (releaseCandidateHealthLeaseV4 and the record functions compare the     *)
(* lease with the attempt's own).                                          *)
THEOREM LeaseReturnedByHolder ==
  ASSUME RestoreWhileInFlight = FALSE
  PROVE  Spec => OnlyHolderReturnsLease
<1>1. OwnedInv /\ [Next]_vars =>
        [\A c \in Candidates :
           /\ health[c].probeInFlight
           /\ ~health'[c].probeInFlight
           /\ config'[c] = config[c]
           /\ generation' = generation
           => holder[c] # None /\ attempt[holder[c]] # Idle
              /\ attempt'[holder[c]] = Idle]_vars
  <2> SUFFICES ASSUME OwnedInv, [Next]_vars, NEW c \in Candidates,
                      health[c].probeInFlight, ~health'[c].probeInFlight,
                      config'[c] = config[c], generation' = generation
               PROVE  holder[c] # None /\ attempt[holder[c]] # Idle
                      /\ attempt'[holder[c]] = Idle
    OBVIOUS
  <2> QED
    BY LeaseEndStep, OwnerHolds DEF OwnedInv
<1> QED
  BY <1>1, OwnedInvHolds, PTL DEF Spec, OnlyHolderReturnsLease

(* An edit or a reload leaves the record of a candidate or forgets it, and *)
(* the holder with it.                                                     *)
LEMMA EditForgets ==
  ASSUME Edit
  PROVE  /\ health' \in [Candidates -> {ClosedHealth} \cup {health[c] : c \in Candidates}]
         /\ \A c \in Candidates : health'[c] \in {health[c], ClosedHealth}
         /\ holder' = HolderAfter(health')
         /\ attempt' = attempt
<1>1. CASE DeletePolicy
  BY <1>1 DEF DeletePolicy, Prune
<1>2. ASSUME NEW new \in Policy, SavePolicy(new) \/ Reconfigure(new)
      PROVE  /\ health' \in [Candidates -> {ClosedHealth} \cup {health[c] : c \in Candidates}]
             /\ \A c \in Candidates : health'[c] \in {health[c], ClosedHealth}
             /\ holder' = HolderAfter(health')
             /\ attempt' = attempt
  BY <1>2 DEF SavePolicy, Reconfigure, Prune, ResetChanged
<1> QED
  BY <1>1, <1>2 DEF Edit

(* Only the report of the lease's owner escalates a backoff.               *)
LEMMA BackoffStep ==
  ASSUME OwnedInv, [Next]_vars, NEW c \in Candidates,
         health'[c].level > health[c].level
  PROVE  /\ health'[c].level = health[c].level + 1
         /\ health[c].probeInFlight
         /\ \E a \in Attempts : HoldsLease(a, c) /\ attempt'[a] = Idle
<1>1. /\ IInv /\ TypeOK /\ health[c] \in Health /\ health[c].level \in Nat
  BY CooldownAssumption DEF OwnedInv, IInv, TypeOK, Health
<1>2. attempt' # attempt
  <2> SUFFICES ASSUME attempt' = attempt PROVE FALSE
    OBVIOUS
  <2>1. ClosedHealth.level = 0 /\ Elapsed(health[c]).level = health[c].level
    BY <1>1 DEF ClosedHealth, Elapsed, Health
  <2>2. health'[c] \in {health[c], ClosedHealth, Elapsed(health[c])}
    BY <1>1, UnattendedStep, EditForgets DEF Tick, vars
  <2> QED
    BY <1>1, <2>1, <2>2
<1>3. health' # health
  BY <1>1
<1>4. ASSUME NEW d \in Candidates, health' = [health EXCEPT ![d] = AfterAcquire(@)]
      PROVE  FALSE
  <2>1. health[d] \in Health
    BY <1>1 DEF TypeOK
  <2>2. AfterAcquire(health[d]).level = health[d].level
    BY <2>1 DEF AfterAcquire, Health
  <2>3. health'[c].level = health[c].level
    BY <1>1, <1>4, <2>2 DEF TypeOK
  <2> QED
    BY <1>1, <2>3
<1>5. PICK a \in Attempts, g \in Health :
        /\ Running(a) /\ Current(attempt[a])
        /\ attempt[a].cand \in Candidates
        /\ Settles(health[attempt[a].cand], g, attempt[a].probe)
        /\ health' = [health EXCEPT ![attempt[a].cand] = g]
        /\ attempt'[a] = Idle
  BY <1>1, <1>2, <1>3, <1>4, StepEffects
<1>6. attempt[a].cand = c /\ health'[c] = g
  BY <1>1, <1>5 DEF TypeOK
<1>7. attempt[a].probe /\ health'[c].level = health[c].level + 1
  BY <1>5, <1>6 DEF Settles
<1>8. HoldsLease(a, c)
  BY <1>5, <1>6, <1>7 DEF HoldsLease
<1> QED
  BY <1>5, <1>7, <1>8, OwnerHolds

(* Under the same condition the backoff level rises by one, and only when  *)
(* the probe in flight fails (recordCandidateFailureV4): however many      *)
(* attempts fail during one outage, the outage counts once per probe.      *)
THEOREM BackoffByProbeOnly ==
  ASSUME RestoreWhileInFlight = FALSE
  PROVE  Spec => BackoffOnlyByProbe
<1>1. OwnedInv /\ [Next]_vars =>
        [\A c \in Candidates :
           health'[c].level > health[c].level =>
             /\ health'[c].level = health[c].level + 1
             /\ health[c].probeInFlight
             /\ \E a \in Attempts : HoldsLease(a, c) /\ attempt'[a] = Idle]_vars
  BY BackoffStep
<1> QED
  BY <1>1, OwnedInvHolds, PTL DEF Spec, BackoffOnlyByProbe

----------------------------------------------------------------------------
(* The refinement of CircuitBreaker.  The circuits are the states of the   *)
(* records, the attempts in progress those that run, the holder is the     *)
(* history variable.                                                       *)
Circuits == [c \in Candidates |-> health[c].state]

InProgress == {a \in Attempts : Running(a)}

(* Only the phase and the record of one attempt changes in its steps.      *)
LEMMA InProgressAfter ==
  ASSUME TypeOK, NEW a \in Attempts, NEW t, attempt' = [attempt EXCEPT ![a] = t]
  PROVE  InProgress' = IF t.phase = "running" THEN InProgress \cup {a} ELSE InProgress \ {a}
<1>1. /\ attempt'[a] = t
      /\ \A b \in Attempts : b # a => attempt'[b] = attempt[b]
  BY DEF TypeOK
<1> QED
  BY <1>1 DEF InProgress, Running

(* Planning an attempt and giving it up are no steps of the breaker.       *)
LEMMA PlanningStutters ==
  ASSUME TypeOK, NEW a \in Attempts,
         (\E c \in Candidates : Plan(a, c)) \/ Abandon(a) \/ Skip(a)
  PROVE  UNCHANGED <<Circuits, holder, InProgress>>
<1>1. ~Running(a)
  <2>1. CASE \E c \in Candidates : Plan(a, c)
    BY <2>1 DEF Plan, Running, Idle
  <2>2. CASE Planned(a)
    BY <2>2, PlannedTypes
  <2> QED
    BY <2>1, <2>2 DEF Abandon, Skip
<1>2. \E t : attempt' = [attempt EXCEPT ![a] = t] /\ t.phase # "running"
  BY DEF Plan, Abandon, Skip, Idle
<1>3. InProgress' = InProgress
  BY <1>1, <1>2, InProgressAfter DEF InProgress
<1>4. UNCHANGED <<health, holder>>
  BY DEF Plan, Abandon, Skip, ghosts
<1> QED
  BY <1>3, <1>4 DEF Circuits

(* A normal attempt starts. *)
LEMMA AcquireNormalStarts ==
  ASSUME TypeOK, NEW a \in Attempts, AcquireNormal(a)
  PROVE  Breaker!BreakerNext
<1> DEFINE t == [attempt[a] EXCEPT !.phase = "running", !.gen = generation]
<1>1. a \notin InProgress /\ attempt[a] \in Attempt
  BY PlannedTypes DEF AcquireNormal, InProgress
<1>2. attempt' = [attempt EXCEPT ![a] = t] /\ t.phase = "running"
  BY <1>1 DEF AcquireNormal, TypeOK, Attempt
<1> HIDE DEF t
<1>3. InProgress' = InProgress \cup {a}
  BY <1>2, InProgressAfter
<1>4. Circuits' = Circuits /\ holder' = holder
  BY DEF AcquireNormal, Circuits, ghosts
<1>5. Breaker!Start(a)
  BY <1>1, <1>3, <1>4 DEF Breaker!Start, Circuits, InProgress
<1> QED
  BY <1>5 DEF Breaker!BreakerNext

(* An attempt starts as the probe of an open circuit. *)
LEMMA AcquireProbeProbes ==
  ASSUME IInv, NEW a \in Attempts, AcquireProbe(a)
  PROVE  Breaker!BreakerNext
<1> PICK c : c = attempt[a].cand
  OBVIOUS
<1>1. /\ TypeOK /\ CircuitShape /\ Planned(a)
      /\ ~Closed(health[c]) /\ ~health[c].probeInFlight
      /\ health' = [health EXCEPT ![c] = AfterAcquire(@)]
      /\ holder' = [holder EXCEPT ![c] = a]
  BY DEF IInv, AcquireProbe, Selectable
<1>2. a \notin InProgress /\ c \in Candidates /\ health[c] \in Health
  BY <1>1, PlannedTypes DEF InProgress
<1>3. PICK t \in Attempt : attempt' = [attempt EXCEPT ![a] = t] /\ t.phase = "running"
  BY <1>1, StartedTypes DEF AcquireProbe
<1>4. InProgress' = InProgress \cup {a}
  BY <1>1, <1>3, InProgressAfter
<1>5. health[c].state = "open"
  BY <1>1, <1>2 DEF CircuitShape, Health, Closed
<1>6. AfterAcquire(health[c]).state = "half-open"
  BY <1>1, <1>2 DEF Health, AfterAcquire
<1>7. Circuits[c] = "open" /\ Circuits' = [Circuits EXCEPT ![c] = "half-open"]
  BY <1>1, <1>2, <1>5, <1>6 DEF Circuits, TypeOK
<1>8. Breaker!Probe(a, c)
  BY <1>1, <1>2, <1>4, <1>7 DEF Breaker!Probe, Circuits, InProgress
<1> QED
  BY <1>2, <1>8 DEF Breaker!BreakerNext

(* An attempt ends: the holder of a lease decides its circuit; any other   *)
(* attempt at most opens a closed one.                                     *)
LEMMA ReportEnds ==
  ASSUME OwnedInv, NEW a \in Attempts, NEW g \in Health, Report(a, g), Shaped(g),
         Settles(health[attempt[a].cand], g, attempt[a].probe)
  PROVE  Breaker!BreakerNext
<1> PICK d, h, p : d = attempt[a].cand /\ h = health[d] /\ p = attempt[a].probe
  OBVIOUS
<1>1. /\ IInv /\ TypeOK /\ Running(a)
      /\ attempt' = [attempt EXCEPT ![a] = Idle]
      /\ health' = IF Current(attempt[a]) THEN [health EXCEPT ![d] = g] ELSE health
      /\ holder' = HolderAfter(health')
  BY DEF OwnedInv, IInv, Report
<1>2. d \in Candidates /\ h \in Health /\ p \in BOOLEAN /\ Shaped(h)
  BY <1>1, RunningTypes, ShapedHealth DEF IInv
<1>3. a \in InProgress /\ InProgress' = InProgress \ {a}
  <2>1. Idle.phase # "running"
    BY DEF Idle
  <2> QED
    BY <1>1, <2>1, InProgressAfter DEF InProgress
<1>4. \A c \in Candidates : holder[c] = a => HoldsLease(a, c) /\ health[c].probeInFlight
  BY <1>1, HolderOwns, CandidateHealthAssumption
<1>5. holder \in [Candidates -> Attempts \cup {None}] /\ health \in [Candidates -> Health]
  BY <1>1 DEF TypeOK
<1>6. \A c \in Candidates : holder[c] # None => health[c].probeInFlight
  BY <1>1 DEF IInv, HolderShape
<1>7. CASE ~Current(attempt[a])
  <2>1. Circuits' = Circuits
    BY <1>1, <1>7 DEF Circuits
  <2>2. holder' = holder
    BY <1>1, <1>5, <1>6, <1>7 DEF HolderAfter
  <2>3. \A c \in Candidates : holder[c] # a
    BY <1>4, <1>7 DEF HoldsLease
  <2>4. Breaker!EndNormal(a)
    BY <1>3, <2>1, <2>2, <2>3 DEF Breaker!EndNormal, Circuits, InProgress
  <2> QED
    BY <2>4 DEF Breaker!BreakerNext
<1>8. CASE Current(attempt[a])
  <2>1. /\ health' = [health EXCEPT ![d] = g]
        /\ health'[d] = g
        /\ \A c \in Candidates : c # d => health'[c] = health[c]
    BY <1>1, <1>2, <1>5, <1>8
  <2>2. Circuits' = [Circuits EXCEPT ![d] = g.state] /\ Circuits[d] = h.state
    BY <1>2, <2>1 DEF Circuits
  <2>3. CASE p
    <3>1. HoldsLease(a, d)
      BY <1>1, <1>8, <2>3 DEF HoldsLease
    <3>2. holder[d] = a
      BY <1>2, <3>1, OwnerHolds
    <3>3. ~g.probeInFlight /\ g.state \in {"closed", "open"}
      BY <2>3 DEF Settles, Shaped, Health
    <3>4. holder' = [holder EXCEPT ![d] = None]
      BY <1>1, <1>5, <1>6, <2>1, <3>3 DEF HolderAfter
    <3>5. Breaker!EndProbe(a, d)
      BY <1>3, <2>2, <3>2, <3>3, <3>4 DEF Breaker!EndProbe, Circuits, InProgress
    <3> QED
      BY <1>2, <3>5 DEF Breaker!BreakerNext
  <2>4. CASE ~p
    <3>1. \A c \in Candidates : holder[c] # a
      BY <1>4, <2>4 DEF HoldsLease
    <3>2. /\ g.probeInFlight <=> h.probeInFlight
          /\ ~Closed(h) => ~Closed(g)
      BY <1>2, <2>4 DEF Settles, Health
    <3>3. g.state = h.state \/ (h.state = "closed" /\ g.state = "open")
      BY <1>2, <3>2 DEF Shaped, Closed, Health, ClosedHealth
    <3>4. holder' = holder
      BY <1>1, <1>5, <1>6, <2>1, <3>2 DEF HolderAfter
    <3>5. \/ Circuits' = Circuits
          \/ Circuits[d] = "closed" /\ Circuits' = [Circuits EXCEPT ![d] = "open"]
      <4>1. CASE g.state = h.state
        BY <2>2, <4>1 DEF Circuits
      <4>2. CASE h.state = "closed" /\ g.state = "open"
        BY <2>2, <4>2
      <4> QED
        BY <3>3, <4>1, <4>2
    <3>6. Breaker!EndNormal(a)
      BY <1>2, <1>3, <3>1, <3>4, <3>5 DEF Breaker!EndNormal, Circuits, InProgress
    <3> QED
      BY <3>6 DEF Breaker!BreakerNext
  <2> QED
    BY <1>2, <2>3, <2>4
<1> QED
  BY <1>7, <1>8

(* An edit or a reload forgets circuits together with their leases.        *)
LEMMA EditRefines ==
  ASSUME IInv, Edit
  PROVE  Breaker!BreakerNext
<1> PICK S \in SUBSET Candidates : S = {c \in Candidates : health'[c] = ClosedHealth}
  OBVIOUS
<1>1. /\ \A c \in Candidates : health'[c] \in {health[c], ClosedHealth}
      /\ holder' = HolderAfter(health')
      /\ attempt' = attempt
  BY EditForgets
<1>2. ClosedHealth.state = "closed" /\ ~ClosedHealth.probeInFlight
  BY DEF ClosedHealth
<1>3. \A c \in Candidates : health'[c].state = IF c \in S THEN "closed" ELSE health[c].state
  BY <1>1, <1>2
<1>4. \A c \in Candidates :
        (IF health'[c].probeInFlight THEN holder[c] ELSE None) =
          (IF c \in S THEN None ELSE holder[c])
  BY <1>1, <1>2 DEF IInv, HolderShape
<1>5. Circuits' = [c \in Candidates |-> IF c \in S THEN "closed" ELSE Circuits[c]]
  BY <1>3 DEF Circuits
<1>6. holder' = [c \in Candidates |-> IF c \in S THEN None ELSE holder[c]]
  BY <1>1, <1>4 DEF HolderAfter
<1>7. InProgress' = InProgress
  BY <1>1 DEF InProgress, Running
<1>8. Breaker!Forget(S)
  BY <1>5, <1>6, <1>7 DEF Breaker!Forget, Circuits, InProgress
<1> QED
  BY <1>8 DEF Breaker!BreakerNext

(* Every step is a step of the breaker or leaves it alone.                 *)
LEMMA BreakerStep ==
  ASSUME OwnedInv, [Next]_vars
  PROVE  Breaker!BreakerNext \/ UNCHANGED <<Circuits, holder, InProgress>>
<1>1. IInv /\ TypeOK /\ CircuitShape
  BY DEF OwnedInv, IInv
<1>2. ASSUME NEW a \in Attempts, Finish(a) PROVE Breaker!BreakerNext
  <2>1. PICK g \in Health :
          /\ Report(a, g)
          /\ Shaped(g)
          /\ Settles(health[attempt[a].cand], g, attempt[a].probe)
    BY <1>1, <1>2, FinishReports
  <2> QED
    BY <2>1, ReportEnds
<1>3. CASE Tick
  <2>1. \A c \in Candidates : Elapsed(health[c]).state = health[c].state
    BY <1>1 DEF Elapsed, TypeOK, Health
  <2>2. UNCHANGED <<attempt, holder>> /\ health' = [c \in Candidates |-> Elapsed(health[c])]
    BY <1>3 DEF Tick, ghosts
  <2> QED
    BY <2>1, <2>2 DEF Circuits, InProgress, Running
<1>4. CASE UNCHANGED vars
  BY <1>4 DEF vars, ghosts, Circuits, InProgress, Running
<1> QED
  BY <1>1, <1>2, <1>3, <1>4, PlanningStutters, AcquireNormalStarts, AcquireProbeProbes,
     EditRefines DEF Next, Acquire

(* Under the same condition the health tracking is a circuit breaker: per  *)
(* candidate one probe lease, whose holder's end, an edit or a reload      *)
(* alone decides a half-open circuit, while any other report at most opens *)
(* a closed one.                                                           *)
THEOREM HealthRefinesBreaker ==
  ASSUME RestoreWhileInFlight = FALSE
  PROVE  Spec => ImplementsCircuitBreaker
<1>1. Init => Breaker!BreakerInit
  BY DEF Init, Breaker!BreakerInit, ClosedHealth, Running, Idle
<1>2. OwnedInv /\ [Next]_vars => [Breaker!BreakerNext]_(Breaker!breakerVars)
  BY BreakerStep DEF Breaker!breakerVars, Circuits, InProgress
<1> QED
  BY <1>1, <1>2, OwnedInvHolds, PTL DEF Spec, ImplementsCircuitBreaker, Breaker!BreakerSpec
=============================================================================
