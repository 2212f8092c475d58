------------------------ MODULE HealthRecord_proofs ------------------------
(***************************************************************************)
(* Lemmas about the record operators of HealthRecord: what every report    *)
(* leaves behind and what it may change, for all cooldowns.                *)
(***************************************************************************)
EXTENDS HealthRecord, TLAPS

(* A cooldown is a natural number, whatever the backoff level. *)
LEMMA CooldownNat ==
  ASSUME NEW class, NEW level, NEW retryAfter \in Nat
  PROVE  Cooldown(class, level, retryAfter) \in Nat
<1>1. BackedOff(class, level) \in Nat
  BY CooldownAssumption DEF BackedOff
<1> QED
  BY <1>1 DEF Cooldown, Later

(* Every report leaves a well-formed record. *)
LEMMA ReportTypes ==
  ASSUME NEW h \in Health, NEW p \in BOOLEAN,
         NEW class \in FailureClass, NEW retryAfter \in Nat
  PROVE  /\ ClosedHealth \in Health
         /\ AfterSuccess(h, p) \in Health
         /\ AfterFailure(h, class, retryAfter, p) \in Health
         /\ AfterRelease(h, p) \in Health
         /\ AfterAcquire(h) \in Health
         /\ Elapsed(h) \in Health
<1>1. ClosedHealth \in Health
  BY CooldownAssumption DEF ClosedHealth, Health
<1>2. \A level : Cooldown(class, level, retryAfter) \in Nat
  BY CooldownNat
<1>3. AfterProbeFailure(h, class, retryAfter) \in Health
  BY <1>2, CooldownAssumption DEF AfterProbeFailure, Health, Later
<1>4. AfterNormalFailure(h, class, retryAfter) \in Health
  BY <1>2 DEF AfterNormalFailure, Health, Later, Closed
<1>5. AfterFailure(h, class, retryAfter, p) \in Health
  BY <1>1, <1>3, <1>4 DEF AfterFailure, AfterOtherFailure, Qualifies
<1>6. AfterSuccess(h, p) \in Health
  BY <1>1 DEF AfterSuccess
<1>7. AfterRelease(h, p) \in Health
  BY DEF AfterRelease, Health
<1>8. AfterAcquire(h) \in Health
  BY DEF AfterAcquire, Health, Closed
<1>9. Elapsed(h) \in Health
  BY DEF Elapsed, Health
<1> QED
  BY <1>1, <1>5, <1>6, <1>7, <1>8, <1>9

(* The shape every record has: half-open means leased, closed means reset. *)
Shaped(h) ==
  /\ h.state = "half-open" <=> h.probeInFlight
  /\ Closed(h) => h = ClosedHealth

(* Every report and the passing of time keep that shape. *)
LEMMA ReportShapes ==
  ASSUME NEW h \in Health, Shaped(h), NEW p \in BOOLEAN,
         NEW class \in FailureClass, NEW retryAfter \in Nat
  PROVE  /\ Shaped(ClosedHealth)
         /\ Shaped(AfterSuccess(h, p))
         /\ Shaped(AfterFailure(h, class, retryAfter, p))
         /\ Shaped(AfterRelease(h, p))
         /\ Shaped(AfterAcquire(h))
         /\ Shaped(Elapsed(h))
<1>1. Shaped(ClosedHealth)
  BY DEF Shaped, ClosedHealth
<1>2. Shaped(AfterProbeFailure(h, class, retryAfter))
  BY DEF AfterProbeFailure, Shaped, Closed
<1>3. Shaped(AfterNormalFailure(h, class, retryAfter))
  BY DEF AfterNormalFailure, Shaped, Closed, Health, ClosedHealth
<1>4. Shaped(AfterFailure(h, class, retryAfter, p))
  BY <1>1, <1>2, <1>3 DEF AfterFailure, AfterOtherFailure, Qualifies
<1>5. Shaped(AfterSuccess(h, p))
  BY <1>1 DEF AfterSuccess
<1>6. Shaped(AfterRelease(h, p))
  BY DEF AfterRelease, Shaped, Closed, Health
<1>7. Shaped(AfterAcquire(h))
  BY DEF AfterAcquire, Shaped, Closed, Health
<1>8. Shaped(Elapsed(h))
  <2>1. CASE h.wait = 0
    <3>1. Elapsed(h) = h
      BY <2>1 DEF Elapsed, Health
    <3> QED
      BY <3>1
  <2>2. CASE h.wait # 0
    <3>1. ~Closed(h)
      BY <2>2 DEF Shaped, ClosedHealth
    <3> QED
      BY <3>1 DEF Elapsed, Shaped, Closed, Health
  <2> QED
    BY <2>1, <2>2
<1> QED
  BY <1>1, <1>4, <1>5, <1>6, <1>7, <1>8

(* What a report may do to a record: it never creates a lease; it ends one *)
(* and closes an open circuit only for an owner of the lease, and an owner *)
(* always ends it; only an owner escalates the backoff, by one level.      *)
Settles(h, g, p) ==
  /\ g.probeInFlight => h.probeInFlight
  /\ p => ~g.probeInFlight
  /\ h.probeInFlight /\ ~p => g.probeInFlight
  /\ ~Closed(h) /\ Closed(g) => p /\ h.probeInFlight
  /\ ~Closed(h) /\ ~Closed(g) => g.wait >= h.wait
  /\ g.level > h.level => p /\ g.level = h.level + 1

(* Every report an attempt can make is of that kind.                       *)
LEMMA ReportSettles ==
  ASSUME NEW h \in Health, Shaped(h), NEW p \in BOOLEAN,
         NEW class \in FailureClass, NEW retryAfter \in Nat
  PROVE  /\ Settles(h, AfterSuccess(h, p), p)
         /\ Settles(h, AfterFailure(h, class, retryAfter, p), p)
         /\ Settles(h, AfterRelease(h, p), p)
<1>1. \A level : Cooldown(class, level, retryAfter) \in Nat
  BY CooldownNat
<1>2. Settles(h, AfterProbeFailure(h, class, retryAfter), TRUE)
  BY <1>1 DEF Settles, AfterProbeFailure, Shaped, Closed, Later, Health, ClosedHealth
<1>3. Settles(h, AfterNormalFailure(h, class, retryAfter), FALSE)
  BY <1>1 DEF Settles, AfterNormalFailure, Shaped, Closed, Later, Health, ClosedHealth
<1>4. Settles(h, AfterOtherFailure(h, p), p)
  BY DEF Settles, AfterOtherFailure, Shaped, Closed, Health, ClosedHealth
<1>5. Settles(h, AfterFailure(h, class, retryAfter, p), p)
  BY <1>2, <1>3, <1>4 DEF AfterFailure, Qualifies
<1>6. Settles(h, AfterSuccess(h, p), p)
  BY DEF Settles, AfterSuccess, Shaped, Closed, Health, ClosedHealth
<1>7. Settles(h, AfterRelease(h, p), p)
  BY DEF Settles, AfterRelease, Shaped, Closed, Health, ClosedHealth
<1> QED
  BY <1>5, <1>6, <1>7
=============================================================================
