---------------------------- MODULE HealthRecord ----------------------------
(***************************************************************************)
(* The circuit record the router keeps for one candidate                   *)
(* (candidateHealthState, v4_health.go) and what each report does to it.   *)
(* The operators are pure: CandidateHealth applies them to shared state,   *)
(* FailoverChain applies them from the request loops.                      *)
(*                                                                         *)
(* Time.  The code stores the absolute deadline NextProbeAt and compares   *)
(* it with time.Now().  Every comparison distinguishes only how far the    *)
(* deadline lies in the future, and treats "no deadline" and "deadline     *)
(* passed" alike, so the record keeps the time left until the deadline,    *)
(* `wait`, which is 0 once it has passed.                                  *)
(*                                                                         *)
(* Left out: ConsecutiveFailures, LastStatus, LastError, LastFailureAt,    *)
(* LastSuccessAt and OpenedAt.  They are shown to operators and never read *)
(* by a decision.                                                          *)
(***************************************************************************)
EXTENDS Integers

CONSTANTS
  InitialCooldown,       \* 30 s: network errors, 408, 409, 5xx
  RateLimitCooldown,     \* 60 s: 429
  UnauthorizedCooldown,  \* 5 min: 401, 403
  MaxCooldown,           \* 5 min: where doubling stops
  MaxLevel               \* 30: where the backoff level stops growing

ASSUME CooldownAssumption ==
  /\ MaxCooldown \in Nat \ {0}
  /\ {InitialCooldown, RateLimitCooldown, UnauthorizedCooldown} \subseteq 1 .. MaxCooldown
  /\ MaxLevel \in Nat

(***************************************************************************)
(* What a failed attempt is filed under: the same split by status and      *)
(* error in candidateFailureCooldownV4 and failureActionV4.                *)
(***************************************************************************)
FailureClass ==
  {"network", "unauthorized", "timeout", "conflict", "rateLimit", "serverError", "other"}

\* A failure that says something about the candidate's health.
Qualifies(class) == class # "other"

\* A failure that may push back the deadline of a circuit that is not closed.
Extends(class) == class \in {"unauthorized", "rateLimit"}

Health ==
  [state : {"closed", "open", "half-open"},
   level : 0 .. MaxLevel,
   wait : Nat,
   probeInFlight : BOOLEAN]

ClosedHealth ==
  [state |-> "closed", level |-> 0, wait |-> 0, probeInFlight |-> FALSE]

Later(x, y) == IF x > y THEN x ELSE y

BaseCooldown(class) ==
  CASE class = "rateLimit" -> RateLimitCooldown
    [] class = "unauthorized" -> UnauthorizedCooldown
    [] OTHER -> InitialCooldown

\* The base cooldown doubled once per backoff level, at most MaxCooldown.
BackedOff(class, level) ==
  LET doubled == BaseCooldown(class) * 2 ^ level
  IN  IF doubled \in 0 .. MaxCooldown THEN doubled ELSE MaxCooldown

\* A longer Retry-After of a 429 wins, even over MaxCooldown.
Cooldown(class, level, retryAfter) ==
  IF class = "rateLimit"
    THEN Later(BackedOff(class, level), retryAfter)
    ELSE BackedOff(class, level)

Closed(h) == h.state = "closed"

\* Faulty variant: the deadline alone decides, a probe in flight is not seen.
Selectable_Shared(h) == Closed(h) \/ h.wait = 0

\* The candidate may be tried, as the lease holder if its circuit is not closed.
Selectable(h) ==
  \/ Closed(h)
  \/ ~h.probeInFlight /\ (h.state = "open" => h.wait = 0)

\* Trying a candidate whose circuit is not closed takes its probe lease.
AfterAcquire(h) ==
  IF Closed(h) THEN h ELSE [h EXCEPT !.state = "half-open", !.probeInFlight = TRUE]

\* Faulty variant: any success closes the circuit, whoever holds the lease.
AfterSuccess_Unowned(h, probe) == ClosedHealth

AfterSuccess(h, probe) ==
  IF Closed(h) \/ (probe /\ h.state = "half-open" /\ h.probeInFlight)
    THEN ClosedHealth
    ELSE h

\* Faulty variant: a failed probe leaves its lease behind.
AfterProbeFailure_KeepsLease(h, class, retryAfter) ==
  LET level == IF h.level < MaxLevel THEN h.level + 1 ELSE h.level
  IN  [h EXCEPT !.state = "open", !.level = level,
                !.wait = Later(h.wait, Cooldown(class, level, retryAfter))]

\* Faulty variant: the new deadline replaces a stronger one.
AfterProbeFailure_Shortens(h, class, retryAfter) ==
  LET level == IF h.level < MaxLevel THEN h.level + 1 ELSE h.level
  IN  [state |-> "open", level |-> level,
       wait |-> Cooldown(class, level, retryAfter),
       probeInFlight |-> FALSE]

\* A qualifying failure of the probe: one backoff level up, lease returned,
\* the deadline only ever pushed back.
AfterProbeFailure(h, class, retryAfter) ==
  LET level == IF h.level < MaxLevel THEN h.level + 1 ELSE h.level
  IN  [state |-> "open", level |-> level,
       wait |-> Later(h.wait, Cooldown(class, level, retryAfter)),
       probeInFlight |-> FALSE]

\* Faulty variant: every failure of an attempt in flight escalates the backoff.
AfterNormalFailure_Escalates(h, class, retryAfter) ==
  LET level == IF h.level < MaxLevel THEN h.level + 1 ELSE h.level
  IN  IF Closed(h)
        THEN [h EXCEPT !.state = "open", !.probeInFlight = FALSE,
                       !.wait = Cooldown(class, h.level, retryAfter)]
        ELSE [h EXCEPT !.level = level]

\* A qualifying failure without the lease: it opens a closed circuit; of one
\* that is not closed it can only push back the deadline.
AfterNormalFailure(h, class, retryAfter) ==
  LET wait == Cooldown(class, h.level, retryAfter)
  IN  CASE Closed(h) ->
             [h EXCEPT !.state = "open", !.probeInFlight = FALSE, !.wait = wait]
        [] ~Closed(h) /\ Extends(class) -> [h EXCEPT !.wait = Later(h.wait, wait)]
        [] OTHER -> h

\* A failure that does not qualify: as the answer to a probe it proves the
\* upstream reachable and closes the circuit.
AfterOtherFailure(h, probe) ==
  IF probe /\ (h.probeInFlight \/ h.state = "half-open") THEN ClosedHealth ELSE h

AfterFailure(h, class, retryAfter, probe) ==
  CASE ~Qualifies(class) -> AfterOtherFailure(h, probe)
    [] Qualifies(class) /\ probe -> AfterProbeFailure(h, class, retryAfter)
    [] Qualifies(class) /\ ~probe -> AfterNormalFailure(h, class, retryAfter)

\* Faulty variant: the release forgets to check that the caller owns a lease.
AfterRelease_Unowned(h, owned) ==
  IF h.probeInFlight THEN [h EXCEPT !.state = "open", !.probeInFlight = FALSE] ELSE h

\* The lease is given back without a verdict on the candidate.
AfterRelease(h, owned) ==
  IF owned /\ h.probeInFlight
    THEN [h EXCEPT !.state = "open", !.probeInFlight = FALSE]
    ELSE h

\* One unit of time passes.
Elapsed(h) == [h EXCEPT !.wait = IF h.wait = 0 THEN 0 ELSE h.wait - 1]
=============================================================================
