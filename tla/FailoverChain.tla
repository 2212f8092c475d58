--------------------------- MODULE FailoverChain ---------------------------
(***************************************************************************)
(* The request loops (runNonStreamPolicyV4, runStreamPolicyV4 and the CPA  *)
(* default variants): several requests, each walking its ranking of the    *)
(* candidates, over the shared circuit health.                             *)
(*                                                                         *)
(* A request works on its own copy of the rule.  It touches shared state   *)
(* only where it acquires a candidate and where it reports a result; those *)
(* are the atomic steps, and the host calls between them (resolving the    *)
(* credential, executing, reading the stream, writing the output) are      *)
(* separate steps in which other requests move.                            *)
(*                                                                         *)
(* The configuration of the candidates does not change here                *)
(* (CandidateHealth), the ticket is reduced to what its execution sees     *)
(* (ExecutionTicket) and the ranking is any of the given orders.            *)
(***************************************************************************)
EXTENDS HealthRecord, Sequences, FiniteSets

CONSTANTS
  Requests,     \* slots for requests in progress
  Candidates,   \* the candidates of the rule
  Priority,     \* their priorities
  Rankings,     \* the orders the strategy may produce
  Failovers,    \* failover policies: action per class, exhausted, maxAttempts
  Affinities,   \* client affinity modes of the policy
  Modes,        \* subset of {"stream", "whole"}
  RetryAfters,  \* Retry-After values of 429 answers
  None          \* no request

CPADefault == "cpa-default"

Action == {"next", "same-priority-first", "next-priority", "stop", CPADefault}

Failover == [action : [FailureClass -> Action], exhausted : {"error", CPADefault},
             maxAttempts : Nat]

ASSUME ChainAssumption ==
  /\ CPADefault \notin Candidates
  /\ None \notin Requests
  /\ Priority \in [Candidates -> Int]
  /\ Rankings \subseteq Seq(Candidates)
  /\ \A order \in Rankings : \A i, j \in 1 .. Len(order) : order[i] = order[j] => i = j
  /\ Failovers \subseteq Failover
  /\ Affinities \subseteq {"off", "unknown"}
  /\ Modes \subseteq {"stream", "whole"}
  /\ RetryAfters \subseteq Nat

VARIABLES
  health,   \* v4Runtime.health
  req,      \* the state of each request's loop
  holder    \* history: the request that took the probe lease in flight

vars == <<health, req, holder>>

(***************************************************************************)
(* A request:                                                              *)
(*   at        where its loop is                                           *)
(*   mode, ranked, failover, affinity   its copy of the rule               *)
(*   left      what chooseHealthyCandidateV4 still has to look at          *)
(*   attempts  event.Attempts: who was tried, the current candidate last   *)
(*   probe     it owns the current candidate's probe lease                 *)
(*   action    the last failure action                                     *)
(*   ticket    its execution ticket                                        *)
(*   lost      history: the host sent the request upstream without the     *)
(*             router's scheduler                                          *)
(*   first     no payload of the current stream was passed on              *)
(*   upstream  a host stream is open                                       *)
(*   sources   history: whose output the client received                   *)
(*   closed    history: how often its output stream was closed             *)
(*   event     the routing event recorded for it                           *)
(***************************************************************************)
Phase == {"idle", "scan", "pin", "call", "read", "cpaCall", "cpaRead", "done",
          "broken", "panicked"}

Elements(s) == {s[i] : i \in DOMAIN s}

\* The request is over: answered, its client gone, or recovered from a panic.
Over == {"idle", "done", "broken", "panicked"}

New(mode, ranked, failover, affinity) ==
  [at |-> "scan", mode |-> mode, ranked |-> ranked, failover |-> failover,
   affinity |-> affinity, left |-> Elements(ranked), attempts |-> <<>>, probe |-> FALSE,
   action |-> "next", ticket |-> "none", lost |-> FALSE, first |-> TRUE,
   upstream |-> FALSE, sources |-> {}, closed |-> 0, event |-> "none"]

Request ==
  [at : Phase, mode : {"stream", "whole"}, ranked : Seq(Candidates), failover : Failover,
   affinity : {"off", "unknown"}, left : SUBSET Candidates,
   attempts : Seq(Candidates \cup {CPADefault}), probe : BOOLEAN, action : Action,
   ticket : {"none", "issued", "claimed"}, lost : BOOLEAN, first : BOOLEAN,
   upstream : BOOLEAN, sources : SUBSET (Candidates \cup {CPADefault}), closed : Nat,
   event : {"none", "success", "failure"}]

\* defaultFailover
DefaultFailover ==
  [action |-> [class \in FailureClass |-> IF class = "other" THEN "stop" ELSE "next"],
   exhausted |-> "error", maxAttempts |-> 0]

Idle == [New("whole", <<>>, DefaultFailover, "off") EXCEPT !.at = "idle"]

Init ==
  /\ health = [c \in Candidates |-> ClosedHealth]
  /\ req = [r \in Requests |-> Idle]
  /\ holder = [c \in Candidates |-> None]

\* The candidate of the attempt in progress.
Current(q) == q.attempts[Len(q.attempts)]

InAttempt(q) == q.at \in {"pin", "call", "read"}

----------------------------------------------------------------------------
(* Local decisions: what a request does next. *)

\* Faulty variant: the candidates already attempted are not left out.
Eligible_Repeat(q, action) ==
  LET p == Priority[Current(q)]
  IN  {c \in Elements(q.ranked) :
         CASE action = "next-priority" -> Priority[c] < p
           [] action = "same-priority-first" -> Priority[c] <= p
           [] OTHER -> TRUE}

\* The candidates left to look at after a failed attempt.
Eligible(q, action) ==
  LET p == Priority[Current(q)]
  IN  {c \in Elements(q.ranked) \ Elements(q.attempts) :
         CASE action = "next-priority" -> Priority[c] < p
           [] action = "same-priority-first" -> Priority[c] <= p
           [] OTHER -> TRUE}

\* c comes before d in the ranking.
Before(q, c, d) ==
  \E i, j \in DOMAIN q.ranked : i < j /\ q.ranked[i] = c /\ q.ranked[j] = d

\* c is looked at before d: same-priority-first makes a pass over the priority
\* of the failed candidate before the pass over the lower ones.
Precedes(q, c, d) ==
  LET firstPass(x) ==
        q.action = "same-priority-first" => Priority[x] = Priority[Current(q)]
  IN  \/ firstPass(c) /\ ~firstPass(d)
      \/ (firstPass(c) <=> firstPass(d)) /\ Before(q, c, d)

\* The scan looks at c next.
LooksAt(q, c) ==
  /\ q.at = "scan"
  /\ c \in q.left
  /\ \A d \in q.left \ {c} : Precedes(q, c, d)

MaxAttempts(q) ==
  CASE q.failover.maxAttempts > 0 -> q.failover.maxAttempts
    [] q.failover.maxAttempts = 0 /\ q.mode = "whole" -> Len(q.ranked) + 1
    [] OTHER -> Len(q.ranked)

\* Faulty variant: the host stream stays open.
Ended_LeavesStream(q, event) ==
  [q EXCEPT !.at = "done", !.event = event, !.left = {},
            !.closed = IF q.mode = "stream" THEN @ + 1 ELSE @]

\* The request ends with one routing event and a closed output.
Ended(q, event) ==
  [q EXCEPT !.at = "done", !.event = event, !.upstream = FALSE, !.left = {},
            !.closed = IF q.mode = "stream" THEN @ + 1 ELSE @]

\* One more execution, unpinned, under CPA's own routing.
ToDefault(q) ==
  [q EXCEPT !.at = "cpaCall", !.attempts = Append(@, CPADefault), !.left = {}]

Exhausted(q) ==
  IF q.failover.exhausted = CPADefault THEN ToDefault(q) ELSE Ended(q, "failure")

\* Faulty variant: the failed candidate is tried again without being counted.
Proceed_Again(q, action) ==
  LET settled == [q EXCEPT !.action = action, !.probe = FALSE, !.ticket = "none",
                           !.upstream = FALSE]
  IN  CASE action = CPADefault -> ToDefault(settled)
        [] \/ action = "stop"
           \/ action # CPADefault /\ Len(q.attempts) >= MaxAttempts(q) ->
             Exhausted(settled)
        [] OTHER -> [settled EXCEPT !.at = "pin"]

\* After a failed attempt.
Proceed(q, action) ==
  LET settled == [q EXCEPT !.action = action, !.probe = FALSE, !.ticket = "none",
                           !.upstream = FALSE]
  IN  CASE action = CPADefault -> ToDefault(settled)
        [] \/ action = "stop"
           \/ action # CPADefault /\ Len(q.attempts) >= MaxAttempts(q) ->
             Exhausted(settled)
        [] OTHER -> [settled EXCEPT !.at = "scan", !.left = Eligible(q, action)]

\* Faulty variant: after losing the ownership the policy's Exhausted still holds.
Stopped_Default(q) == Proceed(q, "stop")

\* Losing the scheduler's ownership ends the request: Exhausted is overruled.
Stopped(q) == Proceed([q EXCEPT !.failover.exhausted = "error"], "stop")

----------------------------------------------------------------------------
(* Steps of a request. *)

Start(r, mode, order, failover, affinity) ==
  /\ req[r].at \in Over
  /\ req' = [req EXCEPT ![r] =
       New(mode, IF affinity = "unknown" THEN <<>> ELSE order, failover, affinity)]
  /\ UNCHANGED <<health, holder>>

\* The candidate can be tried: it becomes the attempt.
Take(r, c) ==
  LET q == req[r]
  IN  /\ LooksAt(q, c)
      /\ Selectable(health[c])
      /\ health' = [health EXCEPT ![c] = AfterAcquire(@)]
      /\ holder' = [holder EXCEPT ![c] = IF Closed(health[c]) THEN @ ELSE r]
      /\ req' = [req EXCEPT ![r] =
           [q EXCEPT !.at = "pin", !.attempts = Append(@, c), !.left = {},
                     !.probe = ~Closed(health[c]), !.first = TRUE]]

\* Its circuit keeps the request away.
Pass(r, c) ==
  /\ LooksAt(req[r], c)
  /\ ~Selectable(health[c])
  /\ req' = [req EXCEPT ![r].left = @ \ {c}]
  /\ UNCHANGED <<health, holder>>

GiveUp(r) ==
  /\ req[r].at = "scan" /\ req[r].left = {}
  /\ req' = [req EXCEPT ![r] = Exhausted(req[r])]
  /\ UNCHANGED <<health, holder>>

\* The attempt's result is recorded as h; the request goes on as q.
Report(r, h, q) ==
  /\ health' = [health EXCEPT ![Current(req[r])] = h]
  /\ holder' = [c \in Candidates |-> IF health'[c].probeInFlight THEN holder[c] ELSE None]
  /\ req' = [req EXCEPT ![r] = q]

Failure(q, class, retryAfter) ==
  AfterFailure(health[Current(q)], class, retryAfter, q.probe)

\* An upstream failure: filed against the candidate, answered by its action.
Fail(r, class, retryAfter) ==
  Report(r, Failure(req[r], class, retryAfter), Proceed(req[r], req[r].failover.action[class]))

\* Faulty variant: a routing failure is filed against the candidate.
Miss_Blamed(r, class) == Fail(r, class, 0)

\* The credential was not selected: no verdict.  The action depends on the
\* status found in the error's text, which may be any.
Miss(r, class) ==
  Report(r, AfterRelease(health[Current(req[r])], req[r].probe),
         Proceed(req[r], req[r].failover.action[class]))

LoseOwnership(r) ==
  Report(r, AfterRelease(health[Current(req[r])], req[r].probe), Stopped(req[r]))

ResolveFails(r) ==
  /\ req[r].at = "pin"
  /\ \E class \in FailureClass : Miss(r, class)

IssueFails(r) ==
  /\ req[r].at = "pin"
  /\ LoseOwnership(r)

Issue(r) ==
  /\ req[r].at = "pin"
  /\ req' = [req EXCEPT ![r].at = "call", ![r].ticket = "issued"]
  /\ UNCHANGED <<health, holder>>

----------------------------------------------------------------------------
(* The host executes.  It selects credentials through one scheduler for    *)
(* the whole execution: the router's, which claims the ticket, or another. *)

Pick(r) ==
  /\ req[r].at = "call" /\ req[r].ticket = "issued" /\ ~req[r].lost
  /\ req' = [req EXCEPT ![r].ticket = "claimed"]
  /\ UNCHANGED <<health, holder>>

PickedElsewhere(r) ==
  /\ req[r].at = "call" /\ req[r].ticket = "issued" /\ ~req[r].lost
  /\ req' = [req EXCEPT ![r].lost = TRUE]
  /\ UNCHANGED <<health, holder>>

\* The exact credential is rejected before any scheduler is asked.
ReturnRejected(r) ==
  /\ req[r].at = "call" /\ req[r].ticket = "issued" /\ ~req[r].lost
  /\ \E class \in FailureClass : Fail(r, class, 0)

\* Anything else that comes back without a claim, a success included.
ReturnUnclaimed(r) ==
  /\ req[r].at = "call" /\ req[r].ticket = "issued"
  /\ LoseOwnership(r)

\* The scheduler refused: the credential is not eligible, or a second
\* selection was asked for within the execution.
ReturnRefused(r) ==
  /\ req[r].at = "call" /\ req[r].ticket = "claimed"
  /\ \E class \in FailureClass : Miss(r, class)

\* An error, a status outside 2xx and 3xx, or an answer that cannot be used.
ReturnFailure(r) ==
  /\ req[r].at = "call" /\ req[r].ticket = "claimed"
  /\ \E class \in FailureClass, retryAfter \in RetryAfters : Fail(r, class, retryAfter)

Success(q) == AfterSuccess(health[Current(q)], q.probe)

ReturnSuccess(r) ==
  LET q == req[r]
  IN  /\ q.at = "call" /\ q.ticket = "claimed" /\ q.mode = "whole"
      /\ Report(r, Success(q),
           Ended([q EXCEPT !.probe = FALSE, !.ticket = "none",
                           !.sources = {Current(q)}], "success"))

ReturnStream(r) ==
  /\ req[r].at = "call" /\ req[r].ticket = "claimed" /\ req[r].mode = "stream"
  /\ req' = [req EXCEPT ![r].at = "read", ![r].ticket = "none", ![r].upstream = TRUE]
  /\ UNCHANGED <<health, holder>>

----------------------------------------------------------------------------
(* The loop that passes the host stream on. *)

\* Faulty variant: failover stays possible after the first payload.
Forward_StillFirst(r) ==
  /\ req[r].at = "read"
  /\ req' = [req EXCEPT ![r].sources = @ \cup {Current(req[r])}]
  /\ UNCHANGED <<health, holder>>

\* A payload is written to the output.
Forward(r) ==
  /\ req[r].at = "read"
  /\ req' = [req EXCEPT ![r].first = FALSE,
                        ![r].sources = @ \cup {Current(req[r])}]
  /\ UNCHANGED <<health, holder>>

\* A payload cannot be written: the client is gone, no verdict, no event.
EmitFails(r) ==
  LET q == req[r]
  IN  /\ q.at = "read"
      /\ Report(r, AfterRelease(health[Current(q)], q.probe),
           [q EXCEPT !.at = "broken", !.probe = FALSE, !.upstream = FALSE,
                     !.closed = @ + 1])

\* The read fails before the first payload: like a failure of the call.
ReadFailsFirst(r) ==
  /\ req[r].at = "read" /\ req[r].first
  /\ \E class \in FailureClass : Fail(r, class, 0) \/ Miss(r, class)

\* Afterwards the answer stays with its source: the request fails.
ReadFails(r) ==
  LET q == req[r]
      ended == Ended([q EXCEPT !.probe = FALSE], "failure")
  IN  /\ q.at = "read" /\ ~q.first
      /\ \/ \E class \in FailureClass : Report(r, Failure(q, class, 0), ended)
         \/ Report(r, AfterRelease(health[Current(q)], q.probe), ended)

ReadDone(r) ==
  LET q == req[r]
  IN  /\ q.at = "read"
      /\ Report(r, Success(q), Ended([q EXCEPT !.probe = FALSE], "success"))

\* Faulty variant: the recovery only closes the output.
Panic_KeepsLease(r) ==
  /\ req[r].mode = "stream"
  /\ InAttempt(req[r])
  /\ req' = [req EXCEPT ![r] = [@ EXCEPT !.at = "panicked", !.closed = @ + 1]]
  /\ UNCHANGED <<health, holder>>

\* The stream loop recovers from a panic: it gives its lease back and closes
\* the output; the host stream and an unconsumed ticket stay behind.
Panic(r) ==
  LET q == req[r]
      over == [q EXCEPT !.at = "panicked", !.probe = FALSE, !.closed = @ + 1,
                        !.left = {}]
  IN  /\ q.mode = "stream"
      /\ \/ /\ InAttempt(q)
            /\ Report(r, AfterRelease(health[Current(q)], q.probe), over)
         \/ /\ q.at \in {"scan", "cpaCall", "cpaRead"}
            /\ req' = [req EXCEPT ![r] = over]
            /\ UNCHANGED <<health, holder>>

----------------------------------------------------------------------------
(* The execution under CPA's own routing. *)

DefaultFails(r) ==
  /\ req[r].at = "cpaCall"
  /\ req' = [req EXCEPT ![r] = Ended(@, "failure")]
  /\ UNCHANGED <<health, holder>>

\* A whole answer counts as a success by its status, and is passed on anyway.
DefaultAnswers(r) ==
  /\ req[r].at = "cpaCall" /\ req[r].mode = "whole"
  /\ \E event \in {"success", "failure"} :
       req' = [req EXCEPT ![r] = Ended([@ EXCEPT !.sources = {CPADefault}], event)]
  /\ UNCHANGED <<health, holder>>

\* A stream is passed on whatever its status.
DefaultStreams(r) ==
  /\ req[r].at = "cpaCall" /\ req[r].mode = "stream"
  /\ req' = [req EXCEPT ![r].at = "cpaRead", ![r].upstream = TRUE]
  /\ UNCHANGED <<health, holder>>

DefaultForward(r) ==
  /\ req[r].at = "cpaRead"
  /\ req' = [req EXCEPT ![r].sources = @ \cup {CPADefault}]
  /\ UNCHANGED <<health, holder>>

\* The client is gone: the host stream is closed, the output is not.
DefaultEmitFails(r) ==
  /\ req[r].at = "cpaRead"
  /\ req' = [req EXCEPT ![r].at = "broken", ![r].upstream = FALSE]
  /\ UNCHANGED <<health, holder>>

DefaultEnds(r) ==
  /\ req[r].at = "cpaRead"
  /\ \E event \in {"success", "failure"} : req' = [req EXCEPT ![r] = Ended(@, event)]
  /\ UNCHANGED <<health, holder>>

Tick ==
  /\ \E c \in Candidates : health[c].wait > 0
  /\ health' = [c \in Candidates |-> Elapsed(health[c])]
  /\ UNCHANGED <<req, holder>>

----------------------------------------------------------------------------
\* The loop's own steps, and the replies of the host it waits for.
Loop(r) ==
  \/ \E c \in Candidates : Take(r, c) \/ Pass(r, c)
  \/ GiveUp(r) \/ ResolveFails(r) \/ IssueFails(r) \/ Issue(r)

Return(r) ==
  \/ ReturnRejected(r) \/ ReturnUnclaimed(r) \/ ReturnRefused(r)
  \/ ReturnFailure(r) \/ ReturnSuccess(r) \/ ReturnStream(r)
  \/ DefaultFails(r) \/ DefaultAnswers(r) \/ DefaultStreams(r)

EndStream(r) ==
  \/ EmitFails(r) \/ ReadFailsFirst(r) \/ ReadFails(r) \/ ReadDone(r)
  \/ DefaultEmitFails(r) \/ DefaultEnds(r)

Step(r) ==
  \/ Loop(r) \/ Return(r) \/ EndStream(r)
  \/ Pick(r) \/ PickedElsewhere(r) \/ Forward(r) \/ DefaultForward(r)
  \/ Panic(r)

Next ==
  \/ \E r \in Requests :
       \/ \E mode \in Modes, order \in Rankings, failover \in Failovers,
             affinity \in Affinities : Start(r, mode, order, failover, affinity)
       \/ Step(r)
  \/ Tick

Spec == Init /\ [][Next]_vars

(***************************************************************************)
(* Fairness: the loop's goroutine is scheduled, host calls return and host *)
(* streams end.  Nothing is assumed about when requests arrive, which      *)
(* scheduler the host asks or how an execution turns out.                  *)
(***************************************************************************)
Fairness ==
  \A r \in Requests :
    WF_vars(Loop(r)) /\ WF_vars(Return(r)) /\ WF_vars(EndStream(r))

FairSpec == Spec /\ Fairness

----------------------------------------------------------------------------
(***************************************************************************)
(* Properties                                                              *)
(***************************************************************************)
TypeOK ==
  /\ health \in [Candidates -> Health]
  /\ holder \in [Candidates -> Requests \cup {None}]
  /\ req \in [Requests -> Request]

(* Every probe lease is owned by a request whose attempt is in progress:   *)
(* whichever way an attempt ends (answer, failure, lost ownership, broken  *)
(* output, panic), it gives its lease back.                                *)
LeaseOwned ==
  \A c \in Candidates :
    health[c].probeInFlight =>
      \E r \in Requests : InAttempt(req[r]) /\ req[r].probe /\ Current(req[r]) = c

(* Once the host sent a request upstream without the router's scheduler,   *)
(* the router sends it nowhere else: no other candidate and no CPA default *)
(* can execute it a second time.                                           *)
NoReplayAfterLoss ==
  \A r \in Requests : req[r].lost => req[r].at = "call" \/ req[r].at \in Over

(* A client never receives pieces of two executions: candidates and CPA    *)
(* default are changed only while nothing was passed on.                   *)
OneSource ==
  \A r \in Requests : Cardinality(req[r].sources) <= 1

(* A request tries each candidate at most once, no more of them than the   *)
(* policy allows, and CPA default last.                                    *)
AttemptsOnce ==
  \A r \in Requests :
    LET q == req[r]
        tried == {i \in DOMAIN q.attempts : q.attempts[i] # CPADefault}
    IN  /\ \A i, j \in DOMAIN q.attempts : q.attempts[i] = q.attempts[j] => i = j
        /\ \A i \in tried : i <= MaxAttempts(q)
        /\ \A i \in DOMAIN q.attempts \ tried : i = Len(q.attempts)

(* What a request leaves behind: a host stream, a ticket or a lease only   *)
(* after a panic; its output closed exactly once, except that the CPA      *)
(* default loop does not close an output that broke; a routing event       *)
(* exactly when it was answered.                                           *)
LeftClean ==
  \A r \in Requests :
    LET q == req[r]
    IN  /\ q.closed <= 1
        /\ q.at \in {"done", "broken"} =>
             ~q.upstream /\ ~q.probe /\ q.ticket = "none"
        /\ q.mode = "stream" /\ q.at \in Over \ {"idle"} /\ q.closed = 0 =>
             q.at = "broken" /\ Current(q) = CPADefault
        /\ q.event # "none" <=> q.at = "done"

(* A candidate's record is judged only by executions that are known to be  *)
(* its own: without a claimed ticket, or a rejection of that very          *)
(* credential, an attempt moves neither backoff nor deadline, and opens or *)
(* closes no circuit.                                                      *)
NoVerdictWithoutClaim ==
  [][\A r \in Requests :
       /\ req[r].at = "pin" \/ (req[r].at = "call" /\ req[r].lost)
       /\ req'[r] # req[r]
       => LET c == Current(req[r])
          IN  /\ health'[c].level = health[c].level
              /\ health'[c].wait = health[c].wait
              /\ Closed(health'[c]) <=> Closed(health[c])]_vars

Breaker == INSTANCE CircuitBreaker WITH
  Attempts <- Requests,
  circuit <- [c \in Candidates |-> health[c].state],
  running <- {r \in Requests : InAttempt(req[r])}

(* The request loops use the circuits as a CircuitBreaker allows: every    *)
(* attempt that starts ends once, and a half-open circuit is decided by    *)
(* the end of the attempt that holds its probe.                            *)
ImplementsCircuitBreaker == Breaker!BreakerSpec

(* Every request is eventually over.                                       *)
RequestsEnd == \A r \in Requests : req[r].at \notin Over ~> req[r].at \in Over
=============================================================================
