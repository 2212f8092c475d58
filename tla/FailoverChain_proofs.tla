------------------------ MODULE FailoverChain_proofs ------------------------
(***************************************************************************)
(* Proofs about FailoverChain for any number of requests and candidates,   *)
(* any policies, rankings and cooldowns.                                   *)
(*                                                                         *)
(* The argument has two halves.  RequestOK says what holds of one request  *)
(* by itself; every step of a request leads to another good request.       *)
(* HolderOK ties the probe leases to the requests that own them; for it a  *)
(* step counts only as one of three kinds: it leaves the lease alone, it   *)
(* takes a candidate, or it reports the end of an attempt.                 *)
(***************************************************************************)
EXTENDS FailoverChain, HealthRecord_proofs, FiniteSetTheorems

----------------------------------------------------------------------------
(* The invariant of a single request. *)

Tried(q) == Elements(q.attempts)

Distinct(s) == \A i, j \in DOMAIN s : s[i] = s[j] => i = j

\* Only candidates have been tried so far, each once, no more than allowed.
OnlyCandidates(q) ==
  /\ q.attempts \in Seq(Candidates)
  /\ Distinct(q.attempts)
  /\ Len(q.attempts) <= MaxAttempts(q)

\* Candidates first, then CPA default: the request is in its last execution.
DefaultLast(q) ==
  LET n == Len(q.attempts)
  IN  /\ n > 0
      /\ q.attempts[n] = CPADefault
      /\ Distinct(q.attempts)
      /\ n - 1 <= MaxAttempts(q)
      /\ \A i \in 1 .. n - 1 : q.attempts[i] \in Candidates

AttemptShape(q) ==
  /\ OnlyCandidates(q) \/ DefaultLast(q)
  /\ q.at = "scan" =>
       /\ OnlyCandidates(q)
       /\ q.left \cap Tried(q) = {}
       /\ q.left # {} => Len(q.attempts) < MaxAttempts(q)
  /\ InAttempt(q) => OnlyCandidates(q) /\ q.attempts # <<>>
  /\ q.at \in {"cpaCall", "cpaRead"} => DefaultLast(q)

\* What the client has received so far.
SourceShape(q) ==
  /\ \E x : q.sources \subseteq {x}
  /\ q.at \in {"scan", "pin", "call", "cpaCall"} => q.sources = {}
  /\ q.at = "read" => q.sources \subseteq {Current(q)} /\ (q.first => q.sources = {})
  /\ q.at = "cpaRead" => q.sources \subseteq {CPADefault}

\* What the request has to give back.
ResourceShape(q) ==
  /\ q.probe => InAttempt(q)
  /\ q.lost => (q.at = "call" /\ q.ticket = "issued") \/ q.at \in Over
  /\ q.upstream => q.at \in {"read", "cpaRead", "panicked"}
  /\ q.ticket # "none" => q.at \in {"call", "panicked"}

\* How it ended.
EndShape(q) ==
  /\ q.at \in {"read", "cpaRead"} => q.mode = "stream"
  /\ q.at \notin Over => q.closed = 0
  /\ q.closed <= 1
  /\ q.mode = "stream" /\ q.at \in Over \ {"idle"} /\ q.closed = 0 =>
       q.at = "broken" /\ DefaultLast(q)
  /\ q.event # "none" <=> q.at = "done"

RequestOK(q) ==
  /\ q \in Request
  /\ AttemptShape(q)
  /\ SourceShape(q)
  /\ ResourceShape(q)
  /\ EndShape(q)

----------------------------------------------------------------------------
(* The decisions of the loop lead from good requests to good requests.     *)

(* A request that still tries candidates and has given its lease and its   *)
(* ticket back.                                                            *)
Settled(q) ==
  /\ q \in Request
  /\ OnlyCandidates(q)
  /\ q.sources = {}
  /\ ~q.probe /\ ~q.lost /\ ~q.upstream /\ q.ticket = "none"
  /\ q.closed = 0 /\ q.event = "none"

(* Ending a request closes its output once and records one event, whatever *)
(* it was doing.                                                           *)
LEMMA EndedOK ==
  ASSUME NEW q \in Request, NEW event \in {"success", "failure"},
         OnlyCandidates(q) \/ DefaultLast(q), \E x : q.sources \subseteq {x},
         ~q.probe, q.ticket = "none", q.closed = 0
  PROVE  RequestOK(Ended(q, event))
<1> DEFINE e == Ended(q, event)
<1>1. e \in Request
  <2>1. q.closed \in Nat /\ event \in {"none", "success", "failure"} /\ "done" \in Phase
    BY DEF Request, Phase
  <2>2. CASE q.mode = "stream"
    <3>1. e = [q EXCEPT !.at = "done", !.event = event, !.upstream = FALSE, !.left = {},
                        !.closed = q.closed + 1]
      BY <2>2 DEF Ended
    <3>2. q.closed + 1 \in Nat
      BY <2>1
    <3> QED
      BY <2>1, <3>1, <3>2, ZenonT(30) DEF Request
  <2>3. CASE q.mode # "stream"
    <3>1. e = [q EXCEPT !.at = "done", !.event = event, !.upstream = FALSE, !.left = {},
                        !.closed = q.closed]
      BY <2>3 DEF Ended
    <3> QED
      BY <2>1, <3>1, ZenonT(30) DEF Request
  <2> QED
    BY <2>2, <2>3
<1>2. /\ e.at = "done" /\ e.event = event /\ ~e.upstream /\ e.left = {}
      /\ e.closed = IF q.mode = "stream" THEN 1 ELSE 0
      /\ e.attempts = q.attempts /\ e.ranked = q.ranked /\ e.failover = q.failover
      /\ e.mode = q.mode /\ e.sources = q.sources /\ ~e.probe /\ e.ticket = "none"
  BY DEF Ended, Request
<1> HIDE DEF e
<1>3. MaxAttempts(e) = MaxAttempts(q)
  BY <1>2 DEF MaxAttempts
<1>4. AttemptShape(e)
  BY <1>2, <1>3 DEF AttemptShape, OnlyCandidates, DefaultLast, InAttempt
<1>5. SourceShape(e)
  BY <1>2 DEF SourceShape
<1>6. ResourceShape(e)
  BY <1>2 DEF ResourceShape, Over
<1>7. EndShape(e)
  BY <1>2 DEF EndShape, Over
<1> QED
  BY <1>1, <1>4, <1>5, <1>6, <1>7 DEF RequestOK, e

(* Turning to CPA default appends it, last, to the attempts.               *)
LEMMA ToDefaultOK ==
  ASSUME NEW q, Settled(q)
  PROVE  RequestOK(ToDefault(q)) /\ ~InAttempt(ToDefault(q))
<1> DEFINE d == ToDefault(q)
<1>1. d \in Request
  <2>1. q.attempts \in Seq(Candidates \cup {CPADefault}) /\ q \in Request
    BY DEF Settled, Request
  <2>2. Append(q.attempts, CPADefault) \in Seq(Candidates \cup {CPADefault})
    BY <2>1
  <2>3. "cpaCall" \in Phase
    BY DEF Phase
  <2> QED
    BY <2>1, <2>2, <2>3 DEF ToDefault, Request
<1>2. /\ d.at = "cpaCall" /\ d.left = {} /\ d.attempts = Append(q.attempts, CPADefault)
      /\ d.ranked = q.ranked /\ d.failover = q.failover /\ d.mode = q.mode
      /\ d.sources = {} /\ ~d.probe /\ ~d.lost /\ ~d.upstream /\ d.ticket = "none"
      /\ d.closed = 0 /\ d.event = "none"
  BY DEF Settled, ToDefault, Request
<1>3. MaxAttempts(d) = MaxAttempts(q)
  BY <1>2 DEF MaxAttempts
<1>4. q.attempts \in Seq(Candidates) /\ Distinct(q.attempts)
      /\ Len(q.attempts) <= MaxAttempts(q)
  BY DEF Settled, OnlyCandidates
<1> HIDE DEF d
<1>5. /\ Len(d.attempts) = Len(q.attempts) + 1
      /\ d.attempts[Len(d.attempts)] = CPADefault
      /\ \A i \in 1 .. Len(q.attempts) : d.attempts[i] = q.attempts[i]
                                         /\ d.attempts[i] \in Candidates
      /\ DOMAIN d.attempts = 1 .. Len(q.attempts) + 1
  BY <1>2, <1>4
<1>6. Distinct(d.attempts)
  <2> SUFFICES ASSUME NEW i \in 1 .. Len(q.attempts) + 1, NEW j \in 1 .. Len(q.attempts) + 1,
                      d.attempts[i] = d.attempts[j]
               PROVE  i = j
    BY <1>5 DEF Distinct
  <2> DEFINE n == Len(q.attempts)
  <2>1. n \in Nat /\ DOMAIN q.attempts = 1 .. n
    BY <1>4
  <2> HIDE DEF n
  <2>2. CPADefault \notin Candidates
    BY ChainAssumption
  <2>3. CASE i \in 1 .. n /\ j \in 1 .. n
    BY <1>4, <1>5, <2>1, <2>3 DEF Distinct, n
  <2>4. CASE i \in 1 .. n /\ j = n + 1
    BY <1>5, <2>2, <2>4 DEF n
  <2>5. CASE i = n + 1 /\ j \in 1 .. n
    BY <1>5, <2>2, <2>5 DEF n
  <2> QED
    BY <2>1, <2>3, <2>4, <2>5 DEF n
<1>7. DefaultLast(d)
  BY <1>3, <1>4, <1>5, <1>6 DEF DefaultLast
<1>8. ~InAttempt(d)
  BY <1>2 DEF InAttempt
<1>9. AttemptShape(d)
  BY <1>2, <1>7, <1>8 DEF AttemptShape
<1>10. SourceShape(d)
  BY <1>2 DEF SourceShape
<1>11. ResourceShape(d)
  BY <1>2 DEF ResourceShape
<1>12. EndShape(d)
  BY <1>2 DEF EndShape, Over
<1> QED
  BY <1>1, <1>8, <1>9, <1>10, <1>11, <1>12 DEF RequestOK, d

(* After the last candidate, CPA default or the end both leave a good      *)
(* request.                                                                *)
LEMMA ExhaustedOK ==
  ASSUME NEW q, Settled(q)
  PROVE  RequestOK(Exhausted(q)) /\ ~InAttempt(Exhausted(q))
<1>1. CASE q.failover.exhausted = CPADefault
  BY <1>1, ToDefaultOK DEF Exhausted
<1>2. CASE q.failover.exhausted # CPADefault
  <2>1. Exhausted(q) = Ended(q, "failure")
    BY <1>2 DEF Exhausted
  <2>2. RequestOK(Ended(q, "failure"))
    BY EndedOK DEF Settled
  <2>3. Ended(q, "failure").at = "done"
    BY DEF Ended, Settled, Request
  <2> QED
    BY <2>1, <2>2, <2>3 DEF InAttempt
<1> QED
  BY <1>1, <1>2

(* After a failed attempt the loop scans on, turns to CPA default or ends. *)
LEMMA ProceedOK ==
  ASSUME NEW q \in Request, NEW action \in Action, OnlyCandidates(q),
         q.sources = {}, ~q.lost, q.closed = 0, q.event = "none"
  PROVE  RequestOK(Proceed(q, action)) /\ ~InAttempt(Proceed(q, action))
<1> DEFINE settled == [q EXCEPT !.action = action, !.probe = FALSE, !.ticket = "none",
                                !.upstream = FALSE]
<1>1. /\ settled \in Request
      /\ settled.attempts = q.attempts /\ settled.ranked = q.ranked
      /\ settled.failover = q.failover /\ settled.mode = q.mode
      /\ settled.sources = {} /\ ~settled.probe /\ ~settled.lost /\ ~settled.upstream
      /\ settled.ticket = "none" /\ settled.closed = 0 /\ settled.event = "none"
  BY DEF Request
<1>2. MaxAttempts(settled) = MaxAttempts(q)
  BY <1>1 DEF MaxAttempts
<1>3. Settled(settled)
  BY <1>1, <1>2 DEF Settled, OnlyCandidates
<1>4. CASE action = CPADefault
  <2>1. Proceed(q, action) = ToDefault(settled)
    BY <1>4 DEF Proceed, CPADefault
  <2> QED
    BY <1>3, <2>1, ToDefaultOK
<1>5. CASE action # CPADefault /\ (action = "stop" \/ Len(q.attempts) >= MaxAttempts(q))
  <2>1. Proceed(q, action) = Exhausted(settled)
    BY <1>5 DEF Proceed, CPADefault
  <2> QED
    BY <1>3, <2>1, ExhaustedOK
<1>6. CASE action # CPADefault /\ action # "stop" /\ ~(Len(q.attempts) >= MaxAttempts(q))
  <2> DEFINE s == [settled EXCEPT !.at = "scan", !.left = Eligible(q, action)]
  <2>1. Proceed(q, action) = s
    BY <1>6 DEF Proceed
  <2>2. q.ranked \in Seq(Candidates) /\ q.attempts \in Seq(Candidates)
    BY DEF Request, OnlyCandidates
  <2>3. Eligible(q, action) \subseteq Candidates \ Tried(q)
    BY <2>2 DEF Eligible, Elements, Tried
  <2>4. s \in Request
    BY <1>1, <2>3, ZenonT(30) DEF Request, Phase
  <2>5. /\ s.at = "scan" /\ s.left = Eligible(q, action)
        /\ s.attempts = q.attempts /\ s.ranked = q.ranked
        /\ s.failover = q.failover /\ s.mode = q.mode
        /\ s.sources = {} /\ ~s.probe /\ ~s.lost /\ ~s.upstream
        /\ s.ticket = "none" /\ s.closed = 0 /\ s.event = "none"
    BY <1>1 DEF Request
  <2> HIDE DEF s
  <2>6. MaxAttempts(s) = MaxAttempts(q) /\ MaxAttempts(q) \in Nat /\ Len(q.attempts) \in Nat
    <3>1. q.failover.maxAttempts \in Nat /\ q.mode \in {"stream", "whole"}
      BY DEF Request, Failover
    <3> QED
      BY <2>2, <2>5, <3>1 DEF MaxAttempts
  <2>7. AttemptShape(s)
    BY <1>6, <2>3, <2>5, <2>6 DEF AttemptShape, OnlyCandidates, InAttempt, Tried
  <2>8. SourceShape(s)
    BY <2>5 DEF SourceShape
  <2>9. ResourceShape(s)
    BY <2>5 DEF ResourceShape
  <2>10. EndShape(s)
    BY <2>5 DEF EndShape, Over
  <2> QED
    BY <2>1, <2>4, <2>5, <2>7, <2>8, <2>9, <2>10 DEF RequestOK, InAttempt
<1> QED
  BY <1>4, <1>5, <1>6

(* After the loss of the ownership the request ends.                       *)
LEMMA StoppedOK ==
  ASSUME NEW q \in Request, OnlyCandidates(q), q.sources = {}, q.closed = 0
  PROVE  RequestOK(Stopped(q)) /\ Stopped(q).at = "done"
<1> DEFINE s == [[q EXCEPT !.failover.exhausted = "error"] EXCEPT
                   !.action = "stop", !.probe = FALSE, !.ticket = "none", !.upstream = FALSE]
<1>1. [q.failover EXCEPT !.exhausted = "error"] \in Failover
  BY DEF Request, Failover
<1>2. s \in Request
  BY <1>1 DEF Request, Action
<1>3. /\ s.failover.exhausted = "error"
      /\ s.failover.maxAttempts = q.failover.maxAttempts
      /\ s.attempts = q.attempts /\ s.ranked = q.ranked /\ s.mode = q.mode
      /\ s.sources = {} /\ ~s.probe /\ s.ticket = "none" /\ s.closed = 0
  BY DEF Request, Failover
<1>4. Stopped(q) = Ended(s, "failure")
  BY <1>3 DEF Stopped, Proceed, Exhausted, CPADefault
<1> HIDE DEF s
<1>5. MaxAttempts(s) = MaxAttempts(q)
  BY <1>3 DEF MaxAttempts
<1>6. OnlyCandidates(s)
  BY <1>3, <1>5 DEF OnlyCandidates
<1>7. RequestOK(Ended(s, "failure"))
  BY <1>2, <1>3, <1>6, EndedOK
<1>8. Ended(s, "failure").at = "done"
  BY <1>2 DEF Ended, Request
<1> QED
  BY <1>4, <1>7, <1>8

(* A request starts with nothing tried and everything to look at.          *)
LEMMA NewOK ==
  ASSUME NEW mode \in {"stream", "whole"}, NEW order \in Seq(Candidates),
         NEW failover \in Failover, NEW affinity \in {"off", "unknown"}
  PROVE  RequestOK(New(mode, order, failover, affinity))
<1> DEFINE q == New(mode, order, failover, affinity)
<1>1. Elements(order) \subseteq Candidates
  BY DEF Elements
<1>2. q \in Request
  BY <1>1 DEF New, Request, Phase, Action
<1>3. /\ q.at = "scan" /\ q.left = Elements(order) /\ q.attempts = <<>>
      /\ q.ranked = order /\ q.failover = failover /\ q.mode = mode
      /\ q.sources = {} /\ ~q.probe /\ ~q.lost /\ ~q.upstream
      /\ q.ticket = "none" /\ q.closed = 0 /\ q.event = "none"
  BY DEF New
<1> HIDE DEF q
<1>4. MaxAttempts(q) \in Nat /\ (q.left # {} => MaxAttempts(q) > 0)
  <2>1. failover.maxAttempts \in Nat
    BY DEF Failover
  <2>2. q.left # {} => Len(order) > 0
    BY <1>3 DEF Elements
  <2> QED
    BY <1>3, <2>1, <2>2 DEF MaxAttempts
<1>5. OnlyCandidates(q)
  BY <1>3, <1>4 DEF OnlyCandidates, Distinct
<1>6. AttemptShape(q)
  BY <1>3, <1>4, <1>5 DEF AttemptShape, InAttempt, Tried, Elements
<1>7. SourceShape(q)
  BY <1>3 DEF SourceShape
<1>8. ResourceShape(q)
  BY <1>3 DEF ResourceShape
<1>9. EndShape(q)
  BY <1>3 DEF EndShape, Over
<1> QED
  BY <1>2, <1>6, <1>7, <1>8, <1>9 DEF RequestOK, q

----------------------------------------------------------------------------
(* The three kinds of steps of a request r that goes on as q.              *)

\* It keeps what lease it has.
Keeps(r, q) ==
  /\ req' = [req EXCEPT ![r] = q]
  /\ UNCHANGED <<health, holder>>
  /\ q.probe = req[r].probe
  /\ InAttempt(q) <=> InAttempt(req[r])
  /\ InAttempt(q) => q.attempts = req[r].attempts

\* It takes the candidate c.
Takes(r, q, c) ==
  /\ ~InAttempt(req[r]) /\ InAttempt(q)
  /\ Current(q) = c
  /\ Selectable(health[c])
  /\ q.probe = ~Closed(health[c])
  /\ health' = [health EXCEPT ![c] = AfterAcquire(@)]
  /\ holder' = [holder EXCEPT ![c] = IF Closed(health[c]) THEN @ ELSE r]
  /\ req' = [req EXCEPT ![r] = q]

\* Its attempt ends and leaves the record g.
Ends(r, q, g) ==
  /\ InAttempt(req[r]) /\ ~InAttempt(q)
  /\ g \in Health
  /\ Shaped(g)
  /\ Settles(health[Current(req[r])], g, req[r].probe)
  /\ Report(r, g, q)

StepKind(r) ==
  \E q : /\ RequestOK(q)
         /\ \/ Keeps(r, q)
            \/ \E c \in Candidates : Takes(r, q, c)
            \/ \E g : Ends(r, q, g)

\* Requests and records by themselves; HolderOK below ties them together.
Good ==
  /\ health \in [Candidates -> Health]
  /\ \A c \in Candidates : Shaped(health[c])
  /\ req \in [Requests -> Request]
  /\ \A r \in Requests : RequestOK(req[r])

(* What is known of a request whose attempt is in progress.                *)
LEMMA AttemptFacts ==
  ASSUME NEW q, RequestOK(q), InAttempt(q)
  PROVE  /\ q \in Request
         /\ OnlyCandidates(q)
         /\ Current(q) \in Candidates
         /\ q.closed = 0 /\ q.event = "none"
         /\ q.at # "call" => ~q.lost
         /\ q.ticket = "claimed" => ~q.lost
         /\ q.at # "read" \/ q.first => q.sources = {}
         /\ q.at # "call" => q.ticket = "none"
         /\ q.at = "read" => q.mode = "stream"
<1>1. q.at \in {"pin", "call", "read"}
  BY DEF InAttempt
<1>2. OnlyCandidates(q) /\ q.attempts # <<>>
  BY DEF RequestOK, AttemptShape
<1>3. Current(q) \in Candidates
  BY <1>2 DEF OnlyCandidates, Current
<1>4. q.closed = 0 /\ q.event = "none" /\ (q.at = "read" => q.mode = "stream")
  BY <1>1 DEF RequestOK, EndShape, Over
<1>5. (q.at # "call" => ~q.lost) /\ (q.ticket = "claimed" => ~q.lost)
      /\ (q.at # "call" => q.ticket = "none")
  BY <1>1 DEF RequestOK, ResourceShape, Over
<1>6. q.at # "read" \/ q.first => q.sources = {}
  BY <1>1 DEF RequestOK, SourceShape
<1> QED
  BY <1>2, <1>3, <1>4, <1>5, <1>6 DEF RequestOK

(* Every report an attempt can make settles its candidate's record.        *)
LEMMA RecordFacts ==
  ASSUME Good, NEW r \in Requests, InAttempt(req[r]),
         NEW class \in FailureClass, NEW retryAfter \in Nat
  PROVE  LET h == health[Current(req[r])]
             p == req[r].probe
         IN  \A g \in {Failure(req[r], class, retryAfter), AfterRelease(h, p),
                       Success(req[r])} :
               g \in Health /\ Shaped(g) /\ Settles(h, g, p)
<1> DEFINE h == health[Current(req[r])]
           p == req[r].probe
<1>1. Current(req[r]) \in Candidates /\ req[r] \in Request
  BY AttemptFacts DEF Good
<1>2. h \in Health /\ Shaped(h) /\ p \in BOOLEAN
  BY <1>1 DEF Good, Request
<1> HIDE DEF h, p
<1>3. /\ AfterFailure(h, class, retryAfter, p) \in Health
      /\ Shaped(AfterFailure(h, class, retryAfter, p))
      /\ Settles(h, AfterFailure(h, class, retryAfter, p), p)
  BY <1>2, ReportTypes, ReportShapes, ReportSettles
<1>4. /\ AfterRelease(h, p) \in Health
      /\ Shaped(AfterRelease(h, p))
      /\ Settles(h, AfterRelease(h, p), p)
  BY <1>2, ReportTypes, ReportShapes, ReportSettles
<1>5. /\ AfterSuccess(h, p) \in Health
      /\ Shaped(AfterSuccess(h, p))
      /\ Settles(h, AfterSuccess(h, p), p)
  BY <1>2, ReportTypes, ReportShapes, ReportSettles
<1> QED
  BY <1>3, <1>4, <1>5 DEF Failure, Success, h, p

(* Reporting any of them and going on as a good request ends the attempt.  *)
LEMMA ReportEnds ==
  ASSUME Good, NEW r \in Requests, InAttempt(req[r]),
         NEW class \in FailureClass, NEW retryAfter \in Nat,
         NEW g \in {Failure(req[r], class, retryAfter),
                   AfterRelease(health[Current(req[r])], req[r].probe), Success(req[r])},
         NEW q, RequestOK(q), ~InAttempt(q), Report(r, g, q)
  PROVE  StepKind(r)
BY RecordFacts DEF StepKind, Ends

(* A failed attempt, on the host or before it, is the end of that attempt. *)
LEMMA FailKind ==
  ASSUME Good, NEW r \in Requests, InAttempt(req[r]), ~req[r].lost, req[r].sources = {},
         NEW class \in FailureClass, NEW retryAfter \in Nat,
         Fail(r, class, retryAfter) \/ Miss(r, class)
  PROVE  StepKind(r)
<1> DEFINE q == req[r]
           next == Proceed(q, q.failover.action[class])
<1>1. q \in Request /\ OnlyCandidates(q) /\ q.closed = 0 /\ q.event = "none"
  BY AttemptFacts DEF Good
<1>2. q.failover.action[class] \in Action
  BY <1>1 DEF Request, Failover
<1>3. RequestOK(next) /\ ~InAttempt(next)
  BY <1>1, <1>2, ProceedOK
<1>4. \/ Report(r, Failure(q, class, retryAfter), next)
      \/ Report(r, AfterRelease(health[Current(q)], q.probe), next)
  BY DEF Fail, Miss
<1> HIDE DEF next
<1> QED
  BY <1>3, <1>4, ReportEnds

(* Losing the scheduler's ownership ends the attempt and the request.      *)
LEMMA LoseKind ==
  ASSUME Good, NEW r \in Requests, InAttempt(req[r]), req[r].sources = {},
         LoseOwnership(r)
  PROVE  StepKind(r)
<1>1. RequestOK(Stopped(req[r])) /\ Stopped(req[r]).at = "done"
  BY AttemptFacts, StoppedOK DEF Good
<1>2. ~InAttempt(Stopped(req[r]))
  BY <1>1 DEF InAttempt
<1>3. Report(r, AfterRelease(health[Current(req[r])], req[r].probe), Stopped(req[r]))
  BY DEF LoseOwnership
<1>4. "network" \in FailureClass /\ 0 \in Nat
  BY DEF FailureClass
<1> QED
  BY <1>1, <1>2, <1>3, <1>4, ReportEnds

----------------------------------------------------------------------------
(* Every step of a request is of one of the three kinds.                   *)

(* A new request touches no circuit and no lease.                          *)
LEMMA StartKind ==
  ASSUME Good, NEW r \in Requests, NEW mode \in Modes, NEW order \in Rankings,
         NEW failover \in Failovers, NEW affinity \in Affinities,
         Start(r, mode, order, failover, affinity)
  PROVE  StepKind(r)
<1> DEFINE ranked == IF affinity = "unknown" THEN <<>> ELSE order
           q == New(mode, ranked, failover, affinity)
<1>1. /\ mode \in {"stream", "whole"} /\ failover \in Failover
      /\ affinity \in {"off", "unknown"} /\ ranked \in Seq(Candidates)
  BY ChainAssumption
<1>2. RequestOK(q)
  BY <1>1, NewOK
<1>3. ~InAttempt(q) /\ q.probe = FALSE
  BY DEF New, InAttempt
<1>4. ~InAttempt(req[r]) /\ req[r].probe = FALSE
  <2>1. req[r].at \in Over /\ req[r] \in Request /\ ResourceShape(req[r])
    BY DEF Start, Good, RequestOK
  <2> QED
    BY <2>1 DEF InAttempt, Over, ResourceShape, Request
<1>5. req' = [req EXCEPT ![r] = q] /\ UNCHANGED <<health, holder>>
  BY DEF Start
<1> QED
  BY <1>2, <1>3, <1>4, <1>5 DEF StepKind, Keeps

(* Choosing a candidate takes its lease exactly if its circuit is not      *)
(* closed.                                                                 *)
LEMMA TakeKind ==
  ASSUME Good, NEW r \in Requests, NEW c \in Candidates, Take(r, c)
  PROVE  StepKind(r)
<1> DEFINE q == req[r]
           t == [q EXCEPT !.at = "pin", !.attempts = Append(@, c), !.left = {},
                          !.probe = ~Closed(health[c]), !.first = TRUE]
<1>1. /\ q \in Request /\ RequestOK(q) /\ q.at = "scan" /\ c \in q.left
      /\ Selectable(health[c])
      /\ health' = [health EXCEPT ![c] = AfterAcquire(@)]
      /\ holder' = [holder EXCEPT ![c] = IF Closed(health[c]) THEN @ ELSE r]
      /\ req' = [req EXCEPT ![r] = t]
  BY DEF Take, LooksAt, Good
<1>2. /\ q.attempts \in Seq(Candidates) /\ Distinct(q.attempts)
      /\ Len(q.attempts) < MaxAttempts(q) /\ c \notin Tried(q)
  BY <1>1 DEF RequestOK, AttemptShape, OnlyCandidates
<1>3. /\ q.sources = {} /\ ~q.lost /\ ~q.upstream /\ q.ticket = "none"
      /\ q.closed = 0 /\ q.event = "none"
  <2>1. q.sources = {}
    BY <1>1 DEF RequestOK, SourceShape
  <2>2. ~q.lost /\ ~q.upstream /\ q.ticket = "none"
    BY <1>1 DEF RequestOK, ResourceShape, Over
  <2>3. q.closed = 0 /\ q.event = "none"
    BY <1>1 DEF RequestOK, EndShape, Over
  <2> QED
    BY <2>1, <2>2, <2>3
<1>4. t \in Request
  <2>1. Append(q.attempts, c) \in Seq(Candidates \cup {CPADefault})
    BY <1>2
  <2>2. (~Closed(health[c])) \in BOOLEAN /\ "pin" \in Phase
    BY DEF Phase
  <2> QED
    BY <1>1, <2>1, <2>2 DEF Request
<1>5. /\ t.at = "pin" /\ t.left = {} /\ t.attempts = Append(q.attempts, c)
      /\ t.ranked = q.ranked /\ t.failover = q.failover /\ t.mode = q.mode
      /\ t.sources = {} /\ t.probe = ~Closed(health[c]) /\ ~t.lost /\ ~t.upstream
      /\ t.ticket = "none" /\ t.closed = 0 /\ t.event = "none"
  BY <1>1, <1>3 DEF Request
<1> HIDE DEF t, q
<1>6. MaxAttempts(t) = MaxAttempts(q) /\ MaxAttempts(q) \in Nat
  <2>1. /\ q.failover.maxAttempts \in Nat /\ q.mode \in {"stream", "whole"}
        /\ q.ranked \in Seq(Candidates)
    BY <1>1 DEF Request, Failover
  <2> QED
    BY <1>5, <2>1 DEF MaxAttempts
<1>7. /\ DOMAIN t.attempts = 1 .. Len(q.attempts) + 1
      /\ Len(t.attempts) = Len(q.attempts) + 1
      /\ t.attempts[Len(t.attempts)] = c
      /\ \A i \in 1 .. Len(q.attempts) : t.attempts[i] = q.attempts[i] /\ t.attempts[i] # c
      /\ t.attempts \in Seq(Candidates) /\ t.attempts # <<>>
  BY <1>2, <1>5, SMTT(30) DEF Tried, Elements
<1>8. Distinct(t.attempts)
  BY <1>2, <1>7, SMTT(30) DEF Distinct
<1>9. OnlyCandidates(t)
  BY <1>2, <1>6, <1>7, <1>8 DEF OnlyCandidates
<1>10. AttemptShape(t)
  BY <1>5, <1>7, <1>9 DEF AttemptShape
<1>11. SourceShape(t)
  BY <1>5 DEF SourceShape
<1>12. ResourceShape(t)
  BY <1>5 DEF ResourceShape, InAttempt
<1>13. EndShape(t)
  BY <1>5 DEF EndShape, Over
<1>14. RequestOK(t)
  BY <1>4, <1>10, <1>11, <1>12, <1>13 DEF RequestOK
<1>15. InAttempt(t) /\ ~InAttempt(q) /\ Current(t) = c
  BY <1>1, <1>5, <1>7 DEF InAttempt, Current
<1>16. Takes(r, t, c)
  BY <1>1, <1>5, <1>15 DEF Takes, q
<1> QED
  BY <1>14, <1>16 DEF StepKind

(* Passing a candidate over, or running out of them, touches no circuit.   *)
LEMMA ScanKind ==
  ASSUME Good, NEW r \in Requests, (\E c \in Candidates : Pass(r, c)) \/ GiveUp(r)
  PROVE  StepKind(r)
<1> DEFINE q == req[r]
<1>1. q \in Request /\ RequestOK(q) /\ q.at = "scan"
  BY DEF Pass, GiveUp, LooksAt, Good
<1>2. ~InAttempt(q) /\ q.probe = FALSE
  BY <1>1 DEF InAttempt, RequestOK, ResourceShape, Request
<1>3. ASSUME NEW c \in Candidates, Pass(r, c)
      PROVE  StepKind(r)
  <2> DEFINE t == [q EXCEPT !.left = @ \ {c}]
  <2>1. req' = [req EXCEPT ![r] = t] /\ UNCHANGED <<health, holder>>
    BY <1>3, <1>1 DEF Pass, Good, Request
  <2>2. t \in Request
    BY <1>1 DEF Request
  <2>3. /\ t.at = q.at /\ t.left = q.left \ {c} /\ t.attempts = q.attempts
        /\ t.ranked = q.ranked /\ t.failover = q.failover /\ t.mode = q.mode
        /\ t.sources = q.sources /\ t.probe = q.probe /\ t.lost = q.lost
        /\ t.upstream = q.upstream /\ t.ticket = q.ticket /\ t.closed = q.closed
        /\ t.event = q.event /\ t.first = q.first
    BY <1>1 DEF Request
  <2> HIDE DEF t, q
  <2>4. MaxAttempts(t) = MaxAttempts(q)
    BY <2>3 DEF MaxAttempts
  <2>5. AttemptShape(t)
    BY <1>1, <2>3, <2>4 DEF RequestOK, AttemptShape, OnlyCandidates, InAttempt, Tried
  <2>6. SourceShape(t) /\ ResourceShape(t) /\ EndShape(t)
    <3>1. SourceShape(t)
      BY <1>1, <2>3 DEF RequestOK, SourceShape
    <3>2. ResourceShape(t)
      BY <1>1, <2>3 DEF RequestOK, ResourceShape, InAttempt
    <3>3. EndShape(t)
      BY <1>1, <2>3 DEF RequestOK, EndShape, Over
    <3> QED
      BY <3>1, <3>2, <3>3
  <2>7. RequestOK(t) /\ ~InAttempt(t)
    BY <1>1, <2>2, <2>3, <2>5, <2>6 DEF RequestOK, InAttempt
  <2> QED
    BY <1>2, <2>1, <2>3, <2>7 DEF StepKind, Keeps, q
<1>4. CASE GiveUp(r)
  <2>1. Settled(q)
    <3>1. OnlyCandidates(q)
      BY <1>1 DEF RequestOK, AttemptShape
    <3>2. q.sources = {}
      BY <1>1 DEF RequestOK, SourceShape
    <3>3. ~q.lost /\ ~q.upstream /\ q.ticket = "none"
      BY <1>1 DEF RequestOK, ResourceShape, Over
    <3>4. q.closed = 0 /\ q.event = "none"
      BY <1>1 DEF RequestOK, EndShape, Over
    <3> QED
      BY <1>1, <1>2, <3>1, <3>2, <3>3, <3>4 DEF Settled
  <2>2. RequestOK(Exhausted(q)) /\ ~InAttempt(Exhausted(q))
    BY <2>1, ExhaustedOK
  <2>3. Exhausted(q).probe = FALSE
    BY <2>2 DEF RequestOK, ResourceShape, Request
  <2>4. req' = [req EXCEPT ![r] = Exhausted(q)] /\ UNCHANGED <<health, holder>>
    BY <1>4 DEF GiveUp
  <2> QED
    BY <1>2, <2>2, <2>3, <2>4 DEF StepKind, Keeps
<1> QED
  BY <1>3, <1>4

(* A step that neither tries nor ends anything: only where the loop is,    *)
(* the ticket, the streams and what was passed on may change.              *)
LEMMA LocalKind ==
  ASSUME Good, NEW r \in Requests, NEW t \in Request,
         req' = [req EXCEPT ![r] = t], UNCHANGED <<health, holder>>,
         t.attempts = req[r].attempts, t.ranked = req[r].ranked,
         t.failover = req[r].failover, t.mode = req[r].mode, t.probe = req[r].probe,
         InAttempt(t) <=> InAttempt(req[r]),
         t.at # "scan",
         t.at \in {"cpaCall", "cpaRead"} => req[r].at \in {"cpaCall", "cpaRead"},
         SourceShape(t), ResourceShape(t), EndShape(t)
  PROVE  StepKind(r)
<1> DEFINE q == req[r]
<1>1. RequestOK(q)
  BY DEF Good
<1> HIDE DEF q
<1>2. MaxAttempts(t) = MaxAttempts(q)
  BY DEF MaxAttempts, q
<1>3. OnlyCandidates(q) <=> OnlyCandidates(t)
  BY <1>2 DEF OnlyCandidates, q
<1>4. DefaultLast(q) <=> DefaultLast(t)
  BY <1>2 DEF DefaultLast, q
<1>5. AttemptShape(t)
  BY <1>1, <1>3, <1>4 DEF RequestOK, AttemptShape, q
<1> QED
  BY <1>5 DEF RequestOK, StepKind, Keeps

(* Between the loop and the host: the ticket.                              *)
LEMMA TicketKind ==
  ASSUME Good, NEW r \in Requests,
         Issue(r) \/ Pick(r) \/ PickedElsewhere(r) \/ ReturnStream(r)
  PROVE  StepKind(r)
<1> DEFINE q == req[r]
<1>1. q \in Request /\ RequestOK(q)
  BY DEF Good
<1>2. CASE Issue(r)
  <2> DEFINE t == [q EXCEPT !.at = "call", !.ticket = "issued"]
  <2>1. t \in Request
    BY <1>1 DEF Request, Phase
  <2>2. req' = [req EXCEPT ![r] = t] /\ UNCHANGED <<health, holder>> /\ q.at = "pin"
    BY <1>1, <1>2 DEF Issue, Good, Request
  <2>3. /\ t.at = "call" /\ t.ticket = "issued" /\ t.attempts = q.attempts
        /\ t.ranked = q.ranked /\ t.failover = q.failover /\ t.mode = q.mode
        /\ t.sources = q.sources /\ t.probe = q.probe /\ t.lost = q.lost
        /\ t.upstream = q.upstream /\ t.closed = q.closed /\ t.event = q.event
    BY <1>1 DEF Request
  <2> HIDE DEF t
  <2>4. SourceShape(t)
    BY <1>1, <2>2, <2>3 DEF RequestOK, SourceShape
  <2>5. ResourceShape(t)
    BY <1>1, <2>2, <2>3 DEF RequestOK, ResourceShape, InAttempt, Over
  <2>6. EndShape(t)
    BY <1>1, <2>2, <2>3 DEF RequestOK, EndShape, Over
  <2>7. InAttempt(t) /\ InAttempt(q)
    BY <2>2, <2>3 DEF InAttempt
  <2> QED
    BY <2>1, <2>2, <2>3, <2>4, <2>5, <2>6, <2>7, LocalKind
<1>3. CASE Pick(r)
  <2> DEFINE t == [q EXCEPT !.ticket = "claimed"]
  <2>1. t \in Request
    BY <1>1 DEF Request
  <2>2. req' = [req EXCEPT ![r] = t] /\ UNCHANGED <<health, holder>> /\ q.at = "call"
        /\ ~q.lost
    BY <1>1, <1>3 DEF Pick, Good, Request
  <2>3. /\ t.at = "call" /\ t.ticket = "claimed" /\ t.attempts = q.attempts
        /\ t.ranked = q.ranked /\ t.failover = q.failover /\ t.mode = q.mode
        /\ t.sources = q.sources /\ t.probe = q.probe /\ ~t.lost
        /\ t.upstream = q.upstream /\ t.closed = q.closed /\ t.event = q.event
    BY <1>1, <2>2 DEF Request
  <2> HIDE DEF t
  <2>4. SourceShape(t)
    BY <1>1, <2>2, <2>3 DEF RequestOK, SourceShape
  <2>5. ResourceShape(t)
    BY <1>1, <2>2, <2>3 DEF RequestOK, ResourceShape, InAttempt, Over
  <2>6. EndShape(t)
    BY <1>1, <2>2, <2>3 DEF RequestOK, EndShape, Over
  <2>7. InAttempt(t) /\ InAttempt(q)
    BY <2>2, <2>3 DEF InAttempt
  <2> QED
    BY <2>1, <2>2, <2>3, <2>4, <2>5, <2>6, <2>7, LocalKind
<1>4. CASE PickedElsewhere(r)
  <2> DEFINE t == [q EXCEPT !.lost = TRUE]
  <2>1. t \in Request
    BY <1>1 DEF Request
  <2>2. req' = [req EXCEPT ![r] = t] /\ UNCHANGED <<health, holder>> /\ q.at = "call"
        /\ q.ticket = "issued"
    BY <1>1, <1>4 DEF PickedElsewhere, Good, Request
  <2>3. /\ t.at = "call" /\ t.ticket = "issued" /\ t.attempts = q.attempts
        /\ t.ranked = q.ranked /\ t.failover = q.failover /\ t.mode = q.mode
        /\ t.sources = q.sources /\ t.probe = q.probe
        /\ t.upstream = q.upstream /\ t.closed = q.closed /\ t.event = q.event
    BY <1>1, <2>2 DEF Request
  <2> HIDE DEF t
  <2>4. SourceShape(t)
    BY <1>1, <2>2, <2>3 DEF RequestOK, SourceShape
  <2>5. ResourceShape(t)
    BY <1>1, <2>2, <2>3 DEF RequestOK, ResourceShape, InAttempt, Over
  <2>6. EndShape(t)
    BY <1>1, <2>2, <2>3 DEF RequestOK, EndShape, Over
  <2>7. InAttempt(t) /\ InAttempt(q)
    BY <2>2, <2>3 DEF InAttempt
  <2> QED
    BY <2>1, <2>2, <2>3, <2>4, <2>5, <2>6, <2>7, LocalKind
<1>5. CASE ReturnStream(r)
  <2> DEFINE t == [q EXCEPT !.at = "read", !.ticket = "none", !.upstream = TRUE]
  <2>1. t \in Request
    BY <1>1 DEF Request, Phase
  <2>2. req' = [req EXCEPT ![r] = t] /\ UNCHANGED <<health, holder>> /\ q.at = "call"
        /\ q.ticket = "claimed" /\ q.mode = "stream"
    BY <1>1, <1>5 DEF ReturnStream, Good, Request
  <2>3. /\ t.at = "read" /\ t.ticket = "none" /\ t.attempts = q.attempts
        /\ t.ranked = q.ranked /\ t.failover = q.failover /\ t.mode = q.mode
        /\ t.sources = q.sources /\ t.probe = q.probe /\ t.lost = q.lost
        /\ t.closed = q.closed /\ t.event = q.event
    BY <1>1, <2>2 DEF Request
  <2> HIDE DEF t
  <2>4. SourceShape(t)
    BY <1>1, <2>2, <2>3 DEF RequestOK, SourceShape
  <2>5. ResourceShape(t)
    BY <1>1, <2>2, <2>3 DEF RequestOK, ResourceShape, InAttempt, Over
  <2>6. EndShape(t)
    BY <1>1, <2>2, <2>3 DEF RequestOK, EndShape, Over
  <2>7. InAttempt(t) /\ InAttempt(q)
    BY <2>2, <2>3 DEF InAttempt
  <2> QED
    BY <2>1, <2>2, <2>3, <2>4, <2>5, <2>6, <2>7, LocalKind
<1> QED
  BY <1>2, <1>3, <1>4, <1>5

(* An attempt whose credential was not selected, or that failed.           *)
LEMMA FailureKind ==
  ASSUME Good, NEW r \in Requests,
         \/ ResolveFails(r) \/ IssueFails(r)
         \/ ReturnRejected(r) \/ ReturnUnclaimed(r) \/ ReturnRefused(r)
         \/ ReturnFailure(r) \/ ReadFailsFirst(r)
  PROVE  StepKind(r)
<1> DEFINE q == req[r]
<1>1. InAttempt(q) /\ (q.at # "read" \/ q.first)
  BY DEF ResolveFails, IssueFails, ReturnRejected, ReturnUnclaimed, ReturnRefused,
         ReturnFailure, ReadFailsFirst, InAttempt
<1>2. q.sources = {} /\ (q.at # "call" => ~q.lost) /\ (q.ticket = "claimed" => ~q.lost)
  BY <1>1, AttemptFacts DEF Good
<1>3. CASE IssueFails(r) \/ ReturnUnclaimed(r)
  BY <1>1, <1>2, <1>3, LoseKind DEF IssueFails, ReturnUnclaimed
<1>4. CASE \/ ResolveFails(r) \/ ReturnRejected(r) \/ ReturnRefused(r)
           \/ ReturnFailure(r) \/ ReadFailsFirst(r)
  <2>1. ~q.lost
    BY <1>2, <1>4 DEF ResolveFails, ReturnRejected, ReturnRefused, ReturnFailure,
                      ReadFailsFirst
  <2>2. PICK class \in FailureClass, retryAfter \in Nat :
          Fail(r, class, retryAfter) \/ Miss(r, class)
    <3>1. RetryAfters \subseteq Nat /\ 0 \in Nat
      BY ChainAssumption
    <3> QED
      BY <1>4, <3>1 DEF ResolveFails, ReturnRejected, ReturnRefused, ReturnFailure,
                        ReadFailsFirst
  <2> QED
    BY <1>1, <1>2, <2>1, <2>2, FailKind
<1> QED
  BY <1>3, <1>4

(* An attempt that answered, or whose stream ended after its first payload.*)
LEMMA AnswerKind ==
  ASSUME Good, NEW r \in Requests,
         ReturnSuccess(r) \/ ReadDone(r) \/ ReadFails(r) \/ EmitFails(r)
  PROVE  StepKind(r)
<1> DEFINE q == req[r]
<1>1. InAttempt(q)
  BY DEF ReturnSuccess, ReadDone, ReadFails, EmitFails, InAttempt
<1>2. /\ q \in Request /\ OnlyCandidates(q) /\ Current(q) \in Candidates
      /\ q.closed = 0 /\ q.event = "none"
      /\ q.at = "read" => q.mode = "stream" /\ ~q.lost /\ q.ticket = "none"
      /\ q.ticket = "claimed" => ~q.lost
  BY <1>1, AttemptFacts DEF Good
<1>3. \E x : q.sources \subseteq {x}
  BY DEF Good, RequestOK, SourceShape
<1>4. "network" \in FailureClass /\ 0 \in Nat
  BY DEF FailureClass
<1>5. CASE ReturnSuccess(r)
  <2> DEFINE s == [q EXCEPT !.probe = FALSE, !.ticket = "none", !.sources = {Current(q)}]
  <2>1. s \in Request
    BY <1>2 DEF Request
  <2>2. /\ s.attempts = q.attempts /\ s.ranked = q.ranked /\ s.failover = q.failover
        /\ s.mode = q.mode /\ s.sources = {Current(q)} /\ ~s.probe
        /\ s.ticket = "none" /\ s.closed = 0
    BY <1>2 DEF Request
  <2>3. Report(r, Success(q), Ended(s, "success"))
    BY <1>5 DEF ReturnSuccess
  <2> HIDE DEF s
  <2>4. OnlyCandidates(s)
    BY <1>2, <2>2 DEF OnlyCandidates, MaxAttempts
  <2>5. RequestOK(Ended(s, "success"))
    BY <2>1, <2>2, <2>4, EndedOK
  <2>6. ~InAttempt(Ended(s, "success"))
    BY <2>1 DEF Ended, InAttempt, Request
  <2> QED
    BY <1>1, <1>4, <2>3, <2>5, <2>6, ReportEnds
<1>6. CASE ReadDone(r) \/ ReadFails(r)
  <2> DEFINE s == [q EXCEPT !.probe = FALSE]
  <2>1. s \in Request
    BY <1>2 DEF Request
  <2>2. /\ s.attempts = q.attempts /\ s.ranked = q.ranked /\ s.failover = q.failover
        /\ s.mode = q.mode /\ s.sources = q.sources /\ ~s.probe
        /\ s.ticket = "none" /\ s.closed = 0
    BY <1>2, <1>6 DEF Request, ReadDone, ReadFails
  <2>3. \/ Report(r, Success(q), Ended(s, "success"))
        \/ \E class \in FailureClass :
             Report(r, Failure(q, class, 0), Ended(s, "failure"))
        \/ Report(r, AfterRelease(health[Current(q)], q.probe), Ended(s, "failure"))
    BY <1>6 DEF ReadDone, ReadFails
  <2> HIDE DEF s
  <2>4. OnlyCandidates(s)
    BY <1>2, <2>2 DEF OnlyCandidates, MaxAttempts
  <2>5. RequestOK(Ended(s, "success")) /\ RequestOK(Ended(s, "failure"))
    BY <1>3, <2>1, <2>2, <2>4, EndedOK
  <2>6. ~InAttempt(Ended(s, "success")) /\ ~InAttempt(Ended(s, "failure"))
    BY <2>1 DEF Ended, InAttempt, Request
  <2> QED
    BY <1>1, <1>4, <2>3, <2>5, <2>6, ReportEnds
<1>7. CASE EmitFails(r)
  <2> DEFINE t == [q EXCEPT !.at = "broken", !.probe = FALSE, !.upstream = FALSE,
                            !.closed = @ + 1]
  <2>1. t \in Request
    <3>1. "broken" \in Phase /\ q.closed + 1 \in Nat
      BY <1>2 DEF Phase
    <3> QED
      BY <1>2, <3>1 DEF Request
  <2>2. /\ t.at = "broken" /\ t.attempts = q.attempts /\ t.ranked = q.ranked
        /\ t.failover = q.failover /\ t.mode = q.mode /\ t.sources = q.sources
        /\ ~t.probe /\ ~t.upstream /\ t.ticket = "none" /\ t.closed = 1
        /\ t.event = "none"
    BY <1>2, <1>7 DEF Request, EmitFails
  <2>3. Report(r, AfterRelease(health[Current(q)], q.probe), t)
    BY <1>7 DEF EmitFails
  <2> HIDE DEF t
  <2>4. OnlyCandidates(t)
    BY <1>2, <2>2 DEF OnlyCandidates, MaxAttempts
  <2>5. AttemptShape(t)
    BY <2>2, <2>4 DEF AttemptShape, InAttempt
  <2>6. SourceShape(t) /\ ResourceShape(t) /\ EndShape(t) /\ ~InAttempt(t)
    BY <1>3, <2>2 DEF SourceShape, ResourceShape, EndShape, InAttempt, Over
  <2> QED
    BY <1>1, <1>4, <2>1, <2>3, <2>5, <2>6, ReportEnds DEF RequestOK
<1> QED
  BY <1>5, <1>6, <1>7

(* A payload is passed on, by either stream loop.                          *)
LEMMA ForwardKind ==
  ASSUME Good, NEW r \in Requests, Forward(r) \/ DefaultForward(r)
  PROVE  StepKind(r)
<1> DEFINE q == req[r]
<1>1. q \in Request /\ RequestOK(q)
  BY DEF Good
<1>2. CASE Forward(r)
  <2> DEFINE t == [q EXCEPT !.first = FALSE, !.sources = @ \cup {Current(q)}]
  <2>1. Current(q) \in Candidates /\ q.at = "read" /\ InAttempt(q)
    <3>1. q.at = "read" /\ InAttempt(q)
      BY <1>2 DEF Forward, InAttempt
    <3> QED
      BY <1>1, <3>1, AttemptFacts
  <2>2. t \in Request
    BY <1>1, <2>1 DEF Request
  <2>3. req' = [req EXCEPT ![r] = t] /\ UNCHANGED <<health, holder>>
    BY <1>1, <1>2 DEF Forward, Good, Request
  <2>4. /\ t.at = "read" /\ t.ticket = q.ticket /\ t.attempts = q.attempts
        /\ t.ranked = q.ranked /\ t.failover = q.failover /\ t.mode = q.mode
        /\ t.sources = q.sources \cup {Current(q)} /\ t.first = FALSE
        /\ t.probe = q.probe /\ t.lost = q.lost
        /\ t.upstream = q.upstream /\ t.closed = q.closed /\ t.event = q.event
    BY <1>1, <2>1 DEF Request
  <2>5. Current(t) = Current(q) /\ InAttempt(t)
    BY <2>4 DEF Current, InAttempt
  <2> HIDE DEF t
  <2>6. SourceShape(t)
    BY <1>1, <2>1, <2>4, <2>5 DEF RequestOK, SourceShape
  <2>7. ResourceShape(t)
    BY <1>1, <2>1, <2>4, <2>5 DEF RequestOK, ResourceShape, Over
  <2>8. EndShape(t)
    BY <1>1, <2>1, <2>4 DEF RequestOK, EndShape, Over
  <2> QED
    BY <2>1, <2>2, <2>3, <2>4, <2>5, <2>6, <2>7, <2>8, LocalKind
<1>3. CASE DefaultForward(r)
  <2> DEFINE t == [q EXCEPT !.sources = @ \cup {CPADefault}]
  <2>1. t \in Request
    BY <1>1 DEF Request
  <2>2. req' = [req EXCEPT ![r] = t] /\ UNCHANGED <<health, holder>> /\ q.at = "cpaRead"
    BY <1>1, <1>3 DEF DefaultForward, Good, Request
  <2>3. /\ t.at = "cpaRead" /\ t.ticket = q.ticket /\ t.attempts = q.attempts
        /\ t.ranked = q.ranked /\ t.failover = q.failover /\ t.mode = q.mode
        /\ t.sources = q.sources \cup {CPADefault}
        /\ t.probe = q.probe /\ t.lost = q.lost
        /\ t.upstream = q.upstream /\ t.closed = q.closed /\ t.event = q.event
    BY <1>1, <2>2 DEF Request
  <2> HIDE DEF t
  <2>4. ~InAttempt(t) /\ ~InAttempt(q)
    BY <2>2, <2>3 DEF InAttempt
  <2>5. SourceShape(t)
    BY <1>1, <2>2, <2>3 DEF RequestOK, SourceShape
  <2>6. ResourceShape(t)
    BY <1>1, <2>2, <2>3, <2>4 DEF RequestOK, ResourceShape, Over
  <2>7. EndShape(t)
    BY <1>1, <2>2, <2>3 DEF RequestOK, EndShape, Over
  <2> QED
    BY <2>1, <2>2, <2>3, <2>4, <2>5, <2>6, <2>7, LocalKind
<1> QED
  BY <1>2, <1>3

(* The last execution, under CPA's own routing.                            *)
LEMMA DefaultKind ==
  ASSUME Good, NEW r \in Requests,
         \/ DefaultFails(r) \/ DefaultAnswers(r) \/ DefaultStreams(r)
         \/ DefaultEmitFails(r) \/ DefaultEnds(r)
  PROVE  StepKind(r)
<1> DEFINE q == req[r]
<1>1. /\ q \in Request /\ RequestOK(q) /\ q.at \in {"cpaCall", "cpaRead"}
      /\ UNCHANGED <<health, holder>>
  BY DEF DefaultFails, DefaultAnswers, DefaultStreams, DefaultEmitFails, DefaultEnds, Good
<1>2. /\ DefaultLast(q) /\ ~InAttempt(q) /\ q.probe = FALSE /\ ~q.lost
      /\ q.ticket = "none" /\ q.closed = 0 /\ q.event = "none"
      /\ q.at = "cpaRead" => q.mode = "stream"
  <2>1. DefaultLast(q) /\ ~InAttempt(q)
    BY <1>1 DEF RequestOK, AttemptShape, InAttempt
  <2>2. q.probe = FALSE /\ ~q.lost /\ q.ticket = "none"
    BY <1>1, <2>1 DEF RequestOK, ResourceShape, Over, Request
  <2>3. q.closed = 0 /\ q.event = "none" /\ (q.at = "cpaRead" => q.mode = "stream")
    BY <1>1 DEF RequestOK, EndShape, Over
  <2> QED
    BY <2>1, <2>2, <2>3
<1>3. \E x : q.sources \subseteq {x}
  BY <1>1 DEF RequestOK, SourceShape
<1>4. ASSUME NEW event \in {"success", "failure"}, req' = [req EXCEPT ![r] = Ended(q, event)]
      PROVE  StepKind(r)
  <2>1. RequestOK(Ended(q, event))
    BY <1>1, <1>2, <1>3, EndedOK
  <2>2. ~InAttempt(Ended(q, event)) /\ Ended(q, event).probe = FALSE
    BY <1>1, <1>2 DEF Ended, InAttempt, Request
  <2> QED
    BY <1>1, <1>2, <1>4, <2>1, <2>2 DEF StepKind, Keeps
<1>5. CASE DefaultFails(r) \/ DefaultEnds(r)
  BY <1>4, <1>5 DEF DefaultFails, DefaultEnds
<1>6. CASE DefaultAnswers(r)
  <2> DEFINE s == [q EXCEPT !.sources = {CPADefault}]
  <2>1. s \in Request
    BY <1>1 DEF Request
  <2>2. /\ s.attempts = q.attempts /\ s.ranked = q.ranked /\ s.failover = q.failover
        /\ s.mode = q.mode /\ s.sources = {CPADefault} /\ s.probe = FALSE
        /\ s.ticket = "none" /\ s.closed = 0
    BY <1>1, <1>2 DEF Request
  <2>3. PICK event \in {"success", "failure"} : req' = [req EXCEPT ![r] = Ended(s, event)]
    BY <1>6 DEF DefaultAnswers, Good
  <2> HIDE DEF s
  <2>4. DefaultLast(s)
    BY <1>2, <2>2 DEF DefaultLast, MaxAttempts
  <2>5. RequestOK(Ended(s, event))
    BY <2>1, <2>2, <2>4, EndedOK
  <2>6. ~InAttempt(Ended(s, event)) /\ Ended(s, event).probe = FALSE
    BY <2>1, <2>2 DEF Ended, InAttempt, Request
  <2> QED
    BY <1>1, <1>2, <2>3, <2>5, <2>6 DEF StepKind, Keeps
<1>7. CASE DefaultStreams(r)
  <2> DEFINE t == [q EXCEPT !.at = "cpaRead", !.upstream = TRUE]
  <2>1. t \in Request
    BY <1>1 DEF Request, Phase
  <2>2. req' = [req EXCEPT ![r] = t] /\ q.at = "cpaCall" /\ q.mode = "stream"
    BY <1>1, <1>7 DEF DefaultStreams, Good, Request
  <2>3. /\ t.at = "cpaRead" /\ t.ticket = q.ticket /\ t.attempts = q.attempts
        /\ t.ranked = q.ranked /\ t.failover = q.failover /\ t.mode = q.mode
        /\ t.sources = q.sources /\ t.probe = q.probe /\ t.lost = q.lost
        /\ t.closed = q.closed /\ t.event = q.event
    BY <1>1 DEF Request
  <2> HIDE DEF t
  <2>4. ~InAttempt(t)
    BY <2>3 DEF InAttempt
  <2>5. SourceShape(t)
    BY <1>1, <2>2, <2>3 DEF RequestOK, SourceShape
  <2>6. ResourceShape(t) /\ EndShape(t)
    BY <1>2, <2>2, <2>3 DEF ResourceShape, EndShape, Over
  <2> QED
    BY <1>1, <1>2, <2>1, <2>2, <2>3, <2>4, <2>5, <2>6, LocalKind
<1>8. CASE DefaultEmitFails(r)
  <2> DEFINE t == [q EXCEPT !.at = "broken", !.upstream = FALSE]
  <2>1. t \in Request
    BY <1>1 DEF Request, Phase
  <2>2. req' = [req EXCEPT ![r] = t] /\ q.at = "cpaRead"
    BY <1>1, <1>8 DEF DefaultEmitFails, Good, Request
  <2>3. /\ t.at = "broken" /\ t.ticket = q.ticket /\ t.attempts = q.attempts
        /\ t.ranked = q.ranked /\ t.failover = q.failover /\ t.mode = q.mode
        /\ t.sources = q.sources /\ t.probe = q.probe /\ t.lost = q.lost
        /\ t.upstream = FALSE /\ t.closed = q.closed /\ t.event = q.event
    BY <1>1 DEF Request
  <2> HIDE DEF t
  <2>4. ~InAttempt(t) /\ DefaultLast(t)
    BY <1>2, <2>3 DEF InAttempt, DefaultLast, MaxAttempts
  <2>5. SourceShape(t)
    BY <1>3, <2>3 DEF SourceShape
  <2>6. ResourceShape(t) /\ EndShape(t)
    BY <1>2, <2>2, <2>3, <2>4 DEF ResourceShape, EndShape, Over
  <2> QED
    BY <1>1, <1>2, <2>1, <2>2, <2>3, <2>4, <2>5, <2>6, LocalKind
<1> QED
  BY <1>5, <1>6, <1>7, <1>8

(* A panic of the stream loop, wherever it is.                             *)
LEMMA PanicKind ==
  ASSUME Good, NEW r \in Requests, Panic(r)
  PROVE  StepKind(r)
<1> DEFINE q == req[r]
           t == [q EXCEPT !.at = "panicked", !.probe = FALSE, !.closed = @ + 1,
                          !.left = {}]
<1>1. /\ q \in Request /\ RequestOK(q) /\ q.mode = "stream"
      /\ q.at \in {"scan", "pin", "call", "read", "cpaCall", "cpaRead"}
  BY DEF Panic, Good, InAttempt
<1>2. q.closed = 0 /\ q.event = "none"
  BY <1>1 DEF RequestOK, EndShape, Over
<1>3. t \in Request
  <2>1. "panicked" \in Phase /\ q.closed + 1 \in Nat
    BY <1>2 DEF Phase
  <2> QED
    BY <1>1, <2>1 DEF Request
<1>4. /\ t.at = "panicked" /\ t.attempts = q.attempts /\ t.ranked = q.ranked
      /\ t.failover = q.failover /\ t.mode = q.mode /\ t.sources = q.sources
      /\ t.probe = FALSE /\ t.closed = 1 /\ t.event = "none"
  BY <1>1, <1>2 DEF Request
<1>5. \/ InAttempt(q) /\ Report(r, AfterRelease(health[Current(q)], q.probe), t)
      \/ /\ q.at \in {"scan", "cpaCall", "cpaRead"}
         /\ req' = [req EXCEPT ![r] = t]
         /\ UNCHANGED <<health, holder>>
  BY DEF Panic
<1> HIDE DEF t
<1>6. MaxAttempts(t) = MaxAttempts(q)
  BY <1>4 DEF MaxAttempts
<1>7. ~InAttempt(t)
  BY <1>4 DEF InAttempt
<1>8. AttemptShape(t)
  BY <1>1, <1>4, <1>6, <1>7 DEF RequestOK, AttemptShape, OnlyCandidates, DefaultLast
<1>9. SourceShape(t)
  BY <1>1, <1>4 DEF RequestOK, SourceShape
<1>10. ResourceShape(t) /\ EndShape(t)
  BY <1>4 DEF ResourceShape, EndShape, Over
<1>11. RequestOK(t)
  BY <1>3, <1>8, <1>9, <1>10 DEF RequestOK
<1>12. CASE InAttempt(q) /\ Report(r, AfterRelease(health[Current(q)], q.probe), t)
  <2>1. "network" \in FailureClass /\ 0 \in Nat
    BY DEF FailureClass
  <2> QED
    BY <1>7, <1>11, <1>12, <2>1, ReportEnds
<1>13. CASE /\ q.at \in {"scan", "cpaCall", "cpaRead"}
            /\ req' = [req EXCEPT ![r] = t]
            /\ UNCHANGED <<health, holder>>
  <2>1. ~InAttempt(q) /\ q.probe = FALSE
    BY <1>1, <1>13 DEF InAttempt, RequestOK, ResourceShape, Request
  <2> QED
    BY <1>4, <1>7, <1>11, <1>13, <2>1 DEF StepKind, Keeps
<1> QED
  BY <1>5, <1>12, <1>13

(* Whatever a request does is of one of the three kinds.                   *)
LEMMA RequestStep ==
  ASSUME Good, NEW r \in Requests,
         \/ \E mode \in Modes, order \in Rankings, failover \in Failovers,
               affinity \in Affinities : Start(r, mode, order, failover, affinity)
         \/ Step(r)
  PROVE  StepKind(r)
<1>1. CASE \E mode \in Modes, order \in Rankings, failover \in Failovers,
              affinity \in Affinities : Start(r, mode, order, failover, affinity)
  BY <1>1, StartKind
<1>2. CASE Loop(r)
  BY <1>2, TakeKind, ScanKind, FailureKind, TicketKind DEF Loop
<1>3. CASE Return(r)
  BY <1>3, FailureKind, AnswerKind, TicketKind, DefaultKind DEF Return
<1>4. CASE EndStream(r)
  BY <1>4, FailureKind, AnswerKind, DefaultKind DEF EndStream
<1>5. CASE Pick(r) \/ PickedElsewhere(r)
  BY <1>5, TicketKind
<1>6. CASE Forward(r) \/ DefaultForward(r)
  BY <1>6, ForwardKind
<1>7. CASE Panic(r)
  BY <1>7, PanicKind
<1> QED
  BY <1>1, <1>2, <1>3, <1>4, <1>5, <1>6, <1>7 DEF Step

----------------------------------------------------------------------------
(* The invariant of all requests: a lease is out exactly when a holder is  *)
(* recorded, and the holder is the one request that owns it.               *)
HolderOK ==
  /\ holder \in [Candidates -> Requests \cup {None}]
  /\ \A c \in Candidates : health[c].probeInFlight <=> holder[c] # None
  /\ \A c \in Candidates : holder[c] # None =>
       /\ holder[c] \in Requests
       /\ InAttempt(req[holder[c]])
       /\ req[holder[c]].probe
       /\ Current(req[holder[c]]) = c
  /\ \A r \in Requests : req[r].probe => holder[Current(req[r])] = r

IInv == Good /\ HolderOK

(* The invariant holds before the first request.                           *)
LEMMA InitInv == Init => IInv
<1> SUFFICES ASSUME Init PROVE IInv
  OBVIOUS
<1>1. ClosedHealth \in Health /\ Shaped(ClosedHealth) /\ ~ClosedHealth.probeInFlight
  BY CooldownAssumption DEF ClosedHealth, Health, Shaped, Closed
<1>2. DefaultFailover \in Failover /\ <<>> \in Seq(Candidates)
  BY DEF DefaultFailover, Failover, Action
<1>3. RequestOK(Idle) /\ ~Idle.probe
  <2> DEFINE n == New("whole", <<>>, DefaultFailover, "off")
  <2>1. n \in Request /\ OnlyCandidates(n)
    BY <1>2, NewOK, ZenonT(30) DEF RequestOK, AttemptShape, New
  <2>2. Idle = [n EXCEPT !.at = "idle"]
    BY DEF Idle
  <2>3. n.mode = "whole" /\ n.sources = {} /\ ~n.probe /\ ~n.lost /\ ~n.upstream
        /\ n.ticket = "none" /\ n.closed = 0 /\ n.event = "none"
    BY DEF New
  <2> HIDE DEF n
  <2>4. Idle \in Request
    BY <2>1, <2>2 DEF Request, Phase
  <2>5. /\ Idle.at = "idle" /\ Idle.attempts = n.attempts /\ Idle.ranked = n.ranked
        /\ Idle.failover = n.failover /\ Idle.mode = n.mode /\ Idle.sources = {}
        /\ ~Idle.probe /\ ~Idle.lost /\ ~Idle.upstream /\ Idle.ticket = "none"
        /\ Idle.closed = 0 /\ Idle.event = "none"
    BY <2>1, <2>2, <2>3 DEF Request
  <2>6. OnlyCandidates(Idle)
    BY <2>1, <2>5 DEF OnlyCandidates, MaxAttempts
  <2>7. AttemptShape(Idle)
    BY <2>5, <2>6 DEF AttemptShape, InAttempt
  <2>8. SourceShape(Idle) /\ ResourceShape(Idle) /\ EndShape(Idle)
    BY <2>3, <2>5 DEF SourceShape, ResourceShape, EndShape, Over
  <2> QED
    BY <2>4, <2>5, <2>7, <2>8 DEF RequestOK
<1>4. Good
  BY <1>1, <1>3 DEF Init, Good, RequestOK
<1>5. HolderOK
  BY <1>1, <1>3 DEF Init, HolderOK
<1> QED
  BY <1>4, <1>5 DEF IInv

(* Time passes: only deadlines move.                                       *)
LEMMA TickFacts ==
  ASSUME Good, Tick
  PROVE  /\ UNCHANGED <<req, holder>>
         /\ health' \in [Candidates -> Health]
         /\ \A c \in Candidates :
              /\ Shaped(health'[c])
              /\ health'[c].state = health[c].state
              /\ health'[c].probeInFlight = health[c].probeInFlight
<1>1. "network" \in FailureClass /\ 0 \in Nat /\ TRUE \in BOOLEAN
  BY DEF FailureClass
<1>2. ASSUME NEW c \in Candidates
      PROVE  /\ Elapsed(health[c]) \in Health /\ Shaped(Elapsed(health[c]))
             /\ Elapsed(health[c]).state = health[c].state
             /\ Elapsed(health[c]).probeInFlight = health[c].probeInFlight
  <2>1. health[c] \in Health /\ Shaped(health[c])
    BY DEF Good
  <2>2. Elapsed(health[c]) \in Health /\ Shaped(Elapsed(health[c]))
    BY <1>1, <2>1, ReportTypes, ReportShapes
  <2> QED
    BY <2>1, <2>2 DEF Elapsed, Health
<1>3. health' = [c \in Candidates |-> Elapsed(health[c])] /\ UNCHANGED <<req, holder>>
  BY DEF Tick
<1> QED
  BY <1>2, <1>3

(* The passing of time keeps the invariant: no deadline is part of it.     *)
LEMMA TickInv == ASSUME IInv, Tick PROVE IInv'
<1>1. Good'
  BY TickFacts DEF IInv, Good
<1>2. HolderOK'
  BY TickFacts DEF IInv, HolderOK
<1> QED
  BY <1>1, <1>2 DEF IInv

(* What a step of request r to q does to r and to the others.              *)
LEMMA Others ==
  ASSUME Good, NEW r \in Requests, NEW q, RequestOK(q), req' = [req EXCEPT ![r] = q]
  PROVE  /\ req' \in [Requests -> Request]
         /\ req'[r] = q
         /\ \A s \in Requests \ {r} : req'[s] = req[s]
         /\ \A s \in Requests : RequestOK(req'[s])
BY DEF Good, RequestOK

(* A step that touches no circuit keeps the invariant.                     *)
LEMMA KeepsInv ==
  ASSUME IInv, NEW r \in Requests, NEW q, RequestOK(q), Keeps(r, q)
  PROVE  IInv'
<1>1. /\ req' \in [Requests -> Request]
      /\ req'[r] = q
      /\ \A s \in Requests \ {r} : req'[s] = req[s]
      /\ \A s \in Requests : RequestOK(req'[s])
  BY Others DEF Keeps, IInv
<1>2. UNCHANGED <<health, holder>>
  BY DEF Keeps
<1>3. Good'
  BY <1>1, <1>2 DEF IInv, Good
<1>4. /\ q.probe = req[r].probe
      /\ InAttempt(q) <=> InAttempt(req[r])
      /\ InAttempt(q) => Current(q) = Current(req[r])
  BY DEF Keeps, Current
<1>5. \A s \in Requests :
        /\ req'[s].probe = req[s].probe
        /\ InAttempt(req'[s]) <=> InAttempt(req[s])
        /\ InAttempt(req[s]) => Current(req'[s]) = Current(req[s])
  BY <1>1, <1>4
<1>6. \A s \in Requests : req[s].probe => InAttempt(req[s])
  BY DEF IInv, Good, RequestOK, ResourceShape
<1>7. HolderOK'
  BY <1>2, <1>5, <1>6 DEF IInv, HolderOK
<1> QED
  BY <1>3, <1>7 DEF IInv

(* Choosing a candidate keeps it: the lease was free, or is not needed.    *)
LEMMA TakesInv ==
  ASSUME IInv, NEW r \in Requests, NEW q, RequestOK(q), NEW c \in Candidates,
         Takes(r, q, c)
  PROVE  IInv'
<1>1. /\ req' \in [Requests -> Request]
      /\ req'[r] = q
      /\ \A s \in Requests \ {r} : req'[s] = req[s]
      /\ \A s \in Requests : RequestOK(req'[s])
  BY Others DEF Takes, IInv
<1> DEFINE h == health[c]
<1>2. h \in Health /\ Shaped(h) /\ Selectable(h)
  BY DEF IInv, Good, Takes
<1>3. "network" \in FailureClass /\ 0 \in Nat /\ TRUE \in BOOLEAN
  BY DEF FailureClass
<1>4. AfterAcquire(h) \in Health /\ Shaped(AfterAcquire(h))
  BY <1>2, <1>3, ReportTypes, ReportShapes
<1>5. health' = [health EXCEPT ![c] = AfterAcquire(h)]
  BY DEF Takes
<1>6. health' \in [Candidates -> Health] /\ health'[c] = AfterAcquire(h)
      /\ \A d \in Candidates \ {c} : health'[d] = health[d]
  BY <1>4, <1>5 DEF IInv, Good
<1>7. Good'
  BY <1>1, <1>4, <1>6 DEF IInv, Good
<1>8. ~h.probeInFlight /\ holder[c] = None
  <2>1. ~h.probeInFlight
    BY <1>2 DEF Selectable, Shaped, ClosedHealth, Closed
  <2> QED
    BY <2>1 DEF IInv, HolderOK
<1>9. /\ AfterAcquire(h).probeInFlight <=> ~Closed(h)
      /\ holder'[c] = IF Closed(h) THEN None ELSE r
      /\ \A d \in Candidates \ {c} : holder'[d] = holder[d]
      /\ holder' \in [Candidates -> Requests \cup {None}]
  <2>1. AfterAcquire(h).probeInFlight <=> ~Closed(h)
    BY <1>2, <1>8 DEF AfterAcquire, Health
  <2>2. holder' = [holder EXCEPT ![c] = IF Closed(h) THEN @ ELSE r]
    BY DEF Takes
  <2>3. holder \in [Candidates -> Requests \cup {None}]
    BY DEF IInv, HolderOK
  <2> QED
    BY <1>8, <2>1, <2>2, <2>3
<1>10. /\ InAttempt(q) /\ Current(q) = c /\ (q.probe <=> ~Closed(h)) /\ ~InAttempt(req[r])
  BY DEF Takes
<1> HIDE DEF h
<1>11. None \notin Requests
  BY ChainAssumption
<1>12. \A s \in Requests : req[s].probe => InAttempt(req[s]) /\ Current(req[s]) # c
  <2>1. \A s \in Requests : req[s].probe => InAttempt(req[s])
    BY DEF IInv, Good, RequestOK, ResourceShape
  <2> QED
    BY <1>8, <1>11, <2>1 DEF IInv, HolderOK
<1>13. \A d \in Candidates : health'[d].probeInFlight <=> holder'[d] # None
  BY <1>6, <1>9, <1>11 DEF IInv, HolderOK
<1>14. ASSUME NEW d \in Candidates, holder'[d] # None
       PROVE  /\ holder'[d] \in Requests
              /\ InAttempt(req'[holder'[d]])
              /\ req'[holder'[d]].probe
              /\ Current(req'[holder'[d]]) = d
  <2>1. CASE d = c
    BY <1>1, <1>9, <1>10, <1>14, <2>1
  <2>2. CASE d # c
    <3>1. holder'[d] = holder[d] /\ holder[d] \in Requests /\ InAttempt(req[holder[d]])
          /\ req[holder[d]].probe /\ Current(req[holder[d]]) = d
      BY <1>9, <1>14, <2>2 DEF IInv, HolderOK
    <3>2. holder[d] # r
      BY <1>10, <3>1
    <3> QED
      BY <1>1, <3>1, <3>2
  <2> QED
    BY <2>1, <2>2
<1>15. ASSUME NEW s \in Requests, req'[s].probe
       PROVE  holder'[Current(req'[s])] = s
  <2>1. CASE s = r
    BY <1>1, <1>9, <1>10, <1>15, <2>1
  <2>2. CASE s # r
    <3>1. req'[s] = req[s] /\ req[s].probe
      BY <1>1, <1>15, <2>2
    <3>2. Current(req[s]) # c /\ Current(req[s]) \in Candidates
      BY <1>12, <3>1, AttemptFacts DEF IInv, Good
    <3>3. holder[Current(req[s])] = s
      BY <3>1 DEF IInv, HolderOK
    <3> QED
      BY <1>9, <3>1, <3>2, <3>3
  <2> QED
    BY <2>1, <2>2
<1>16. HolderOK'
  BY <1>9, <1>13, <1>14, <1>15 DEF HolderOK
<1> QED
  BY <1>7, <1>16 DEF IInv

(* Ending an attempt: what it does to its candidate's record and holder,   *)
(* and that it leaves every other lease alone.                             *)
LEMMA EndsFacts ==
  ASSUME IInv, NEW r \in Requests, NEW q, NEW g, RequestOK(q), Ends(r, q, g)
  PROVE  LET c == Current(req[r])
         IN  /\ c \in Candidates
             /\ health' \in [Candidates -> Health]
             /\ health'[c] = g
             /\ \A d \in Candidates \ {c} : health'[d] = health[d]
             /\ g.probeInFlight <=> health[c].probeInFlight /\ ~req[r].probe
             /\ holder' = [holder EXCEPT ![c] = IF req[r].probe THEN None ELSE @]
             /\ q.probe = FALSE
<1> DEFINE c == Current(req[r])
<1>1. c \in Candidates /\ req[r] \in Request
  BY AttemptFacts DEF Ends, IInv, Good
<1>2. health \in [Candidates -> Health] /\ health' = [health EXCEPT ![c] = g] /\ g \in Health
  BY DEF IInv, Good, Ends, Report
<1>3. health' \in [Candidates -> Health] /\ health'[c] = g
      /\ \A d \in Candidates \ {c} : health'[d] = health[d]
  BY <1>1, <1>2
<1>4. g.probeInFlight <=> health[c].probeInFlight /\ ~req[r].probe
  <2>1. health[c] \in Health /\ req[r].probe \in BOOLEAN
    BY <1>1, <1>2 DEF Request
  <2>2. Settles(health[c], g, req[r].probe)
    BY DEF Ends
  <2> QED
    BY <2>1, <2>2 DEF Settles
<1>5. holder' = [d \in Candidates |-> IF health'[d].probeInFlight THEN holder[d] ELSE None]
  BY DEF Ends, Report
<1>6. /\ holder \in [Candidates -> Requests \cup {None}]
      /\ \A d \in Candidates : health[d].probeInFlight <=> holder[d] # None
  BY DEF IInv, HolderOK
<1>7. holder' = [holder EXCEPT ![c] = IF req[r].probe THEN None ELSE @]
  <2> SUFFICES ASSUME NEW d \in Candidates
               PROVE  (IF health'[d].probeInFlight THEN holder[d] ELSE None)
                      = (IF d = c /\ req[r].probe THEN None ELSE holder[d])
    BY <1>1, <1>5, <1>6
  <2>1. CASE d = c
    BY <1>3, <1>4, <1>6, <2>1
  <2>2. CASE d # c
    BY <1>3, <1>6, <2>2
  <2> QED
    BY <2>1, <2>2
<1>8. q.probe = FALSE
  BY DEF Ends, RequestOK, ResourceShape, Request
<1> QED
  BY <1>1, <1>3, <1>4, <1>7, <1>8

(* A report keeps it: the lease that comes back was the reporter's own.    *)
LEMMA EndsInv ==
  ASSUME IInv, NEW r \in Requests, NEW q, NEW g, RequestOK(q), Ends(r, q, g)
  PROVE  IInv'
<1> DEFINE c == Current(req[r])
<1>1. /\ req' \in [Requests -> Request]
      /\ req'[r] = q
      /\ \A s \in Requests \ {r} : req'[s] = req[s]
      /\ \A s \in Requests : RequestOK(req'[s])
  BY Others DEF Ends, Report, IInv
<1>2. /\ c \in Candidates
      /\ health' \in [Candidates -> Health]
      /\ health'[c] = g
      /\ \A d \in Candidates \ {c} : health'[d] = health[d]
      /\ g.probeInFlight <=> health[c].probeInFlight /\ ~req[r].probe
      /\ holder' = [holder EXCEPT ![c] = IF req[r].probe THEN None ELSE @]
      /\ q.probe = FALSE
  BY EndsFacts
<1>3. Shaped(g)
  BY DEF Ends
<1>4. Good'
  BY <1>1, <1>2, <1>3 DEF IInv, Good
<1> HIDE DEF c
<1>5. /\ holder \in [Candidates -> Requests \cup {None}]
      /\ None \notin Requests
      /\ \A d \in Candidates : health[d].probeInFlight <=> holder[d] # None
      /\ \A d \in Candidates : holder[d] # None =>
           /\ holder[d] \in Requests
           /\ InAttempt(req[holder[d]])
           /\ req[holder[d]].probe
           /\ Current(req[holder[d]]) = d
      /\ \A s \in Requests : req[s].probe => holder[Current(req[s])] = s
  BY ChainAssumption DEF IInv, HolderOK
<1>6. /\ holder' \in [Candidates -> Requests \cup {None}]
      /\ holder'[c] = IF req[r].probe THEN None ELSE holder[c]
      /\ \A d \in Candidates \ {c} : holder'[d] = holder[d]
  BY <1>2, <1>5
<1>7. \A d \in Candidates : health'[d].probeInFlight <=> holder'[d] # None
  BY <1>2, <1>5, <1>6
<1>8. ASSUME NEW d \in Candidates, holder'[d] # None
      PROVE  /\ holder'[d] \in Requests
             /\ InAttempt(req'[holder'[d]])
             /\ req'[holder'[d]].probe
             /\ Current(req'[holder'[d]]) = d
  <2>1. holder'[d] = holder[d]
    BY <1>6, <1>8
  <2>2. holder[d] # r
    <3>1. CASE d = c
      BY <1>5, <1>6, <1>8, <3>1
    <3>2. CASE d # c
      BY <1>5, <1>8, <2>1, <3>2 DEF c
    <3> QED
      BY <3>1, <3>2
  <2> QED
    BY <1>1, <1>5, <1>8, <2>1, <2>2
<1>9. ASSUME NEW s \in Requests, req'[s].probe
      PROVE  holder'[Current(req'[s])] = s
  <2>1. s # r /\ req'[s] = req[s] /\ req[s].probe
    BY <1>1, <1>2, <1>9
  <2>2. holder[Current(req[s])] = s /\ Current(req[s]) \in Candidates
    <3>1. InAttempt(req[s]) /\ RequestOK(req[s])
      BY <2>1 DEF IInv, Good, RequestOK, ResourceShape
    <3> QED
      BY <1>5, <2>1, <3>1, AttemptFacts
  <2>3. CASE Current(req[s]) = c
    <3>1. ~req[r].probe
      BY <1>5, <2>1, <2>2, <2>3 DEF c
    <3> QED
      BY <1>6, <2>1, <2>2, <2>3, <3>1
  <2>4. CASE Current(req[s]) # c
    BY <1>6, <2>1, <2>2, <2>4
  <2> QED
    BY <2>3, <2>4
<1>10. HolderOK'
  BY <1>6, <1>7, <1>8, <1>9 DEF HolderOK
<1> QED
  BY <1>4, <1>10 DEF IInv

(* Every step keeps the invariant.                                         *)
LEMMA NextInv == IInv /\ [Next]_vars => IInv'
<1> SUFFICES ASSUME IInv, [Next]_vars PROVE IInv'
  OBVIOUS
<1>1. ASSUME NEW r \in Requests, StepKind(r)
      PROVE  IInv'
  BY <1>1, KeepsInv, TakesInv, EndsInv DEF StepKind
<1>2. CASE Tick
  BY <1>2, TickInv
<1>3. CASE UNCHANGED vars
  BY <1>3 DEF vars, IInv, Good, HolderOK
<1>4. Good
  BY DEF IInv
<1> QED
  BY <1>1, <1>2, <1>3, <1>4, RequestStep DEF Next

(* The invariant holds in every state the loops reach.                     *)
THEOREM Invariance == Spec => []IInv
BY InitInv, NextInv, PTL DEF Spec

----------------------------------------------------------------------------
(* The properties the runs check, for every value of the constants.        *)

(* The state of every request and every record keeps its type.             *)
THEOREM TypeInvariant == Spec => []TypeOK
<1>1. IInv => TypeOK
  BY DEF IInv, Good, HolderOK, TypeOK
<1> QED
  BY <1>1, Invariance, PTL

(* Every probe lease is owned by a request whose attempt is in progress:   *)
(* no way an attempt can end leaves a lease behind.                        *)
THEOREM LeasesOwned == Spec => []LeaseOwned
<1>1. IInv => LeaseOwned
  BY DEF IInv, HolderOK, LeaseOwned
<1> QED
  BY <1>1, Invariance, PTL

(* A request that another scheduler may have sent upstream is not executed *)
(* again.                                                                  *)
THEOREM NoReplays == Spec => []NoReplayAfterLoss
<1>1. IInv => NoReplayAfterLoss
  BY DEF IInv, Good, RequestOK, ResourceShape, NoReplayAfterLoss
<1> QED
  BY <1>1, Invariance, PTL

(* A client receives the output of one execution only.                     *)
THEOREM SourcesSingle == Spec => []OneSource
<1>1. IInv => OneSource
  <2> SUFFICES ASSUME IInv, NEW r \in Requests
               PROVE  Cardinality(req[r].sources) <= 1
    BY DEF OneSource
  <2>1. PICK x : req[r].sources \subseteq {x}
    BY DEF IInv, Good, RequestOK, SourceShape
  <2>2. req[r].sources = {} \/ req[r].sources = {x}
    BY <2>1
  <2>3. Cardinality({}) = 0 /\ Cardinality({x}) = 1
    BY FS_EmptySet, FS_Singleton
  <2> QED
    BY <2>2, <2>3
<1> QED
  BY <1>1, Invariance, PTL

(* Each candidate is tried at most once, within the attempt limit, and CPA *)
(* default comes last.                                                     *)
THEOREM AttemptsSingle == Spec => []AttemptsOnce
<1>1. IInv => AttemptsOnce
  <2> SUFFICES ASSUME IInv, NEW r \in Requests
               PROVE  LET q == req[r]
                          tried == {i \in DOMAIN q.attempts : q.attempts[i] # CPADefault}
                      IN  /\ Distinct(q.attempts)
                          /\ \A i \in tried : i <= MaxAttempts(q)
                          /\ \A i \in DOMAIN q.attempts \ tried : i = Len(q.attempts)
    BY DEF AttemptsOnce, Distinct
  <2> DEFINE q == req[r]
  <2>1. OnlyCandidates(q) \/ DefaultLast(q)
    BY DEF IInv, Good, RequestOK, AttemptShape
  <2>2. q.attempts \in Seq(Candidates \cup {CPADefault}) /\ MaxAttempts(q) \in Nat
    <3>1. q \in Request
      BY DEF IInv, Good
    <3>2. q.failover.maxAttempts \in Nat /\ q.mode \in {"stream", "whole"}
          /\ q.ranked \in Seq(Candidates)
      BY <3>1 DEF Request, Failover
    <3> QED
      BY <3>1, <3>2 DEF Request, MaxAttempts
  <2> HIDE DEF q
  <2>3. CPADefault \notin Candidates
    BY ChainAssumption
  <2>4. CASE OnlyCandidates(q)
    BY <2>2, <2>3, <2>4 DEF OnlyCandidates, q
  <2>5. CASE DefaultLast(q)
    <3>1. DOMAIN q.attempts = 1 .. Len(q.attempts)
      BY <2>2
    <3>2. \A i \in 1 .. Len(q.attempts) :
            /\ i # Len(q.attempts) => i <= MaxAttempts(q) /\ q.attempts[i] # CPADefault
            /\ i = Len(q.attempts) => q.attempts[i] = CPADefault
      BY <2>2, <2>3, <2>5 DEF DefaultLast
    <3> QED
      BY <2>5, <3>1, <3>2 DEF DefaultLast, q
  <2> QED
    BY <2>1, <2>4, <2>5
<1> QED
  BY <1>1, Invariance, PTL

(* What a request leaves behind, however it ends.                          *)
THEOREM EndsClean == Spec => []LeftClean
<1>1. IInv => LeftClean
  <2> SUFFICES ASSUME IInv, NEW r \in Requests
               PROVE  LET q == req[r]
                      IN  /\ q.closed <= 1
                          /\ q.at \in {"done", "broken"} =>
                               ~q.upstream /\ ~q.probe /\ q.ticket = "none"
                          /\ q.mode = "stream" /\ q.at \in Over \ {"idle"} /\ q.closed = 0 =>
                               q.at = "broken" /\ Current(q) = CPADefault
                          /\ q.event # "none" <=> q.at = "done"
    BY DEF LeftClean
  <2> DEFINE q == req[r]
  <2>1. ResourceShape(q) /\ EndShape(q)
    BY DEF IInv, Good, RequestOK
  <2> HIDE DEF q
  <2>2. q.at \in {"done", "broken"} => ~q.upstream /\ ~q.probe /\ q.ticket = "none"
    BY <2>1 DEF ResourceShape, InAttempt
  <2> QED
    BY <2>1, <2>2 DEF EndShape, DefaultLast, Current, q
<1> QED
  BY <1>1, Invariance, PTL

(* Without a claimed ticket, or a rejection of the exact credential, the   *)
(* end of an attempt says nothing about the candidate's health.            *)
THEOREM NoVerdicts == Spec => NoVerdictWithoutClaim
<1> DEFINE Unclaimed(r) == req[r].at = "pin" \/ (req[r].at = "call" /\ req[r].lost)
           Same(r) == LET c == Current(req[r])
                      IN  /\ health'[c].level = health[c].level
                          /\ health'[c].wait = health[c].wait
                          /\ Closed(health'[c]) <=> Closed(health[c])
           A == \A r \in Requests : Unclaimed(r) /\ req'[r] # req[r] => Same(r)
<1>1. IInv /\ [Next]_vars => A
  <2> SUFFICES ASSUME IInv, [Next]_vars, NEW r \in Requests, Unclaimed(r), req'[r] # req[r]
               PROVE  Same(r)
    OBVIOUS
  <2>1. InAttempt(req[r]) /\ RequestOK(req[r])
    BY DEF InAttempt, IInv, Good
  <2>2. Current(req[r]) \in Candidates /\ req[r] \in Request
    BY <2>1, AttemptFacts
  <2>3. \/ \E mode \in Modes, order \in Rankings, failover \in Failovers,
             affinity \in Affinities : Start(r, mode, order, failover, affinity)
        \/ Step(r)
    <3>1. ASSUME NEW s \in Requests, StepKind(s)
          PROVE  \A t \in Requests : req'[t] # req[t] => t = s
      <4>1. PICK q : req' = [req EXCEPT ![s] = q]
        BY <3>1 DEF StepKind, Keeps, Takes, Ends, Report
      <4> QED
        BY <4>1 DEF IInv, Good
    <3>2. CASE Tick \/ UNCHANGED vars
      BY <3>2 DEF Tick, vars
    <3>3. PICK s \in Requests :
            \/ \E mode \in Modes, order \in Rankings, failover \in Failovers,
                 affinity \in Affinities : Start(s, mode, order, failover, affinity)
            \/ Step(s)
      BY <3>2 DEF Next
    <3>4. StepKind(s)
      BY <3>3, RequestStep DEF IInv
    <3>5. r = s
      BY <3>1, <3>4
    <3> QED
      BY <3>3, <3>5
  <2>4. req[r].ticket # "claimed" /\ req[r].at \in {"pin", "call"}
        /\ (req[r].at = "call" => req[r].lost)
    <3>1. ResourceShape(req[r])
      BY <2>1 DEF RequestOK
    <3> QED
      BY <3>1 DEF ResourceShape, Over
  <2> HIDE DEF Unclaimed
  <2>5. \/ UNCHANGED health
        \/ \E q : Report(r, AfterRelease(health[Current(req[r])], req[r].probe), q)
    <3>1. CASE \E mode \in Modes, order \in Rankings, failover \in Failovers,
                affinity \in Affinities : Start(r, mode, order, failover, affinity)
      <4>1. req[r].at \in Over
        BY <3>1, Zenon DEF Start
      <4> QED
        BY <2>4, <4>1 DEF Over
    <3>2. CASE Loop(r)
      <4>1. CASE \E c \in Candidates : Take(r, c) \/ Pass(r, c)
        BY <2>4, <4>1 DEF Take, Pass, LooksAt
      <4>2. CASE ResolveFails(r)
        BY <4>2 DEF ResolveFails, Miss
      <4>3. CASE IssueFails(r)
        BY <4>3 DEF IssueFails, LoseOwnership
      <4>4. CASE GiveUp(r) \/ Issue(r)
        BY <4>4 DEF GiveUp, Issue
      <4> QED
        BY <3>2, <4>1, <4>2, <4>3, <4>4 DEF Loop
    <3>3. CASE Return(r)
      BY <2>4, <3>3 DEF Return, Miss, LoseOwnership, ReturnRejected, ReturnUnclaimed,
           ReturnRefused, ReturnFailure, ReturnSuccess, ReturnStream, DefaultFails,
           DefaultAnswers, DefaultStreams
    <3>4. CASE EndStream(r)
      BY <2>4, <3>4 DEF EndStream, EmitFails, ReadFailsFirst, ReadFails, ReadDone,
           DefaultEmitFails, DefaultEnds
    <3>5. CASE Pick(r) \/ PickedElsewhere(r) \/ Forward(r) \/ DefaultForward(r) \/ Panic(r)
      BY <2>4, <3>5 DEF Pick, PickedElsewhere, Forward, DefaultForward, Panic
    <3> QED
      BY <2>3, <3>1, <3>2, <3>3, <3>4, <3>5 DEF Step
  <2>6. CASE UNCHANGED health
    BY <2>6
  <2>7. CASE \E q : Report(r, AfterRelease(health[Current(req[r])], req[r].probe), q)
    <3> DEFINE h == health[Current(req[r])]
    <3>1. h \in Health /\ Shaped(h)
      BY <2>2 DEF IInv, Good
    <3>2. health'[Current(req[r])] = AfterRelease(h, req[r].probe)
      BY <2>2, <2>7 DEF Report, IInv, Good
    <3>3. LET g == AfterRelease(h, req[r].probe)
          IN  g.level = h.level /\ g.wait = h.wait /\ (Closed(g) <=> Closed(h))
      BY <3>1 DEF AfterRelease, Shaped, Closed, Health
    <3> QED
      BY <3>2, <3>3
  <2> QED
    BY <2>5, <2>6, <2>7
<1>2. IInv /\ [Next]_vars =>
        [\A r \in Requests :
           /\ req[r].at = "pin" \/ (req[r].at = "call" /\ req[r].lost)
           /\ req'[r] # req[r]
           => LET c == Current(req[r])
              IN  /\ health'[c].level = health[c].level
                  /\ health'[c].wait = health[c].wait
                  /\ Closed(health'[c]) <=> Closed(health[c])]_vars
  BY <1>1
<1> QED
  BY <1>2, Invariance, PTL DEF Spec, NoVerdictWithoutClaim

----------------------------------------------------------------------------
(* The request loops implement the circuit breaker.                        *)

\* The abstract state the refinement mapping reads off.
Circuits == [c \in Candidates |-> health[c].state]
Attempting == {r \in Requests : InAttempt(req[r])}

(* Before the first request all circuits are closed and all leases free.   *)
LEMMA BreakerInits == Init => Breaker!BreakerInit
<1> SUFFICES ASSUME Init PROVE Breaker!BreakerInit
  OBVIOUS
<1>1. \A r \in Requests : ~InAttempt(req[r])
  BY DEF Init, Idle, InAttempt, New
<1>2. \A c \in Candidates : health[c].state = "closed"
  BY DEF Init, ClosedHealth
<1> QED
  BY <1>1, <1>2 DEF Init, Breaker!BreakerInit

(* What touches no circuit is invisible to the circuit breaker.            *)
LEMMA KeepsRefines ==
  ASSUME Good, NEW r \in Requests, NEW q, RequestOK(q), Keeps(r, q)
  PROVE  UNCHANGED Breaker!breakerVars
<1>1. \A s \in Requests : InAttempt(req'[s]) <=> InAttempt(req[s])
  BY Others DEF Keeps
<1> QED
  BY <1>1 DEF Keeps, Breaker!breakerVars

(* Choosing a candidate starts an attempt, with the lease or without one.  *)
LEMMA TakesRefines ==
  ASSUME IInv, NEW r \in Requests, NEW q, RequestOK(q), NEW c \in Candidates,
         Takes(r, q, c)
  PROVE  Breaker!BreakerNext
<1> DEFINE h == health[c]
<1>1. r \notin Attempting /\ Attempting' = Attempting \cup {r}
  BY Others DEF Takes, Attempting, IInv
<1>2. /\ h \in Health /\ Shaped(h) /\ Selectable(h)
      /\ health \in [Candidates -> Health]
      /\ holder \in [Candidates -> Requests \cup {None}]
      /\ health' = [health EXCEPT ![c] = AfterAcquire(h)]
      /\ holder' = [holder EXCEPT ![c] = IF Closed(h) THEN @ ELSE r]
  BY DEF IInv, Good, HolderOK, Takes
<1>3. CASE Closed(h)
  <2>1. health' = health /\ holder' = holder
    BY <1>2, <1>3 DEF AfterAcquire
  <2>2. Breaker!Start(r)
    BY <1>1, <2>1 DEF Breaker!Start, Attempting
  <2> QED
    BY <2>2 DEF Breaker!BreakerNext
<1>4. CASE ~Closed(h)
  <2>1. h.state = "open"
    BY <1>2, <1>4 DEF Selectable, Shaped, Health, Closed
  <2>2. AfterAcquire(h).state = "half-open"
    BY <1>2, <1>4 DEF AfterAcquire, Health
  <2>3. Circuits[c] = "open" /\ Circuits' = [Circuits EXCEPT ![c] = "half-open"]
    BY <1>2, <2>1, <2>2 DEF Circuits
  <2>4. holder' = [holder EXCEPT ![c] = r]
    BY <1>2, <1>4
  <2>5. Breaker!Probe(r, c)
    BY <1>1, <2>3, <2>4 DEF Breaker!Probe, Attempting, Circuits
  <2> QED
    BY <2>5 DEF Breaker!BreakerNext
<1> QED
  BY <1>3, <1>4

(* A report is the end of an attempt: the probe's, or a normal one's.      *)
LEMMA EndsRefines ==
  ASSUME IInv, NEW r \in Requests, NEW q, NEW g, RequestOK(q), Ends(r, q, g)
  PROVE  Breaker!BreakerNext
<1> DEFINE c == Current(req[r])
           h == health[c]
<1>1. r \in Attempting /\ Attempting' = Attempting \ {r}
  BY Others DEF Ends, Report, Attempting, IInv
<1>2. /\ c \in Candidates
      /\ health' \in [Candidates -> Health]
      /\ health'[c] = g
      /\ \A d \in Candidates \ {c} : health'[d] = health[d]
      /\ g.probeInFlight <=> h.probeInFlight /\ ~req[r].probe
      /\ holder' = [holder EXCEPT ![c] = IF req[r].probe THEN None ELSE @]
  BY EndsFacts
<1>3. /\ h \in Health /\ Shaped(h) /\ g \in Health /\ Shaped(g)
      /\ Settles(h, g, req[r].probe) /\ req[r].probe \in BOOLEAN
      /\ health \in [Candidates -> Health]
      /\ holder \in [Candidates -> Requests \cup {None}]
  BY <1>2 DEF IInv, Good, HolderOK, Ends, Request
<1>4. Circuits' = [Circuits EXCEPT ![c] = g.state]
  BY <1>2, <1>3 DEF Circuits
<1>5. CASE req[r].probe
  <2>1. holder[c] = r
    BY <1>5 DEF IInv, HolderOK
  <2>2. g.state \in {"closed", "open"}
    BY <1>2, <1>3, <1>5 DEF Shaped, Health
  <2>3. holder' = [holder EXCEPT ![c] = None]
    BY <1>2, <1>5
  <2>4. PICK d \in Candidates : d = c
    BY <1>2
  <2>5. Breaker!EndProbe(r, d)
    BY <1>1, <1>4, <2>1, <2>2, <2>3, <2>4 DEF Breaker!EndProbe, Attempting, Circuits
  <2> HIDE DEF c, h
  <2> QED
    BY <2>5 DEF Breaker!BreakerNext
<1>6. CASE ~req[r].probe
  <2>1. \A d \in Candidates : holder[d] # r
    BY <1>6, ChainAssumption DEF IInv, HolderOK
  <2>2. holder' = holder
    BY <1>2, <1>3, <1>6
  <2>3. g.state = h.state \/ (h.state = "closed" /\ g.state = "open")
    <3>1. ~Closed(h) => ~Closed(g)
      BY <1>3, <1>6 DEF Settles
    <3>2. g.probeInFlight <=> h.probeInFlight
      BY <1>2, <1>6
    <3> QED
      BY <1>3, <3>1, <3>2 DEF Shaped, Closed, Health, ClosedHealth
  <2>4. \/ UNCHANGED Circuits
        \/ Circuits[c] = "closed" /\ Circuits' = [Circuits EXCEPT ![c] = "open"]
    <3>1. Circuits[c] = h.state /\ Circuits \in [Candidates -> {"closed", "open", "half-open"}]
      BY <1>2, <1>3 DEF Circuits, Health
    <3> QED
      BY <1>2, <1>4, <2>3, <3>1
  <2>5. Breaker!EndNormal(r)
    BY <1>1, <1>2, <2>1, <2>2, <2>4 DEF Breaker!EndNormal, Attempting, Circuits
  <2> QED
    BY <2>5 DEF Breaker!BreakerNext
<1> QED
  BY <1>3, <1>5, <1>6

(* Every step of the loops is a step of the circuit breaker or leaves it   *)
(* alone: attempts start and end once, and a half-open circuit is decided  *)
(* by the end of the attempt that holds its probe.                         *)
THEOREM RefinesCircuitBreaker == Spec => ImplementsCircuitBreaker
<1>1. IInv /\ [Next]_vars => [Breaker!BreakerNext]_(Breaker!breakerVars)
  <2> SUFFICES ASSUME IInv, [Next]_vars
               PROVE  [Breaker!BreakerNext]_(Breaker!breakerVars)
    OBVIOUS
  <2>1. Good
    BY DEF IInv
  <2>2. ASSUME NEW r \in Requests, StepKind(r)
        PROVE  [Breaker!BreakerNext]_(Breaker!breakerVars)
    BY <2>1, <2>2, KeepsRefines, TakesRefines, EndsRefines DEF StepKind
  <2>3. CASE Tick
    BY <2>1, <2>3, TickFacts DEF Breaker!breakerVars
  <2>4. CASE UNCHANGED vars
    BY <2>4 DEF vars, Breaker!breakerVars, InAttempt
  <2> QED
    BY <2>1, <2>2, <2>3, <2>4, RequestStep DEF Next
<1> QED
  BY <1>1, BreakerInits, Invariance, PTL DEF Spec, ImplementsCircuitBreaker, Breaker!BreakerSpec
=============================================================================
