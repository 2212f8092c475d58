-------------------------- MODULE ExecutionTicket --------------------------
(***************************************************************************)
(* The execution tickets (runtimeState.tickets): how the router learns     *)
(* whether a nested host execution really went through its own scheduler.  *)
(*                                                                         *)
(* An execution issues a ticket, calls the host with it and consumes it    *)
(* when the call returns (executeCandidateV4).  In between the host may    *)
(* ask scheduler.pick with the ticket's token, any number of times, from   *)
(* any thread, or not at all; it may also ask with a token whose execution *)
(* is over.  Each action on the table is one critical section of           *)
(* runtimeState's lock; a pick resolves the credential after it let go of  *)
(* the lock.                                                               *)
(***************************************************************************)
EXTENDS Integers

CONSTANTS
  Executions,   \* slots for executions in progress
  Picks,        \* slots for scheduler.pick calls in progress
  Tokens,       \* ticket tokens
  Auths,        \* credentials
  None,         \* no value
  TicketTTL,    \* life of a ticket of the older, pre-claim kind
  MaxTime       \* bound on the clock

ASSUME TicketAssumption ==
  /\ TicketTTL \in Nat
  /\ MaxTime \in Nat
  /\ None \notin [auth : Auths, claimed : BOOLEAN, expires : Nat]

\* The year 9999: beyond every clock reading.
Never == MaxTime + TicketTTL + 1

Ticket == [auth : Auths, claimed : BOOLEAN, expires : 0 .. Never]

VARIABLES
  now,      \* the clock
  tickets,  \* the ticket table
  exec,     \* the executions; `selections` counts the picks that claimed
            \* their ticket (history), `owned` is what the execution learned
  pick      \* the picks past their claim, with the credential to answer

vars == <<now, tickets, exec, pick>>

Fresh == [phase |-> "idle", token |-> None, auth |-> None, owned |-> FALSE, selections |-> 0]

Execution ==
  [phase : {"idle", "calling", "done"}, token : Tokens \cup {None},
   auth : Auths \cup {None}, owned : BOOLEAN, selections : Nat]

TypeOK ==
  /\ now \in 0 .. MaxTime
  /\ tickets \in [Tokens -> Ticket \cup {None}]
  /\ exec \in [Executions -> Execution]
  /\ pick \in [Picks -> Auths \cup {None}]

Calling(e) == exec[e].phase = "calling"

Init ==
  /\ now = 0
  /\ tickets = [tok \in Tokens |-> None]
  /\ exec = [e \in Executions |-> Fresh]
  /\ pick = [p \in Picks |-> None]

\* Faulty variant: an execution ticket expires like one of the older kind.
Issue_Expiring(e, tok, auth) ==
  /\ ~Calling(e)
  /\ tickets[tok] = None
  /\ tickets' = [tickets EXCEPT ![tok] =
       [auth |-> auth, claimed |-> FALSE, expires |-> now + TicketTTL]]
  /\ exec' = [exec EXCEPT ![e] =
       [phase |-> "calling", token |-> tok, auth |-> auth, owned |-> FALSE, selections |-> 0]]
  /\ UNCHANGED <<now, pick>>

\* The execution registers an unused token bound to its credential and calls
\* the host.
Issue(e, tok, auth) ==
  /\ ~Calling(e)
  /\ tickets[tok] = None
  /\ tickets' = [tickets EXCEPT ![tok] =
       [auth |-> auth, claimed |-> FALSE, expires |-> Never]]
  /\ exec' = [exec EXCEPT ![e] =
       [phase |-> "calling", token |-> tok, auth |-> auth, owned |-> FALSE, selections |-> 0]]
  /\ UNCHANGED <<now, pick>>

\* The table without the tickets that have expired.
Cleaned == [tok \in Tokens |->
  IF tickets[tok] # None /\ now > tickets[tok].expires THEN None ELSE tickets[tok]]

\* Faulty variant: a ticket can be claimed again.
Claim_Again(p, tok) ==
  /\ pick[p] = None
  /\ Cleaned[tok] # None
  /\ tickets' = [Cleaned EXCEPT ![tok].claimed = TRUE]
  /\ pick' = [pick EXCEPT ![p] = Cleaned[tok].auth]
  /\ exec' = [e \in Executions |->
       IF Calling(e) /\ exec[e].token = tok
         THEN [exec[e] EXCEPT !.selections = @ + 1] ELSE exec[e]]
  /\ UNCHANGED now

\* The first pick with the token of a live ticket claims it.
Claim(p, tok) ==
  /\ pick[p] = None
  /\ Cleaned[tok] # None
  /\ ~Cleaned[tok].claimed
  /\ tickets' = [Cleaned EXCEPT ![tok].claimed = TRUE]
  /\ pick' = [pick EXCEPT ![p] = Cleaned[tok].auth]
  /\ exec' = [e \in Executions |->
       IF Calling(e) /\ exec[e].token = tok
         THEN [exec[e] EXCEPT !.selections = @ + 1] ELSE exec[e]]
  /\ UNCHANGED now

\* A pick with an unknown token, or a second one with the same, is refused;
\* it still cleans the table up.
Refuse(tok) ==
  /\ Cleaned[tok] # None => Cleaned[tok].claimed
  /\ tickets' = Cleaned
  /\ UNCHANGED <<now, exec, pick>>

\* The pick resolves the credential and checks that it is eligible: it
\* answers it, or an error that keeps the host from choosing another.
Answer(p) ==
  /\ pick[p] # None
  /\ pick' = [pick EXCEPT ![p] = None]
  /\ UNCHANGED <<now, tickets, exec>>

\* Faulty variant: a ticket that is still there counts as claimed.
Finish_Present(e) ==
  LET tok == exec[e].token
  IN  /\ Calling(e)
      /\ exec' = [exec EXCEPT ![e].phase = "done", ![e].owned = tickets[tok] # None]
      /\ tickets' = [tickets EXCEPT ![tok] = None]
      /\ UNCHANGED <<now, pick>>

\* Faulty variant: the ticket stays behind.
Finish_Keep(e) ==
  LET tok == exec[e].token
  IN  /\ Calling(e)
      /\ exec' = [exec EXCEPT ![e].phase = "done",
                              ![e].owned = tickets[tok] # None /\ tickets[tok].claimed]
      /\ UNCHANGED <<now, tickets, pick>>

\* The host call has returned: the ticket is consumed.
Finish(e) ==
  LET tok == exec[e].token
  IN  /\ Calling(e)
      /\ exec' = [exec EXCEPT ![e].phase = "done",
                              ![e].owned = tickets[tok] # None /\ tickets[tok].claimed]
      /\ tickets' = [tickets EXCEPT ![tok] = None]
      /\ UNCHANGED <<now, pick>>

Tick ==
  /\ now < MaxTime
  /\ now' = now + 1
  /\ UNCHANGED <<tickets, exec, pick>>

Next ==
  \/ \E e \in Executions, tok \in Tokens, auth \in Auths : Issue(e, tok, auth)
  \/ \E e \in Executions : Finish(e)
  \/ \E p \in Picks, tok \in Tokens : Claim(p, tok)
  \/ \E tok \in Tokens : Refuse(tok)
  \/ \E p \in Picks : Answer(p)
  \/ Tick

Spec == Init /\ [][Next]_vars

----------------------------------------------------------------------------
(* A ticket outlives every pick that may still need it: however long the   *)
(* host call takes, and however often other picks clean the table up, its  *)
(* ticket is there and names its credential ("tokens cannot disappear      *)
(* because an unrelated request runs ticket cleanup").                     *)
LiveTicketKept ==
  \A e \in Executions :
    Calling(e) => /\ tickets[exec[e].token] # None
                  /\ tickets[exec[e].token].auth = exec[e].auth

(* The host gets a credential at most once per execution: every further    *)
(* selection inside the same nested execution is refused, so one attempt   *)
(* of the router is at most one upstream execution.                        *)
SingleSelection ==
  \A e \in Executions : exec[e].selections <= 1

(* An execution believes that it went through the router's scheduler       *)
(* exactly when a pick claimed its ticket while it was in progress.        *)
OwnershipProven ==
  \A e \in Executions :
    exec[e].phase = "done" => (exec[e].owned <=> exec[e].selections = 1)

(* Tickets do not pile up, and no late pick can be served: a ticket in the *)
(* table belongs to exactly one execution in progress.                     *)
NoStrayTicket ==
  \A tok \in Tokens :
    tickets[tok] # None =>
      \E e \in Executions :
        /\ Calling(e) /\ exec[e].token = tok
        /\ \A f \in Executions : Calling(f) /\ exec[f].token = tok => f = e
=============================================================================
