------------------------ MODULE PinnedExecution_proofs ------------------------
(***************************************************************************)
(* Proofs about ExecutionTicket and PinnedExecution, for any credentials,  *)
(* indexes, candidates, executions, picks and tokens, any running time and *)
(* any number of changes and saves.                                        *)
(***************************************************************************)
EXTENDS PinnedExecution, FiniteSetTheorems, TLAPS

----------------------------------------------------------------------------
(* The tickets alone (ExecutionTicket).  Nothing in this part rests on an  *)
(* assumption about identities.                                            *)


(***************************************************************************)
(* The inductive invariant: the tickets in the table and the executions in *)
(* progress correspond one to one, none of them expires, and a ticket is   *)
(* claimed exactly if its execution had its one selection.                 *)
(***************************************************************************)
Matched ==
  \A e \in Executions :
    Calling(e) =>
      /\ exec[e].token \in Tokens
      /\ tickets[exec[e].token] # None
      /\ tickets[exec[e].token].auth = exec[e].auth
      /\ tickets[exec[e].token].claimed <=> exec[e].selections = 1

Owned ==
  \A tok \in Tokens :
    tickets[tok] # None =>
      /\ tickets[tok].expires = Never
      /\ \E e \in Executions : Calling(e) /\ exec[e].token = tok

Distinct ==
  \A e, f \in Executions :
    Calling(e) /\ Calling(f) /\ exec[e].token = exec[f].token => e = f

IInv ==
  /\ TypeOK
  /\ Matched
  /\ Owned
  /\ Distinct
  /\ SingleSelection
  /\ OwnershipProven

(* No pick ever finds an expired ticket: cleaning the table changes it not *)
(* at all.                                                                 *)
LEMMA NothingExpires ==
  ASSUME TypeOK, Owned
  PROVE  Cleaned = tickets
<1>1. \A tok \in Tokens : tickets[tok] # None => ~(now > tickets[tok].expires)
  BY TicketAssumption DEF TypeOK, Execution, Owned, Never
<1> QED
  BY <1>1 DEF Cleaned, TypeOK, Execution

LEMMA TicketTypes ==
  ASSUME TypeOK, NEW tok \in Tokens, tickets[tok] # None
  PROVE  /\ tickets[tok] \in Ticket
         /\ tickets[tok].auth \in Auths
         /\ tickets[tok].claimed \in BOOLEAN
<1>1. tickets[tok] \in Ticket
  BY DEF TypeOK, Execution
<1> QED
  BY <1>1 DEF Ticket

LEMMA InitIInv == Init => IInv
BY TicketAssumption DEF Init, IInv, TypeOK, Execution, Fresh, Matched, Owned, Distinct, Calling,
   SingleSelection, OwnershipProven

LEMMA IssuePreserves ==
  ASSUME IInv, NEW e \in Executions, NEW tok \in Tokens, NEW auth \in Auths,
         Issue(e, tok, auth)
  PROVE  IInv'
<1> DEFINE t == [auth |-> auth, claimed |-> FALSE, expires |-> Never]
           x == [phase |-> "calling", token |-> tok, auth |-> auth, owned |-> FALSE,
                 selections |-> 0]
<1>1. /\ TypeOK /\ ~Calling(e) /\ tickets[tok] = None
      /\ now' = now /\ pick' = pick
      /\ tickets' = [tickets EXCEPT ![tok] = t] /\ exec' = [exec EXCEPT ![e] = x]
  BY DEF IInv, Issue
<1>2. t \in Ticket /\ t # None /\ t.expires = Never /\ ~t.claimed /\ t.auth = auth
  <2>1. Never \in Nat /\ Never \in 0 .. Never
    BY TicketAssumption DEF Never
  <2>2. t \in Ticket
    BY <2>1 DEF Ticket
  <2>3. t \in [auth : Auths, claimed : BOOLEAN, expires : Nat]
    BY <2>1
  <2> QED
    BY <2>2, <2>3, TicketAssumption
<1>3. /\ x.phase = "calling" /\ x.token = tok /\ x.auth = auth /\ x.selections = 0
      /\ x.owned = FALSE
      /\ x \in [phase : {"idle", "calling", "done"}, token : Tokens \cup {None},
                auth : Auths \cup {None}, owned : BOOLEAN, selections : Nat]
  OBVIOUS
<1> HIDE DEF t, x
<1>4. /\ tickets'[tok] = t /\ \A u \in Tokens : u # tok => tickets'[u] = tickets[u]
      /\ exec'[e] = x /\ \A f \in Executions : f # e => exec'[f] = exec[f]
  BY <1>1 DEF TypeOK, Execution
<1>5. TypeOK'
  BY <1>1, <1>2, <1>3 DEF TypeOK, Execution
<1>6. \A f \in Executions : f # e /\ Calling(f) => exec[f].token # tok
  BY <1>1 DEF IInv, Matched
<1>7. Matched'
  BY <1>2, <1>3, <1>4, <1>6 DEF IInv, Matched, Calling
<1>8. Owned'
  <2> SUFFICES ASSUME NEW u \in Tokens, tickets'[u] # None
               PROVE  /\ tickets'[u].expires = Never
                      /\ \E f \in Executions : Calling(f)' /\ exec'[f].token = u
    BY DEF Owned
  <2>1. CASE u = tok
    BY <1>2, <1>3, <1>4, <2>1 DEF Calling
  <2>2. CASE u # tok
    BY <1>1, <1>4, <2>2 DEF IInv, Owned, Calling
  <2> QED
    BY <2>1, <2>2
<1>9. Distinct'
  BY <1>3, <1>4, <1>6 DEF IInv, Distinct, Calling
<1>10. SingleSelection' /\ OwnershipProven'
  BY <1>3, <1>4 DEF IInv, SingleSelection, OwnershipProven
<1> QED
  BY <1>5, <1>7, <1>8, <1>9, <1>10 DEF IInv

LEMMA ClaimPreserves ==
  ASSUME IInv, NEW p \in Picks, NEW tok \in Tokens, Claim(p, tok)
  PROVE  IInv'
<1>1. TypeOK /\ Cleaned = tickets
  BY NothingExpires DEF IInv
<1>2. /\ tickets[tok] # None /\ ~tickets[tok].claimed /\ now' = now
      /\ tickets' = [tickets EXCEPT ![tok].claimed = TRUE]
      /\ pick' = [pick EXCEPT ![p] = tickets[tok].auth]
      /\ exec' = [e \in Executions |->
           IF Calling(e) /\ exec[e].token = tok
             THEN [exec[e] EXCEPT !.selections = @ + 1] ELSE exec[e]]
  BY <1>1 DEF Claim
<1>3. tickets[tok] \in Ticket /\ tickets[tok].auth \in Auths
  BY <1>1, <1>2, TicketTypes
<1>4. /\ tickets'[tok] = [tickets[tok] EXCEPT !.claimed = TRUE]
      /\ \A u \in Tokens : u # tok => tickets'[u] = tickets[u]
  BY <1>1, <1>2 DEF TypeOK, Execution
<1>5. /\ tickets'[tok] \in Ticket /\ tickets'[tok].claimed = TRUE
      /\ tickets'[tok].auth = tickets[tok].auth
      /\ tickets'[tok].expires = tickets[tok].expires
  BY <1>3, <1>4 DEF Ticket
<1>6. tickets'[tok] # None
  <2>1. 0 .. Never \subseteq Nat
    BY TicketAssumption DEF Never
  <2>2. tickets'[tok] \in [auth : Auths, claimed : BOOLEAN, expires : Nat]
    BY <1>5, <2>1 DEF Ticket
  <2> QED
    BY <2>2, TicketAssumption
<1>7. \A e \in Executions :
        /\ exec'[e].phase = exec[e].phase /\ exec'[e].token = exec[e].token
        /\ exec'[e].auth = exec[e].auth /\ exec'[e].owned = exec[e].owned
        /\ exec'[e].selections =
             IF Calling(e) /\ exec[e].token = tok THEN exec[e].selections + 1
             ELSE exec[e].selections
        /\ exec'[e] \in [phase : {"idle", "calling", "done"}, token : Tokens \cup {None},
                         auth : Auths \cup {None}, owned : BOOLEAN, selections : Nat]
  BY <1>1, <1>2 DEF TypeOK, Execution
<1>8. TypeOK'
  <2>1. tickets' \in [Tokens -> Ticket \cup {None}]
    BY <1>1, <1>2, <1>4, <1>5 DEF TypeOK, Execution
  <2>2. exec' \in [Executions -> [phase : {"idle", "calling", "done"},
                                  token : Tokens \cup {None}, auth : Auths \cup {None},
                                  owned : BOOLEAN, selections : Nat]]
    BY <1>2, <1>7
  <2>3. pick' \in [Picks -> Auths \cup {None}]
    BY <1>1, <1>2, <1>3 DEF TypeOK, Execution
  <2> QED
    BY <1>1, <1>2, <2>1, <2>2, <2>3 DEF TypeOK, Execution
<1>9. \A e \in Executions : Calling(e)' <=> Calling(e)
  BY <1>7 DEF Calling
<1>10. \A e \in Executions :
         Calling(e) /\ exec[e].token = tok => exec[e].selections = 0
  <2> SUFFICES ASSUME NEW e \in Executions, Calling(e), exec[e].token = tok
               PROVE  exec[e].selections = 0
    OBVIOUS
  <2>1. exec[e].selections \in Nat
    BY <1>1 DEF TypeOK, Execution
  <2>2. exec[e].selections # 1
    BY <1>2 DEF IInv, Matched
  <2>3. exec[e].selections <= 1
    BY DEF IInv, SingleSelection
  <2> QED
    BY <2>1, <2>2, <2>3
<1>11. Matched'
  <2> SUFFICES ASSUME NEW e \in Executions, Calling(e)
               PROVE  /\ exec'[e].token \in Tokens
                      /\ tickets'[exec'[e].token] # None
                      /\ tickets'[exec'[e].token].auth = exec'[e].auth
                      /\ tickets'[exec'[e].token].claimed <=> exec'[e].selections = 1
    BY <1>9 DEF Matched
  <2>1. CASE exec[e].token = tok
    BY <1>5, <1>6, <1>7, <1>10, <2>1 DEF IInv, Matched
  <2>2. CASE exec[e].token # tok
    BY <1>4, <1>7, <2>2 DEF IInv, Matched
  <2> QED
    BY <2>1, <2>2
<1>12. Owned'
  BY <1>2, <1>4, <1>5, <1>7, <1>9 DEF IInv, Owned
<1>13. Distinct'
  BY <1>7, <1>9 DEF IInv, Distinct
<1>14. SingleSelection'
  BY <1>7, <1>10 DEF IInv, SingleSelection
<1>15. OwnershipProven'
  BY <1>7 DEF IInv, OwnershipProven, Calling
<1> QED
  BY <1>8, <1>11, <1>12, <1>13, <1>14, <1>15 DEF IInv

LEMMA FinishPreserves ==
  ASSUME IInv, NEW e \in Executions, Finish(e)
  PROVE  IInv'
<1> DEFINE tok == exec[e].token
           owned == tickets[tok] # None /\ tickets[tok].claimed
<1>1. /\ TypeOK /\ Calling(e) /\ now' = now /\ pick' = pick
      /\ exec' = [exec EXCEPT ![e].phase = "done", ![e].owned = owned]
      /\ tickets' = [tickets EXCEPT ![tok] = None]
  BY DEF IInv, Finish
<1>2. tok \in Tokens /\ (owned <=> exec[e].selections = 1) /\ owned \in BOOLEAN
  BY <1>1 DEF IInv, Matched
<1> HIDE DEF tok, owned
<1>3. /\ exec'[e].phase = "done" /\ exec'[e].owned = owned
      /\ exec'[e].selections = exec[e].selections
      /\ \A f \in Executions : f # e => exec'[f] = exec[f]
      /\ tickets'[tok] = None
      /\ \A u \in Tokens : u # tok => tickets'[u] = tickets[u]
  BY <1>1, <1>2 DEF TypeOK, Execution
<1>4. TypeOK'
  <2>1. exec[e] \in Execution
    BY <1>1 DEF TypeOK
  <2>2. [exec[e] EXCEPT !.phase = "done", !.owned = owned] \in Execution
    BY <1>2, <2>1 DEF Execution
  <2>3. exec' = [exec EXCEPT ![e] = [@ EXCEPT !.phase = "done", !.owned = owned]]
    BY <1>1
  <2>4. exec' \in [Executions -> Execution]
    BY <1>1, <2>2, <2>3 DEF TypeOK
  <2> QED
    BY <1>1, <1>2, <2>4 DEF TypeOK
<1>5. \A f \in Executions : Calling(f)' <=> Calling(f) /\ f # e
  BY <1>3 DEF Calling
<1>6. \A f \in Executions : f # e /\ Calling(f) => exec[f].token # tok
  BY <1>1 DEF IInv, Distinct, tok
<1>7. Matched'
  BY <1>3, <1>5, <1>6 DEF IInv, Matched
<1>8. Owned'
  <2> SUFFICES ASSUME NEW u \in Tokens, tickets'[u] # None
               PROVE  /\ tickets'[u].expires = Never
                      /\ \E f \in Executions : Calling(f)' /\ exec'[f].token = u
    BY DEF Owned
  <2>1. u # tok /\ tickets'[u] = tickets[u]
    BY <1>3
  <2>2. PICK f \in Executions : Calling(f) /\ exec[f].token = u
    BY <2>1 DEF IInv, Owned
  <2>3. f # e
    BY <2>1, <2>2 DEF tok
  <2> QED
    BY <1>3, <1>5, <2>1, <2>2, <2>3 DEF IInv, Owned
<1>9. Distinct'
  BY <1>3, <1>5 DEF IInv, Distinct
<1>10. SingleSelection'
  BY <1>3 DEF IInv, SingleSelection
<1>11. OwnershipProven'
  BY <1>2, <1>3 DEF IInv, OwnershipProven
<1> QED
  BY <1>4, <1>7, <1>8, <1>9, <1>10, <1>11 DEF IInv

LEMMA NextIInv == IInv /\ [Next]_vars => IInv'
<1> SUFFICES ASSUME IInv, [Next]_vars PROVE IInv'
  OBVIOUS
<1> USE DEF IInv, TypeOK, Execution, Matched, Owned, Distinct, SingleSelection,
            OwnershipProven, Calling
<1>1. ASSUME NEW tok \in Tokens, Refuse(tok) PROVE IInv'
  <2>1. tickets' = tickets
    BY <1>1, NothingExpires DEF Refuse
  <2> QED
    BY <1>1, <2>1 DEF Refuse
<1>2. ASSUME NEW p \in Picks, Answer(p) PROVE IInv'
  BY <1>2 DEF Answer
<1>3. CASE Tick
  BY <1>3, TicketAssumption DEF Tick
<1>4. CASE UNCHANGED vars
  BY <1>4 DEF vars
<1> QED
  BY <1>1, <1>2, <1>3, <1>4, IssuePreserves, ClaimPreserves, FinishPreserves DEF Next

LEMMA IInvHolds == Spec => []IInv
BY InitIInv, NextIInv, PTL DEF Spec

----------------------------------------------------------------------------
(* Every variable keeps its type. *)
THEOREM TypeInvariant == Spec => []TypeOK
BY IInvHolds, PTL DEF IInv

(* A ticket is there as long as its execution is in progress               *)
(* (issueExecutionTicketV8 gives it no expiry that a clean-up could see).  *)
THEOREM TicketsKept == Spec => []LiveTicketKept
<1>1. IInv => LiveTicketKept
  BY DEF IInv, Matched, LiveTicketKept
<1> QED
  BY <1>1, IInvHolds, PTL

(* At most one credential selection per execution, however many picks the  *)
(* host makes and however they interleave (claimTicket).                   *)
THEOREM SelectionsSingle == Spec => []SingleSelection
BY IInvHolds, PTL DEF IInv

(* What finishExecutionTicket reports is what happened: owned exactly if a *)
(* pick claimed the ticket during the execution.                           *)
THEOREM OwnershipsProven == Spec => []OwnershipProven
BY IInvHolds, PTL DEF IInv

(* The table holds exactly the tickets of the executions in progress.      *)
THEOREM TicketsOwned == Spec => []NoStrayTicket
<1>1. IInv => NoStrayTicket
  BY DEF IInv, Owned, Distinct, NoStrayTicket
<1> QED
  BY <1>1, IInvHolds, PTL

----------------------------------------------------------------------------
(* The tickets together with the identities they name (PinnedExecution).   *)


\* What a policy or an execution knows of a candidate.
Cand ==
  [id : Ids \cup {Unbound}, index : Indexes, provider : {Provider[i] : i \in Ids},
   account : {Account[i] : i \in Ids}, picked : BOOLEAN]

\* A live ID that c's index and provider may mean.
Possible(id, c) == id \in Ids /\ Same(Resource(id, id), c)

\* A candidate is bound to a live ID of its index; if the operator picked that, it is
\* of the account meant; and the account meant is one that the index may mean.
Fits(c) ==
  /\ c \in Cand
  /\ c.id # Unbound => Possible(c.id, c)
  /\ c.picked => c.id # Unbound /\ Account[c.id] = c.account
  /\ \E i \in Ids : Possible(i, c) /\ Account[i] = c.account

\* What a candidate may be pinned to.
Pinnable(id, c) == Possible(id, c) /\ (c.id # Unbound => id = c.id)

Scoped(w) ==
  /\ Fits(w.cand)
  /\ w.cand.id # Unbound =>
       w.prefix \in {Unbound} \cup {Prefix[i] : i \in Lenders(w.cand.id, w.steady)}

\* What was listed are credentials there may be, and entries that config.yaml had.
Read(w) ==
  /\ Fits(w.cand)
  /\ w.env.files \subseteq Ids \ Configured
  /\ w.env.entries \subseteq w.read /\ w.read \subseteq Configured

WorkOK(e) ==
  /\ work[e].at = "listed" => Read(work[e])
  /\ work[e].at = "scoped" => Scoped(work[e])
  /\ work[e].at = "pinned" =>
       /\ Scoped(work[e]) /\ Pinnable(work[e].pin, work[e].cand)
       /\ Calling(e) /\ exec[e].auth = work[e].pin

AskedOK(p) ==
  pick[p] # None =>
    /\ Fits(asked[p].for.cand) /\ Pinnable(asked[p].for.pin, asked[p].for.cand)
    /\ pick[p] = asked[p].for.pin

AnswerOK ==
  answer = NoAnswer
    \/ /\ Fits(answer.for.cand) /\ Pinnable(answer.for.pin, answer.for.cand)
       /\ answer.id = answer.for.pin

Identities ==
  /\ registry \subseteq Ids /\ config \subseteq Configured
  /\ DOMAIN policy = Candidates
  /\ \A c \in Candidates : Fits(policy[c])

PinnedInv ==
  /\ IInv
  /\ Identities
  /\ DOMAIN work = Executions /\ DOMAIN asked = Picks
  /\ \A e \in Executions : WorkOK(e)
  /\ \A p \in Picks : AskedOK(p)
  /\ AnswerOK

----------------------------------------------------------------------------
(* Resolving and binding.                                                  *)

(* What stands alone is a member. *)
LEMMA OnlyMember ==
  ASSUME NEW S
  PROVE  Only(S) \in S \cup {Unbound}
<1>1. CASE Cardinality(S) = 1
  <2>1. S # {}
    BY <1>1, FS_EmptySet
  <2> QED
    BY <2>1 DEF Only
<1>2. CASE Cardinality(S) # 1
  BY <1>2 DEF Only
<1> QED
  BY <1>1, <1>2

(* Only entries of config.yaml with its index and provider stand for c. *)
LEMMA EntriesPossible ==
  ASSUME Identities, NEW c
  PROVE  Only(Entries(c)) # Unbound => Possible(Only(Entries(c)), c)
<1>1. Entries(c) \subseteq Ids /\ \A k \in Entries(c) : Same(Resource(k, k), c)
  BY IdentityAssumption DEF Identities, Entries
<1> QED
  BY <1>1, OnlyMember DEF Possible

(* What a candidate resolves to. *)
LEMMA LiveIdsPinnable ==
  ASSUME Identities, NEW c, Fits(c), NEW id \in LiveIds(c), id # Unbound
  PROVE  Pinnable(id, c)
<1>1. CASE c.id # Unbound
  BY <1>1 DEF LiveIds, Fits, Pinnable
<1>2. CASE c.id = Unbound
  <2>1. id \in ByIndex(c)
    BY <1>2 DEF LiveIds
  <2>2. ListedId(c) # Unbound => Possible(ListedId(c), c)
    <3> DEFINE S == {f \in Files : Same(Resource(f, f), c)}
    <3>1. S \subseteq Ids /\ \A f \in S : Same(Resource(f, f), c)
      BY DEF Identities, Files
    <3>2. ListedId(c) = Only(S)
      BY DEF ListedId
    <3> HIDE DEF S
    <3> QED
      BY <3>1, <3>2, OnlyMember DEF Possible
  <2>3. Possible(id, c)
    BY <2>1, <2>2, EntriesPossible DEF ByIndex
  <2> QED
    BY <1>2, <2>3 DEF Pinnable
<1> QED
  BY <1>1, <1>2

(* What is listed are auth files and entries. *)
LEMMA EnvironmentsRead ==
  ASSUME Identities, NEW env \in Environments
  PROVE  env.files \subseteq Ids \ Configured /\ env.entries \subseteq config
BY DEF Environments, FirstOfEach, Files, Identities

(* The live ID that is found for an entry is another entry's with its      *)
(* index and provider, or its own.                                         *)
LEMMA EntryIdsPossible ==
  ASSUME Identities, NEW k, NEW id \in EntryIds(k), id # Unbound
  PROVE  id \in config /\ Possible(id, Resource(k, k)) /\ (k \in config => id = k)
<1> DEFINE S == Entries(Resource(k, k))
<1>1. id = Only(S)
  BY DEF EntryIds
<1>2. Possible(id, Resource(k, k))
  BY <1>1, EntriesPossible
<1>3. S \subseteq config /\ (k \in config => k \in S)
  BY DEF Entries, Same
<1>4. IsFiniteSet(S)
  BY <1>3, FS_Subset, IdentityAssumption DEF Identities
<1>5. Cardinality(S) = 1
  BY <1>1 DEF Only
<1> HIDE DEF S
<1>6. PICK x : S = {x}
  BY <1>4, <1>5, FS_Singleton
<1>7. id \in S
  BY <1>1, OnlyMember
<1> QED
  BY <1>2, <1>3, <1>6, <1>7

(* A resource is an auth file, or an entry with the live ID found for it. *)
LEMMA ResourceOrigin ==
  ASSUME NEW env, NEW resources \in ResourceLists(env), NEW r \in resources
  PROVE  \/ \E f \in env.files : r = Resource(f, f)
         \/ \E k \in env.entries : \E id \in EntryIds(k) : r = Resource(id, k)
BY DEF ResourceLists

(* Every resource with a live ID has the index and provider of that ID. *)
LEMMA ResourcesFit ==
  ASSUME Identities, NEW env \in Environments, NEW resources \in ResourceLists(env),
         NEW r \in resources, r.id # Unbound
  PROVE  r.id \in Ids /\ r.index = Index[r.id] /\ r.provider = Provider[r.id]
<1>1. CASE \E f \in env.files : r = Resource(f, f)
  <2>1. env.files \subseteq Ids
    BY EnvironmentsRead
  <2> QED
    BY <1>1, <2>1 DEF Resource
<1>2. CASE \E k \in env.entries : \E id \in EntryIds(k) : r = Resource(id, k)
  <2>0. PICK k \in env.entries : \E id \in EntryIds(k) : r = Resource(id, k)
    BY <1>2
  <2>1. PICK id \in EntryIds(k) : r = Resource(id, k)
    BY <2>0
  <2>2. r.id = id /\ r.index = Index[k] /\ r.provider = Provider[k]
    BY <2>1 DEF Resource
  <2>3. Possible(id, Resource(k, k))
    BY <2>2, EntryIdsPossible
  <2> QED
    BY <2>2, <2>3 DEF Possible, Same, Resource
<1> QED
  BY <1>1, <1>2, ResourceOrigin

(* Binding a candidate keeps what is known of it. *)
LEMMA ReboundFits ==
  ASSUME Identities, NEW c, Fits(c), NEW env \in Environments,
         NEW resources \in ResourceLists(env)
  PROVE  Fits(Rebound(c, resources))
<1> DEFINE matches == {r \in resources : Same(r, c)}
<1>1. CASE c.id = Unbound /\ Cardinality(matches) = 1
  <2>1. PICK r \in matches : r = CHOOSE x \in matches : TRUE
    BY <1>1, FS_EmptySet
  <2>2. Rebound(c, resources) = [c EXCEPT !.id = r.id]
    BY <1>1, <2>1 DEF Rebound
  <2>3. ~c.picked /\ c \in Cand
    BY <1>1 DEF Fits
  <2>4. r.id # Unbound => Possible(r.id, c)
    BY <2>1, ResourcesFit DEF Possible, Same, Resource
  <2>5. r.id \in Ids \cup {Unbound}
    BY <2>4 DEF Possible
  <2> DEFINE d == [c EXCEPT !.id = r.id]
  <2>6. d \in Cand /\ d.id = r.id /\ d.index = c.index /\ d.provider = c.provider
          /\ d.account = c.account /\ d.picked = c.picked
    BY <2>3, <2>5 DEF Cand
  <2> HIDE DEF d
  <2>7. \A i : Possible(i, c) <=> Possible(i, d)
    BY <2>6 DEF Possible, Same
  <2> QED
    BY <2>2, <2>3, <2>4, <2>6, <2>7 DEF Fits, d
<1>2. CASE ~(c.id = Unbound /\ Cardinality(matches) = 1)
  BY <1>2 DEF Rebound
<1> QED
  BY <1>1, <1>2

(* Picking a credential by its live ID, or by its index alone. *)
LEMMA ChosenFits ==
  ASSUME NEW i \in Ids, NEW id \in {i, Unbound}
  PROVE  Fits(Chosen(Resource(id, i), Account[i]))
<1> DEFINE c == Chosen(Resource(id, i), Account[i])
<1>1. c.id = id /\ c.index = Index[i] /\ c.provider = Provider[i]
        /\ c.account = Account[i] /\ c.picked = (id # Unbound)
  BY DEF Chosen, Resource
<1>2. c \in Cand
  BY IdentityAssumption DEF Chosen, Resource, Cand
<1>3. Possible(i, c)
  BY <1>1 DEF Possible, Same, Resource
<1> HIDE DEF c
<1> QED
  BY <1>1, <1>2, <1>3 DEF Fits, c

(* Whatever the page sends is a candidate that fits. *)
LEMMA SentFits ==
  ASSUME Identities, NEW c \in Candidates, NEW x \in Sent(c)
  PROVE  Fits(x)
<1>1. CASE x = policy[c]
  BY <1>1 DEF Identities
<1>2. ASSUME NEW id \in Ids \cup {Unbound}, x = [policy[c] EXCEPT !.id = id],
             ~x.picked, x.id # Unbound => Same(Resource(x.id, x.id), x)
      PROVE  Fits(x)
  <2>1. Fits(policy[c]) /\ policy[c] \in Cand
    BY DEF Identities, Fits
  <2>2. x \in Cand /\ x.id = id /\ x.index = policy[c].index /\ x.provider = policy[c].provider
          /\ x.account = policy[c].account
    BY <1>2, <2>1 DEF Cand
  <2>3. \A i : Possible(i, policy[c]) <=> Possible(i, x)
    BY <2>2 DEF Possible, Same
  <2> QED
    BY <1>2, <2>1, <2>2, <2>3 DEF Fits, Possible
<1>3. CASE \E i \in Ids : x = Chosen(Resource(i, i), Account[i])
  BY <1>3, ChosenFits
<1>4. CASE \E i \in Configured : x = Chosen(Resource(Unbound, i), Account[i])
  BY <1>4, ChosenFits, IdentityAssumption
<1> QED
  BY <1>1, <1>2, <1>3, <1>4 DEF Sent

(* Whose prefix the resource of a bound candidate may have: the entry that *)
(* was listed lends its own, and is the candidate's if config.yaml is      *)
(* still the same; the host lends that of an auth file with the index.     *)
LEMMA PrefixesScoped ==
  ASSUME Identities, NEW w, Read(w), w.cand.id # Unbound,
         NEW steady, steady => w.read = config,
         NEW prefix \in ScopedPrefixes(w.cand, w.env), prefix # Unbound
  PROVE  \E i \in Lenders(w.cand.id, steady) : prefix = Prefix[i]
<1> DEFINE c == w.cand
           env == w.env
           read == w.read
<1>0. /\ Fits(c) /\ c.id # Unbound
      /\ env.files \subseteq Ids \ Configured /\ env.entries \subseteq read
      /\ read \subseteq Configured /\ (steady => read = config)
      /\ prefix \in ScopedPrefixes(c, env)
  BY DEF Read
<1> HIDE DEF c, env, read
<1>1. LiveIds(c) = {c.id} /\ c.id \in Ids
  BY <1>0 DEF LiveIds, Fits, Possible
<1>2. PICK resources \in ResourceLists(env) :
        \E r \in ExactResource(c, c.id, resources) : prefix \in PrefixesOf(r)
  BY <1>0, <1>1 DEF ScopedPrefixes
<1>3. PICK r \in resources : r.id = c.id /\ prefix \in PrefixesOf(r)
  BY <1>2 DEF ExactResource
<1>4. CASE \E f \in env.files : r = Resource(f, f)
  <2>1. PICK f \in env.files : r = Resource(f, f)
    BY <1>4
  <2>2. r.id = f /\ r.from = f /\ r.index = Index[f] /\ f \notin Configured
    BY <1>0, <2>1 DEF Resource
  <2>3. PICK g \in Files : Index[g] = r.index /\ prefix = Prefix[g]
    BY <1>3, <2>2 DEF PrefixesOf
  <2>4. g \in Ids
    BY DEF Files, Identities
  <2> QED
    BY <1>3, <2>2, <2>3, <2>4 DEF Lenders, c
<1>5. CASE \E k \in env.entries : \E id \in EntryIds(k) : r = Resource(id, k)
  <2>0. PICK k \in env.entries : \E id \in EntryIds(k) : r = Resource(id, k)
    BY <1>5
  <2>1. PICK id \in EntryIds(k) : r = Resource(id, k)
    BY <2>0
  <2>2. r.id = id /\ r.from = k /\ k \in Configured /\ k \in Ids /\ k \in read
    BY <1>0, <2>1, IdentityAssumption DEF Resource
  <2>3. prefix = Prefix[k]
    BY <1>3, <2>2 DEF PrefixesOf
  <2>4. id \in config /\ Possible(id, Resource(k, k)) /\ (k \in config => id = k)
    BY <1>0, <1>3, <2>2, EntryIdsPossible
  <2>5. Index[k] = Index[id] /\ Provider[k] = Provider[id]
    BY <2>4 DEF Possible, Same, Resource
  <2>6. k = id \/ ~steady
    BY <1>0, <2>2, <2>4
  <2>7. k \in Lenders(c.id, steady)
    BY <1>3, <2>2, <2>5, <2>6 DEF Lenders
  <2> QED
    BY <2>3, <2>7 DEF c
<1> QED
  BY <1>2, <1>3, <1>4, <1>5, ResourceOrigin

----------------------------------------------------------------------------
(* The steps.                                                              *)

(* The credentials and the policies change. *)
LEMMA ManageKept ==
  ASSUME Identities, ManageIdentity
  PROVE  Identities'
<1>1. CASE FilesChange
  BY <1>1 DEF FilesChange, Identities
<1>2. CASE ConfigChanges
  BY <1>2 DEF ConfigChanges, Identities
<1>3. CASE ConfigLoaded
  BY <1>3, IdentityAssumption DEF ConfigLoaded, Identities, Files
<1>4. CASE SavePolicy
  <2>1. PICK resources \in UNION {ResourceLists(env) : env \in Environments},
             sent \in [Candidates -> UNION {Sent(c) : c \in Candidates}] :
          /\ \A c \in Candidates : sent[c] \in Sent(c)
          /\ policy' = [c \in Candidates |-> Rebound(sent[c], resources)]
    BY <1>4 DEF SavePolicy
  <2>2. PICK env \in Environments : resources \in ResourceLists(env)
    BY <2>1
  <2>3. \A c \in Candidates : Fits(Rebound(sent[c], resources))
    BY <2>1, <2>2, SentFits, ReboundFits
  <2> QED
    BY <1>4, <2>1, <2>3 DEF SavePolicy, Identities
<1> QED
  BY <1>1, <1>2, <1>3, <1>4 DEF ManageIdentity

(* Every step is a step of the tickets. *)
LEMMA TicketStep ==
  ASSUME PinnedInv, [PinnedNext]_pinnedVars
  PROVE  [Next]_vars
<1>1. CASE UNCHANGED pinnedVars
  BY <1>1 DEF pinnedVars
<1>2. ASSUME NEW e \in Executions, List(e) \/ Scope(e) \/ Pin(e) \/ PinFails(e) \/ PinnedFinish(e)
      PROVE  [Next]_vars
  <2>1. CASE List(e) \/ Scope(e) \/ PinFails(e)
    BY <2>1 DEF List, Scope, PinFails
  <2>2. CASE Pin(e)
    <3>1. PICK id \in LiveIds(work[e].cand) \ {Unbound}, tok \in Tokens :
            Issue(e, tok, id)
      BY <2>2 DEF Pin, TicketIdentity
    <3>2. id \in Auths
      <4>1. Fits(work[e].cand)
        BY <2>2 DEF Pin, PinnedInv, WorkOK, Read, Scoped
      <4> QED
        BY <3>1, <4>1, LiveIdsPinnable, AuthsAssumption DEF Pinnable, Possible, PinnedInv
    <3> QED
      BY <3>1, <3>2 DEF Next
  <2>3. CASE PinnedFinish(e)
    BY <2>3 DEF PinnedFinish, Next
  <2> QED
    BY <1>2, <2>1, <2>2, <2>3
<1>3. ASSUME NEW p \in Picks, NEW e \in Executions, PickClaimed(p, e)
      PROVE  [Next]_vars
  <2>1. exec[e].token \in Tokens /\ Claim(p, exec[e].token)
    BY <1>3 DEF PickClaimed, PinnedInv, WorkOK, IInv, Matched
  <2> QED
    BY <2>1 DEF Next
<1>4. CASE Tick \/ \E tok \in Tokens : Refuse(tok)
  BY <1>4 DEF Next
<1>5. CASE UNCHANGED vars
  BY <1>5
<1>6. ASSUME NEW p \in Picks, PickAnswered(p)
      PROVE  [Next]_vars
  BY <1>6 DEF PickAnswered, Next
<1> QED
  BY <1>1, <1>2, <1>3, <1>4, <1>5, <1>6 DEF PinnedNext, Others

\* What a step of the executions keeps besides the tickets.
Rest ==
  /\ DOMAIN work = Executions /\ DOMAIN asked = Picks
  /\ \A e \in Executions : WorkOK(e)
  /\ \A p \in Picks : AskedOK(p)
  /\ AnswerOK

(* Steps on the tickets alone, and those of the identities, leave the      *)
(* executions' work as it is.                                              *)
LEMMA RestAlone ==
  ASSUME Rest, UNCHANGED <<work, asked, pick>>, answer' = answer \/ answer' = NoAnswer,
         \A e \in Executions : Calling(e) => Calling(e)' /\ exec'[e].auth = exec[e].auth
  PROVE  Rest'
<1>1. \A e \in Executions : WorkOK(e)'
  BY DEF Rest, WorkOK, Read, Scoped
<1>2. \A p \in Picks : AskedOK(p)'
  BY DEF Rest, AskedOK
<1>3. AnswerOK'
  BY DEF Rest, AnswerOK, NoAnswer
<1> QED
  BY <1>1, <1>2, <1>3 DEF Rest

(* A step of one execution's work. *)
LEMMA WorkMoves ==
  ASSUME Rest, NEW e \in Executions, NEW w, work' = [work EXCEPT ![e] = w],
         UNCHANGED <<asked, pick>>, answer' = NoAnswer,
         \A f \in Executions \ {e} : Calling(f) => Calling(f)' /\ exec'[f].auth = exec[f].auth,
         w.at = "listed" => Read(w), w.at = "scoped" => Scoped(w),
         w.at = "pinned" =>
           /\ Scoped(w) /\ Pinnable(w.pin, w.cand)
           /\ Calling(e)' /\ exec'[e].auth = w.pin
  PROVE  Rest'
<1>1. work'[e] = w /\ \A f \in Executions \ {e} : work'[f] = work[f]
  BY DEF Rest
<1>2. WorkOK(e)'
  BY <1>1 DEF WorkOK, Read, Scoped
<1>3. \A f \in Executions \ {e} : WorkOK(f)'
  BY <1>1 DEF Rest, WorkOK, Read, Scoped
<1>4. \A p \in Picks : AskedOK(p)'
  BY DEF Rest, AskedOK
<1> QED
  BY <1>1, <1>2, <1>3, <1>4 DEF Rest, AnswerOK, NoAnswer

(* The resources of a candidate of the policy are listed. *)
LEMMA ListKept ==
  ASSUME PinnedInv, NEW e \in Executions, List(e), answer' = NoAnswer
  PROVE  Rest'
<1>1. PICK c \in Candidates, env \in Environments :
        work' = [work EXCEPT ![e] =
          [at |-> "listed", cand |-> policy[c], env |-> env, read |-> config]]
  BY DEF List
<1> DEFINE w == [at |-> "listed", cand |-> policy[c], env |-> env, read |-> config]
<1>2. Fits(policy[c]) /\ config \subseteq Configured
  BY DEF PinnedInv, Identities
<1>3. Read(w)
  BY <1>2, EnvironmentsRead DEF Read, PinnedInv
<1>4. UNCHANGED <<exec, asked, pick>>
  BY DEF List, vars
<1>5. Rest
  BY DEF PinnedInv, Rest
<1> QED
  BY <1>1, <1>3, <1>4, <1>5, WorkMoves DEF Calling

(* The model is scoped for it. *)
LEMMA ScopeKept ==
  ASSUME PinnedInv, NEW e \in Executions, Scope(e), answer' = NoAnswer
  PROVE  Rest'
<1>1. PICK w : w = work[e]
  OBVIOUS
<1>2. PICK prefix \in ScopedPrefixes(w.cand, w.env), steady \in {w.read = config} :
        work' = [work EXCEPT ![e] =
          [at |-> "scoped", cand |-> w.cand, prefix |-> prefix, steady |-> steady]]
  BY <1>1 DEF Scope
<1>3. Read(w) /\ Identities
  BY <1>1 DEF Scope, PinnedInv, WorkOK
<1>4. w.cand.id # Unbound /\ prefix # Unbound =>
        \E i \in Lenders(w.cand.id, steady) : prefix = Prefix[i]
  <2>1. steady => w.read = config
    BY <1>2
  <2> QED
    BY <1>3, <2>1, PrefixesScoped
<1> DEFINE x == [at |-> "scoped", cand |-> w.cand, prefix |-> prefix, steady |-> steady]
<1>5. x.at = "scoped" /\ x.cand = w.cand /\ x.prefix = prefix /\ x.steady = steady
  OBVIOUS
<1>6. work' = [work EXCEPT ![e] = x]
  BY <1>2
<1> HIDE DEF x
<1>7. Scoped(x)
  BY <1>3, <1>4, <1>5 DEF Scoped, Read
<1>8. UNCHANGED <<exec, asked, pick>>
  BY DEF Scope, vars
<1>9. Rest
  BY DEF PinnedInv, Rest
<1> QED
  BY <1>5, <1>6, <1>7, <1>8, <1>9, WorkMoves DEF Calling

(* The execution pins what its candidate resolves to. *)
LEMMA PinKept ==
  ASSUME PinnedInv, NEW e \in Executions, Pin(e), answer' = NoAnswer
  PROVE  Rest'
<1>1. PICK id \in LiveIds(work[e].cand) \ {Unbound}, tok \in Tokens :
        /\ Issue(e, tok, id)
        /\ work' = [work EXCEPT ![e] =
             [at |-> "pinned", cand |-> work[e].cand, prefix |-> work[e].prefix,
              steady |-> work[e].steady, pin |-> id]]
  BY DEF Pin, TicketIdentity
<1> DEFINE w == [at |-> "pinned", cand |-> work[e].cand, prefix |-> work[e].prefix,
                 steady |-> work[e].steady, pin |-> id]
<1>2. Scoped(work[e])
  BY DEF Pin, PinnedInv, WorkOK
<1>3. Scoped(w) /\ Pinnable(id, work[e].cand)
  BY <1>2, LiveIdsPinnable DEF Scoped, PinnedInv
<1>4. /\ UNCHANGED <<asked, pick>>
      /\ Calling(e)' /\ exec'[e].auth = id
      /\ \A f \in Executions \ {e} : exec'[f] = exec[f]
  BY <1>1 DEF Pin, Issue, Calling, PinnedInv, IInv, TypeOK
<1>5. Rest
  BY DEF PinnedInv, Rest
<1> QED
  BY <1>1, <1>3, <1>4, <1>5, WorkMoves DEF Calling

(* The execution is over, or does not begin. *)
LEMMA EndKept ==
  ASSUME PinnedInv, NEW e \in Executions, PinFails(e) \/ PinnedFinish(e), answer' = NoAnswer
  PROVE  Rest'
<1>1. work' = [work EXCEPT ![e] = NoWork] /\ UNCHANGED <<asked, pick>>
  BY DEF PinFails, PinnedFinish, Finish, vars
<1>2. \A f \in Executions \ {e} : exec'[f] = exec[f]
  BY DEF PinFails, PinnedFinish, Finish, vars, PinnedInv, IInv, TypeOK
<1>3. Rest
  BY DEF PinnedInv, Rest
<1> QED
  BY <1>1, <1>2, <1>3, WorkMoves DEF Calling, NoWork

(* The ticket that a pick claims names what its execution pinned. *)
LEMMA ClaimKept ==
  ASSUME PinnedInv, NEW p \in Picks, NEW e \in Executions, PickClaimed(p, e), answer' = NoAnswer
  PROVE  Rest'
<1> DEFINE tok == exec[e].token
<1>1. /\ work[e].at = "pinned" /\ Claim(p, tok) /\ UNCHANGED work
      /\ asked' = [asked EXCEPT ![p] = [at |-> "asked", for |-> work[e], offered |-> registry]]
  BY DEF PickClaimed
<1>2. WorkOK(e) /\ Rest /\ IInv
  BY DEF PinnedInv, Rest
<1>3. tok \in Tokens /\ tickets[tok].auth = work[e].pin /\ Cleaned = tickets
  BY <1>1, <1>2, NothingExpires DEF WorkOK, IInv, Matched
<1>4. pick'[p] = work[e].pin /\ \A q \in Picks \ {p} : pick'[q] = pick[q]
  BY <1>1, <1>2, <1>3 DEF Claim, IInv, TypeOK
<1>5. \A f \in Executions : Calling(f) => Calling(f)' /\ exec'[f].auth = exec[f].auth
  <2>1. exec' = [f \in Executions |->
          IF Calling(f) /\ exec[f].token = tok THEN [exec[f] EXCEPT !.selections = @ + 1] ELSE exec[f]]
    BY <1>1 DEF Claim
  <2>2. \A f \in Executions : exec[f] \in Execution
    BY <1>2 DEF IInv, TypeOK
  <2> QED
    BY <2>1, <2>2 DEF Calling, Execution
<1>6. \A f \in Executions : WorkOK(f)'
  BY <1>1, <1>2, <1>5 DEF Rest, WorkOK, Read, Scoped
<1>7. asked'[p].for = work[e] /\ \A q \in Picks \ {p} : asked'[q] = asked[q]
  BY <1>1, <1>2 DEF Rest
<1>8. AskedOK(p)'
  BY <1>1, <1>2, <1>4, <1>7 DEF WorkOK, AskedOK, Scoped
<1>9. \A q \in Picks \ {p} : AskedOK(q)'
  BY <1>2, <1>4, <1>7 DEF Rest, AskedOK
<1> QED
  BY <1>1, <1>2, <1>6, <1>8, <1>9 DEF Rest, AnswerOK, NoAnswer

(* A pick answers what its ticket names. *)
LEMMA AnswerKept ==
  ASSUME PinnedInv, NEW p \in Picks, PickAnswered(p)
  PROVE  Rest'
<1>1. /\ pick[p] # None /\ pick' = [pick EXCEPT ![p] = None]
      /\ asked' = [asked EXCEPT ![p] = NoWork] /\ UNCHANGED <<exec, work>>
  BY DEF PickAnswered, Answer
<1>2. AskedOK(p) /\ Rest /\ IInv
  BY DEF PinnedInv, Rest
<1>3. pick[p] \in Ids /\ pick[p] = asked[p].for.pin
  BY <1>1, <1>2 DEF AskedOK, Pinnable, Possible
<1>4. Resolved(pick[p], asked[p].for.cand) = {pick[p]}
  BY <1>3 DEF Resolved
<1>5. answer' \in {[id |-> pick[p], for |-> asked[p].for], NoAnswer}
  BY <1>4 DEF PickAnswered
<1>6. AnswerOK'
  BY <1>1, <1>2, <1>3, <1>5 DEF AskedOK, AnswerOK, NoAnswer
<1>7. \A q \in Picks : AskedOK(q)'
  BY <1>1, <1>2 DEF Rest, AskedOK, IInv, TypeOK
<1>8. \A f \in Executions : WorkOK(f)'
  BY <1>1, <1>2 DEF Rest, WorkOK, Scoped, Calling
<1> QED
  BY <1>1, <1>2, <1>6, <1>7, <1>8 DEF Rest

(* Every step keeps the invariant. *)
LEMMA PinnedInductive ==
  ASSUME PinnedInv, [PinnedNext]_pinnedVars
  PROVE  PinnedInv'
<1>1. IInv'
  BY TicketStep, NextIInv DEF PinnedInv
<1>2. Identities'
  <2>1. CASE UNCHANGED identity
    BY <2>1 DEF identity, PinnedInv, Identities
  <2>2. CASE ManageIdentity
    BY <2>2, ManageKept DEF PinnedInv
  <2> QED
    BY <2>1, <2>2 DEF PinnedNext, Others, List, Scope, Pin, PinFails, PinnedFinish, PickClaimed,
                      PickAnswered, pinnedVars
<1>3. Rest
  BY DEF PinnedInv, Rest
<1>4. Rest'
  <2>1. CASE UNCHANGED pinnedVars
    BY <1>3, <2>1, RestAlone DEF pinnedVars, vars, Calling
  <2>2. CASE \E p \in Picks : PickAnswered(p)
    BY <2>2, AnswerKept
  <2>3. CASE answer' = NoAnswer /\ \E e \in Executions : List(e) \/ Scope(e) \/ Pin(e) \/ PinFails(e) \/ PinnedFinish(e)
    BY <2>3, ListKept, ScopeKept, PinKept, EndKept
  <2>4. CASE answer' = NoAnswer /\ \E p \in Picks, e \in Executions : PickClaimed(p, e)
    BY <2>4, ClaimKept
  <2>5. CASE answer' = NoAnswer /\ (Tick \/ \E tok \in Tokens : Refuse(tok)) /\ UNCHANGED <<work, asked>>
    BY <1>3, <2>5, RestAlone DEF Tick, Refuse, Calling
  <2>6. CASE answer' = NoAnswer /\ UNCHANGED <<vars, work, asked>>
    BY <1>3, <2>6, RestAlone DEF vars, Calling
  <2> QED
    BY <2>1, <2>2, <2>3, <2>4, <2>5, <2>6 DEF PinnedNext, Others
<1> QED
  BY <1>1, <1>2, <1>4 DEF PinnedInv, Rest

(* It holds in the beginning. *)
LEMMA PinnedInitially == PinnedInit => PinnedInv
<1> SUFFICES ASSUME PinnedInit
             PROVE  PinnedInv
  OBVIOUS
<1>1. IInv
  BY InitIInv DEF PinnedInit
<1>2. Identities
  <2>1. PICK meant \in [Candidates -> Ids], bound \in SUBSET Candidates :
          policy = [c \in Candidates |->
            Chosen(Resource(IF c \in bound THEN meant[c] ELSE Unbound, meant[c]), Account[meant[c]])]
    BY DEF PinnedInit, InitIdentity
  <2>2. \A c \in Candidates : Fits(policy[c])
    BY <2>1, ChosenFits
  <2> QED
    BY <2>1, <2>2 DEF PinnedInit, InitIdentity, Identities
<1>3. \A e \in Executions : WorkOK(e)
  BY DEF PinnedInit, WorkOK, NoWork
<1>4. \A p \in Picks : AskedOK(p)
  BY DEF PinnedInit, Init, AskedOK
<1> QED
  BY <1>1, <1>2, <1>3, <1>4 DEF PinnedInit, PinnedInv, AnswerOK

(* It always holds. *)
LEMMA PinnedAlways == PinnedSpec => []PinnedInv
BY PinnedInitially, PinnedInductive, PTL DEF PinnedSpec

----------------------------------------------------------------------------
(* What the executions promise.                                            *)

(* Resolving identities, and answering picks late, is no more than using   *)
(* the tickets: all that holds of them holds here.                         *)
THEOREM UsesTickets == PinnedSpec => Spec
<1>1. PinnedInit => Init
  BY DEF PinnedInit
<1>2. PinnedInv /\ [PinnedNext]_pinnedVars => [Next]_vars
  BY TicketStep
<1> QED
  BY <1>1, <1>2, PinnedAlways, PTL DEF PinnedSpec, Spec

(* The scheduler answers what the execution pinned, whatever was reloaded, *)
(* rebound or removed in between (executeCandidateV4 binds the ticket to   *)
(* @live-id: of the pin, handleSchedulerPick takes that as it is).         *)
THEOREM PinsAnswered == PinnedSpec => []AnswersPin
<1>1. PinnedInv => AnswersPin
  BY DEF PinnedInv, AnswerOK, AnswersPin
<1> QED
  BY <1>1, PinnedAlways, PTL

(* The account is the one that the operator meant, as long as what the     *)
(* operator picked determines one (exactRebindResourceV10,                 *)
(* liveIDForCandidateV10, resolveAuthIDByIndex).                           *)
THEOREM ChosenServed == PinnedSpec => []ServesChosen
<1>1. PinnedInv => ServesChosen
  <2> SUFFICES ASSUME PinnedInv, answer # NoAnswer, Sure(answer.for.cand)
               PROVE  Account[answer.id] = answer.for.cand.account
    BY DEF ServesChosen
  <2> DEFINE c == answer.for.cand
  <2>1. Fits(c) /\ Pinnable(answer.id, c)
    BY DEF PinnedInv, AnswerOK
  <2>2. CASE c.picked
    BY <2>1, <2>2 DEF Fits, Pinnable
  <2>3. CASE ~c.picked
    <3>1. PICK i \in Ids : Possible(i, c) /\ Account[i] = c.account
      BY <2>1 DEF Fits
    <3> QED
      BY <2>1, <2>3, <3>1 DEF Sure, Pinnable, Possible
  <2> QED
    BY <2>2, <2>3
<1> QED
  BY <1>1, PinnedAlways, PTL

(* A bound candidate's model carries its credential's prefix or none, but  *)
(* for the lenders the code has: an entry with the same AuthIndex if       *)
(* config.yaml changed between the two readings (resourcesWithExactIDsV10),*)
(* an auth file with the same AuthIndex (authPrefixByIndexV10).            *)
THEOREM PrefixesPinned == PinnedSpec => []PrefixOfPin
<1>1. PinnedInv => PrefixOfPin
  BY DEF PinnedInv, WorkOK, Scoped, Pinnable, PrefixOfPin
<1> QED
  BY <1>1, PinnedAlways, PTL
===============================================================================
