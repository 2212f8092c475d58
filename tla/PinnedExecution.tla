-------------------------- MODULE PinnedExecution --------------------------
(***************************************************************************)
(* Execution tickets and live identities together: executeCandidateV4      *)
(* scopes the model for a candidate, resolves the candidate's live ID,     *)
(* pins it with a ticket and calls the host with the same ID; and the      *)
(* host's scheduler.pick is answered from the ticket.  Meanwhile auth      *)
(* files, config.yaml, CPA's credentials and the policies change.          *)
(***************************************************************************)
EXTENDS ExecutionTicket, LiveIdentity

\* A ticket names a live ID (with the prefix @live-id:) or an AuthIndex.
ASSUME AuthsAssumption == Auths = Ids \cup Indexes

VARIABLES
  work,     \* what every execution works on
  asked,    \* what every pick past its claim was asked with
  answer    \* history: what a pick has just answered, and for whom

pinnedVars == <<vars, identity, work, asked, answer>>

NoWork == [at |-> "idle"]
NoAnswer == [id |-> Unbound]

PinnedInit ==
  /\ Init /\ InitIdentity
  /\ work = [e \in Executions |-> NoWork]
  /\ asked = [p \in Picks |-> NoWork]
  /\ answer = NoAnswer

\* resourcesForExecutionV10 begins: the candidate's resources are listed.  `read` is
\* history: config.yaml as it was then.
List(e) ==
  /\ work[e].at = "idle"
  /\ \E c \in Candidates, env \in Environments :
       work' = [work EXCEPT ![e] =
         [at |-> "listed", cand |-> policy[c], env |-> env, read |-> config]]
  /\ UNCHANGED <<vars, identity, asked>>

\* The prefixes a resource may have: an entry's was read with the list; an auth file's is
\* asked of the host, which knows it by its index and may fail (authPrefixByIndexV10).
PrefixesOf(r) ==
  IF r.from \in Configured
    THEN {Prefix[r.from]}
    ELSE {Unbound} \cup {Prefix[f] : f \in {g \in Files : Index[g] = r.index}}

\* The prefixes with which the model may be scoped for c: that of its resource, if it has
\* one and the resource's models are known.
ScopedPrefixes(c, env) ==
  {Unbound} \cup
  UNION {UNION {PrefixesOf(r) : r \in ExactResource(c, id, resources)} :
    resources \in ResourceLists(env), id \in LiveIds(c)}

\* candidateScopedModelV10 ends: config.yaml is read again for the live IDs, and the host
\* asked for the prefixes of auth files.  (Of these a bound candidate's prefix takes one
\* only, so that they may be one step.)  `steady` is history: config.yaml is still the same.
Scope(e) ==
  /\ work[e].at = "listed"
  /\ \E prefix \in ScopedPrefixes(work[e].cand, work[e].env) :
       work' = [work EXCEPT ![e] =
         [at |-> "scoped", cand |-> work[e].cand, prefix |-> prefix,
          steady |-> work[e].read = config]]
  /\ UNCHANGED <<vars, identity, asked>>

\* Faulty variant: the ticket names the candidate's index, as it did before v0.10.
TicketIdentity_Index(c, id) == c.index

\* What the ticket names.
TicketIdentity(c, id) == id

\* The host is called with the live ID that the ticket is bound to.
Pin(e) ==
  /\ work[e].at = "scoped"
  /\ \E id \in LiveIds(work[e].cand) \ {Unbound}, tok \in Tokens :
       /\ Issue(e, tok, TicketIdentity(work[e].cand, id))
       /\ work' = [work EXCEPT ![e] =
            [at |-> "pinned", cand |-> work[e].cand, prefix |-> work[e].prefix,
             steady |-> work[e].steady, pin |-> id]]
  /\ UNCHANGED <<identity, asked>>

\* The live ID does not resolve: a routing control failure, without a host call.
PinFails(e) ==
  /\ work[e].at = "scoped"
  /\ Unbound \in LiveIds(work[e].cand)
  /\ work' = [work EXCEPT ![e] = NoWork]
  /\ UNCHANGED <<vars, identity, asked>>

\* CPA asks with the credentials it may use at the time, the execution it does so for,
\* and the ticket's token.
PickClaimed(p, e) ==
  /\ work[e].at = "pinned"
  /\ Claim(p, exec[e].token)
  /\ asked' = [asked EXCEPT ![p] = [at |-> "asked", for |-> work[e], offered |-> registry]]
  /\ UNCHANGED <<identity, work>>

\* The live IDs to which a ticket's identity resolves.
Resolved(auth, c) == IF auth \in Ids THEN {auth} ELSE ByIndex([c EXCEPT !.index = auth])

\* The pick answers the credential, or an error if CPA did not offer it.
PickAnswered(p) ==
  /\ Answer(p)
  /\ \E id \in Resolved(pick[p], asked[p].for.cand) :
       answer' = IF id \in asked[p].offered /\ Provider[id] = asked[p].for.cand.provider
                   THEN [id |-> id, for |-> asked[p].for]
                   ELSE NoAnswer
  /\ asked' = [asked EXCEPT ![p] = NoWork]
  /\ UNCHANGED <<identity, work>>

PinnedFinish(e) ==
  /\ Finish(e)
  /\ work' = [work EXCEPT ![e] = NoWork]
  /\ UNCHANGED <<identity, asked>>

Others ==
  \/ \E e \in Executions : List(e) \/ Scope(e) \/ Pin(e) \/ PinFails(e) \/ PinnedFinish(e)
  \/ \E p \in Picks, e \in Executions : PickClaimed(p, e)
  \/ (Tick \/ \E tok \in Tokens : Refuse(tok)) /\ UNCHANGED <<identity, work, asked>>
  \/ ManageIdentity /\ UNCHANGED <<vars, work, asked>>

PinnedNext ==
  \/ \E p \in Picks : PickAnswered(p)
  \/ Others /\ answer' = NoAnswer

PinnedSpec == PinnedInit /\ [][PinnedNext]_pinnedVars

----------------------------------------------------------------------------
(* Whatever changes between an execution's resolution of its credential    *)
(* and a pick, however late the pick is answered: the router's scheduler   *)
(* answers the credential that the same execution told the host to use     *)
(* ("avoiding a second identity resolution that could drift across a       *)
(* concurrent credential reload").                                         *)
AnswersPin ==
  answer # NoAnswer => answer.id = answer.for.pin

(* A candidate is executed with the account that the operator meant when   *)
(* the candidate was made, through changes of auth files and config.yaml,  *)
(* failing listings, reloads, stale pages and saves, if the operator saw   *)
(* the live ID then, or the index could mean only one account.  (Of an     *)
(* older release's candidate whose index several auth files share this     *)
(* does not hold: a save binds it to the one that is listed first.)        *)
ServesChosen ==
  answer # NoAnswer /\ Sure(answer.for.cand) =>
    Account[answer.id] = answer.for.cand.account

\* The credentials whose prefix a model pinned to live ID id may carry.
Lenders(id, steady) ==
  {i \in Ids :
     \/ i = id
     \/ Index[i] = Index[id] /\ (id \in Configured => ~steady /\ Provider[i] = Provider[id])}

(* The model that the host is called with has no prefix or the pinned      *)
(* credential's, if the candidate was bound to an entry of config.yaml,    *)
(* although the model is scoped before the credential is pinned: none of   *)
(* its siblings with the same AuthIndex lends its own.  Two exceptions the *)
(* code has: config.yaml changed between the two readings of it, or the    *)
(* candidate was bound to an auth file, for whose index the host answers   *)
(* the prefix; still no credential of another index lends one.             *)
PrefixOfPin ==
  \A e \in Executions :
    work[e].at = "pinned" /\ work[e].cand.id # Unbound =>
      work[e].prefix \in {Unbound} \cup {Prefix[i] : i \in Lenders(work[e].pin, work[e].steady)}
=============================================================================
