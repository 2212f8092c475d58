---------------------------- MODULE LiveIdentity ----------------------------
(***************************************************************************)
(* Which credential of CPA a candidate of a policy stands for.             *)
(*                                                                         *)
(* CPA gives every credential a live ID.  A candidate is bound to one by   *)
(* its AuthID; a candidate of an older release has only an AuthIndex, and  *)
(* is resolved when it is needed: among the auth files that host.auth.list *)
(* returns, or from config.yaml, where the entries of one key and base URL *)
(* share an index and differ in the proxy, prefix or headers that make the *)
(* live ID.  CPA reloads config.yaml some time after it changed.  A list   *)
(* of resources takes two readings of config.yaml: what there is, and then *)
(* the live IDs.                                                           *)
(*                                                                         *)
(* The management page works on a snapshot of the resources and policies,  *)
(* however old; save_policy binds the candidates that the page sends.      *)
(***************************************************************************)
EXTENDS Integers, FiniteSets

CONSTANTS
  Ids,         \* the live IDs of all credentials there may be
  Configured,  \* those of the entries of config.yaml; the others are auth files
  Indexes,     \* AuthIndexes
  Index,       \* of every live ID
  Provider,    \* of every live ID
  Account,     \* of every live ID: the key, or the auth file itself
  Prefix,      \* of every live ID; Unbound if it has none
  Candidates,  \* of the policies
  MaxChanges,  \* bound on the changes and saves
  Unbound      \* no live ID

ASSUME IdentityAssumption ==
  /\ Configured \subseteq Ids /\ IsFiniteSet(Configured)
  /\ Ids \cap Indexes = {} /\ MaxChanges \in Nat
  /\ Index \in [Ids -> Indexes] /\ Unbound \notin Ids
  /\ \A i \in Configured : \A j \in Ids :
       Index[i] = Index[j] => j \in Configured /\ Account[i] = Account[j]

VARIABLES
  registry,  \* the credentials CPA has
  config,    \* the entries of config.yaml
  changes,   \* so far
  policy     \* the saved candidates

identity == <<registry, config, changes, policy>>

Files == registry \ Configured

\* A resource listed for credential i, and what a candidate says of its credential.
\* `account` and `picked` are history: the account that the operator meant, and whether
\* the page showed its live ID when the operator picked it.
Resource(id, i) == [id |-> id, index |-> Index[i], provider |-> Provider[i], from |-> i]
Chosen(r, account) ==
  [id |-> r.id, index |-> r.index, provider |-> r.provider,
   account |-> account, picked |-> r.id # Unbound]

Same(r, c) == r.index = c.index /\ r.provider = c.provider

Only(S) == IF Cardinality(S) = 1 THEN CHOOSE x \in S : TRUE ELSE Unbound

\* The entries of config.yaml for what c says (legacyCurrentRuntimeIDsV8).
Entries(c) == {k \in config : Same(Resource(k, k), c)}

\* The auth file that alone has the index and provider.
ListedId(c) == Only({f \in Files : Same(Resource(f, f), c)})

\* The live IDs that resolving c's index may yield, Unbound for an error:
\* host.auth.list may fail, and so may reading config.yaml.
ByIndex(c) ==
  (IF ListedId(c) # Unbound THEN {ListedId(c)} ELSE {Only(Entries(c))})
    \cup {Only(Entries(c)), Unbound}

\* The live ID of a candidate.
LiveIds(c) == IF c.id # Unbound THEN {c.id} ELSE ByIndex(c)

\* The first of each index, in an order that is not the router's (mergeResources).
FirstOfEach(S) ==
  {T \in SUBSET S :
     /\ \A x, y \in T : Index[x] = Index[y] => x = y
     /\ \A x \in S : \E y \in T : Index[x] = Index[y]}

\* What currentEnvironment may list: host.auth.list may fail, and if config.yaml cannot be
\* read there are no entries, but all the auth files.
Environments ==
  [files : FirstOfEach(Files) \cup {{}}, entries : FirstOfEach(config)]
    \cup [files : {Files, {}}, entries : {{}}]

\* The live ID of an entry in the list is found by its index, in another reading of
\* config.yaml, which may fail.
EntryIds(k) == {Only(Entries(Resource(k, k))), Unbound}

\* The resources of what was listed, with the live IDs as they are found now.
ResourceLists(env) ==
  {{Resource(f, f) : f \in env.files} \cup {Resource(id[k], k) : k \in env.entries} :
     id \in {found \in [env.entries -> Ids \cup {Unbound}] :
              \A k \in env.entries : found[k] \in EntryIds(k)}}

\* Faulty variant: a bound candidate, too, takes the live ID of the resource with its index.
Rebound_ByIndex(c, resources) ==
  LET matches == {r \in resources : Same(r, c)}
  IN  IF Cardinality(matches) = 1 THEN [c EXCEPT !.id = (CHOOSE r \in matches : TRUE).id] ELSE c

\* A candidate that has no live ID takes that of the resource with its index.
Rebound(c, resources) ==
  LET matches == {r \in resources : Same(r, c)}
  IN  IF c.id = Unbound /\ Cardinality(matches) = 1
        THEN [c EXCEPT !.id = (CHOOSE r \in matches : TRUE).id]
        ELSE c

\* Faulty variant: without a resource that has the live ID, one with the index will do.
ExactResource_ByIndex(c, id, resources) ==
  LET matches == {r \in resources : r.id = id /\ r.provider = c.provider}
      similar == {r \in resources : Same(r, c)}
  IN  IF id # Unbound /\ matches # {} THEN matches ELSE similar

\* The resource with the live ID that c resolved to.
ExactResource(c, id, resources) ==
  IF id = Unbound THEN {} ELSE {r \in resources : r.id = id /\ r.provider = c.provider}

----------------------------------------------------------------------------

\* Each candidate was picked by its live ID, or comes from an older release.
InitIdentity ==
  /\ registry \in SUBSET Ids
  /\ config = registry \cap Configured
  /\ changes = 0
  /\ \E meant \in [Candidates -> Ids], bound \in SUBSET Candidates :
       policy = [c \in Candidates |->
         Chosen(Resource(IF c \in bound THEN meant[c] ELSE Unbound, meant[c]), Account[meant[c]])]

\* An auth file comes or goes.
FilesChange ==
  /\ \E f \in Ids \ Configured :
       registry' = IF f \in registry THEN registry \ {f} ELSE registry \cup {f}
  /\ UNCHANGED <<config, policy>>

\* config.yaml gets, loses or exchanges an entry.
ConfigChanges ==
  /\ \E entries \in SUBSET Configured : entries # config /\ config' = entries
  /\ UNCHANGED <<registry, policy>>

\* CPA takes config.yaml.
ConfigLoaded ==
  /\ registry' = Files \cup config
  /\ UNCHANGED <<config, changes, policy>>

\* What the page sends for candidate c: what it shows, which for a candidate of an
\* older release may be the binding of an old snapshot, or a resource that the
\* operator picks, perhaps an entry of config.yaml that had no live ID.
Sent(c) ==
  {policy[c]}
    \cup {x \in {[policy[c] EXCEPT !.id = id] : id \in Ids \cup {Unbound}} :
            ~x.picked /\ (x.id # Unbound => Same(Resource(x.id, x.id), x))}
    \cup {Chosen(Resource(i, i), Account[i]) : i \in Ids}
    \cup {Chosen(Resource(Unbound, i), Account[i]) : i \in Configured}

\* save_policy.  It reads config.yaml twice, too; a change in between only leaves out an
\* entry or its live ID, as a reading that fails does, and either binds no candidate.
SavePolicy ==
  /\ \E resources \in UNION {ResourceLists(env) : env \in Environments},
        sent \in [Candidates -> UNION {Sent(c) : c \in Candidates}] :
       /\ \A c \in Candidates : sent[c] \in Sent(c)
       /\ policy' = [c \in Candidates |-> Rebound(sent[c], resources)]
  /\ UNCHANGED <<registry, config>>

ManageIdentity ==
  \/ /\ changes < MaxChanges
     /\ changes' = changes + 1
     /\ FilesChange \/ ConfigChanges \/ SavePolicy
  \/ ConfigLoaded

\* What a candidate's history proves: the operator saw the live ID, or all
\* credentials with its index are of one account.
Sure(c) ==
  c.picked \/ \A i, j \in Ids :
    Same(Resource(i, i), c) /\ Same(Resource(j, j), c) => Account[i] = Account[j]
=============================================================================
