--------------------------- MODULE CircuitBreaker ---------------------------
(***************************************************************************)
(* What the health tracking promises, without its deadlines, generations   *)
(* and configurations: per candidate a circuit breaker with one probe      *)
(* lease.  Only a running attempt's end moves a circuit that is not        *)
(* forgotten, and while the lease is out only its holder's end does.       *)
(***************************************************************************)
CONSTANTS
  Candidates,
  Attempts,
  None         \* no attempt

VARIABLES
  circuit,  \* the circuit of each candidate
  holder,   \* who holds its probe lease
  running   \* the attempts in progress

breakerVars == <<circuit, holder, running>>

BreakerInit ==
  /\ circuit = [c \in Candidates |-> "closed"]
  /\ holder = [c \in Candidates |-> None]
  /\ running = {}

\* A normal attempt starts.
Start(a) ==
  /\ a \notin running
  /\ running' = running \cup {a}
  /\ UNCHANGED <<circuit, holder>>

\* An attempt starts as the one probe of an open circuit.
Probe(a, c) ==
  /\ a \notin running
  /\ circuit[c] = "open"
  /\ circuit' = [circuit EXCEPT ![c] = "half-open"]
  /\ holder' = [holder EXCEPT ![c] = a]
  /\ running' = running \cup {a}

\* An attempt without a lease ends; it may have opened a closed circuit.
EndNormal(a) ==
  /\ a \in running
  /\ \A c \in Candidates : holder[c] # a
  /\ running' = running \ {a}
  /\ \/ UNCHANGED circuit
     \/ \E c \in Candidates :
          /\ circuit[c] = "closed"
          /\ circuit' = [circuit EXCEPT ![c] = "open"]
  /\ UNCHANGED holder

\* The probe ends and decides the circuit.
EndProbe(a, c) ==
  /\ a \in running
  /\ holder[c] = a
  /\ running' = running \ {a}
  /\ holder' = [holder EXCEPT ![c] = None]
  /\ \E verdict \in {"closed", "open"} : circuit' = [circuit EXCEPT ![c] = verdict]

\* The circuits of some candidates start over.
Forget(S) ==
  /\ circuit' = [c \in Candidates |-> IF c \in S THEN "closed" ELSE circuit[c]]
  /\ holder' = [c \in Candidates |-> IF c \in S THEN None ELSE holder[c]]
  /\ UNCHANGED running

BreakerNext ==
  \/ \E a \in Attempts : Start(a) \/ EndNormal(a)
  \/ \E a \in Attempts, c \in Candidates : Probe(a, c) \/ EndProbe(a, c)
  \/ \E S \in SUBSET Candidates : Forget(S)

BreakerSpec == BreakerInit /\ [][BreakerNext]_breakerVars
=============================================================================
