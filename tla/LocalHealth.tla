---------------------------- MODULE LocalHealth -----------------------------
(***************************************************************************)
(* What the local health subsystem promises its readers, the interface     *)
(* LocalHealth of internal/dnsserver/evaluate.go: a health value and a     *)
(* readiness flag per target key.  Abstract: it says nothing of probes,    *)
(* counters or thresholds.  HealthMachine.tla implements it, Evaluator.tla *)
(* is built on it.                                                         *)
(***************************************************************************)
EXTENDS Health

CONSTANT Keys            \* target keys

VARIABLES state,         \* state[k]: what LocalHealth.State(k) returns
          ready          \* ready[k]: what LocalHealth.Ready(k) returns

localVars == <<state, ready>>

LocalTypeOK ==
    /\ state \in [Keys -> HealthValues]
    /\ ready \in [Keys -> BOOLEAN]

LocalInit ==
    /\ state = [k \in Keys |-> Unknown]
    /\ ready = [k \in Keys |-> FALSE]

\* One check result becomes visible: the key is ready from then on, and its
\* health is what it was or one of the two definite values.  It never goes
\* back to Unknown.
Observe(k, h) ==
    /\ h \in {Healthy, Unhealthy, state[k]}
    /\ state' = [state EXCEPT ![k] = h]
    /\ ready' = [ready EXCEPT ![k] = TRUE]

LocalNext == \E k \in Keys, h \in HealthValues : Observe(k, h)

LocalSpec == LocalInit /\ [][LocalNext]_localVars
=============================================================================
