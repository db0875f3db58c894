--------------------------- MODULE HealthMachine ----------------------------
(***************************************************************************)
(* checks.Machine (internal/checks/machine.go): the per-target threshold   *)
(* state machine.  The probe runner is its only writer; the lock makes     *)
(* RecordResult atomic.                                                    *)
(*                                                                         *)
(* The thresholds come from the bundle in force at each call, so they may  *)
(* differ from one result to the next of the same key.                     *)
(***************************************************************************)
EXTENDS Health, Sequences

CONSTANTS Keys,          \* target keys
          Thresholds,    \* values a localCheck's thresholds may have
          MaxResults     \* bound: results recorded per key

ASSUME ThresholdsAssumption == Thresholds \subseteq Int
ASSUME MaxResultsAssumption == MaxResults \in Nat

VARIABLES targets,       \* targets[k]: the bookkeeping of key k
          log            \* auxiliary: log[k] is every result recorded for k

vars == <<targets, log>>

\* One recorded result with the thresholds it was judged by.
Result == [up: BOOLEAN, ft: Thresholds, rt: Thresholds]

TypeOK ==
    /\ targets \in [Keys -> TargetState]
    /\ log \in [Keys -> Seq(Result)]

NewMachine ==
    /\ targets = [k \in Keys |-> NewTarget]
    /\ log = [k \in Keys |-> <<>>]

\* Mutant: a result recorded into a fresh entry each time.
RecordResultForgets(k, up, ft, rt) ==
    /\ Len(log[k]) < MaxResults
    /\ targets' = [targets EXCEPT ![k] = Record(NewTarget, up, ft, rt)]
    /\ log' = [log EXCEPT ![k] = Append(@, [up |-> up, ft |-> ft, rt |-> rt])]

RecordResult(k, up, ft, rt) ==
    /\ Len(log[k]) < MaxResults
    /\ targets' = [targets EXCEPT ![k] = Record(@, up, ft, rt)]
    /\ log' = [log EXCEPT ![k] = Append(@, [up |-> up, ft |-> ft, rt |-> rt])]

Next == \E k \in Keys, up \in BOOLEAN, ft, rt \in Thresholds :
            RecordResult(k, up, ft, rt)

Spec == NewMachine /\ [][Next]_vars

-----------------------------------------------------------------------------
(* What the health of a key should be, read off the whole history.         *)

\* The last n results up to the i-th all have the outcome up.
RunOf(l, i, n, up) == n <= i /\ \A j \in (i - n + 1)..i : l[j].up = up

\* The results at which a run long enough to decide is complete, each judged
\* by its own thresholds.
DecidesUp(l)   == {i \in DOMAIN l : RunOf(l, i, AtLeastOne(l[i].rt), TRUE)}
DecidesDown(l) == {i \in DOMAIN l : RunOf(l, i, AtLeastOne(l[i].ft), FALSE)}

\* i is a decision of S that no decision of T follows.
LastWord(S, T) == \E i \in S : \A j \in T : j < i

(***************************************************************************)
(* The incremental machine computes the declarative verdict: a key is      *)
(* healthy exactly when the most recent deciding run was of successes,     *)
(* unhealthy exactly when it was of failures, and unknown when no run has  *)
(* decided yet.  "Thresholds apply symmetrically from ANY current health   *)
(* value" (machine.go, RecordResult).  Counters must survive and reset at  *)
(* the right results for this to hold, whatever the thresholds do.         *)
(***************************************************************************)
HealthMatchesHistory ==
    \A k \in Keys :
        /\ targets[k].health = Healthy
             <=> LastWord(DecidesUp(log[k]), DecidesDown(log[k]))
        /\ targets[k].health = Unhealthy
             <=> LastWord(DecidesDown(log[k]), DecidesUp(log[k]))

\* The counter c is the length of the run of outcome up that ends the log l.
IsTrailingRun(l, c, up) ==
    /\ RunOf(l, Len(l), c, up)
    /\ c < Len(l) => l[Len(l) - c].up # up

\* The strengthening that makes HealthMatchesHistory inductive: both
\* counters measure the trailing runs, whatever the thresholds were.
CountersAreTrailingRuns ==
    \A k \in Keys :
        /\ IsTrailingRun(log[k], targets[k].consecSuccess, TRUE)
        /\ IsTrailingRun(log[k], targets[k].consecFail, FALSE)

(***************************************************************************)
(* The machine implements the interface the DNS server reads: State and    *)
(* Ready of every key evolve as LocalHealth.tla allows, so a target once   *)
(* ready stays ready, and a definite health never returns to unknown: the  *)
(* post-boot grace of evaluate.go is entered at most once per key.         *)
(***************************************************************************)
Readers == INSTANCE LocalHealth WITH
               state <- [k \in Keys |-> State(targets[k])],
               ready <- [k \in Keys |-> Ready(targets[k])]

ImplementsLocalHealth == Readers!LocalSpec
=============================================================================
