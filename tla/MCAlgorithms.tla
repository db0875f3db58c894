---------------------------- MODULE MCAlgorithms ----------------------------
(* The pure functions against reference definitions: ExponentialBackoff    *)
(* for every base and ceiling of a narrow duration, with a caller that     *)
(* counts its attempts up as Runner.Run and sendNow do, and BuildTargets   *)
(* for every small bundle, built one local check at a time.                *)
EXTENDS Backoff, Targets

CONSTANTS MaxAttempt,      \* bound: attempts counted
          CheckKeys, CheckIntervals, CheckProbes,
          MaxChecks        \* bound: local checks in a bundle

ASSUME AlgorithmsAssumption == CheckIntervals \subseteq Int

VARIABLE input             \* the function and its arguments

BackoffInputs == [of: {"ExponentialBackoff"}, base: 0..MaxInt,
                  ceiling: 0..2^(Bits - 2), attempt: {0}]

AlgorithmsInit == input \in BackoffInputs \cup {[of |-> "BuildTargets", records |-> <<>>]}

Retry ==
    /\ input.of = "ExponentialBackoff" /\ input.attempt < MaxAttempt
    /\ input' = [input EXCEPT !.attempt = @ + 1]

\* The check joins the last record or opens the next.
AddCheck(lc) ==
    \/ input' = [input EXCEPT !.records = Append(@, <<lc>>)]
    \/ /\ input.records # <<>>
       /\ input' = [input EXCEPT !.records[Len(input.records)] = Append(@, lc)]

\* The thresholds of a check tell the first of a key from the others.
AlgorithmsNext ==
    \/ Retry
    \/ /\ input.of = "BuildTargets"
       /\ Len(LocalChecks(input.records)) < MaxChecks
       /\ \E k \in CheckKeys, i \in CheckIntervals, p \in CheckProbes :
             AddCheck([key |-> k, interval |-> i, probe |-> p,
                       ft |-> Len(LocalChecks(input.records))])

MCIntervals == -1..2

AlgorithmsSpec == AlgorithmsInit /\ [][AlgorithmsNext]_input

(***************************************************************************)
(* "Doubles from base each reconnect attempt, capped at max"               *)
(* (runner.go:120-121), for every ceiling up to half the range of a        *)
(* duration: the doubling stops before it can wrap around, however many    *)
(* attempts there have been.                                               *)
(***************************************************************************)
BackoffIsCappedDoubling ==
    input.of = "ExponentialBackoff" /\ input.attempt >= 1 =>
        ExponentialBackoff(input.base, input.ceiling, input.attempt)
            = Min({input.base * 2^(input.attempt - 1), input.ceiling})

(***************************************************************************)
(* "Dedupe by targetKey across records; run at the fastest interval any    *)
(* record requests ... Thresholds and probe definition are taken from the  *)
(* first occurrence" (runner.go:34-40), an interval that is not set, which *)
(* is one of zero or less, being no request; a target is there exactly if  *)
(* the probe of its first occurrence is known, whatever the others are.    *)
(***************************************************************************)
TargetsAreFastestFirst ==
    input.of = "BuildTargets" =>
    LET checks == LocalChecks(input.records)
        of(k) == {i \in DOMAIN checks : checks[i].key = k}
        first(k) == checks[Min(of(k))]
        requests(k) == {i \in {checks[n].interval : n \in of(k)} : i > 0}
        known == {k \in CheckKeys : of(k) # {} /\ first(k).probe \in ProbeTypes}
    IN  BuildTargets(input.records) =
            [k \in known |->
                [first(k) EXCEPT !.interval =
                    IF requests(k) = {} THEN @ ELSE Min(requests(k))]]
=============================================================================
