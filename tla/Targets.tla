------------------------------ MODULE Targets -------------------------------
(***************************************************************************)
(* The probe targets of a bundle (BuildTargets of                          *)
(* internal/checks/runner.go, NewProber of prober.go, needsK8sProbe of     *)
(* cmd/zeus-gslb/main.go), as operators.  A bundle's records are a         *)
(* sequence, each the sequence of its local checks: a key, a probe, an     *)
(* interval and the thresholds.  Host, port, path, namespace and service   *)
(* go with the key.                                                        *)
(***************************************************************************)
EXTENDS SequencesExt, Integers

CONSTANT Second            \* one second, in the unit of the intervals

ProbeTypes == {"tcp", "http", "k8s"}     \* the ones NewProber knows

\* The local checks of all records in the order of the two loops.
LocalChecks(records) == FlattenSeq(records)

\* Mutant: an interval that is not set counts as the fastest.
FasterThanUnset(new, old) == new > 0 /\ new < old

Faster(new, old) == new > 0 /\ (old <= 0 \/ new < old)

\* One more local check: a known key only gives up its interval.
Merge(configs, lc) ==
    IF lc.key \notin DOMAIN configs
      THEN [k \in DOMAIN configs \cup {lc.key} |-> IF k = lc.key THEN lc ELSE configs[k]]
    ELSE IF Faster(lc.interval, configs[lc.key].interval)
      THEN [configs EXCEPT ![lc.key].interval = lc.interval]
      ELSE configs

BuildTargets(records) ==
    LET configs == FoldLeft(Merge, <<>>, LocalChecks(records))
    IN  Restrict(configs, {k \in DOMAIN configs : configs[k].probe \in ProbeTypes})

\* RunOnce reads an interval that is not set as a second.
Interval(t) == IF t.interval <= 0 THEN Second ELSE t.interval

needsK8sProbe(records) ==
    \E i \in DOMAIN LocalChecks(records) : LocalChecks(records)[i].probe = "k8s"
=============================================================================
