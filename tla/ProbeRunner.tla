---------------------------- MODULE ProbeRunner -----------------------------
(***************************************************************************)
(* checks.Runner (internal/checks/runner.go, prober.go, k8s.go) with the   *)
(* target function main.go gives it: at every tick of a ticker one pass    *)
(* over the targets of the current bundle, which probes those whose        *)
(* interval has elapsed, one after the other, and records the results in   *)
(* the health machine.  A pass may first have to start the EndpointSlice   *)
(* lister.                                                                 *)
(*                                                                         *)
(* Time goes in units (250ms in the runs); Tick lets one pass when the     *)
(* goroutine waits for a tick, for a backend that does not answer, or for  *)
(* the lister.  What else it does takes no time.  Instants are kept as     *)
(* ages.  The machine's counters saturate at the largest threshold.        *)
(***************************************************************************)
EXTENDS Targets, Health

CONSTANTS Keys,            \* target keys
          Bundles,         \* the records the store may serve
          Slices,          \* EndpointSlices: [service, ready]
          K8sApis,         \* what the API may be: works, absent (no in-cluster
                           \* config), silent (the first list never comes)
          BaseTick, ProbeTimeout,
          MaxInterval, MaxThreshold,   \* the largest of all bundles
          MaxSlow,         \* the most targets of a bundle that may time out
          MaxGap           \* bound: gaps between probes are counted up to here

\* The targets that may time out.
Slow(ts) == {k \in DOMAIN ts : ts[k].probe # "k8s"}

ASSUME ProbeRunnerAssumption ==
    /\ IsFiniteSet(Keys)
    /\ {BaseTick, ProbeTimeout, Second} \subseteq Nat \ {0}
    /\ K8sApis \subseteq {"works", "absent", "silent"}
    /\ {MaxInterval, MaxThreshold, MaxSlow, MaxGap} \subseteq Nat
    /\ \A b \in Bundles :
          LET targets == BuildTargets(b)
          IN  /\ DOMAIN targets \subseteq Keys
              /\ \A t \in Range(targets) :
                    /\ t.interval \in Int /\ Interval(t) <= MaxInterval
                    /\ AtLeastOne(t.ft) <= MaxThreshold
                    /\ AtLeastOne(t.rt) <= MaxThreshold
              /\ Cardinality(Slow(targets)) <= MaxSlow

VARIABLES records,         \* Store.current
          targets,         \* auxiliary: the targets of records
          lister,          \* k8sLister # nil
          machine,         \* Machine.targets
          lastRun,         \* age of Runner.lastRun, up to MaxInterval
          pc, live, todo, key,   \* the goroutine: place, the targets of the
                                 \* pass, those still to probe, the one probed
          elapsed, waited, \* time since the pass, the probe began
          ticker, tick,    \* time to the next tick, tick in the channel
          net, api, slices,  \* backends; the Kubernetes API and the
                             \* EndpointSlices in the informer's cache
          cancelled,
          gap              \* auxiliary: time since the last probe of a key
                           \* began, or since the key is in the bundle

passVars == <<pc, live, todo, key, elapsed, waited>>
envVars == <<records, targets, net, api, slices, cancelled>>
vars == <<passVars, envVars, lister, machine, lastRun, ticker, tick, gap>>

Never == -1                \* lastRun of a key that has none
UpTo(max, n) == IF n > max THEN max ELSE n

Init ==
    /\ records \in Bundles /\ targets = BuildTargets(records)
    /\ lister = FALSE
    /\ machine = [k \in Keys |-> NewTarget]
    /\ lastRun = [k \in Keys |-> Never]
    /\ pc = "idle" /\ live = <<>> /\ todo = {} /\ key = CHOOSE k \in Keys : TRUE
    /\ elapsed = 0 /\ waited = 0
    /\ ticker = BaseTick /\ tick = FALSE
    /\ net = [k \in Keys |-> "ok"] /\ api \in K8sApis /\ slices = {}
    /\ cancelled = FALSE
    /\ gap = [k \in Keys |-> 0]

-----------------------------------------------------------------------------
(* The store, the backends, the shutdown.                                  *)

Swap ==
    /\ records' \in Bundles \ {records} /\ targets' = BuildTargets(records')
    /\ gap' = [k \in Keys |-> IF k \in DOMAIN targets THEN gap[k] ELSE 0]
    /\ UNCHANGED <<passVars, net, api, slices, cancelled, lister, machine, lastRun,
                   ticker, tick>>

BackendChanges ==
    /\ \/ /\ \E k \in DOMAIN targets, s \in {"ok", "error", "dead"} :
                /\ targets[k].probe # "k8s"
                /\ net' = [net EXCEPT ![k] = s]
          /\ UNCHANGED slices
       \/ slices' \in SUBSET Slices /\ UNCHANGED net
    /\ UNCHANGED <<passVars, records, targets, api, cancelled, lister, machine,
                   lastRun, ticker, tick, gap>>

Cancel ==
    /\ ~cancelled /\ cancelled' = TRUE
    /\ UNCHANGED <<passVars, records, targets, net, api, slices, lister, machine,
                   lastRun, ticker, tick, gap>>

-----------------------------------------------------------------------------
(* Runner.Run and RunOnce.                                                 *)

\* Mutant: a target that was never probed is not due either.
DueOnlySeen(ts) == {k \in DOMAIN ts : lastRun[k] >= Interval(ts[k])}

\* now.Sub(last) < interval is read with the now of the pass.
Due(ts) ==
    {k \in DOMAIN ts : \/ lastRun[k] = Never
                       \/ lastRun[k] >= Interval(ts[k])}

\* A tick: Targets() reads the bundle and ensures that a bundle with a k8s
\* probe finds the lister.
RunOnce ==
    /\ pc = "idle" /\ tick /\ tick' = FALSE
    /\ live' = BuildTargets(records) /\ todo' = Due(live')
    /\ elapsed' = 0
    /\ pc' = IF lister \/ ~needsK8sProbe(records) \/ api = "absent"
               THEN "pass" ELSE "sync"
    /\ UNCHANGED <<key, waited, envVars, lister, machine, lastRun, ticker, gap>>

\* NewK8sLister returns, with an error if the context ended its wait.
NewK8sLister ==
    /\ pc = "sync"
    /\ \/ api = "works" /\ lister' = TRUE
       \/ cancelled /\ UNCHANGED lister
    /\ pc' = "pass"
    /\ UNCHANGED <<live, todo, key, elapsed, waited, envVars, machine, lastRun,
                   ticker, tick, gap>>

\* The next key of the map, in any order.
StartProbe ==
    /\ pc = "pass"
    /\ \E k \in todo :
          /\ key' = k /\ todo' = todo \ {k}
          /\ lastRun' = [lastRun EXCEPT ![k] = elapsed]
          /\ gap' = [gap EXCEPT ![k] = 0]
    /\ pc' = "probe" /\ waited' = 0
    /\ UNCHANGED <<live, elapsed, envVars, lister, machine, ticker, tick>>

PassEnds ==
    /\ pc = "pass" /\ todo = {}
    /\ pc' = "idle" /\ elapsed' = 0 /\ waited' = 0
    /\ UNCHANGED <<live, todo, key, envVars, lister, machine, lastRun, ticker,
                   tick, gap>>

\* Mutant: endpoints are counted whether they are ready or not.
EndpointCount(k) == Cardinality({s \in slices : s.service = k})

\* K8sLister.ReadyCount.
ReadyCount(k) ==
    FoldSet(LAMBDA s, n : s.ready + n, 0, {s \in slices : s.service = k})

\* The answers of TCPProber, HTTPProber and K8sProber that are due now.
Answers ==
    IF live[key].probe = "k8s" THEN {lister /\ ReadyCount(key) > 0}
    ELSE IF cancelled THEN {FALSE, net[key] = "ok"}
    ELSE IF waited = ProbeTimeout THEN {FALSE}
    ELSE IF net[key] = "dead" THEN {}
    ELSE {net[key] = "ok"}

\* Machine.RecordResult; OnTransition is NotifyTransition of
\* HealthReporter.tla.
RecordResult ==
    /\ pc = "probe"
    /\ \E up \in Answers :
          LET t == Record(machine[key], up, live[key].ft, live[key].rt)
          IN  machine' = [machine EXCEPT ![key] =
                 [t EXCEPT !.consecSuccess = UpTo(MaxThreshold, @),
                           !.consecFail = UpTo(MaxThreshold, @),
                           !.cycles = 1]]
    /\ pc' = "pass"
    /\ UNCHANGED <<live, todo, key, elapsed, waited, envVars, lister, lastRun,
                   ticker, tick, gap>>

Stop ==
    /\ pc = "idle" /\ cancelled
    /\ pc' = "stopped"
    /\ UNCHANGED <<live, todo, key, elapsed, waited, envVars, lister, machine,
                   lastRun, ticker, tick, gap>>

Waiting ==
    /\ ~cancelled
    /\ \/ pc = "idle" /\ ~tick
       \/ pc = "probe" /\ Answers = {}
       \/ pc = "sync"

\* A tick that finds the channel full is dropped.  The time the lister takes
\* to start is not counted as a gap.
Tick ==
    /\ Waiting
    /\ elapsed' = IF pc = "idle" THEN 0 ELSE UpTo(MaxInterval, elapsed + 1)
    /\ waited' = IF pc = "probe" THEN waited + 1 ELSE waited
    /\ lastRun' = [k \in Keys |-> IF lastRun[k] = Never THEN Never
                                  ELSE UpTo(MaxInterval, lastRun[k] + 1)]
    /\ ticker' = IF ticker = 1 THEN BaseTick ELSE ticker - 1
    /\ tick' = (tick \/ ticker = 1)
    /\ gap' = IF pc = "sync" THEN gap
              ELSE [k \in Keys |-> UpTo(MaxGap, gap[k] + 1)]
    /\ UNCHANGED <<pc, live, todo, key, envVars, lister, machine>>

Run == RunOnce \/ NewK8sLister \/ StartProbe \/ RecordResult \/ PassEnds \/ Stop

Next == Swap \/ BackendChanges \/ Cancel \/ Run \/ Tick

(***************************************************************************)
(* The goroutine runs, and time passes however often the backends change   *)
(* their minds.  Nothing is assumed of the bundles, the backends or the    *)
(* API.                                                                    *)
(***************************************************************************)
Spec == Init /\ [][Next]_vars /\ WF_vars(Run) /\ SF_vars(Tick)

-----------------------------------------------------------------------------

TypeOK ==
    /\ machine \in [Keys -> [health: HealthValues, consecSuccess: 0..MaxThreshold,
                             consecFail: 0..MaxThreshold, cycles: 0..1]]
    /\ lastRun \in [Keys -> {Never} \cup 0..MaxInterval]
    /\ pc \in {"idle", "sync", "pass", "probe", "stopped"}
    /\ todo \subseteq DOMAIN live /\ DOMAIN live \subseteq Keys
    /\ elapsed \in 0..MaxInterval
    /\ waited \in 0..ProbeTimeout
    /\ ticker \in 1..BaseTick
    /\ gap \in [Keys -> 0..MaxGap]

\* What a probe would find.  Without a lister it finds nothing ready.
Up(k) ==
    IF targets[k].probe = "k8s"
      THEN api = "works" /\ \E s \in slices : s.service = k /\ s.ready > 0
      ELSE net[k] = "ok"

\* The most targets that may time out in a pass beside k.
OthersSlow(k) ==
    IF \E b \in Bundles : k \in DOMAIN BuildTargets(b) \ Slow(BuildTargets(b))
      THEN MaxSlow ELSE MaxSlow - 1

(***************************************************************************)
(* Probes are serial, lastRun is the start of the pass, ticks are dropped  *)
(* while a pass runs, the bundle changes in between and the schedule of a  *)
(* target that left is not forgotten when it returns (runner.go:118-128):  *)
(* still a pass in which a target is due starts before its interval and    *)
(* one more pass or tick are over, or when the pass it was probed in or    *)
(* came during is, and the target waits for at most the others then.  The  *)
(* time the lister takes to start within a pass (WaitForCacheSync, no      *)
(* timeout) is left out of the gap: nothing in the code bounds it.         *)
(***************************************************************************)
GapBounded ==
    \A k \in Keys : k \in DOMAIN targets =>
        LET all    == ProbeTimeout * MaxSlow
            others == ProbeTimeout * OthersSlow(k)
        IN  gap[k] <= Max({MaxInterval - 1 + Max({others, BaseTick}), all}) + others

(***************************************************************************)
(* "One bad/unsupported target must never stop every other target's        *)
(* probing" (runner.go:44-45): a backend that stays up, or stays down in   *)
(* whatever way, is judged so in the end, while bundles come and go, the   *)
(* other targets answer, refuse or time out, and k8s targets have a lister *)
(* or none.  A lister that waits for its first list for ever is the one    *)
(* exception: the probing waits with it (k8s.go:59-62).                    *)
(***************************************************************************)
VerdictFollowsBackend ==
    LET Wedged == api = "silent" /\ pc = "sync"
    IN  \A k \in Keys :
        /\ <>[](k \in DOMAIN targets /\ Up(k) /\ ~cancelled)
              => <>[](machine[k].health = Healthy) \/ <>[]Wedged
        /\ <>[](k \in DOMAIN targets /\ ~Up(k) /\ ~cancelled)
              => <>[](machine[k].health = Unhealthy) \/ <>[]Wedged
=============================================================================
