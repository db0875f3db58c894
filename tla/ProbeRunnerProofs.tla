------------------------- MODULE ProbeRunnerProofs --------------------------
(***************************************************************************)
(* Proofs about ProbeRunner.tla, for every set of bundles, every interval  *)
(* and threshold, every base tick and probe timeout and every number of    *)
(* targets: the type of the state and the longest a target waits.          *)
(***************************************************************************)
EXTENDS ProbeRunner, FiniteSetTheorems, TLAPS

LEMMA Parameters ==
    /\ BaseTick \in Nat \ {0} /\ ProbeTimeout \in Nat \ {0} /\ Second \in Nat \ {0}
    /\ MaxInterval \in Nat /\ MaxThreshold \in Nat /\ MaxSlow \in Nat /\ MaxGap \in Nat
    /\ IsFiniteSet(Keys)
BY ProbeRunnerAssumption

LEMMA UpToFacts ==
    ASSUME NEW max \in Nat, NEW n \in Nat
    PROVE  UpTo(max, n) \in 0..max /\ UpTo(max, n) <= n
                                   /\ (UpTo(max, n) = n \/ UpTo(max, n) = max)
BY DEF UpTo

\* What is assumed of the targets of a bundle, one by one.
LEMMA BundleTargets ==
    ASSUME NEW b \in Bundles
    PROVE  LET ts == BuildTargets(b)
           IN  /\ DOMAIN ts \subseteq Keys
               /\ \A k \in DOMAIN ts : Interval(ts[k]) \in Int /\ Interval(ts[k]) <= MaxInterval
               /\ IsFiniteSet(Slow(ts)) /\ Cardinality(Slow(ts)) <= MaxSlow
<1> DEFINE ts == BuildTargets(b)
<1>1. /\ DOMAIN ts \subseteq Keys
      /\ \A t \in Range(ts) : t.interval \in Int /\ Interval(t) <= MaxInterval
      /\ Cardinality(Slow(ts)) <= MaxSlow
  BY ProbeRunnerAssumption
<1> HIDE DEF ts
<1>2. \A k \in DOMAIN ts : ts[k] \in Range(ts)
  BY DEF Range
<1>3. \A k \in DOMAIN ts : Interval(ts[k]) \in Int /\ Interval(ts[k]) <= MaxInterval
  BY <1>1, <1>2, Parameters DEF Interval
<1>4. IsFiniteSet(Slow(ts))
  BY <1>1, Parameters, FS_Subset DEF Slow
<1> QED BY <1>1, <1>3, <1>4 DEF ts

-----------------------------------------------------------------------------
(* The type invariant, with what a pass is about.                          *)

InPass == pc \in {"sync", "pass", "probe"}

Typed ==
    /\ TypeOK
    /\ records \in Bundles /\ targets = BuildTargets(records)
    /\ lister \in BOOLEAN /\ cancelled \in BOOLEAN /\ tick \in BOOLEAN
    /\ InPass => \E b \in Bundles : live = BuildTargets(b)
    /\ pc = "probe" => key \in DOMAIN live \ todo

MachineType ==
    [health: HealthValues, consecSuccess: 0..MaxThreshold,
     consecFail: 0..MaxThreshold, cycles: 0..1]

\* The counters of a target replaced, as RecordResult does.
LEMMA CountersReplaced ==
    ASSUME NEW h \in HealthValues, NEW cs, NEW cf, NEW c,
           NEW s \in 0..MaxThreshold, NEW f \in 0..MaxThreshold
    PROVE  LET t == [health |-> h, consecSuccess |-> cs, consecFail |-> cf, cycles |-> c]
           IN  [t EXCEPT !.consecSuccess = s, !.consecFail = f, !.cycles = 1]
                   \in MachineType
<1>1. 1 \in 0..1
  OBVIOUS
<1>2. [health |-> h, consecSuccess |-> s, consecFail |-> f, cycles |-> 1]
         \in MachineType
  BY <1>1 DEF MachineType
<1> DEFINE t == [health |-> h, consecSuccess |-> cs, consecFail |-> cf, cycles |-> c]
           u == [t EXCEPT !.consecSuccess = s, !.consecFail = f, !.cycles = 1]
<1>3. DOMAIN t = {"health", "consecSuccess", "consecFail", "cycles"}
  OBVIOUS
<1>4. u = [x \in DOMAIN t |->
             IF x = "cycles" THEN 1 ELSE IF x = "consecFail" THEN f
             ELSE IF x = "consecSuccess" THEN s ELSE t[x]]
  BY <1>3
<1>5. u = [health |-> h, consecSuccess |-> s, consecFail |-> f, cycles |-> 1]
  BY <1>3, <1>4
<1> QED BY <1>2, <1>5

\* RecordResult's bookkeeping of one key keeps within the thresholds.
LEMMA RecordedType ==
    ASSUME NEW m \in MachineType, NEW up \in BOOLEAN, NEW ft, NEW rt
    PROVE  LET t == Record(m, up, ft, rt)
           IN  [t EXCEPT !.consecSuccess = UpTo(MaxThreshold, @),
                         !.consecFail = UpTo(MaxThreshold, @),
                         !.cycles = 1] \in MachineType
<1> DEFINE t == Record(m, up, ft, rt)
<1>1. m.consecSuccess \in Nat /\ m.consecFail \in Nat /\ m.health \in HealthValues
  BY Parameters DEF MachineType
<1>2. PICK h, cs, cf, c :
         /\ t = [health |-> h, consecSuccess |-> cs, consecFail |-> cf, cycles |-> c]
         /\ h \in HealthValues /\ cs \in Nat /\ cf \in Nat
  <2>1. /\ t = [health |-> t.health, consecSuccess |-> t.consecSuccess,
                consecFail |-> t.consecFail, cycles |-> t.cycles]
        /\ t.health \in HealthValues /\ t.consecSuccess \in Nat /\ t.consecFail \in Nat
    BY <1>1 DEF Record, Success, Failure, HealthValues, Healthy, Unhealthy
  <2> HIDE DEF t
  <2> QED BY <2>1
<1> HIDE DEF t
<1> DEFINE s == UpTo(MaxThreshold, cs)
           f == UpTo(MaxThreshold, cf)
<1>3. s \in 0..MaxThreshold /\ f \in 0..MaxThreshold
  BY <1>2, Parameters, UpToFacts
<1>4. t.consecSuccess = cs /\ t.consecFail = cf
  BY <1>2
<1>5. [t EXCEPT !.consecSuccess = s, !.consecFail = f, !.cycles = 1] \in MachineType
  <2> HIDE DEF s, f
  <2> QED BY <1>2, <1>3, CountersReplaced
<1>6. [t EXCEPT !.consecSuccess = UpTo(MaxThreshold, @),
                !.consecFail = UpTo(MaxThreshold, @), !.cycles = 1] \in MachineType
  BY <1>4, <1>5
<1> QED BY <1>6 DEF t

LEMMA TypedInit == Init => Typed
<1> SUFFICES ASSUME Init
             PROVE  Typed
  OBVIOUS
<1>1. machine \in [Keys -> MachineType]
  BY Parameters DEF Init, NewTarget, MachineType, HealthValues
<1>2. /\ lastRun \in [Keys -> {Never} \cup 0..MaxInterval]
      /\ gap \in [Keys -> 0..MaxGap]
      /\ ticker \in 1..BaseTick /\ elapsed \in 0..MaxInterval /\ waited \in 0..ProbeTimeout
  BY Parameters DEF Init
<1>3. DOMAIN live \subseteq Keys /\ todo = {} /\ pc = "idle"
  BY DEF Init
<1>4. lister \in BOOLEAN /\ cancelled \in BOOLEAN /\ tick \in BOOLEAN
  BY DEF Init
<1> QED BY <1>1, <1>2, <1>3, <1>4 DEF Init, Typed, TypeOK, InPass, MachineType

\* Time passes in a probe only while it may time out and has not.
LEMMA ProbeTicks ==
    ASSUME Typed, Tick, pc = "probe"
    PROVE  key \in Slow(live) /\ waited < ProbeTimeout /\ waited' = waited + 1
<1>1. Answers = {} /\ waited' = waited + 1
  BY DEF Tick, Waiting
<1>2. live[key].probe # "k8s" /\ waited # ProbeTimeout
  BY <1>1 DEF Answers
<1>3. waited \in 0..ProbeTimeout /\ key \in DOMAIN live
  BY DEF Typed, TypeOK
<1> QED BY <1>1, <1>2, <1>3, Parameters DEF Slow

LEMMA TypedStep == Typed /\ [Next]_vars => Typed'
<1> SUFFICES ASSUME Typed, [Next]_vars
             PROVE  Typed'
  OBVIOUS
<1> USE Parameters
<1>1. CASE Swap
  <2>1. gap' \in [Keys -> 0..MaxGap]
    BY <1>1 DEF Swap, Typed, TypeOK
  <2>2. records' \in Bundles
    BY <1>1 DEF Swap
  <2> QED BY <1>1, <2>1, <2>2 DEF Swap, Typed, TypeOK, InPass, passVars
<1>2. CASE BackendChanges
  BY <1>2 DEF BackendChanges, Typed, TypeOK, InPass, passVars
<1>3. CASE Cancel
  <2>1. cancelled' \in BOOLEAN
    BY <1>3 DEF Cancel
  <2> QED BY <1>3, <2>1 DEF Cancel, Typed, TypeOK, InPass, passVars
<1>4. CASE RunOnce
  <2>1. /\ live' = BuildTargets(records) /\ todo' \subseteq DOMAIN live'
        /\ pc' \in {"pass", "sync"} /\ elapsed' = 0
    BY <1>4 DEF RunOnce, Due
  <2>2. DOMAIN live' \subseteq Keys /\ tick' \in BOOLEAN
    BY <1>4, <2>1, BundleTargets DEF RunOnce, Typed
  <2> QED BY <1>4, <2>1, <2>2 DEF RunOnce, Typed, TypeOK, InPass, envVars
<1>5. CASE NewK8sLister
  <2>1. lister' \in BOOLEAN
    BY <1>5 DEF NewK8sLister, Typed
  <2> QED BY <1>5, <2>1 DEF NewK8sLister, Typed, TypeOK, InPass, envVars
<1>6. CASE StartProbe
  <2>1. PICK k \in todo : /\ key' = k /\ todo' = todo \ {k}
                          /\ lastRun' = [lastRun EXCEPT ![k] = elapsed]
                          /\ gap' = [gap EXCEPT ![k] = 0]
    BY <1>6 DEF StartProbe
  <2>2. /\ lastRun' \in [Keys -> {Never} \cup 0..MaxInterval]
        /\ gap' \in [Keys -> 0..MaxGap]
    BY <2>1 DEF Typed, TypeOK
  <2>3. key' \in DOMAIN live' \ todo'
    BY <1>6, <2>1 DEF StartProbe, Typed, TypeOK
  <2> QED BY <1>6, <2>1, <2>2, <2>3 DEF StartProbe, Typed, TypeOK, InPass, envVars
<1>7. CASE RecordResult
  <2>1. PICK up \in Answers :
               machine' = [machine EXCEPT ![key] =
                   LET t == Record(machine[key], up, live[key].ft, live[key].rt)
                   IN  [t EXCEPT !.consecSuccess = UpTo(MaxThreshold, @),
                                 !.consecFail = UpTo(MaxThreshold, @),
                                 !.cycles = 1]]
    BY <1>7 DEF RecordResult
  <2>2. key \in Keys
    BY <1>7 DEF RecordResult, Typed, TypeOK
  <2>3. up \in BOOLEAN
    BY <2>1 DEF Answers, Typed
  <2>4. machine \in [Keys -> MachineType]
    BY DEF Typed, TypeOK, MachineType
  <2>5. machine' \in [Keys -> MachineType]
    BY <2>1, <2>2, <2>3, <2>4, RecordedType
  <2> QED BY <1>7, <2>5 DEF RecordResult, Typed, TypeOK, InPass, MachineType, envVars
<1>8. CASE PassEnds
  BY <1>8 DEF PassEnds, Typed, TypeOK, InPass, envVars
<1>9. CASE Stop
  BY <1>9 DEF Stop, Typed, TypeOK, InPass, envVars
<1>10. CASE Tick
  <2>1. elapsed' \in 0..MaxInterval
    BY <1>10, UpToFacts DEF Tick, Typed, TypeOK
  <2>2. waited' \in 0..ProbeTimeout
    BY <1>10, ProbeTicks DEF Tick, Typed, TypeOK
  <2>3. lastRun' \in [Keys -> {Never} \cup 0..MaxInterval]
    BY <1>10, UpToFacts DEF Tick, Typed, TypeOK, Never
  <2>4. ticker' \in 1..BaseTick /\ tick' \in BOOLEAN
    BY <1>10 DEF Tick, Typed, TypeOK
  <2>5. gap' \in [Keys -> 0..MaxGap]
    BY <1>10, UpToFacts DEF Tick, Typed, TypeOK
  <2> QED BY <1>10, <2>1, <2>2, <2>3, <2>4, <2>5 DEF Tick, Typed, TypeOK, InPass, envVars
<1>11. CASE UNCHANGED vars
  BY <1>11 DEF vars, passVars, envVars, Typed, TypeOK, InPass
<1> QED BY <1>1, <1>2, <1>3, <1>4, <1>5, <1>6, <1>7, <1>8, <1>9, <1>10, <1>11
        DEF Next, Run

LEMMA TypedHolds == Spec => []Typed
BY TypedInit, TypedStep, PTL DEF Spec

\* The type of the probe runner's state: whatever bundles, backends and
\* lister do, the probed key is one of the pass's targets and the machine's
\* counters keep to the thresholds (Runner.Run, RunOnce, RecordResult).
THEOREM ProbeRunnerTypeCorrect == Spec => []TypeOK
<1>1. Typed => TypeOK
  BY DEF Typed
<1> QED BY <1>1, TypedHolds, PTL

-----------------------------------------------------------------------------
(***************************************************************************)
(* How long a target waits.  A target is due once its interval has passed, *)
(* so it waits for a pass to start, for no longer than MaxInterval - 1 and *)
(* what a pass without it or a tick takes, and for the probes before its   *)
(* own.  If it was not due or was already probed, the pass may also be its *)
(* own: then every slow target counts, it among them.  The invariant       *)
(* trades what a target has waited for what is left of the pass and for    *)
(* what is left to the next tick.                                          *)
(***************************************************************************)
Span(n) == ProbeTimeout * n

\* The time the others may keep a target waiting in a pass; the time after
\* which a target has its turn or a pass in which it has one starts.
Others(k) == Span(OthersSlow(k))
Longest(k) == Max({MaxInterval - 1 + Max({Others(k), BaseTick}), Span(MaxSlow)})

\* What the probe under way may still take, with those of K, and the time to
\* the next pass.
Rest == IF pc = "probe" /\ key \in Slow(live) THEN ProbeTimeout - waited ELSE 0
Work(ts, K) == Span(Cardinality(Slow(ts) \cap K))
Left(K) == Work(live, K) + Rest
ToTick == IF tick THEN 0 ELSE ticker

\* lastRun counts from the start of the pass, the gap from the probe's.
AgeTold(k) == lastRun[k] = Never \/ gap[k] <= lastRun[k] \/ lastRun[k] = MaxInterval

Patient(k) ==
    IF InPass /\ k \in todo THEN gap[k] + Left(todo \ {k}) <= Longest(k) + Others(k)
    ELSE /\ InPass => gap[k] + Left(todo) <= Longest(k)
         /\ gap[k] + ToTick <= Longest(k)

Waits == \A k \in DOMAIN targets : AgeTold(k) /\ Patient(k)

LEMMA MaxOfTwo ==
    ASSUME NEW m \in Int, NEW n \in Int
    PROVE  Max({m, n}) = IF m >= n THEN m ELSE n
BY DEF Max

LEMMA SpanFacts ==
    /\ \A n \in Nat : Span(n) \in Nat
    /\ \A n \in Nat : Span(n + 1) = Span(n) + ProbeTimeout
    /\ \A m, n \in Nat : m <= n => Span(m) <= Span(n)
    /\ Span(0) = 0
<1>1. ASSUME NEW m \in Nat, NEW n \in Nat
      PROVE  ProbeTimeout * (m + n) = ProbeTimeout * m + ProbeTimeout * n
                 /\ ProbeTimeout * m \in Nat /\ ProbeTimeout * n \in Nat
  BY Parameters
<1>2. \A m, n \in Nat : m <= n => Span(m) <= Span(n)
  <2> SUFFICES ASSUME NEW m \in Nat, NEW n \in Nat, m <= n
               PROVE  ProbeTimeout * m <= ProbeTimeout * n
    BY DEF Span
  <2>1. n - m \in Nat /\ n = m + (n - m)
    OBVIOUS
  <2>2. /\ ProbeTimeout * (m + (n - m)) = ProbeTimeout * m + ProbeTimeout * (n - m)
        /\ ProbeTimeout * m \in Nat /\ ProbeTimeout * (n - m) \in Nat
    BY <2>1, <1>1
  <2> DEFINE x == ProbeTimeout * m
             y == ProbeTimeout * (n - m)
             z == ProbeTimeout * n
  <2>3. z = x + y /\ x \in Nat /\ y \in Nat
    BY <2>1, <2>2
  <2> HIDE DEF x, y, z
  <2>4. x <= z
    BY <2>3
  <2> QED BY <2>4 DEF x, z
<1>3. \A n \in Nat : Span(n) \in Nat
  BY <1>1 DEF Span
<1>4. \A n \in Nat : Span(n + 1) = Span(n) + ProbeTimeout
  BY Parameters DEF Span
<1>5. Span(0) = 0
  BY Parameters DEF Span
<1> QED BY <1>2, <1>3, <1>4, <1>5

\* A target of some bundle: what may be slow beside it and how long it waits.
LEMMA Limits ==
    ASSUME NEW b \in Bundles, NEW k \in DOMAIN BuildTargets(b)
    PROVE  /\ Others(k) \in Nat /\ Longest(k) \in Nat
           /\ Longest(k) >= MaxInterval - 1 + Others(k)
           /\ Longest(k) >= MaxInterval - 1 + BaseTick
           /\ Longest(k) >= Span(MaxSlow)
           /\ MaxInterval >= 1
           /\ Cardinality(Slow(BuildTargets(b)) \ {k}) \in Nat
           /\ Span(Cardinality(Slow(BuildTargets(b)) \ {k})) <= Others(k)
<1> DEFINE ts == BuildTargets(b)
<1>1. /\ IsFiniteSet(Slow(ts)) /\ Cardinality(Slow(ts)) <= MaxSlow
      /\ Interval(ts[k]) <= MaxInterval /\ Interval(ts[k]) \in Int
  BY BundleTargets
<1>2. Interval(ts[k]) >= 1
  BY <1>1, ProbeRunnerAssumption DEF Interval, BuildTargets
<1>3. Cardinality(Slow(ts)) \in Nat
  BY <1>1, FS_CardinalityType
<1>4. /\ IsFiniteSet(Slow(ts) \ {k})
      /\ Cardinality(Slow(ts) \ {k}) =
            IF k \in Slow(ts) THEN Cardinality(Slow(ts)) - 1 ELSE Cardinality(Slow(ts))
  BY <1>1, FS_RemoveElement
<1>5. Cardinality(Slow(ts) \ {k}) \in Nat
  BY <1>4, FS_CardinalityType
<1>6. OthersSlow(k) \in Nat /\ Cardinality(Slow(ts) \ {k}) <= OthersSlow(k)
  <2>1. CASE k \in Slow(ts)
    BY <2>1, <1>1, <1>3, <1>4, <1>5, Parameters DEF OthersSlow
  <2>2. CASE k \notin Slow(ts)
    <3>1. OthersSlow(k) = MaxSlow
      BY <2>2 DEF OthersSlow
    <3> QED BY <2>2, <3>1, <1>1, <1>3, <1>4, Parameters
  <2> QED BY <2>1, <2>2
<1>7. Others(k) \in Nat /\ Span(Cardinality(Slow(ts) \ {k})) <= Others(k)
  BY <1>5, <1>6, SpanFacts DEF Others
<1>8. Span(MaxSlow) \in Nat
  BY SpanFacts, Parameters
<1> DEFINE w == IF Others(k) >= BaseTick THEN Others(k) ELSE BaseTick
<1>9. Max({Others(k), BaseTick}) = w /\ w \in Nat /\ w >= Others(k) /\ w >= BaseTick
  BY <1>7, MaxOfTwo, Parameters
<1> HIDE DEF w
<1>10. Longest(k) = IF MaxInterval - 1 + w >= Span(MaxSlow)
                      THEN MaxInterval - 1 + w ELSE Span(MaxSlow)
  <2>1. Longest(k) = Max({MaxInterval - 1 + w, Span(MaxSlow)})
    BY <1>9 DEF Longest
  <2> DEFINE m == MaxInterval - 1 + w
             n == Span(MaxSlow)
  <2>2. m \in Int /\ n \in Int
    BY <1>8, <1>9, Parameters
  <2> HIDE DEF m, n
  <2>3. Max({m, n}) = IF m >= n THEN m ELSE n
    BY <2>2, MaxOfTwo
  <2> QED BY <2>1, <2>3 DEF m, n
<1>11. MaxInterval >= 1
  BY <1>1, <1>2, Parameters
<1> QED BY <1>5, <1>7, <1>8, <1>9, <1>10, <1>11, Parameters

LEMMA WorkFacts ==
    ASSUME NEW b \in Bundles, NEW K
    PROVE  LET ts == BuildTargets(b)
           IN  /\ Work(ts, K) \in Nat /\ Work(ts, K) <= Span(MaxSlow)
               /\ \A k : k \notin K => Work(ts, K) <= Span(Cardinality(Slow(ts) \ {k}))
               /\ \A k \in Slow(ts) \ K : Work(ts, K) + ProbeTimeout <= Span(MaxSlow)
               /\ \A k \in K : Work(ts, K) =
                     Work(ts, K \ {k}) + IF k \in Slow(ts) THEN ProbeTimeout ELSE 0
<1> DEFINE S == Slow(BuildTargets(b))
<1>1. IsFiniteSet(S) /\ Cardinality(S) \in Nat /\ Cardinality(S) <= MaxSlow
  BY BundleTargets, FS_CardinalityType
<1> HIDE DEF S
<1>2. ASSUME NEW A, NEW B \in SUBSET S, A \subseteq B
      PROVE  /\ Cardinality(A) \in Nat /\ Cardinality(B) \in Nat
             /\ Span(Cardinality(A)) <= Span(Cardinality(B))
             /\ Span(Cardinality(A)) \in Nat
  <2>1. IsFiniteSet(B) /\ IsFiniteSet(A) /\ Cardinality(A) <= Cardinality(B)
    BY <1>1, <1>2, FS_Subset
  <2>2. Cardinality(A) \in Nat /\ Cardinality(B) \in Nat
    BY <2>1, FS_CardinalityType
  <2> QED BY <2>1, <2>2, SpanFacts
<1>3. Span(Cardinality(S)) <= Span(MaxSlow) /\ Span(Cardinality(S)) \in Nat
      /\ Span(MaxSlow) \in Nat
  BY <1>1, SpanFacts, Parameters
<1>4. Span(Cardinality(S \cap K)) \in Nat /\ Span(Cardinality(S \cap K)) <= Span(MaxSlow)
  <2>1. Span(Cardinality(S \cap K)) <= Span(Cardinality(S))
        /\ Span(Cardinality(S \cap K)) \in Nat
    BY <1>2
  <2> QED BY <1>3, <2>1
<1>5. ASSUME NEW k, k \notin K
      PROVE  Span(Cardinality(S \cap K)) <= Span(Cardinality(S \ {k}))
  <2>1. S \cap K \subseteq S \ {k} /\ S \ {k} \in SUBSET S
    BY <1>5
  <2> QED BY <1>2, <2>1
<1>6. ASSUME NEW k \in S \ K
      PROVE  Span(Cardinality(S \cap K)) + ProbeTimeout <= Span(MaxSlow)
  <2>1. Cardinality(S \ {k}) = Cardinality(S) - 1 /\ Cardinality(S \ {k}) \in Nat
    BY <1>1, <1>2, FS_RemoveElement
  <2>2. Span(Cardinality(S)) = Span(Cardinality(S \ {k})) + ProbeTimeout
    BY <2>1, <1>1, SpanFacts
  <2>3. Span(Cardinality(S \ {k})) \in Nat
    BY <2>1, SpanFacts
  <2> QED BY <1>3, <1>4, <1>5, <2>2, <2>3, Parameters
<1>7. ASSUME NEW k \in K
      PROVE  Span(Cardinality(S \cap K)) = Span(Cardinality(S \cap (K \ {k})))
                                             + IF k \in S THEN ProbeTimeout ELSE 0
  <2>1. CASE k \in S
    <3>1. S \cap (K \ {k}) = (S \cap K) \ {k} /\ k \in S \cap K
      BY <2>1
    <3>2. IsFiniteSet(S \cap K) /\ Cardinality(S \cap K) \in Nat
      BY <1>1, <1>2, FS_Subset
    <3>3. /\ Cardinality((S \cap K) \ {k}) = Cardinality(S \cap K) - 1
          /\ Cardinality((S \cap K) \ {k}) \in Nat
      BY <3>1, <3>2, <1>2, FS_RemoveElement
    <3>4. Span(Cardinality(S \cap K)) = Span(Cardinality((S \cap K) \ {k})) + ProbeTimeout
      BY <3>2, <3>3, SpanFacts
    <3> QED BY <2>1, <3>1, <3>4
  <2>2. CASE k \notin S
    <3>1. S \cap (K \ {k}) = S \cap K
      BY <2>2
    <3> QED BY <2>2, <3>1, <1>4
  <2> QED BY <2>1, <2>2
<1> QED BY <1>4, <1>5, <1>6, <1>7 DEF Work, S

\* What is left of a pass is never more than every slow target's probe.
LEMMA LeftOfPass ==
    ASSUME Typed, InPass, NEW K \in SUBSET todo
    PROVE  /\ Work(live, K) \in Nat /\ Rest \in Nat
           /\ Work(live, K) + Rest <= Span(MaxSlow)
<1>1. PICK b \in Bundles : live = BuildTargets(b)
  BY DEF Typed
<1>2. /\ Work(live, K) \in Nat /\ Work(live, K) <= Span(MaxSlow)
      /\ \A k \in Slow(live) \ K : Work(live, K) + ProbeTimeout <= Span(MaxSlow)
  BY <1>1, WorkFacts
<1>3. waited \in 0..ProbeTimeout
  BY DEF Typed, TypeOK
<1>4. CASE pc = "probe" /\ key \in Slow(live)
  <2>1. key \in Slow(live) \ K
    BY <1>4 DEF Typed
  <2>2. Rest = ProbeTimeout - waited
    BY <1>4 DEF Rest
  <2>3. Span(MaxSlow) \in Nat
    BY SpanFacts, Parameters
  <2> QED BY <1>2, <1>3, <2>1, <2>2, <2>3, Parameters
<1>5. CASE ~(pc = "probe" /\ key \in Slow(live))
  <2>1. Rest = 0
    BY <1>5 DEF Rest
  <2> QED BY <1>2, <2>1
<1> QED BY <1>4, <1>5

\* The limits of a target of the bundle ts.
LEMMA TargetLimits ==
    ASSUME NEW ts, \E b \in Bundles : ts = BuildTargets(b), NEW k \in DOMAIN ts
    PROVE  /\ k \in Keys
           /\ Longest(k) \in Nat /\ Others(k) \in Nat
           /\ Longest(k) >= MaxInterval - 1 + Others(k)
           /\ Longest(k) >= MaxInterval - 1 + BaseTick
           /\ Longest(k) >= BaseTick /\ Longest(k) >= Span(MaxSlow)
           /\ MaxInterval >= 1
<1>1. PICK b \in Bundles : ts = BuildTargets(b)
  OBVIOUS
<1>2. k \in DOMAIN BuildTargets(b)
  BY <1>1
<1>3. k \in Keys
  BY <1>2, BundleTargets
<1>4. /\ Others(k) \in Nat /\ Longest(k) \in Nat
      /\ Longest(k) >= MaxInterval - 1 + Others(k)
      /\ Longest(k) >= MaxInterval - 1 + BaseTick
      /\ Longest(k) >= Span(MaxSlow)
      /\ MaxInterval >= 1
  BY <1>2, Limits
<1> QED BY <1>3, <1>4, Parameters

LEMMA WaitsInit == Init => Waits
<1> SUFFICES ASSUME Init, NEW k \in DOMAIN targets
             PROVE  AgeTold(k) /\ Patient(k)
  BY DEF Waits
<1>1. records \in Bundles /\ targets = BuildTargets(records)
  BY DEF Init
<1>2. k \in Keys /\ Longest(k) \in Nat /\ Longest(k) >= BaseTick
  BY <1>1, TargetLimits
<1>3. gap[k] = 0 /\ lastRun[k] = Never /\ ToTick = BaseTick /\ ~InPass
  BY <1>2 DEF Init, ToTick, InPass
<1> QED BY <1>2, <1>3, Parameters DEF AgeTold, Patient

\* A target that has just entered the bundle has waited for nothing, and what
\* is left of the pass concerns the slow targets only.
FreshPatient == \A k \in DOMAIN targets : gap[k] = 0 => Patient(k)

LEMMA FreshIsPatient == Typed => FreshPatient
<1> SUFFICES ASSUME Typed, NEW k \in DOMAIN targets, gap[k] = 0
             PROVE  Patient(k)
  BY DEF FreshPatient
<1>1. /\ Longest(k) \in Nat /\ Others(k) \in Nat /\ Longest(k) >= Span(MaxSlow)
      /\ Longest(k) >= BaseTick
  BY TargetLimits DEF Typed
<1>2. ToTick \in Nat /\ ToTick <= BaseTick
  BY Parameters DEF ToTick, Typed, TypeOK
<1>3. ASSUME InPass, NEW K \in SUBSET todo
      PROVE  Left(K) \in Nat /\ Left(K) <= Longest(k)
  <2>1. /\ Work(live, K) \in Nat /\ Rest \in Nat
        /\ Work(live, K) + Rest <= Span(MaxSlow)
    BY <1>3, LeftOfPass
  <2>2. Span(MaxSlow) \in Nat
    BY SpanFacts, Parameters
  <2> QED BY <1>1, <2>1, <2>2 DEF Left
<1>4. CASE InPass /\ k \in todo
  <2>1. Left(todo \ {k}) \in Nat /\ Left(todo \ {k}) <= Longest(k)
    BY <1>3, <1>4
  <2> QED BY <1>1, <1>4, <2>1 DEF Patient
<1>5. CASE InPass /\ k \notin todo
  <2>1. Left(todo) \in Nat /\ Left(todo) <= Longest(k)
    BY <1>3, <1>5
  <2> QED BY <1>1, <1>2, <1>5, <2>1, Parameters DEF Patient
<1>6. CASE ~InPass
  BY <1>1, <1>2, <1>6, Parameters DEF Patient
<1> QED BY <1>4, <1>5, <1>6

LEMMA WaitsStep == Typed /\ Typed' /\ Waits /\ [Next]_vars => Waits'
<1> SUFFICES ASSUME Typed, Typed', Waits, [Next]_vars, NEW k \in DOMAIN targets'
             PROVE  AgeTold(k)' /\ Patient(k)'
  BY DEF Waits
<1> DEFINE W == Longest(k)
           O == Others(k)
<1>fresh. FreshPatient'
  BY FreshIsPatient, PTL
<1>1. records' \in Bundles /\ targets' = BuildTargets(records') /\ k \in Keys
  BY BundleTargets DEF Typed
<1>2. /\ W \in Nat /\ O \in Nat /\ MaxInterval \in Nat /\ MaxInterval >= 1
      /\ W >= MaxInterval - 1 + O /\ W >= BaseTick
      /\ W >= MaxInterval - 1 + BaseTick /\ BaseTick \in Nat
  BY <1>1, TargetLimits, Parameters
<1>3. /\ gap[k] \in Nat /\ gap'[k] \in Nat
      /\ ticker \in 1..BaseTick /\ ticker' \in 1..BaseTick
      /\ tick \in BOOLEAN /\ tick' \in BOOLEAN
      /\ lastRun[k] \in {Never} \cup 0..MaxInterval
  BY <1>1 DEF Typed, TypeOK
<1>4. targets' = targets => AgeTold(k) /\ Patient(k)
  BY DEF Waits
<1>5. CASE Swap
  <2>1. CASE k \in DOMAIN targets
    <3>1. gap'[k] = gap[k] /\ AgeTold(k) /\ Patient(k)
      BY <1>1, <1>5, <2>1 DEF Swap, Waits
    <3> QED BY <1>5, <3>1
            DEF Swap, passVars, AgeTold, Patient, InPass, Left, Rest, ToTick
  <2>2. CASE k \notin DOMAIN targets
    <3>1. gap'[k] = 0
      BY <1>1, <1>5, <2>2 DEF Swap
    <3>2. Patient(k)'
      BY <3>1, <1>fresh DEF FreshPatient
    <3>3. lastRun'[k] = lastRun[k]
      BY <1>5 DEF Swap
    <3> QED BY <1>3, <3>1, <3>2, <3>3 DEF AgeTold
  <2> QED BY <2>1, <2>2
<1>6. CASE BackendChanges \/ Cancel
  BY <1>4, <1>6 DEF BackendChanges, Cancel, passVars, AgeTold, Patient, InPass, Left,
                    Rest, ToTick
<1>7. CASE RunOnce
  <2>1. /\ live' = BuildTargets(records) /\ todo' = Due(live') /\ InPass'
        /\ pc' # "probe" /\ tick = TRUE /\ tick' = FALSE /\ ticker' = ticker
        /\ gap' = gap /\ lastRun' = lastRun /\ targets' = targets /\ ~InPass
    BY <1>7 DEF RunOnce, InPass, envVars
  <2>2. AgeTold(k) /\ gap[k] <= W
    BY <1>3, <1>4, <2>1 DEF Patient, ToTick
  <2>3. Rest' = 0 /\ ToTick' = ticker
    BY <2>1 DEF Rest, ToTick
  <2>4. k \in DOMAIN live' /\ live' = targets
    BY <2>1 DEF Typed
  <2>5. CASE k \in todo'
    <3>1. /\ Work(live', todo' \ {k}) \in Nat
          /\ Work(live', todo' \ {k}) <= Span(Cardinality(Slow(live') \ {k}))
      BY <2>1, WorkFacts DEF Typed
    <3>2. Span(Cardinality(Slow(live') \ {k})) <= O
          /\ Span(Cardinality(Slow(live') \ {k})) \in Nat
      BY <2>1, <2>4, Limits, SpanFacts DEF Typed
    <3>3. Work(live', todo' \ {k}) <= O
      BY <1>2, <3>1, <3>2
    <3>4. gap'[k] + (Work(live', todo' \ {k}) + Rest') <= W + O
      BY <1>2, <1>3, <2>1, <2>2, <2>3, <3>1, <3>3
    <3> QED BY <2>1, <2>2, <2>5, <3>4 DEF AgeTold, Patient, Left
  <2>6. CASE k \notin todo'
    <3>1. lastRun[k] # Never /\ lastRun[k] < Interval(live'[k])
      <4>1. lastRun[k] # Never /\ ~(lastRun[k] >= Interval(live'[k]))
        BY <2>1, <2>4, <2>6 DEF Due
      <4>2. lastRun[k] \in Int /\ Interval(live'[k]) \in Int
        BY <1>2, <1>3, <2>1, <2>4, BundleTargets DEF Never, Typed
      <4> QED BY <4>1, <4>2
    <3>2. Interval(live'[k]) <= MaxInterval /\ Interval(live'[k]) \in Int
      BY <2>1, <2>4, BundleTargets DEF Typed
    <3>3. gap[k] <= MaxInterval - 1
      BY <1>2, <1>3, <2>2, <3>1, <3>2 DEF AgeTold
    <3>4. /\ Work(live', todo') \in Nat
          /\ Work(live', todo') <= Span(Cardinality(Slow(live') \ {k}))
      BY <2>1, <2>6, WorkFacts DEF Typed
    <3>5. Span(Cardinality(Slow(live') \ {k})) <= O
          /\ Span(Cardinality(Slow(live') \ {k})) \in Nat
      BY <2>1, <2>4, Limits, SpanFacts DEF Typed
    <3>6. gap'[k] + (Work(live', todo') + Rest') <= W
      BY <1>2, <1>3, <2>1, <2>3, <3>3, <3>4, <3>5
    <3>7. gap'[k] + ToTick' <= W
      BY <1>2, <1>3, <2>1, <2>3, <3>3
    <3> QED BY <2>1, <2>2, <2>6, <3>6, <3>7 DEF AgeTold, Patient, Left
  <2> QED BY <2>5, <2>6
<1>8. CASE NewK8sLister
  BY <1>4, <1>8 DEF NewK8sLister, envVars, AgeTold, Patient, InPass, Left, Rest, ToTick
<1>9. CASE StartProbe
  <2>1. PICK j \in todo : /\ key' = j /\ todo' = todo \ {j}
                          /\ lastRun' = [lastRun EXCEPT ![j] = elapsed]
                          /\ gap' = [gap EXCEPT ![j] = 0]
    BY <1>9 DEF StartProbe
  <2>2. /\ pc = "pass" /\ pc' = "probe" /\ waited' = 0 /\ live' = live
        /\ tick' = tick /\ ticker' = ticker /\ targets' = targets /\ InPass /\ InPass'
    BY <1>9 DEF StartProbe, InPass, envVars
  <2>3. PICK b \in Bundles : live = BuildTargets(b)
    BY <2>2 DEF Typed
  <2>4. Rest = 0 /\ Rest' = IF j \in Slow(live) THEN ProbeTimeout ELSE 0
    BY <2>1, <2>2, Parameters DEF Rest
  <2>5. \A K \in SUBSET todo : j \in K =>
            Work(live, K \ {j}) + Rest' = Work(live, K) + Rest
    <3> SUFFICES ASSUME NEW K \in SUBSET todo, j \in K
                 PROVE  Work(live, K \ {j}) + Rest' = Work(live, K) + Rest
      OBVIOUS
    <3>1. /\ Work(live, K) \in Nat /\ Work(live, K \ {j}) \in Nat
          /\ Work(live, K) = Work(live, K \ {j}) + IF j \in Slow(live) THEN ProbeTimeout ELSE 0
      BY <2>3, WorkFacts
    <3> QED BY <2>4, <3>1, Parameters
  <2>6. CASE k = j
    <3>1. gap'[k] = 0 /\ lastRun'[k] = elapsed
      BY <1>1, <2>1, <2>6 DEF Typed, TypeOK
    <3>2. Patient(k)'
      BY <3>1, <1>fresh DEF FreshPatient
    <3>3. elapsed \in Nat
      BY Parameters DEF Typed, TypeOK
    <3> QED BY <3>1, <3>2, <3>3 DEF AgeTold
  <2>7. CASE k # j
    <3>1. gap'[k] = gap[k] /\ lastRun'[k] = lastRun[k] /\ AgeTold(k) /\ Patient(k)
      BY <1>1, <1>4, <2>1, <2>2, <2>7 DEF Typed, TypeOK
    <3>2. CASE k \in todo
      <4>1. (todo \ {j}) \ {k} = (todo \ {k}) \ {j} /\ j \in todo \ {k} /\ k \in todo'
        BY <2>1, <2>7, <3>2
      <4>2. Work(live, (todo \ {j}) \ {k}) + Rest' = Work(live, todo \ {k}) + Rest
        BY <2>5, <4>1
      <4>3. gap[k] + (Work(live, todo \ {k}) + Rest) <= W + O
        BY <2>2, <3>1, <3>2 DEF Patient, Left
      <4>4. gap'[k] + (Work(live', todo' \ {k}) + Rest') <= W + O
        BY <2>1, <2>2, <3>1, <4>2, <4>3
      <4> QED BY <2>2, <3>1, <4>1, <4>4 DEF AgeTold, Patient, Left
    <3>3. CASE k \notin todo
      <4>1. Work(live, todo \ {j}) + Rest' = Work(live, todo) + Rest /\ k \notin todo'
        BY <2>1, <2>5, <3>3
      <4>2. gap[k] + (Work(live, todo) + Rest) <= W /\ gap[k] + ToTick <= W
        BY <2>2, <3>1, <3>3 DEF Patient, Left
      <4>3. gap'[k] + (Work(live', todo') + Rest') <= W /\ gap'[k] + ToTick' <= W
        BY <2>1, <2>2, <3>1, <4>1, <4>2 DEF ToTick
      <4> QED BY <2>2, <3>1, <4>1, <4>3 DEF AgeTold, Patient, Left
    <3> QED BY <3>2, <3>3
  <2> QED BY <2>6, <2>7
<1>10. CASE RecordResult
  <2>1. /\ pc = "probe" /\ pc' = "pass" /\ todo' = todo /\ live' = live /\ gap' = gap
        /\ lastRun' = lastRun /\ tick' = tick /\ ticker' = ticker /\ targets' = targets
        /\ InPass /\ InPass'
    BY <1>10 DEF RecordResult, InPass, envVars
  <2>2. Rest' = 0 /\ ToTick' = ToTick
    BY <2>1 DEF Rest, ToTick
  <2>3. \A K \in SUBSET todo : Work(live, K) \in Nat /\ Rest \in Nat
    BY <2>1, LeftOfPass
  <2>4. /\ Work(live, todo) \in Nat /\ Work(live, todo \ {k}) \in Nat /\ Rest \in Nat
    BY <2>3
  <2>5. AgeTold(k) /\ Patient(k)
    BY <1>4, <2>1
  <2>6. CASE k \in todo
    <3>1. gap[k] + (Work(live, todo \ {k}) + Rest) <= W + O
      BY <2>1, <2>5, <2>6 DEF Patient, Left
    <3>2. gap'[k] + (Work(live', todo' \ {k}) + Rest') <= W + O
      BY <1>2, <1>3, <2>1, <2>2, <2>4, <3>1
    <3> QED BY <2>1, <2>5, <2>6, <3>2 DEF AgeTold, Patient, Left
  <2>7. CASE k \notin todo
    <3>1. gap[k] + (Work(live, todo) + Rest) <= W /\ gap[k] + ToTick <= W
      BY <2>1, <2>5, <2>7 DEF Patient, Left
    <3>2. gap'[k] + (Work(live', todo') + Rest') <= W /\ gap'[k] + ToTick' <= W
      BY <1>2, <1>3, <2>1, <2>2, <2>4, <3>1
    <3> QED BY <2>1, <2>5, <2>7, <3>2 DEF AgeTold, Patient, Left
  <2> QED BY <2>6, <2>7
<1>11. CASE PassEnds \/ Stop
  <2>1. /\ k \notin todo \/ ~InPass
        /\ ~InPass' /\ gap' = gap /\ lastRun' = lastRun
        /\ tick' = tick /\ ticker' = ticker /\ targets' = targets
    BY <1>11 DEF PassEnds, Stop, InPass, envVars
  <2> QED BY <1>4, <2>1 DEF AgeTold, Patient, ToTick
<1>12. CASE Tick
  <2>1. /\ pc' = pc /\ todo' = todo /\ live' = live /\ key' = key /\ targets' = targets
        /\ InPass' = InPass
    BY <1>12 DEF Tick, InPass, envVars
  <2>2. AgeTold(k) /\ Patient(k)
    BY <1>4, <2>1
  <2>3. /\ gap'[k] <= gap[k] + 1
        /\ pc = "sync" => gap'[k] = gap[k]
    BY <1>1, <1>3, <1>12, UpToFacts, Parameters DEF Tick
  <2>4. AgeTold(k)'
    <3>1. CASE lastRun[k] = Never
      <4>1. lastRun'[k] = Never
        BY <1>1, <1>12, <3>1 DEF Tick
      <4> QED BY <4>1 DEF AgeTold
    <3>2. CASE lastRun[k] # Never
      <4>1. lastRun[k] \in 0..MaxInterval /\ lastRun'[k] = UpTo(MaxInterval, lastRun[k] + 1)
        BY <1>1, <1>3, <1>12, <3>2 DEF Tick
      <4>2. lastRun'[k] = lastRun[k] + 1 \/ lastRun'[k] = MaxInterval
        BY <1>2, <4>1 DEF UpTo
      <4>3. gap[k] <= lastRun[k] \/ lastRun[k] = MaxInterval
        BY <2>2, <3>2 DEF AgeTold
      <4>4. lastRun[k] = MaxInterval => lastRun'[k] = MaxInterval
        BY <1>2, <4>1 DEF UpTo
      <4>5. gap'[k] <= lastRun'[k] \/ lastRun'[k] = MaxInterval
        BY <1>3, <2>3, <4>1, <4>2, <4>3, <4>4
      <4> QED BY <4>5 DEF AgeTold
    <3> QED BY <3>1, <3>2
  <2>5. /\ ToTick \in Nat /\ ToTick' \in Nat
        /\ ToTick' <= ToTick
        /\ tick = FALSE => ToTick' + 1 <= ToTick
        /\ tick = TRUE => ToTick' = 0
    <3>1. /\ ticker' = IF ticker = 1 THEN BaseTick ELSE ticker - 1
          /\ tick' = (tick \/ ticker = 1)
      BY <1>12 DEF Tick
    <3>2. CASE tick = TRUE \/ ticker = 1
      <4>1. tick'
        BY <3>1, <3>2
      <4> QED BY <1>3, <3>2, <4>1 DEF ToTick
    <3>3. CASE tick = FALSE /\ ticker # 1
      BY <1>3, <3>1, <3>3 DEF ToTick
    <3> QED BY <1>3, <3>2, <3>3
  <2>6. CASE ~InPass
    <3>1. tick = FALSE
      BY <1>3, <1>12, <2>6 DEF Tick, Waiting, InPass
    <3>2. gap[k] + ToTick <= W
      BY <2>2, <2>6 DEF Patient
    <3>3. gap'[k] + ToTick' <= W
      BY <1>2, <1>3, <2>3, <2>5, <3>1, <3>2
    <3> QED BY <2>1, <2>4, <2>6, <3>3 DEF Patient
  <2>7. CASE InPass
    <3>1. \A K \in SUBSET todo : Work(live, K) \in Nat /\ Rest \in Nat
      BY <2>7, LeftOfPass
    <3>2. Work(live, todo) \in Nat /\ Work(live, todo \ {k}) \in Nat /\ Rest \in Nat
      BY <3>1
    <3>3. gap'[k] + Rest' <= gap[k] + Rest /\ Rest' \in Nat
          /\ (gap'[k] = gap[k] \/ gap'[k] <= gap[k] + Rest)
      <4>1. CASE pc = "probe"
        <5>1. key \in Slow(live) /\ waited < ProbeTimeout /\ waited' = waited + 1
          BY <1>12, <4>1, ProbeTicks
        <5>2. waited \in Nat
          BY DEF Typed, TypeOK
        <5>3. Rest = ProbeTimeout - waited /\ Rest' = ProbeTimeout - (waited + 1)
          BY <2>1, <4>1, <5>1 DEF Rest
        <5> QED BY <1>3, <2>3, <5>1, <5>2, <5>3, Parameters
      <4>2. CASE pc # "probe"
        <5>1. Rest = 0 /\ Rest' = 0
          BY <2>1, <4>2 DEF Rest
        <5>2. pc = "sync"
          BY <1>12, <2>7, <4>2 DEF Tick, Waiting, InPass
        <5> QED BY <1>3, <2>3, <5>1, <5>2
      <4> QED BY <4>1, <4>2
    <3>4. CASE k \in todo
      <4>1. gap[k] + (Work(live, todo \ {k}) + Rest) <= W + O
        BY <2>2, <2>7, <3>4 DEF Patient, Left
      <4>2. gap'[k] + (Work(live', todo' \ {k}) + Rest') <= W + O
        BY <1>2, <1>3, <2>1, <3>2, <3>3, <4>1
      <4> QED BY <2>1, <2>4, <2>7, <3>4, <4>2 DEF Patient, Left
    <3>5. CASE k \notin todo
      <4>1. gap[k] + (Work(live, todo) + Rest) <= W /\ gap[k] + ToTick <= W
        BY <2>2, <2>7, <3>5 DEF Patient, Left
      <4>2. gap'[k] + (Work(live', todo') + Rest') <= W
        BY <1>2, <1>3, <2>1, <3>2, <3>3, <4>1
      <4>3. gap'[k] + ToTick' <= W
        <5>1. CASE tick = FALSE
          BY <1>2, <1>3, <2>3, <2>5, <4>1, <5>1
        <5>2. CASE tick = TRUE
          BY <1>2, <1>3, <2>5, <3>2, <3>3, <4>1, <5>2
        <5> QED BY <1>3, <5>1, <5>2
      <4> QED BY <2>1, <2>4, <2>7, <3>5, <4>2, <4>3 DEF Patient, Left
    <3> QED BY <3>4, <3>5
  <2> QED BY <2>6, <2>7
<1>13. CASE UNCHANGED vars
  BY <1>4, <1>13 DEF vars, passVars, envVars, AgeTold, Patient, InPass, Left, Rest, ToTick
<1> QED BY <1>5, <1>6, <1>7, <1>8, <1>9, <1>10, <1>11, <1>12, <1>13 DEF Next, Run

LEMMA WaitsBound == Typed /\ Waits => GapBounded
<1> SUFFICES ASSUME Typed, Waits, NEW k \in Keys, k \in DOMAIN targets
             PROVE  gap[k] <= Longest(k) + Others(k)
  BY DEF GapBounded, Longest, Others, Span
<1>1. Longest(k) \in Nat /\ Others(k) \in Nat /\ gap[k] \in Nat
  BY TargetLimits DEF Typed, TypeOK
<1>2. Patient(k)
  BY DEF Waits
<1>3. CASE InPass /\ k \in todo
  <2>1. Work(live, todo \ {k}) \in Nat /\ Rest \in Nat
    BY <1>3, LeftOfPass
  <2>2. gap[k] + (Work(live, todo \ {k}) + Rest) <= Longest(k) + Others(k)
    BY <1>2, <1>3 DEF Patient, Left
  <2> QED BY <1>1, <2>1, <2>2
<1>4. CASE ~(InPass /\ k \in todo)
  <2>1. ToTick \in Nat
    BY DEF ToTick, Typed, TypeOK
  <2>2. gap[k] + ToTick <= Longest(k)
    BY <1>2, <1>4 DEF Patient
  <2> QED BY <1>1, <2>1, <2>2
<1> QED BY <1>3, <1>4

\* How long a target of the bundle may go without a probe, for any number of
\* targets and any intervals: no longer than the longest interval and one pass
\* of the others or a tick, or one whole pass, and the others of one pass more
\* (runner.go:118-146).
THEOREM WaitsAreBounded == Spec => []GapBounded
<1>1. Init => Typed /\ Waits
  BY TypedInit, WaitsInit
<1>2. (Typed /\ Waits) /\ [Next]_vars => (Typed /\ Waits)'
  BY TypedStep, WaitsStep
<1> QED BY <1>1, <1>2, WaitsBound, PTL DEF Spec
=============================================================================
