------------------------ MODULE HealthMachineProofs -------------------------
(***************************************************************************)
(* Proofs about HealthMachine.tla, for every set of keys, every set of     *)
(* integer thresholds and every bound on the number of results.            *)
(***************************************************************************)
EXTENDS HealthMachine, TLAPS

\* The threshold step keeps a target state well typed (machine.go,
\* RecordResult).
LEMMA RecordType ==
    ASSUME NEW t \in TargetState, NEW up \in BOOLEAN,
           NEW ft \in Int, NEW rt \in Int
    PROVE  Record(t, up, ft, rt) \in TargetState
BY DEF Record, Success, Failure, TargetState, HealthValues, Healthy, Unhealthy

LEMMA TypeStep == TypeOK /\ [Next]_vars => TypeOK'
<1> SUFFICES ASSUME TypeOK, [Next]_vars PROVE TypeOK'
    OBVIOUS
<1>1. ASSUME NEW k \in Keys, NEW up \in BOOLEAN,
             NEW ft \in Thresholds, NEW rt \in Thresholds,
             RecordResult(k, up, ft, rt)
      PROVE  TypeOK'
  <2>1. Record(targets[k], up, ft, rt) \in TargetState
    BY RecordType, ThresholdsAssumption DEF TypeOK
  <2>2. targets' \in [Keys -> TargetState]
    BY <1>1, <2>1 DEF TypeOK, RecordResult
  <2>3. log' \in [Keys -> Seq(Result)]
    <3> DEFINE r == [up |-> up, ft |-> ft, rt |-> rt]
    <3>1. r \in Result
      BY DEF Result
    <3> HIDE DEF r
    <3>2. Append(log[k], r) \in Seq(Result)
      BY <3>1 DEF TypeOK
    <3>3. log' = [log EXCEPT ![k] = Append(log[k], r)]
      BY <1>1 DEF RecordResult, r
    <3> QED BY <3>2, <3>3 DEF TypeOK
  <2> QED BY <2>2, <2>3 DEF TypeOK
<1>2. CASE UNCHANGED vars
  BY <1>2 DEF vars, TypeOK
<1> QED BY <1>1, <1>2 DEF Next

LEMMA TypeInit == NewMachine => TypeOK
BY DEF NewMachine, TypeOK, NewTarget, TargetState, HealthValues, Unknown

\* Every reachable state of the machine is well typed.
THEOREM TypeCorrect == Spec => []TypeOK
BY TypeInit, TypeStep, PTL DEF Spec

-----------------------------------------------------------------------------
(* How the history-based definitions grow when one result is appended.     *)

LEMMA AppendFacts ==
    ASSUME NEW l \in Seq(Result), NEW r \in Result
    PROVE  /\ Append(l, r) \in Seq(Result)
           /\ Len(Append(l, r)) = Len(l) + 1
           /\ DOMAIN Append(l, r) = (DOMAIN l) \cup {Len(l) + 1}
           /\ DOMAIN l = 1..Len(l)
           /\ \A i \in DOMAIN l : Append(l, r)[i] = l[i]
           /\ Append(l, r)[Len(l) + 1] = r
OBVIOUS

\* The fields of a result, with the thresholds RecordResult judges it by.
LEMMA ResultFields ==
    ASSUME NEW r \in Result
    PROVE  /\ r.up \in BOOLEAN
           /\ AtLeastOne(r.ft) \in Nat \ {0}
           /\ AtLeastOne(r.rt) \in Nat \ {0}
<1>1. r.up \in BOOLEAN
  BY DEF Result
<1>2. r.ft \in Int /\ r.rt \in Int
  BY ThresholdsAssumption DEF Result
<1> QED BY <1>1, <1>2 DEF AtLeastOne

\* A run that ends inside the old log is not affected.
LEMMA RunOfOld ==
    ASSUME NEW l \in Seq(Result), NEW r \in Result,
           NEW i \in DOMAIN l, NEW n \in Nat \ {0}, NEW up \in BOOLEAN
    PROVE  RunOf(Append(l, r), i, n, up) <=> RunOf(l, i, n, up)
BY AppendFacts DEF RunOf

\* A run that ends at the new result is the trailing run made longer.
LEMMA RunOfNew ==
    ASSUME NEW l \in Seq(Result), NEW r \in Result, NEW c \in Nat,
           NEW n \in Nat \ {0}, NEW up \in BOOLEAN,
           IsTrailingRun(l, c, up)
    PROVE  RunOf(Append(l, r), Len(l) + 1, n, up) <=> r.up = up /\ n <= c + 1
<1> DEFINE m == Len(l)
           a == Append(l, r)
<1>0. /\ m \in Nat
      /\ DOMAIN l = 1..m
      /\ a[m + 1] = r
      /\ \A j \in 1..m : a[j] = l[j]
  BY AppendFacts
<1>1. /\ c <= m
      /\ \A j \in (m - c + 1)..m : l[j].up = up
      /\ c < m => l[m - c].up # up
  BY DEF IsTrailingRun, RunOf
<1> HIDE DEF m, a
<1>2. ASSUME n <= m + 1, \A j \in (m + 1 - n + 1)..(m + 1) : a[j].up = up
      PROVE  r.up = up /\ n <= c + 1
  <2>1. r.up = up
    BY <1>0, <1>2
  <2>2. ASSUME n > c + 1
        PROVE  FALSE
    <3>1. c < m /\ m - c \in (m + 1 - n + 1)..(m + 1) /\ m - c \in 1..m
      BY <1>0, <1>2, <2>2
    <3> QED BY <3>1, <1>0, <1>1, <1>2
  <2> QED BY <2>1, <2>2
<1>3. ASSUME r.up = up, n <= c + 1
      PROVE  n <= m + 1 /\ \A j \in (m + 1 - n + 1)..(m + 1) : a[j].up = up
  <2>1. n <= m + 1
    BY <1>0, <1>1, <1>3
  <2>2. ASSUME NEW j \in (m + 1 - n + 1)..(m + 1)
        PROVE  a[j].up = up
    <3>1. CASE j = m + 1
      BY <3>1, <1>0, <1>3
    <3>2. CASE j # m + 1
      <4>1. j \in (m - c + 1)..m /\ j \in 1..m
        BY <3>2, <1>0, <1>1, <1>3
      <4> QED BY <4>1, <1>0, <1>1
    <3> QED BY <3>1, <3>2
  <2> QED BY <2>1, <2>2
<1> QED BY <1>2, <1>3 DEF RunOf, m, a

\* The trailing run after one more result.
LEMMA TrailingRunStep ==
    ASSUME NEW l \in Seq(Result), NEW r \in Result, NEW c \in Nat,
           NEW up \in BOOLEAN, IsTrailingRun(l, c, up)
    PROVE  IsTrailingRun(Append(l, r), IF r.up = up THEN c + 1 ELSE 0, up)
<1> DEFINE m == Len(l)
           a == Append(l, r)
<1>0. /\ m \in Nat
      /\ Len(a) = m + 1
      /\ a[m + 1] = r
      /\ \A j \in 1..m : a[j] = l[j]
      /\ r.up \in BOOLEAN
  BY AppendFacts DEF Result
<1>1. /\ c <= m
      /\ \A j \in (m - c + 1)..m : l[j].up = up
      /\ c < m => l[m - c].up # up
  BY DEF IsTrailingRun, RunOf
<1> HIDE DEF m, a
<1>2. CASE r.up = up
  <2>1. c + 1 <= m + 1
    BY <1>0, <1>1
  <2>2. \A j \in (m + 1 - (c + 1) + 1)..(m + 1) : a[j].up = up
    BY <1>0, <1>1, <1>2
  <2>3. c + 1 < m + 1 => a[m + 1 - (c + 1)].up # up
    <3> SUFFICES ASSUME c + 1 < m + 1 PROVE a[m + 1 - (c + 1)].up # up
      OBVIOUS
    <3>1. m + 1 - (c + 1) = m - c /\ m - c \in 1..m /\ c < m
      BY <1>0, <1>1
    <3> QED BY <3>1, <1>0, <1>1
  <2> QED BY <1>0, <1>2, <2>1, <2>2, <2>3 DEF IsTrailingRun, RunOf, a
<1>3. CASE r.up # up
  BY <1>0, <1>3 DEF IsTrailingRun, RunOf, a
<1> QED BY <1>2, <1>3

\* The new result is the only decision that appending it can add.
LEMMA DecidesUpStep ==
    ASSUME NEW l \in Seq(Result), NEW r \in Result, NEW c \in Nat,
           IsTrailingRun(l, c, TRUE)
    PROVE  DecidesUp(Append(l, r))
             = DecidesUp(l) \cup IF r.up /\ AtLeastOne(r.rt) <= c + 1
                                   THEN {Len(l) + 1} ELSE {}
<1> DEFINE a == Append(l, r)
<1>1. \A i \in DOMAIN l : RunOf(a, i, AtLeastOne(a[i].rt), TRUE)
                            <=> RunOf(l, i, AtLeastOne(l[i].rt), TRUE)
  <2> SUFFICES ASSUME NEW i \in DOMAIN l
               PROVE  RunOf(a, i, AtLeastOne(l[i].rt), TRUE)
                        <=> RunOf(l, i, AtLeastOne(l[i].rt), TRUE)
    BY AppendFacts
  <2>1. l[i] \in Result
    OBVIOUS
  <2>2. AtLeastOne(l[i].rt) \in Nat \ {0}
    BY <2>1, ResultFields
  <2> QED BY <2>2, RunOfOld
<1>2. RunOf(a, Len(l) + 1, AtLeastOne(r.rt), TRUE)
        <=> r.up = TRUE /\ AtLeastOne(r.rt) <= c + 1
  <2>1. AtLeastOne(r.rt) \in Nat \ {0}
    BY ResultFields
  <2> HIDE DEF a
  <2> QED BY <2>1, RunOfNew DEF a
<1>3. a[Len(l) + 1] = r
  BY AppendFacts
<1>4. (r.up = TRUE) <=> r.up
  BY ResultFields
<1>5. DOMAIN a = (DOMAIN l) \cup {Len(l) + 1} /\ Len(l) + 1 \notin DOMAIN l
  BY AppendFacts
<1> HIDE DEF a
<1> QED BY <1>1, <1>2, <1>3, <1>4, <1>5 DEF DecidesUp, a

LEMMA DecidesDownStep ==
    ASSUME NEW l \in Seq(Result), NEW r \in Result, NEW c \in Nat,
           IsTrailingRun(l, c, FALSE)
    PROVE  DecidesDown(Append(l, r))
             = DecidesDown(l) \cup IF ~r.up /\ AtLeastOne(r.ft) <= c + 1
                                     THEN {Len(l) + 1} ELSE {}
<1> DEFINE a == Append(l, r)
<1>1. \A i \in DOMAIN l : RunOf(a, i, AtLeastOne(a[i].ft), FALSE)
                            <=> RunOf(l, i, AtLeastOne(l[i].ft), FALSE)
  <2> SUFFICES ASSUME NEW i \in DOMAIN l
               PROVE  RunOf(a, i, AtLeastOne(l[i].ft), FALSE)
                        <=> RunOf(l, i, AtLeastOne(l[i].ft), FALSE)
    BY AppendFacts
  <2>1. l[i] \in Result
    OBVIOUS
  <2>2. AtLeastOne(l[i].ft) \in Nat \ {0}
    BY <2>1, ResultFields
  <2> QED BY <2>2, RunOfOld
<1>2. RunOf(a, Len(l) + 1, AtLeastOne(r.ft), FALSE)
        <=> r.up = FALSE /\ AtLeastOne(r.ft) <= c + 1
  <2>1. AtLeastOne(r.ft) \in Nat \ {0}
    BY ResultFields
  <2> HIDE DEF a
  <2> QED BY <2>1, RunOfNew DEF a
<1>3. a[Len(l) + 1] = r
  BY AppendFacts
<1>4. (r.up = FALSE) <=> ~r.up
  BY ResultFields
<1>5. DOMAIN a = (DOMAIN l) \cup {Len(l) + 1} /\ Len(l) + 1 \notin DOMAIN l
  BY AppendFacts
<1> HIDE DEF a
<1> QED BY <1>1, <1>2, <1>3, <1>4, <1>5 DEF DecidesDown, a

-----------------------------------------------------------------------------
(* The inductive invariant, one key at a time.                             *)

CountersMatch(t, l) ==
    /\ IsTrailingRun(l, t.consecSuccess, TRUE)
    /\ IsTrailingRun(l, t.consecFail, FALSE)

HealthMatches(t, l) ==
    /\ t.health = Healthy <=> LastWord(DecidesUp(l), DecidesDown(l))
    /\ t.health = Unhealthy <=> LastWord(DecidesDown(l), DecidesUp(l))

\* One result keeps the counters equal to the trailing runs.
LEMMA CountersStep ==
    ASSUME NEW t \in TargetState, NEW l \in Seq(Result), NEW r \in Result,
           CountersMatch(t, l)
    PROVE  CountersMatch(Record(t, r.up, r.ft, r.rt), Append(l, r))
<1> DEFINE u == Record(t, r.up, r.ft, r.rt)
<1>1. t.consecSuccess \in Nat /\ t.consecFail \in Nat
  BY DEF TargetState
<1>2. r.up \in BOOLEAN
  BY ResultFields
<1>3. /\ u.consecSuccess = IF r.up = TRUE THEN t.consecSuccess + 1 ELSE 0
      /\ u.consecFail = IF r.up = FALSE THEN t.consecFail + 1 ELSE 0
  BY <1>2 DEF Record, Success, Failure
<1>4. IsTrailingRun(Append(l, r),
          IF r.up = TRUE THEN t.consecSuccess + 1 ELSE 0, TRUE)
  BY <1>1, TrailingRunStep DEF CountersMatch
<1>5. IsTrailingRun(Append(l, r),
          IF r.up = FALSE THEN t.consecFail + 1 ELSE 0, FALSE)
  BY <1>1, TrailingRunStep DEF CountersMatch
<1> HIDE DEF u
<1> QED BY <1>3, <1>4, <1>5 DEF CountersMatch, u

\* A decision at the new result has the last word; no decision leaves it.
LEMMA LastWordStep ==
    ASSUME NEW n \in Nat, NEW S \in SUBSET (1..n), NEW T \in SUBSET (1..n)
    PROVE  /\ LastWord(S \cup {n + 1}, T)
           /\ ~LastWord(T, S \cup {n + 1})
BY DEF LastWord

LEMMA HealthStep ==
    ASSUME NEW t \in TargetState, NEW l \in Seq(Result), NEW r \in Result,
           CountersMatch(t, l), HealthMatches(t, l)
    PROVE  HealthMatches(Record(t, r.up, r.ft, r.rt), Append(l, r))
<1> DEFINE u == Record(t, r.up, r.ft, r.rt)
           n == Len(l)
           U == DecidesUp(l)
           D == DecidesDown(l)
           upNow == r.up /\ AtLeastOne(r.rt) <= t.consecSuccess + 1
           downNow == ~r.up /\ AtLeastOne(r.ft) <= t.consecFail + 1
<1>1. t.consecSuccess \in Nat /\ t.consecFail \in Nat
  BY DEF TargetState
<1>2. n \in Nat /\ U \in SUBSET (1..n) /\ D \in SUBSET (1..n)
  <2>1. DOMAIN l = 1..n /\ n \in Nat
    OBVIOUS
  <2>2. U \subseteq DOMAIN l /\ D \subseteq DOMAIN l
    BY DEF DecidesUp, DecidesDown
  <2> HIDE DEF n, U, D
  <2> QED BY <2>1, <2>2
<1>3. DecidesUp(Append(l, r)) = U \cup IF upNow THEN {n + 1} ELSE {}
  BY <1>1, DecidesUpStep DEF CountersMatch
<1>4. DecidesDown(Append(l, r)) = D \cup IF downNow THEN {n + 1} ELSE {}
  BY <1>1, DecidesDownStep DEF CountersMatch
<1>5. u.health = IF upNow THEN Healthy ELSE IF downNow THEN Unhealthy
                                            ELSE t.health
  BY <1>1, ResultFields DEF Record, Success, Failure
<1>6. ~(upNow /\ downNow) /\ Healthy # Unhealthy
  BY DEF Healthy, Unhealthy
<1>7. /\ t.health = Healthy <=> LastWord(U, D)
      /\ t.health = Unhealthy <=> LastWord(D, U)
  BY DEF HealthMatches
<1> HIDE DEF u, n, U, D, upNow, downNow
<1>8. CASE upNow
  <2>1. DecidesUp(Append(l, r)) = U \cup {n + 1} /\ DecidesDown(Append(l, r)) = D
    BY <1>3, <1>4, <1>6, <1>8
  <2>2. LastWord(U \cup {n + 1}, D) /\ ~LastWord(D, U \cup {n + 1})
    BY <1>2, LastWordStep
  <2> QED BY <1>5, <1>6, <1>8, <2>1, <2>2 DEF HealthMatches, u
<1>9. CASE downNow
  <2>1. DecidesUp(Append(l, r)) = U /\ DecidesDown(Append(l, r)) = D \cup {n + 1}
    BY <1>3, <1>4, <1>6, <1>9
  <2>2. LastWord(D \cup {n + 1}, U) /\ ~LastWord(U, D \cup {n + 1})
    BY <1>2, LastWordStep
  <2> QED BY <1>5, <1>6, <1>9, <2>1, <2>2 DEF HealthMatches, u
<1>10. CASE ~upNow /\ ~downNow
  <2>1. DecidesUp(Append(l, r)) = U /\ DecidesDown(Append(l, r)) = D
    BY <1>3, <1>4, <1>10
  <2> QED BY <1>5, <1>7, <1>10, <2>1 DEF HealthMatches, u
<1> QED BY <1>8, <1>9, <1>10

IInv == TypeOK /\ CountersAreTrailingRuns /\ HealthMatchesHistory

LEMMA IInvInit == NewMachine => IInv
<1> SUFFICES ASSUME NewMachine PROVE CountersAreTrailingRuns /\ HealthMatchesHistory
  BY TypeInit DEF IInv
<1> SUFFICES ASSUME NEW k \in Keys
             PROVE  CountersMatch(targets[k], log[k]) /\ HealthMatches(targets[k], log[k])
  BY DEF CountersAreTrailingRuns, HealthMatchesHistory, CountersMatch, HealthMatches
<1>1. targets[k] = NewTarget /\ log[k] = <<>>
  BY DEF NewMachine
<1>2. DOMAIN <<>> = {} /\ Len(<<>>) = 0
  OBVIOUS
<1>3. CountersMatch(NewTarget, <<>>)
  BY <1>2 DEF CountersMatch, NewTarget, IsTrailingRun, RunOf
<1>4. DecidesUp(<<>>) = {} /\ DecidesDown(<<>>) = {}
  BY <1>2 DEF DecidesUp, DecidesDown
<1>5. HealthMatches(NewTarget, <<>>)
  BY <1>4 DEF HealthMatches, NewTarget, LastWord, Healthy, Unhealthy, Unknown
<1> QED BY <1>1, <1>3, <1>5

LEMMA IInvStep == IInv /\ [Next]_vars => IInv'
<1> SUFFICES ASSUME IInv, [Next]_vars PROVE IInv'
  OBVIOUS
<1>0. TypeOK'
  BY TypeStep DEF IInv
<1>1. ASSUME NEW k \in Keys, NEW up \in BOOLEAN,
             NEW ft \in Thresholds, NEW rt \in Thresholds,
             RecordResult(k, up, ft, rt), NEW j \in Keys
      PROVE  CountersMatch(targets'[j], log'[j]) /\ HealthMatches(targets'[j], log'[j])
  <2> DEFINE r == [up |-> up, ft |-> ft, rt |-> rt]
  <2>0. /\ targets[j] \in TargetState /\ log[j] \in Seq(Result)
        /\ CountersMatch(targets[j], log[j]) /\ HealthMatches(targets[j], log[j])
    BY DEF IInv, TypeOK, CountersAreTrailingRuns, HealthMatchesHistory,
           CountersMatch, HealthMatches
  <2>1. r \in Result /\ r.up = up /\ r.ft = ft /\ r.rt = rt
    BY DEF Result
  <2>2. CASE j = k
    <3>1. targets'[j] = Record(targets[j], r.up, r.ft, r.rt) /\ log'[j] = Append(log[j], r)
      BY <1>1, <2>1, <2>2 DEF RecordResult, IInv, TypeOK
    <3> HIDE DEF r
    <3> QED BY <2>0, <2>1, <3>1, CountersStep, HealthStep
  <2>3. CASE j # k
    <3>1. targets'[j] = targets[j] /\ log'[j] = log[j]
      BY <1>1, <2>3 DEF RecordResult, IInv, TypeOK
    <3> QED BY <2>0, <3>1
  <2> QED BY <2>2, <2>3
<1>2. ASSUME NEW k \in Keys, NEW up \in BOOLEAN,
             NEW ft \in Thresholds, NEW rt \in Thresholds,
             RecordResult(k, up, ft, rt)
      PROVE  CountersAreTrailingRuns' /\ HealthMatchesHistory'
  BY <1>1, <1>2 DEF CountersAreTrailingRuns, HealthMatchesHistory,
                    CountersMatch, HealthMatches
<1>3. CASE UNCHANGED vars
  BY <1>0, <1>3 DEF vars, IInv, CountersAreTrailingRuns, HealthMatchesHistory
<1> QED BY <1>0, <1>2, <1>3 DEF Next, IInv

\* The threshold machine computes the verdict of the whole history, for any
\* thresholds, changed at any result (machine.go, RecordResult).
THEOREM HealthCorrect == Spec => []HealthMatchesHistory
<1>1. IInv => HealthMatchesHistory
  BY DEF IInv
<1> QED BY <1>1, IInvInit, IInvStep, PTL DEF Spec

\* The two counters measure the runs that end the history, across every
\* change of the thresholds (machine.go, RecordResult).
THEOREM CountersCorrect == Spec => []CountersAreTrailingRuns
<1>1. IInv => CountersAreTrailingRuns
  BY DEF IInv
<1> QED BY <1>1, IInvInit, IInvStep, PTL DEF Spec

-----------------------------------------------------------------------------
(* Refinement of LocalHealth.                                              *)

LEMMA ReadersInit == NewMachine => Readers!LocalInit
<1> SUFFICES ASSUME NewMachine PROVE Readers!LocalInit
  OBVIOUS
<1>1. \A k \in Keys : State(targets[k]) = Readers!Unknown
  BY DEF NewMachine, NewTarget, State, Unknown, Readers!Unknown
<1>2. \A k \in Keys : Ready(targets[k]) = FALSE
  <2>1. \A k \in Keys : targets[k].cycles = 0
    BY DEF NewMachine, NewTarget
  <2>2. (0 >= 1) = FALSE
    OBVIOUS
  <2> QED BY <2>1, <2>2 DEF Ready
<1> QED BY <1>1, <1>2, Zenon DEF Readers!LocalInit

LEMMA ReadersStep ==
    TypeOK /\ [Next]_vars => [Readers!LocalNext]_(Readers!localVars)
<1> SUFFICES ASSUME TypeOK, [Next]_vars
             PROVE  [Readers!LocalNext]_(Readers!localVars)
  OBVIOUS
<1>1. ASSUME NEW k \in Keys, NEW up \in BOOLEAN,
             NEW ft \in Thresholds, NEW rt \in Thresholds,
             RecordResult(k, up, ft, rt)
      PROVE  Readers!LocalNext
  <2> DEFINE u == Record(targets[k], up, ft, rt)
  <2>1. targets' = [targets EXCEPT ![k] = u] /\ u \in TargetState
        /\ targets \in [Keys -> TargetState]
    BY <1>1, RecordType, ThresholdsAssumption DEF RecordResult, TypeOK
  <2>2. u.health \in {Healthy, Unhealthy, targets[k].health} /\ u.cycles = targets[k].cycles + 1
    BY DEF Record, Success, Failure
  <2>3. u.health \in HealthValues /\ targets[k].cycles \in Nat
    BY <2>1 DEF TargetState
  <2> HIDE DEF u
  <2>4. [j \in Keys |-> State(targets'[j])]
          = [[j \in Keys |-> State(targets[j])] EXCEPT ![k] = u.health]
    BY <2>1 DEF State
  <2>5. u.cycles >= 1
    BY <2>2, <2>3
  <2>6. [j \in Keys |-> Ready(targets'[j])]
          = [[j \in Keys |-> Ready(targets[j])] EXCEPT ![k] = TRUE]
    BY <2>1, <2>5 DEF Ready
  <2>7. Readers!Observe(k, u.health)
    <3>1. u.health \in {Readers!Healthy, Readers!Unhealthy,
                        [j \in Keys |-> State(targets[j])][k]}
      BY <2>2 DEF State, Healthy, Unhealthy, Readers!Healthy, Readers!Unhealthy
    <3> QED BY <3>1, <2>4, <2>6, Zenon DEF Readers!Observe
  <2>8. u.health \in Readers!HealthValues
    BY <2>3 DEF HealthValues, Healthy, Unhealthy, Unknown, Readers!HealthValues,
                Readers!Healthy, Readers!Unhealthy, Readers!Unknown
  <2> QED BY <2>7, <2>8 DEF Readers!LocalNext
<1>2. CASE UNCHANGED vars
  BY <1>2 DEF vars, Readers!localVars
<1> QED BY <1>1, <1>2 DEF Next

\* What the DNS server reads of the machine is what LocalHealth.tla promises
\* (evaluate.go, interface LocalHealth; machine.go, State and Ready).
THEOREM MachineImplementsLocalHealth == Spec => ImplementsLocalHealth
BY ReadersInit, ReadersStep, TypeCorrect, PTL
   DEF Spec, ImplementsLocalHealth, Readers!LocalSpec
=============================================================================
