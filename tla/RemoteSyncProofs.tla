-------------------------- MODULE RemoteSyncProofs --------------------------
(***************************************************************************)
(* Proofs about the pure functions, ExponentialBackoff and BuildTargets,   *)
(* and about RemoteSync.tla, for every width of a duration, every base and *)
(* ceiling of the backoff, every bundle, every set of rejected             *)
(* publications and every timeout.                                         *)
(***************************************************************************)
EXTENDS RemoteSync, MCAlgorithms, FiniteSetTheorems, TLAPS

(* Induction and powers of two.  The induction theorems of the library     *)
(* take a predicate; this one takes the set of the numbers that have it,   *)
(* and rests on the least element of a set of naturals.                    *)

LEMMA LeastNatural ==
    ASSUME NEW T, T \subseteq Nat, T # {}
    PROVE  \E x \in T : \A y \in T : ~(y < x)
<1> DEFINE R == OpToRel(<, Nat)
<1>1. IsWellFoundedOn(R, Nat)
  BY NatLessThanWellFounded
<1>2. \A x \in Nat, y \in Nat : y < x => <<y, x>> \in R
  BY DEF OpToRel
<1> HIDE DEF R
<1>3. \E x \in T : \A y \in T : ~(<<y, x>> \in R)
  BY <1>1, WFMin
<1> QED BY <1>2, <1>3

LEMMA SetInduction ==
    ASSUME NEW S, 0 \in S, \A n \in Nat : n \in S => n + 1 \in S
    PROVE  Nat \subseteq S
<1> SUFFICES ASSUME Nat \ S # {} PROVE FALSE
    OBVIOUS
<1>1. PICK x \in Nat \ S : \A y \in Nat \ S : ~(y < x)
  BY LeastNatural
<1>2. x # 0 /\ x - 1 \in Nat /\ x - 1 < x
  BY <1>1
<1>3. x - 1 \in S
  BY <1>1, <1>2
<1> QED BY <1>1, <1>2, <1>3

LEMMA PowerOfZero == 2^0 = 1
<1>1. SUBSET {} = {{}}
  OBVIOUS
<1>2. Cardinality(SUBSET {}) = 1
  BY <1>1, FS_Singleton
<1> QED BY <1>2, FS_SUBSET, FS_EmptySet

\* The subsets of 1..(n + 1) are those of 1..n, without n + 1 and with it.
LEMMA PowerOfNext ==
    ASSUME NEW n \in Nat
    PROVE  2^(n + 1) = 2 * 2^n /\ 2^n \in Nat
<1> DEFINE A == 1..n
           B == 1..(n + 1)
           S == SUBSET A
           f == [T \in S |-> T \cup {n + 1}]
           With == {T \cup {n + 1} : T \in S}
<1>1. IsFiniteSet(A) /\ Cardinality(A) = n
  BY FS_Interval
<1>2. IsFiniteSet(B) /\ Cardinality(B) = n + 1
  BY FS_Interval
<1>3. IsFiniteSet(S) /\ Cardinality(S) = 2^n /\ Cardinality(S) \in Nat
  BY <1>1, FS_SUBSET, FS_CardinalityType
<1>4. f \in Bijection(S, With)
  <2>1. n + 1 \notin A
    OBVIOUS
  <2>2. \A T, U \in S : f[T] = f[U] => T = U
    BY <2>1
  <2>3. f \in [S -> With] /\ \A t \in With : \E T \in S : f[T] = t
    OBVIOUS
  <2> QED BY <2>2, <2>3 DEF Bijection, Injection, Surjection, IsInjective
<1>5. IsFiniteSet(With) /\ Cardinality(With) = 2^n
  BY <1>3, <1>4, FS_Bijection DEF ExistsBijection
<1>6. SUBSET B = S \cup With
  <2>1. \A T \in SUBSET B : T \ {n + 1} \in S
    OBVIOUS
  <2>2. \A T \in SUBSET B : T \in S \/ T = (T \ {n + 1}) \cup {n + 1}
    OBVIOUS
  <2>3. \A T \in S : T \subseteq B /\ T \cup {n + 1} \subseteq B
    OBVIOUS
  <2>4. \A T \in SUBSET B : T \in S \cup With
    BY <2>1, <2>2
  <2>5. \A T \in S \cup With : T \in SUBSET B
    BY <2>3
  <2> HIDE DEF With, S, B
  <2> QED BY <2>4, <2>5
<1>7. S \cap With = {}
  OBVIOUS
<1>8. Cardinality(SUBSET B) = Cardinality(S) + Cardinality(With) - Cardinality({})
  BY <1>3, <1>5, <1>6, <1>7, FS_Union
<1>9. Cardinality(SUBSET B) = 2^(n + 1)
  BY <1>2, FS_SUBSET
<1> QED BY <1>3, <1>5, <1>8, <1>9, FS_EmptySet

LEMMA PowersGrow ==
    /\ \A n \in Nat : 2^n \in Nat /\ 2^n > n
    /\ \A n \in Nat : 2^(n + 1) = 2 * 2^n
<1> DEFINE S == {n \in Nat : 2^n > n}
<1>1. \A n \in Nat : 2^(n + 1) = 2 * 2^n /\ 2^n \in Nat
  BY PowerOfNext
<1>2. 0 \in S
  BY PowerOfZero
<1>3. \A n \in Nat : n \in S => n + 1 \in S
  <2> SUFFICES ASSUME NEW n \in Nat, 2^n > n PROVE 2^(n + 1) > n + 1
    OBVIOUS
  <2> QED BY <1>1
<1>4. Nat \subseteq S
  <2> HIDE DEF S
  <2> QED BY <1>2, <1>3, SetInduction
<1> QED BY <1>1, <1>4

-----------------------------------------------------------------------------
(* ExponentialBackoff.                                                     *)

\* Half the range, and doublings below it, fit in a duration.
LEMMA WrapKeeps ==
    /\ MaxInt \in Nat
    /\ 2^(Bits - 2) \in Nat /\ 2^(Bits - 2) <= MaxInt
    /\ \A d \in Nat : d < 2^(Bits - 2) => Wrap(2 * d) = 2 * d
<1> DEFINE H == 2^(Bits - 2)
<1>1. Bits - 2 \in Nat /\ Bits - 1 = (Bits - 2) + 1 /\ Bits = (Bits - 1) + 1
  BY BitsAssumption
<1>2. H \in Nat /\ H > 0 /\ 2^(Bits - 1) = 2 * H /\ 2^Bits = 2 * (2 * H)
  BY <1>1, PowersGrow
<1>3. MaxInt = 2 * H - 1
  BY <1>2 DEF MaxInt
<1>4. ASSUME NEW d \in Nat, d < H PROVE Wrap(2 * d) = 2 * d
  <2>1. Wrap(2 * d) = ((2 * d + 2 * H) % (2 * (2 * H))) - 2 * H
    BY <1>2 DEF Wrap
  <2>2. 2 * d + 2 * H \in 0..(2 * (2 * H) - 1)
    BY <1>2, <1>4
  <2>3. \A m \in Nat : \A x \in 0..(m - 1) : x % m = x
    OBVIOUS
  <2>4. (2 * d + 2 * H) % (2 * (2 * H)) = 2 * d + 2 * H
    BY <1>2, <2>2, <2>3
  <2> QED BY <1>2, <2>1, <2>4
<1> QED BY <1>2, <1>3, <1>4

\* The loop variable of ExponentialBackoff after i rounds.
Loop(base, ceiling) ==
    CHOOSE d : d = [i \in Nat |-> IF i = 0 THEN base
                                  ELSE IF d[i - 1] >= ceiling THEN ceiling
                                  ELSE Wrap(2 * d[i - 1])]

\* The same without rounds.
Doubled(base, ceiling) ==
    [i \in Nat |-> IF i = 0 THEN base
                   ELSE IF base * 2^(i - 1) >= ceiling THEN ceiling
                   ELSE base * 2^i]

LEMMA Product ==
    ASSUME NEW a \in Nat, NEW p \in Nat
    PROVE  a * p \in Nat /\ a * (2 * p) = 2 * (a * p)
OBVIOUS

LEMMA DoubledLoops ==
    ASSUME NEW base \in Nat, NEW ceiling \in 0..2^(Bits - 2), NEW i \in Nat \ {0}
    PROVE  Doubled(base, ceiling)[i] =
               IF Doubled(base, ceiling)[i - 1] >= ceiling THEN ceiling
               ELSE Wrap(2 * Doubled(base, ceiling)[i - 1])
<1> SUFFICES ASSUME NEW d, d = Doubled(base, ceiling)
             PROVE  d[i] = IF d[i - 1] >= ceiling THEN ceiling ELSE Wrap(2 * d[i - 1])
    OBVIOUS
<1>1. i - 1 \in Nat /\ (i - 1) + 1 = i /\ ceiling \in Nat
  BY WrapKeeps
<1>2. /\ 2^(i - 1) \in Nat /\ 2^i \in Nat /\ 2^i = 2 * 2^(i - 1)
      /\ base * 2^(i - 1) \in Nat /\ base * 2^i = 2 * (base * 2^(i - 1))
  BY <1>1, PowersGrow, Product
<1>3. d[i] = IF base * 2^(i - 1) >= ceiling THEN ceiling ELSE base * 2^i
  BY DEF Doubled
<1> DEFINE p == base * 2^(i - 1)
<1>4. \A x \in Nat : x < ceiling => Wrap(2 * x) = 2 * x
  BY WrapKeeps
<1>5. CASE i = 1
  <2>1. d[i - 1] = base /\ base * 2^(i - 1) = base
    BY <1>5, PowerOfZero DEF Doubled
  <2> QED BY <1>1, <1>2, <1>3, <1>4, <2>1
<1>6. CASE i # 1
  <2>1. i - 2 \in Nat /\ (i - 2) + 1 = i - 1 /\ (i - 1) - 1 = i - 2 /\ i - 1 # 0
    BY <1>6
  <2>2. /\ 2^(i - 2) \in Nat /\ base * 2^(i - 2) \in Nat
        /\ base * 2^(i - 1) = 2 * (base * 2^(i - 2))
    BY <2>1, PowersGrow, Product
  <2>3. d[i - 1] = IF base * 2^(i - 2) >= ceiling THEN ceiling ELSE base * 2^(i - 1)
    BY <1>1, <2>1 DEF Doubled
  <2>4. p \in Nat /\ base * 2^(i - 1) = p /\ base * 2^i = 2 * p
    BY <1>2
  <2>5. /\ d[i] = IF p >= ceiling THEN ceiling ELSE 2 * p
        /\ p = 2 * (base * 2^(i - 2))
    BY <1>3, <2>2, <2>4
  <2> HIDE DEF p
  <2> QED BY <1>1, <1>4, <2>2, <2>3, <2>4, <2>5
<1> QED BY <1>5, <1>6

LEMMA LoopIsDoubled ==
    ASSUME NEW base \in Nat, NEW ceiling \in 0..2^(Bits - 2)
    PROVE  Loop(base, ceiling) = Doubled(base, ceiling)
<1> DEFINE d == Doubled(base, ceiling)
           l == Loop(base, ceiling)
           Round(f, i) == IF i = 0 THEN base
                          ELSE IF f[i - 1] >= ceiling THEN ceiling
                          ELSE Wrap(2 * f[i - 1])
<1>1. d = [i \in Nat |-> Round(d, i)]
  <2>1. d = [i \in Nat |-> d[i]] /\ d[0] = base
    BY DEF Doubled
  <2>2. \A i \in Nat \ {0} : d[i] = Round(d, i)
    BY DoubledLoops
  <2> HIDE DEF d
  <2> QED BY <2>1, <2>2
<1>2. l = [i \in Nat |-> Round(l, i)]
  <2> HIDE DEF d
  <2> QED BY <1>1 DEF Loop
<1> DEFINE S == {i \in Nat : l[i] = d[i]}
<1>3. 0 \in S
  BY <1>1, <1>2
<1>4. \A i \in Nat : i \in S => i + 1 \in S
  <2> HIDE DEF d, l
  <2> QED BY <1>1, <1>2
<1>5. \A i \in Nat : l[i] = d[i]
  <2> HIDE DEF S
  <2>1. Nat \subseteq S
    BY <1>3, <1>4, SetInduction
  <2> QED BY <2>1 DEF S
<1> HIDE DEF d, l
<1>6. l = [i \in Nat |-> l[i]] /\ d = [i \in Nat |-> d[i]]
  BY <1>1, <1>2
<1> QED BY <1>5, <1>6 DEF d, l

\* "Doubles from base each reconnect attempt, capped at max"
\* (runner.go:120-121), however many attempts there have been.
LEMMA CappedDoubling ==
    ASSUME NEW base \in Nat, NEW ceiling \in 0..2^(Bits - 2),
           NEW n_ \in Nat
    PROVE  LET n == (IF n_ < 1 THEN 1 ELSE n_) - 1
           IN  ExponentialBackoff(base, ceiling, n_) =
                   IF base * 2^n > ceiling THEN ceiling ELSE base * 2^n
<1> DEFINE n == (IF n_ < 1 THEN 1 ELSE n_) - 1
           d == Doubled(base, ceiling)
<1>1. n \in Nat /\ ceiling \in Nat
  BY WrapKeeps
<1>2. ExponentialBackoff(base, ceiling, n_) =
          IF d[n] > ceiling THEN ceiling ELSE d[n]
    <2>1. ExponentialBackoff(base, ceiling, n_) =
          IF Loop(base, ceiling)[n] > ceiling THEN ceiling ELSE Loop(base, ceiling)[n]
    BY Zenon DEF ExponentialBackoff, Loop
  <2> QED BY <2>1, LoopIsDoubled
<1> HIDE DEF n
<1>3. CASE n = 0
  <2>1. d[n] = base /\ base * 2^n = base
    BY <1>1, <1>3, PowerOfZero DEF Doubled
  <2> QED BY <1>2, <2>1 DEF n
<1>4. CASE n # 0
  <2>1. n - 1 \in Nat /\ (n - 1) + 1 = n
    BY <1>1, <1>4
  <2>2. /\ 2^(n - 1) \in Nat /\ base * 2^(n - 1) \in Nat
        /\ base * 2^n = 2 * (base * 2^(n - 1))
    BY <2>1, PowersGrow, Product
  <2>3. d[n] = IF base * 2^(n - 1) >= ceiling THEN ceiling ELSE base * 2^n
    BY <1>1, <1>4 DEF Doubled
  <2> DEFINE p == base * 2^(n - 1)
  <2>4. p \in Nat /\ base * 2^n = 2 * p /\ d[n] = IF p >= ceiling THEN ceiling ELSE base * 2^n
    BY <2>2, <2>3
  <2> HIDE DEF p, d
  <2> QED BY <1>1, <1>2, <2>4 DEF n
<1> QED BY <1>3, <1>4

LEMMA MinOfNaturals ==
    ASSUME NEW T, T \subseteq Nat, T # {}
    PROVE  Min(T) \in T /\ \A y \in T : Min(T) <= y
<1>1. PICK x \in T : \A y \in T : ~(y < x)
  BY LeastNatural
<1>2. \A y \in T : x <= y
  BY <1>1
<1>3. \E m \in T : \A y \in T : m <= y
  BY <1>2
<1> QED BY <1>3 DEF Min

LEMMA MinOfTwo ==
    ASSUME NEW a \in Nat, NEW b \in Nat
    PROVE  Min({a, b}) = IF a > b THEN b ELSE a
<1>1. Min({a, b}) \in {a, b} /\ \A y \in {a, b} : Min({a, b}) <= y
  BY MinOfNaturals
<1> HIDE DEF Min
<1> QED BY <1>1

\* What the algorithms are run on.
BackoffTyped ==
    \/ input \in [of: {"ExponentialBackoff"}, base: 0..MaxInt,
                  ceiling: 0..2^(Bits - 2), attempt: Nat]
    \/ "of" \in DOMAIN input /\ input.of = "BuildTargets"

\* "Doubles from base each reconnect attempt, capped at max" (runner.go:120-121)
\* for every width, base, ceiling and number of attempts, wrapping included.
THEOREM BackoffCorrect == AlgorithmsSpec => []BackoffIsCappedDoubling
<1>1. AlgorithmsInit => BackoffTyped
  BY DEF AlgorithmsInit, BackoffInputs, BackoffTyped
<1>2. BackoffTyped /\ [AlgorithmsNext]_input => BackoffTyped'
  <2> SUFFICES ASSUME BackoffTyped, [AlgorithmsNext]_input PROVE BackoffTyped'
      OBVIOUS
  <2>1. CASE Retry
    BY <2>1 DEF BackoffTyped, Retry
  <2>2. ASSUME input.of = "BuildTargets", NEW lc, AddCheck(lc) PROVE BackoffTyped'
    BY <2>2 DEF BackoffTyped, AddCheck
  <2>3. CASE UNCHANGED input
    BY <2>3 DEF BackoffTyped
  <2> QED BY <2>1, <2>2, <2>3 DEF AlgorithmsNext
<1>3. BackoffTyped => BackoffIsCappedDoubling
  <2> SUFFICES ASSUME BackoffTyped, input.of = "ExponentialBackoff", input.attempt >= 1
               PROVE  ExponentialBackoff(input.base, input.ceiling, input.attempt)
                          = Min({input.base * 2^(input.attempt - 1), input.ceiling})
      BY DEF BackoffIsCappedDoubling
  <2>1. /\ input.base \in Nat /\ input.ceiling \in 0..2^(Bits - 2)
        /\ input.attempt \in Nat /\ input.attempt - 1 \in Nat /\ input.ceiling \in Nat
    BY WrapKeeps DEF BackoffTyped
  <2>2. input.base * 2^(input.attempt - 1) \in Nat
    BY <2>1, PowersGrow, Product
  <2>3. (IF input.attempt < 1 THEN 1 ELSE input.attempt) - 1 = input.attempt - 1
    BY <2>1
  <2>4. ExponentialBackoff(input.base, input.ceiling, input.attempt) =
            IF input.base * 2^(input.attempt - 1) > input.ceiling THEN input.ceiling
            ELSE input.base * 2^(input.attempt - 1)
    BY <2>1, <2>3, CappedDoubling
  <2> QED BY <2>1, <2>2, <2>4, MinOfTwo
<1> QED BY <1>1, <1>2, <1>3, PTL DEF AlgorithmsSpec

-----------------------------------------------------------------------------
(* BuildTargets.                                                           *)

LEMMA MinOfMore ==
    ASSUME NEW T, T \subseteq Nat, NEW x \in Nat
    PROVE  Min(T \cup {x}) = IF T = {} \/ x < Min(T) THEN x ELSE Min(T)
<1> DEFINE m == Min(T \cup {x})
<1>1. m \in T \cup {x} /\ \A y \in T \cup {x} : m <= y
  BY MinOfNaturals
<1>2. T # {} => Min(T) \in T /\ \A y \in T : Min(T) <= y
  BY MinOfNaturals
<1> HIDE DEF m
<1>3. m \in Nat /\ (T # {} => Min(T) \in Nat)
  BY <1>1, <1>2
<1>4. CASE T = {}
  BY <1>1, <1>4 DEF m
<1>5. CASE T # {} /\ x < Min(T)
  <2>1. m = x
    BY <1>1, <1>2, <1>3, <1>5
  <2> QED BY <1>5, <2>1 DEF m
<1>6. CASE T # {} /\ ~(x < Min(T))
  <2>1. m = Min(T)
    BY <1>1, <1>2, <1>3, <1>6
  <2> QED BY <1>6, <2>1 DEF m
<1> QED BY <1>4, <1>5, <1>6

LEMMA MinOfOne == \A x \in Nat : Min({x}) = x
BY MinOfNaturals

\* The largest of a non-empty set of indices.
LEMMA LastIndex ==
    ASSUME NEW n \in Nat, NEW s \in SUBSET (1..n), s # {}
    PROVE  Max(s) \in s /\ \A i \in s : i <= Max(s)
<1> DEFINE T == {j \in Nat : \A i \in s : i <= j}
<1>1. n \in T
  OBVIOUS
<1>2. PICK m \in T : \A j \in T : ~(j < m)
  BY <1>1, LeastNatural
<1>3. m \in s
  <2> SUFFICES ASSUME m \notin s PROVE FALSE
    OBVIOUS
  <2>1. PICK i \in s : TRUE
    OBVIOUS
  <2>2. m - 1 \in Nat
    BY <1>2, <2>1
  <2>3. \A j \in s : j <= m - 1
    BY <1>2
  <2> QED BY <1>2, <2>2, <2>3
<1>4. \E x \in s : \A i \in s : x >= i
  BY <1>2, <1>3
<1>5. Max(s) \in s /\ \A i \in s : Max(s) >= i
  BY <1>4 DEF Max
<1> HIDE DEF T
<1> QED BY <1>5

-----------------------------------------------------------------------------
(* What BuildTargets makes of the checks cs at the indices s.              *)

Check == [key: CheckKeys, interval: CheckIntervals, probe: CheckProbes, ft: Nat]

Of(cs, s, k) == {i \in s : cs[i].key = k}
First(cs, s, k) == cs[Min(Of(cs, s, k))]
Requests(cs, s, k) == {i \in {cs[n].interval : n \in Of(cs, s, k)} : i > 0}
Fastest(cs, s, k) ==
    IF Requests(cs, s, k) = {} THEN First(cs, s, k).interval ELSE Min(Requests(cs, s, k))
Merged(cs, s) ==
    [k \in {cs[i].key : i \in s} |->
        [First(cs, s, k) EXCEPT !.interval = Fastest(cs, s, k)]]

LEMMA CheckFacts ==
    ASSUME NEW cs \in Seq(Check), NEW s \in SUBSET DOMAIN cs
    PROVE  /\ s \subseteq Nat
           /\ \A i \in s : cs[i] \in Check /\ cs[i].interval \in Int
           /\ \A k : Requests(cs, s, k) \subseteq Nat
           /\ \A k : Of(cs, s, k) # {} => First(cs, s, k) \in Check
<1>1. s \subseteq Nat
  OBVIOUS
<1>2. \A i \in s : cs[i] \in Check /\ cs[i].interval \in Int
  <2>1. cs \in [1..Len(cs) -> Check] /\ DOMAIN cs = 1..Len(cs)
    OBVIOUS
  <2>2. \A i \in s : cs[i] \in Check
    BY <2>1
  <2> QED BY <2>2, AlgorithmsAssumption DEF Check
<1>3. \A k : Requests(cs, s, k) \subseteq Nat
  BY <1>2 DEF Requests, Of
<1>4. ASSUME NEW k, Of(cs, s, k) # {}
      PROVE  First(cs, s, k) \in Check
  <2>1. Of(cs, s, k) \subseteq Nat /\ Of(cs, s, k) \subseteq s
    BY <1>1 DEF Of
  <2>2. Min(Of(cs, s, k)) \in Of(cs, s, k)
    BY <1>4, <2>1, MinOfNaturals
  <2> QED BY <1>2, <2>1, <2>2 DEF First
<1> QED BY <1>1, <1>2, <1>3, <1>4

\* One more check, the last.
LEMMA MergeStep ==
    ASSUME NEW cs \in Seq(Check), NEW s \in SUBSET DOMAIN cs,
           NEW m \in s, \A i \in s : i <= m
    PROVE  Merged(cs, s) = Merge(Merged(cs, s \ {m}), cs[m])
<1> DEFINE r == s \ {m}
           lc == cs[m]
           old == Merged(cs, r)
           new == Merge(old, lc)
<1>1. /\ lc \in Check /\ lc.interval \in Int /\ m \in Nat /\ r \in SUBSET DOMAIN cs
      /\ DOMAIN lc = {"key", "interval", "probe", "ft"}
  BY CheckFacts DEF Check
<1>2. DOMAIN old = {cs[i].key : i \in r}
  BY DEF Merged
<1>3. \A k \in DOMAIN old :
         /\ Of(cs, r, k) # {} /\ First(cs, r, k) \in Check
         /\ old[k] = [First(cs, r, k) EXCEPT !.interval = Fastest(cs, r, k)]
         /\ old[k].interval = Fastest(cs, r, k)
  <2> SUFFICES ASSUME NEW k \in DOMAIN old
               PROVE  /\ Of(cs, r, k) # {} /\ First(cs, r, k) \in Check
                      /\ old[k] = [First(cs, r, k) EXCEPT !.interval = Fastest(cs, r, k)]
                      /\ old[k].interval = Fastest(cs, r, k)
    OBVIOUS
  <2>1. Of(cs, r, k) # {}
    BY <1>2 DEF Of
  <2>2. First(cs, r, k) \in Check
    BY <1>1, <2>1, CheckFacts
  <2>3. old[k] = [First(cs, r, k) EXCEPT !.interval = Fastest(cs, r, k)]
    BY <1>2 DEF Merged
  <2>4. DOMAIN First(cs, r, k) = {"key", "interval", "probe", "ft"}
    BY <2>2 DEF Check
  <2> QED BY <2>1, <2>2, <2>3, <2>4
<1>4. \A k : k # lc.key => Of(cs, s, k) = Of(cs, r, k)
  BY DEF Of
<1>5. Of(cs, s, lc.key) = Of(cs, r, lc.key) \cup {m}
  BY DEF Of
<1>6. {cs[i].key : i \in s} = DOMAIN old \cup {lc.key}
  BY <1>2
<1>7. \A k : k # lc.key => /\ First(cs, s, k) = First(cs, r, k)
                           /\ Fastest(cs, s, k) = Fastest(cs, r, k)
  <2> SUFFICES ASSUME NEW k, k # lc.key
               PROVE  /\ First(cs, s, k) = First(cs, r, k)
                      /\ Fastest(cs, s, k) = Fastest(cs, r, k)
    OBVIOUS
  <2>1. Of(cs, s, k) = Of(cs, r, k)
    BY <1>4
  <2>2. First(cs, s, k) = First(cs, r, k) /\ Requests(cs, s, k) = Requests(cs, r, k)
    BY <2>1 DEF First, Requests
  <2> QED BY <2>2 DEF Fastest
<1>8. \A k \in DOMAIN old \ {lc.key} : Merged(cs, s)[k] = old[k]
  BY <1>3, <1>6, <1>7 DEF Merged
<1>9. Merged(cs, s)[lc.key] =
          [First(cs, s, lc.key) EXCEPT !.interval = Fastest(cs, s, lc.key)]
  BY <1>6 DEF Merged
<1>10. Merged(cs, s) = [k \in DOMAIN old \cup {lc.key} |-> Merged(cs, s)[k]]
  BY <1>6 DEF Merged
<1>11. Requests(cs, s, lc.key) = Requests(cs, r, lc.key)
           \cup (IF lc.interval > 0 THEN {lc.interval} ELSE {})
  BY <1>5 DEF Requests
<1>12. CASE lc.key \notin DOMAIN old
  <2>1. Of(cs, r, lc.key) = {} /\ Of(cs, s, lc.key) = {m}
    BY <1>2, <1>5, <1>12 DEF Of
  <2>2. Min({m}) = m
    BY <1>1, MinOfOne
  <2>3. First(cs, s, lc.key) = lc
    BY <2>1, <2>2 DEF First
  <2>4. Requests(cs, s, lc.key) = IF lc.interval > 0 THEN {lc.interval} ELSE {}
    BY <1>11, <2>1 DEF Requests
  <2>5. Fastest(cs, s, lc.key) = lc.interval
    <3>1. CASE lc.interval > 0
      <4>1. lc.interval \in Nat
        BY <1>1, <3>1
      <4>2. Min({lc.interval}) = lc.interval
        BY <4>1, MinOfOne
      <4> QED BY <2>4, <3>1, <4>2 DEF Fastest
    <3>2. CASE ~(lc.interval > 0)
      BY <2>3, <2>4, <3>2 DEF Fastest
    <3> QED BY <3>1, <3>2
  <2>6. [lc EXCEPT !.interval = lc.interval] = lc
    BY <1>1 DEF Check
  <2>7. Merged(cs, s)[lc.key] = lc
    BY <1>9, <2>3, <2>5, <2>6
  <2>8. new = [k \in DOMAIN old \cup {lc.key} |-> IF k = lc.key THEN lc ELSE old[k]]
    BY <1>12 DEF Merge
  <2> HIDE DEF old, new, lc, r
  <2>9. Merged(cs, s) = new
    BY <1>8, <1>10, <2>7, <2>8
  <2> QED BY <2>9 DEF old, new, lc, r
<1>13. CASE lc.key \in DOMAIN old
  <2> DEFINE K == lc.key
             f == First(cs, r, K)
             x == Fastest(cs, r, K)
             y == Fastest(cs, s, K)
  <2>1. Of(cs, r, K) # {} /\ f \in Check /\ old[K] = [f EXCEPT !.interval = x]
        /\ old[K].interval = x
    BY <1>3, <1>13
  <2>2. First(cs, s, K) = f
    <3>1. Of(cs, r, K) \subseteq Nat /\ Of(cs, r, K) \subseteq s
      BY <1>1 DEF Of
    <3>2. Min(Of(cs, r, K)) \in Of(cs, r, K)
      BY <2>1, <3>1, MinOfNaturals
    <3>3. Min(Of(cs, s, K)) = Min(Of(cs, r, K))
      <4>1. ~(m < Min(Of(cs, r, K)))
        <5>1. Min(Of(cs, r, K)) \in Nat /\ Min(Of(cs, r, K)) \in s
          BY <3>1, <3>2
        <5>2. Min(Of(cs, r, K)) <= m
          BY <5>1
        <5> QED BY <1>1, <5>1, <5>2
      <4>2. Min(Of(cs, r, K) \cup {m}) = Min(Of(cs, r, K))
        BY <1>1, <2>1, <3>1, <4>1, MinOfMore
      <4> QED BY <1>5, <4>2
    <3> QED BY <3>3 DEF First
  <2>3. y = IF Faster(lc.interval, x) THEN lc.interval ELSE x
    <3>1. Requests(cs, r, K) \subseteq Nat /\ \A i \in Requests(cs, r, K) : i > 0
      BY <1>1, CheckFacts DEF Requests
    <3>2. Requests(cs, r, K) # {} => Min(Requests(cs, r, K)) \in Requests(cs, r, K)
      BY <3>1, MinOfNaturals
    <3>3. CASE ~(lc.interval > 0)
      <4>1. Requests(cs, s, K) = Requests(cs, r, K)
        BY <1>11, <3>3
      <4> QED BY <1>1, <2>2, <3>3, <4>1 DEF Fastest, Faster
    <3>4. CASE lc.interval > 0 /\ Requests(cs, r, K) = {}
      <4>1. x = f.interval
        BY <3>4 DEF Fastest
      <4>2. f.interval <= 0
        <5>1. Min(Of(cs, r, K)) \in Of(cs, r, K)
          <6>1. Of(cs, r, K) \subseteq Nat
            BY <1>1 DEF Of
          <6> QED BY <2>1, <6>1, MinOfNaturals
        <5>2. f.interval \in {cs[n].interval : n \in Of(cs, r, K)}
          BY <5>1 DEF First
        <5>3. ~(f.interval > 0)
          BY <3>4, <5>2 DEF Requests
        <5>4. f.interval \in Int
          BY <2>1, AlgorithmsAssumption DEF Check
        <5> QED BY <5>3, <5>4
      <4>3. Min({lc.interval}) = lc.interval
        <5>1. lc.interval \in Nat
          BY <1>1, <3>4
        <5> QED BY <5>1, MinOfOne
      <4>4. y = lc.interval
        <5>1. Requests(cs, s, K) = {lc.interval}
          BY <1>11, <3>4
        <5> QED BY <4>3, <5>1 DEF Fastest
      <4> QED BY <3>4, <4>1, <4>2, <4>4 DEF Faster
    <3>5. CASE lc.interval > 0 /\ Requests(cs, r, K) # {}
      <4>1. x = Min(Requests(cs, r, K)) /\ x > 0 /\ x \in Nat
        BY <3>1, <3>2, <3>5 DEF Fastest
      <4>2. Requests(cs, s, K) = Requests(cs, r, K) \cup {lc.interval}
        BY <1>11, <3>5
      <4>3. Min(Requests(cs, s, K)) = IF lc.interval < x THEN lc.interval ELSE x
        <5>1. lc.interval \in Nat
          BY <1>1, <3>5
        <5>2. Min(Requests(cs, r, K) \cup {lc.interval}) =
                IF Requests(cs, r, K) = {} \/ lc.interval < Min(Requests(cs, r, K))
                  THEN lc.interval ELSE Min(Requests(cs, r, K))
          BY <3>1, <5>1, MinOfMore
        <5> QED BY <3>5, <4>1, <4>2, <5>2
      <4>4. y = Min(Requests(cs, s, K))
        BY <4>2 DEF Fastest
      <4> QED BY <1>1, <3>5, <4>1, <4>3, <4>4 DEF Faster
    <3> QED BY <3>3, <3>4, <3>5
  <2>4. Merged(cs, s)[K] = [f EXCEPT !.interval = y]
    BY <1>9, <2>2
  <2>5. DOMAIN f = {"key", "interval", "probe", "ft"}
    BY <2>1 DEF Check
  <2>6. [[f EXCEPT !.interval = x] EXCEPT !.interval = y] = [f EXCEPT !.interval = y]
    BY <2>5
  <2>7. new = IF Faster(lc.interval, x) THEN [old EXCEPT ![K].interval = lc.interval]
              ELSE old
    BY <1>13, <2>1 DEF Merge
  <2>8. old = [k \in DOMAIN old |-> old[k]]
    BY DEF Merged
  <2>9. new = [k \in DOMAIN old |-> IF k = K THEN [old[K] EXCEPT !.interval = y] ELSE old[k]]
    <3> HIDE DEF f, x, y, old, new, lc
    <3>1. [old[K] EXCEPT !.interval = x] = old[K]
      BY <2>1, <2>5
    <3>2. CASE Faster(lc.interval, x)
      BY <1>13, <2>3, <2>7, <2>8, <3>2
    <3>3. CASE ~Faster(lc.interval, x)
      BY <1>13, <2>3, <2>7, <2>8, <3>1, <3>3
    <3> QED BY <3>2, <3>3
  <2>10. DOMAIN old \cup {lc.key} = DOMAIN old
    BY <1>13
  <2>11. Merged(cs, s)[K] = [old[K] EXCEPT !.interval = y]
    BY <2>1, <2>4, <2>6
  <2> HIDE DEF f, x, y, old, new, r
  <2>12. Merged(cs, s) = new
    BY <1>8, <1>10, <2>9, <2>10, <2>11
  <2> QED BY <2>12 DEF old, new, lc, r
<1> QED BY <1>12, <1>13

\* FoldLeft takes the checks from the first to the last: what it makes of the
\* first n is what Merged says.
LEMMA FoldIsMerged ==
    ASSUME NEW cs \in Seq(Check)
    PROVE  FoldLeft(Merge, <<>>, cs) = Merged(cs, DOMAIN cs)
<1> DEFINE D == DOMAIN cs
           Round(f, s) == IF s = {} THEN <<>>
                          ELSE Merge(f[s \ {Max(s)}], cs[Max(s)])
           w == [s \in SUBSET D |-> Merged(cs, s)]
           iter == CHOOSE f : f = [s \in SUBSET D |-> Round(f, s)]
<1>1. FoldLeft(Merge, <<>>, cs) = iter[D]
  BY Zenon DEF FoldLeft, MapThenFoldSet
<1>2. D = 1..Len(cs) /\ Len(cs) \in Nat
  OBVIOUS
<1>3. \A s \in SUBSET D : s # {} => Max(s) \in s /\ \A i \in s : i <= Max(s)
  BY <1>2, LastIndex
<1>4. \A s \in SUBSET D : Merged(cs, s) = Round(w, s)
  <2> SUFFICES ASSUME NEW s \in SUBSET D PROVE Merged(cs, s) = Round(w, s)
    OBVIOUS
  <2>1. CASE s = {}
    <3>1. Merged(cs, s) = <<>>
      BY <2>1 DEF Merged
    <3> QED BY <2>1, <3>1
  <2>2. CASE s # {}
    <3>1. Max(s) \in s /\ \A i \in s : i <= Max(s)
      BY <1>3, <2>2
    <3>2. Merged(cs, s) = Merge(Merged(cs, s \ {Max(s)}), cs[Max(s)])
      BY <3>1, MergeStep
    <3>3. w[s \ {Max(s)}] = Merged(cs, s \ {Max(s)})
      OBVIOUS
    <3> QED BY <2>2, <3>2, <3>3
  <2> QED BY <2>1, <2>2
<1>5. w = [s \in SUBSET D |-> Round(w, s)]
  BY <1>4
<1>6. iter = [s \in SUBSET D |-> Round(iter, s)]
  <2> HIDE DEF w
  <2> QED BY <1>5
<1> DEFINE S == {n \in Nat : \A s \in SUBSET D : Cardinality(s) = n => iter[s] = w[s]}
<1>7. \A s \in SUBSET D : IsFiniteSet(s) /\ Cardinality(s) \in Nat
  <2>1. IsFiniteSet(D)
    BY <1>2, FS_Interval
  <2> QED BY <2>1, FS_Subset, FS_CardinalityType
<1> HIDE DEF iter, w
<1>8. 0 \in S
  <2> SUFFICES ASSUME NEW s \in SUBSET D, Cardinality(s) = 0 PROVE iter[s] = w[s]
    OBVIOUS
  <2>1. s = {}
    BY <1>7, FS_EmptySet
  <2> QED BY <1>5, <1>6, <2>1
<1>9. \A n \in Nat : n \in S => n + 1 \in S
  <2> SUFFICES ASSUME NEW n \in Nat, n \in S, NEW s \in SUBSET D, Cardinality(s) = n + 1
               PROVE  iter[s] = w[s]
    OBVIOUS
  <2>1. s # {}
    <3>1. Cardinality({}) = 0 /\ n + 1 # 0
      BY FS_EmptySet
    <3> QED BY <3>1
  <2>2. Max(s) \in s
    BY <1>3, <2>1
  <2>3. Cardinality(s \ {Max(s)}) = n
    BY <1>7, <2>2, FS_RemoveElement
  <2>4. iter[s \ {Max(s)}] = w[s \ {Max(s)}]
    BY <2>3
  <2> QED BY <1>5, <1>6, <2>1, <2>4
<1>10. Nat \subseteq S
  <2> HIDE DEF S
  <2> QED BY <1>8, <1>9, SetInduction
<1>11. iter[D] = w[D]
  BY <1>7, <1>10
<1>12. w[D] = Merged(cs, D)
  BY DEF w
<1> QED BY <1>1, <1>11, <1>12

\* FlattenSeq joins the records' checks: the sequence of checks of the first
\* n records exists for every n.
LEMMA LocalChecksType ==
    ASSUME NEW records \in Seq(Seq(Check))
    PROVE  LocalChecks(records) \in Seq(Check)
<1> DEFINE N == Len(records)
           Joined(f, i) == IF i = 1 THEN records[i] ELSE f[i - 1] \o records[i]
           flatten == CHOOSE f : f = [i \in 1..N |-> Joined(f, i)]
<1>1. N \in Nat /\ \A i \in 1..N : records[i] \in Seq(Check)
  OBVIOUS
<1>2. CASE N = 0
  BY <1>2 DEF LocalChecks, FlattenSeq
<1>3. CASE N # 0
  <2>1. LocalChecks(records) = flatten[N]
    BY <1>3, Zenon DEF LocalChecks, FlattenSeq
  <2> DEFINE Joins(f, n) == \A i \in 1..n : f[i] = Joined(f, i)
             Joinable(n) == \E f \in [1..n -> Seq(Check)] : Joins(f, n)
             S == {n \in Nat : n <= N => Joinable(n)}
  <2>2. Joinable(0)
    <3> DEFINE e == [i \in 1..0 |-> <<>>]
    <3>1. e \in [1..0 -> Seq(Check)] /\ Joins(e, 0)
      OBVIOUS
    <3> HIDE DEF e
    <3> QED BY <3>1
  <2>3. ASSUME NEW n \in Nat, Joinable(n), n + 1 <= N
        PROVE  Joinable(n + 1)
    <3>1. PICK f \in [1..n -> Seq(Check)] : Joins(f, n)
      BY <2>3
    <3> DEFINE g == [i \in 1..(n + 1) |-> IF i = n + 1 THEN Joined(f, i) ELSE f[i]]
    <3>2. Joined(f, n + 1) \in Seq(Check)
      <4>1. CASE n = 0
        BY <1>1, <2>3, <4>1
      <4>2. CASE n # 0
        <5>1. f[n] \in Seq(Check) /\ records[n + 1] \in Seq(Check)
          BY <1>1, <2>3, <3>1, <4>2
        <5>2. f[n] \o records[n + 1] \in Seq(Check)
          BY <5>1
        <5> QED BY <4>2, <5>2
      <4> QED BY <4>1, <4>2
    <3>3. g \in [1..(n + 1) -> Seq(Check)]
      <4> HIDE DEF Joined
      <4> QED BY <3>1, <3>2
    <3>4. \A i \in 1..(n + 1) : g[i] = Joined(g, i)
      <4> SUFFICES ASSUME NEW i \in 1..(n + 1) PROVE g[i] = Joined(g, i)
        OBVIOUS
      <4>1. i # 1 => g[i - 1] = f[i - 1]
        OBVIOUS
      <4>2. g[i] = Joined(f, i)
        <5>1. CASE i = n + 1
          BY <5>1
        <5>2. CASE i # n + 1
          <6>1. i \in 1..n /\ g[i] = f[i]
            BY <5>2
          <6> QED BY <3>1, <6>1
        <5> QED BY <5>1, <5>2
      <4> QED BY <4>1, <4>2
    <3> HIDE DEF g
    <3> QED BY <3>3, <3>4
  <2>4. \E f \in [1..N -> Seq(Check)] : \A i \in 1..N : f[i] = Joined(f, i)
    <3> HIDE DEF Joinable
    <3>1. 0 \in S /\ \A n \in Nat : n \in S => n + 1 \in S
      BY <1>1, <2>2, <2>3
    <3> HIDE DEF S
    <3>2. N \in S
      BY <1>1, <3>1, SetInduction
    <3>3. Joinable(N)
      BY <1>1, <3>2 DEF S
    <3> QED BY <3>3 DEF Joinable
  <2>5. flatten = [i \in 1..N |-> Joined(flatten, i)]
    <3>1. \E f : f = [i \in 1..N |-> Joined(f, i)]
      BY <2>4
    <3> QED BY <3>1
  <2> HIDE DEF flatten
  <2> DEFINE T == {n \in Nat : n + 1 <= N => flatten[n + 1] \in Seq(Check)}
  <2>6. 0 \in T
    BY <1>1, <2>5
  <2>7. \A n \in Nat : n \in T => n + 1 \in T
    <3> SUFFICES ASSUME NEW n \in Nat, n \in T, (n + 1) + 1 <= N
                 PROVE  flatten[(n + 1) + 1] \in Seq(Check)
      OBVIOUS
    <3>1. flatten[n + 1] \in Seq(Check) /\ records[(n + 1) + 1] \in Seq(Check)
      BY <1>1
    <3>2. flatten[n + 1] \o records[(n + 1) + 1] \in Seq(Check)
      BY <3>1
    <3>3. /\ (n + 1) + 1 \in 1..N /\ ((n + 1) + 1) - 1 = n + 1 /\ (n + 1) + 1 # 1
      BY <1>1
    <3>4. flatten[(n + 1) + 1] = flatten[n + 1] \o records[(n + 1) + 1]
      BY <2>5, <3>3
    <3> QED BY <3>2, <3>4
  <2>8. flatten[N] \in Seq(Check)
    <3>1. Nat \subseteq T
      <4> HIDE DEF T
      <4> QED BY <2>6, <2>7, SetInduction
    <3>2. N - 1 \in Nat /\ (N - 1) + 1 = N
      BY <1>1, <1>3
    <3>3. N - 1 \in T
      BY <3>1, <3>2
    <3> QED BY <1>1, <3>2, <3>3
  <2> QED BY <2>1, <2>8
<1> QED BY <1>2, <1>3

-----------------------------------------------------------------------------
(* BuildTargets beside the definition its comment gives.                   *)

TargetInput == [of: {"BuildTargets"}, records: Seq(Seq(Check))]

InputTyped ==
    \/ "of" \in DOMAIN input /\ input.of = "ExponentialBackoff"
    \/ input \in TargetInput

LEMMA TargetsMatch ==
    ASSUME input \in TargetInput
    PROVE  TargetsAreFastestFirst
<1> DEFINE cs == LocalChecks(input.records)
           D == DOMAIN cs
           known == {k \in CheckKeys : Of(cs, D, k) # {} /\ First(cs, D, k).probe \in ProbeTypes}
<1>1. cs \in Seq(Check)
  BY LocalChecksType DEF TargetInput
<1>2. BuildTargets(input.records) =
          Restrict(Merged(cs, D), {k \in DOMAIN Merged(cs, D) :
                                      Merged(cs, D)[k].probe \in ProbeTypes})
  BY <1>1, FoldIsMerged DEF BuildTargets
<1> HIDE DEF cs
<1>3. /\ \A i \in D : cs[i].key \in CheckKeys
      /\ \A k : Of(cs, D, k) # {} => /\ First(cs, D, k) \in Check
                                     /\ DOMAIN First(cs, D, k)
                                            = {"key", "interval", "probe", "ft"}
  <2>1. /\ \A i \in D : cs[i] \in Check
        /\ \A k : Of(cs, D, k) # {} => First(cs, D, k) \in Check
    BY <1>1, CheckFacts
  <2> QED BY <2>1 DEF Check
<1>4. DOMAIN Merged(cs, D) = {k \in CheckKeys : Of(cs, D, k) # {}}
  BY <1>3 DEF Merged, Of
<1>5. \A k \in DOMAIN Merged(cs, D) :
         /\ Merged(cs, D)[k] = [First(cs, D, k) EXCEPT !.interval = Fastest(cs, D, k)]
         /\ Merged(cs, D)[k].probe = First(cs, D, k).probe
  <2> SUFFICES ASSUME NEW k \in DOMAIN Merged(cs, D)
               PROVE  /\ Merged(cs, D)[k] = [First(cs, D, k) EXCEPT !.interval = Fastest(cs, D, k)]
                      /\ Merged(cs, D)[k].probe = First(cs, D, k).probe
    OBVIOUS
  <2>1. Merged(cs, D)[k] = [First(cs, D, k) EXCEPT !.interval = Fastest(cs, D, k)]
    BY DEF Merged
  <2>2. DOMAIN First(cs, D, k) = {"key", "interval", "probe", "ft"}
    BY <1>3, <1>4
  <2> QED BY <2>1, <2>2
<1>6. {k \in DOMAIN Merged(cs, D) : Merged(cs, D)[k].probe \in ProbeTypes} = known
  BY <1>4, <1>5
<1>7. BuildTargets(input.records) =
          [k \in known |-> [First(cs, D, k) EXCEPT !.interval = Fastest(cs, D, k)]]
  BY <1>2, <1>4, <1>5, <1>6 DEF Restrict
<1>8. TargetsAreFastestFirst <=>
        (input.of = "BuildTargets" =>
            BuildTargets(input.records) =
              [k \in known |->
                 [First(cs, D, k) EXCEPT !.interval =
                    IF Requests(cs, D, k) = {} THEN @ ELSE Min(Requests(cs, D, k))]])
  BY DEF TargetsAreFastestFirst, cs, Of, First, Requests
<1> QED BY <1>7, <1>8 DEF Fastest

LEMMA InputTypedInit == AlgorithmsInit => InputTyped
<1> SUFFICES ASSUME AlgorithmsInit
             PROVE  InputTyped
  OBVIOUS
<1>1. CASE input \in BackoffInputs
  BY <1>1 DEF BackoffInputs, InputTyped
<1>2. CASE input = [of |-> "BuildTargets", records |-> <<>>]
  <2>1. <<>> \in Seq(Seq(Check))
    OBVIOUS
  <2> QED BY <1>2, <2>1 DEF InputTyped, TargetInput
<1> QED BY <1>1, <1>2 DEF AlgorithmsInit

LEMMA InputTypedStep == InputTyped /\ [AlgorithmsNext]_input => InputTyped'
<1> SUFFICES ASSUME InputTyped, [AlgorithmsNext]_input
             PROVE  InputTyped'
  OBVIOUS
<1>1. CASE Retry
  BY <1>1 DEF Retry, InputTyped, TargetInput
<1>2. CASE input.of = "BuildTargets" /\
           \E k \in CheckKeys, i \in CheckIntervals, p \in CheckProbes :
              AddCheck([key |-> k, interval |-> i, probe |-> p,
                        ft |-> Len(LocalChecks(input.records))])
  <2>1. input \in TargetInput
    BY <1>2 DEF InputTyped
  <2>2. input.records \in Seq(Seq(Check))
    BY <2>1 DEF TargetInput
  <2>3. Len(LocalChecks(input.records)) \in Nat
    BY <2>2, LocalChecksType
  <2>4. PICK lc \in Check : AddCheck(lc)
    BY <1>2, <2>3 DEF Check
  <2> DEFINE records == input.records
             n == Len(records)
  <2>5. CASE input' = [input EXCEPT !.records = Append(@, <<lc>>)]
    <3>1. <<lc>> \in Seq(Check)
      OBVIOUS
    <3>2. Append(records, <<lc>>) \in Seq(Seq(Check))
      BY <2>2, <3>1
    <3> QED BY <2>1, <2>5, <3>2 DEF InputTyped, TargetInput
  <2>6. CASE records # <<>> /\ input' = [input EXCEPT !.records[n] = Append(@, lc)]
    <3>1. n \in 1..n /\ records[n] \in Seq(Check)
      BY <2>2, <2>6
    <3>2. Append(records[n], lc) \in Seq(Check)
      BY <3>1
    <3>3. [records EXCEPT ![n] = Append(records[n], lc)] \in Seq(Seq(Check))
      BY <2>2, <3>1, <3>2
    <3>4. input' = [input EXCEPT !.records = [records EXCEPT ![n] = Append(records[n], lc)]]
      BY <2>6
    <3> QED BY <2>1, <3>3, <3>4 DEF InputTyped, TargetInput
  <2> QED BY <2>4, <2>5, <2>6 DEF AddCheck
<1>3. CASE UNCHANGED input
  BY <1>3 DEF InputTyped
<1> QED BY <1>1, <1>2, <1>3 DEF AlgorithmsNext

\* "Dedupe by targetKey across records; run at the fastest interval any record
\* requests" (runner.go:34-40), for bundles with any records and any checks.
THEOREM TargetsCorrect == AlgorithmsSpec => []TargetsAreFastestFirst
<1>1. InputTyped => TargetsAreFastestFirst
  <2>1. CASE input.of = "ExponentialBackoff"
    BY <2>1 DEF TargetsAreFastestFirst
  <2> QED BY <2>1, TargetsMatch DEF InputTyped
<1> QED BY <1>1, InputTypedInit, InputTypedStep, PTL DEF AlgorithmsSpec

-----------------------------------------------------------------------------
(* Types.  What the wire carries, and the timers of a pollUntil under way. *)

Line == {"field", "comment", ""}

\* pollUntil is under way, or is about to be left.
Polling == pc = "poll" \/ (pc = "fetch" /\ caller = "poll")

Typed ==
    /\ published \in 0..MaxVersion /\ current \in 0..MaxVersion
    /\ conn \in {"closed", "open", "eof", "silent"}
    /\ lines \in Seq(Line) /\ Len(lines) <= MaxLines
    /\ pc \in {"connect", "stream", "poll", "fetch", "stopped"}
    /\ idle \in 0..IdleTimeout
    /\ attempt \in 0..AttemptCap
    /\ deadline \in 0..BackoffMax /\ ticker \in 0..PollInterval
    /\ Polling => ticker # 0
    /\ caller \in {"stream", "poll"}
    /\ body \in 0..MaxVersion \cup {NoBody}
    /\ waited \in 0..FetchTimeout
    /\ sawEventField \in BOOLEAN /\ tick \in BOOLEAN /\ missed \in BOOLEAN

LEMMA Vocabulary ==
    /\ EventFrames \subseteq Seq(Line) /\ KeepaliveFrame \in Seq(Line)
    /\ <<>> \in Seq(Line) /\ Len(<<>>) = 0
    /\ NoBody \notin Nat
BY DEF EventFrames, KeepaliveFrame, Line, NoBody

LEMMA EventFrameFacts ==
    \A f \in EventFrames : f \in Seq(Line) /\ 1 \in DOMAIN f /\ f[1] = "field"
<1>1. \A f \in EventFrames : f \in Seq(Line)
  BY Vocabulary
<1>2. /\ <<"field", "">>[1] = "field" /\ 1 \in DOMAIN <<"field", "">>
      /\ <<"field", "comment", "">>[1] = "field"
      /\ 1 \in DOMAIN <<"field", "comment", "">>
  OBVIOUS
<1> QED BY <1>1, <1>2 DEF EventFrames

LEMMA DelayBounded ==
    ASSUME NEW n \in Nat
    PROVE  Delay(n) \in 0..BackoffMax
<1> DEFINE m == (IF n < 1 THEN 1 ELSE n) - 1
<1>1. BackoffBase \in Nat /\ BackoffMax \in 0..2^(Bits - 2) /\ BackoffMax \in Nat
  BY WrapKeeps, RemoteSyncAssumption
<1>2. m \in Nat
  OBVIOUS
<1>3. BackoffBase * 2^m \in Nat
  BY <1>1, <1>2, PowersGrow, Product
<1>4. Delay(n) = IF BackoffBase * 2^m > BackoffMax THEN BackoffMax
                 ELSE BackoffBase * 2^m
  BY <1>1, CappedDoubling DEF Delay
<1> QED BY <1>1, <1>3, <1>4

\* The attempts reach a number from which on the delay stays the same.
LEMMA AttemptCapType == AttemptCap \in Nat \ {0}
<1> DEFINE T == {n \in 0..BackoffMax : \/ BackoffBase = 0
                                       \/ BackoffBase * 2^n >= BackoffMax}
<1>1. BackoffBase \in Nat /\ BackoffMax \in Nat
  BY RemoteSyncAssumption
<1>2. BackoffBase # 0 => BackoffBase * 2^BackoffMax >= BackoffMax
  <2>1. 2^BackoffMax \in Nat /\ 2^BackoffMax > BackoffMax
    BY <1>1, PowersGrow
  <2>2. \A b \in Nat \ {0}, p \in Nat : b * p >= p
    OBVIOUS
  <2> QED BY <1>1, <2>1, <2>2
<1>3. BackoffMax \in T
  BY <1>1, <1>2
<1>4. T \subseteq Nat
  BY <1>1
<1> HIDE DEF T
<1>5. Min(T) \in Nat
  BY <1>3, <1>4, MinOfNaturals
<1> QED BY <1>5 DEF AttemptCap, T

LEMMA AnotherAttemptType ==
    attempt \in 0..AttemptCap => AnotherAttempt \in 0..AttemptCap
<1> SUFFICES ASSUME attempt \in 0..AttemptCap PROVE AnotherAttempt \in 0..AttemptCap
    OBVIOUS
<1>1. Min({attempt + 1, AttemptCap}) =
          IF attempt + 1 > AttemptCap THEN AttemptCap ELSE attempt + 1
  BY AttemptCapType, MinOfTwo
<1> QED BY <1>1, AttemptCapType DEF AnotherAttempt

LEMMA LineFacts ==
    ASSUME NEW l \in Seq(Line)
    PROVE  /\ Len(l) \in Nat /\ DOMAIN l = 1..Len(l)
           /\ l # <<>> => /\ Tail(l) \in Seq(Line) /\ Len(Tail(l)) = Len(l) - 1
                          /\ Head(l) = l[1] /\ Head(l) \in Line
                          /\ \A i \in DOMAIN l : i # 1 => /\ i - 1 \in DOMAIN Tail(l)
                                                         /\ Tail(l)[i - 1] = l[i]
           /\ \A n \in 0..Len(l) : /\ SubSeq(l, 1, n) \in Seq(Line)
                                   /\ Len(SubSeq(l, 1, n)) = n
                                   /\ n = Len(l) => SubSeq(l, 1, n) = l
           /\ \A m \in Seq(Line) :
                 /\ l \o m \in Seq(Line)
                 /\ \A i \in DOMAIN l : i \in DOMAIN (l \o m) /\ (l \o m)[i] = l[i]
                 /\ \A i \in DOMAIN m : /\ Len(l) + i \in DOMAIN (l \o m)
                                        /\ (l \o m)[Len(l) + i] = m[i]
<1>1. Len(l) \in Nat /\ DOMAIN l = 1..Len(l)
  OBVIOUS
<1>2. ASSUME l # <<>>
      PROVE  /\ Tail(l) \in Seq(Line) /\ Len(Tail(l)) = Len(l) - 1
             /\ Head(l) = l[1] /\ Head(l) \in Line
             /\ \A i \in DOMAIN l : i # 1 => /\ i - 1 \in DOMAIN Tail(l)
                                            /\ Tail(l)[i - 1] = l[i]
  BY <1>2
<1>3. ASSUME NEW n \in 0..Len(l)
      PROVE  /\ SubSeq(l, 1, n) \in Seq(Line)
             /\ Len(SubSeq(l, 1, n)) = n
             /\ n = Len(l) => SubSeq(l, 1, n) = l
  OBVIOUS
<1>4. ASSUME NEW m \in Seq(Line)
      PROVE  /\ l \o m \in Seq(Line)
             /\ \A i \in DOMAIN l : i \in DOMAIN (l \o m) /\ (l \o m)[i] = l[i]
             /\ \A i \in DOMAIN m : /\ Len(l) + i \in DOMAIN (l \o m)
                                    /\ (l \o m)[Len(l) + i] = m[i]
  OBVIOUS
<1> QED BY <1>1, <1>2, <1>3, <1>4

LEMMA Constants ==
    /\ MaxVersion \in Nat /\ MaxLines \in Nat /\ BackoffMax \in Nat
    /\ PollInterval \in Nat \ {0} /\ IdleTimeout \in Nat \ {0}
    /\ FetchTimeout \in Nat \ {0}
BY RemoteSyncAssumption

LEMMA TypedInit == Init => Typed
<1> SUFFICES ASSUME Init PROVE Typed
    OBVIOUS
<1>1. sawEventField \in BOOLEAN /\ tick \in BOOLEAN /\ missed \in BOOLEAN
  BY DEF Init
<1> QED BY <1>1, Vocabulary, Constants, AttemptCapType DEF Init, Typed, Polling

LEMMA TypedStep == Typed /\ [Next]_vars => Typed'
<1> SUFFICES ASSUME Typed, [Next]_vars PROVE Typed'
    OBVIOUS
<1> USE Vocabulary, Constants
    DEF Typed, Polling, subscribeVars, pollVars, fetchVars
<1>1. CASE Publish
  <2>1. lines' \in Seq(Line) /\ Len(lines') <= MaxLines
    <3>1. CASE UNCHANGED lines
      BY <3>1
    <3>2. ASSUME NEW f \in EventFrames, Len(lines \o f) <= MaxLines, lines' = lines \o f
          PROVE  lines' \in Seq(Line) /\ Len(lines') <= MaxLines
      <4>1. f \in Seq(Line)
        OBVIOUS
      <4> QED BY <3>2, <4>1, LineFacts
    <3> QED BY <1>1, <3>1, <3>2 DEF Publish
  <2>2. missed' \in BOOLEAN
    BY <1>1 DEF Publish
  <2> QED BY <1>1, <2>1, <2>2 DEF Publish
<1>2. CASE Keepalive
  BY <1>2, LineFacts DEF Keepalive
<1>3. CASE StreamEnds
  <2>1. lines' \in Seq(Line) /\ Len(lines') <= MaxLines
    BY <1>3, LineFacts DEF StreamEnds
  <2> QED BY <1>3, <2>1 DEF StreamEnds
<1>4. CASE Connected
  <2>1. sawEventField' \in BOOLEAN
    BY <1>4 DEF Connected
  <2> QED BY <1>4, <2>1 DEF Connected
<1>5. CASE StreamDown
  <2>1. attempt' \in 0..AttemptCap
    BY <1>5, AnotherAttemptType DEF StreamDown
  <2>2. deadline' \in 0..BackoffMax
    BY <1>5, <2>1, AttemptCapType, DelayBounded DEF StreamDown
  <2>3. missed' \in BOOLEAN /\ sawEventField' \in BOOLEAN /\ tick' \in BOOLEAN
    BY <1>5 DEF StreamDown
  <2> QED BY <1>5, <2>1, <2>2, <2>3 DEF StreamDown
<1>6. CASE ReadLine
  <2>1. /\ pc = "stream" /\ lines # <<>> /\ lines' = Tail(lines)
        /\ UNCHANGED <<published, conn, current, attempt, deadline, ticker, tick, missed>>
        /\ idle' = IdleTimeout /\ sawEventField' = EventField(Head(lines))
        /\ \/ Refetch("stream")
           \/ UNCHANGED <<pc, caller, body, waited>>
    BY <1>6 DEF ReadLine
  <2>2. lines' \in Seq(Line) /\ Len(lines') <= MaxLines
    BY <2>1, LineFacts
  <2>3. sawEventField' \in BOOLEAN
    BY <2>1 DEF EventField
  <2>4. CASE Refetch("stream")
    BY <2>1, <2>2, <2>3, <2>4 DEF Refetch
  <2>5. CASE UNCHANGED <<pc, caller, body, waited>>
    BY <2>1, <2>2, <2>3, <2>5
  <2> QED BY <2>1, <2>4, <2>5
<1>7. CASE Poll
  <2>1. /\ pc = "poll" /\ pc' = "fetch" /\ tick' = FALSE
        /\ caller' = "poll" /\ body' = NoBody /\ waited' = 0
    BY <1>7 DEF Poll, Refetch
  <2>2. UNCHANGED <<published, conn, lines, current, sawEventField, idle, attempt,
                    deadline, ticker, missed>>
    BY <1>7 DEF Poll
  <2>3. tick' \in BOOLEAN
    BY <2>1
  <2> QED BY <2>1, <2>2, <2>3
<1>8. CASE BackoffPasses
  BY <1>8 DEF BackoffPasses
<1>9. CASE FetchAnswered
  BY <1>9 DEF FetchAnswered
<1>10. CASE FetchDone
  <2>1. missed' \in BOOLEAN
    BY <1>10 DEF FetchDone
  <2> QED BY <1>10, <2>1 DEF FetchDone
<1>11. CASE FetchFails
  BY <1>11 DEF FetchFails
<1>12. CASE Cancel
  BY <1>12 DEF Cancel
<1>13. CASE Tick
  <2>1. idle' \in 0..IdleTimeout /\ deadline' \in 0..BackoffMax
    BY <1>13 DEF Tick, Less
  <2>2. ticker' \in 0..PollInterval /\ (Polling => ticker' # 0)
    BY <1>13 DEF Tick
  <2>3. tick' \in BOOLEAN
    BY <1>13 DEF Tick
  <2>4. waited' \in 0..FetchTimeout
    BY <1>13 DEF Tick, TimerDue
  <2> QED BY <1>13, <2>1, <2>2, <2>3, <2>4 DEF Tick
<1>14. CASE UNCHANGED vars
  BY <1>14 DEF vars
<1> QED
  BY <1>1, <1>2, <1>3, <1>4, <1>5, <1>6, <1>7, <1>8, <1>9, <1>10, <1>11, <1>12,
     <1>13, <1>14
  DEF Next, Subscribe, Fetch, ConnectFails, ReadError, EndOfStream, IdleTimerFires

\* Every reachable state of the synchronisation is well typed; above all no
\* timer is armed beyond its ceiling: the backoff never overflows
\* (runner.go:90-101, 124-139).
THEOREM RemoteTypeCorrect == Spec => []TypeOK
<1>1. Typed => TypeOK
  BY DEF Typed, TypeOK
<1> QED BY <1>1, TypedInit, TypedStep, PTL DEF Spec

-----------------------------------------------------------------------------
(* Freshness.  An event may be forgotten only while the stream is down;    *)
(* then no line is on its way, nor half an event read.  And an answer that *)
(* is older than the latest bundle was overtaken by a publication, whose   *)
(* event is on its way or lost: the reader of the stream waits for the     *)
(* refetch.                                                                *)

EventOnTheWay == \E i \in DOMAIN lines : lines[i] = "field"

DownIsQuiet ==
    pc = "connect" \/ Polling => conn = "closed" /\ lines = <<>> /\ ~sawEventField

AnswerOvertaken ==
    pc = "fetch" /\ body \notin {NoBody, published} => missed \/ EventOnTheWay

Freshness == DownIsQuiet /\ AnswerOvertaken /\ StaleExplained

LEMMA FreshnessInit == Init => Freshness
BY DEF Init, Freshness, DownIsQuiet, AnswerOvertaken, StaleExplained, Fresh, Polling

\* A line that is read or cut off takes no event along that is not noticed.
LEMMA PublishExplains ==
    Typed /\ Publish => missed' \/ EventOnTheWay'
<1> SUFFICES ASSUME Typed, Publish PROVE missed' \/ EventOnTheWay'
    OBVIOUS
<1>1. CASE conn = "open"
  <2>1. PICK f \in EventFrames : lines' = lines \o f
    BY <1>1 DEF Publish
  <2>2. f \in Seq(Line) /\ 1 \in DOMAIN f /\ f[1] = "field"
    BY EventFrameFacts
  <2>3. Len(lines) + 1 \in DOMAIN lines' /\ lines'[Len(lines) + 1] = "field"
    BY <2>1, <2>2, LineFacts DEF Typed
  <2> QED BY <2>3 DEF EventOnTheWay
<1>2. CASE conn # "open"
  BY <1>2 DEF Publish
<1> QED BY <1>1, <1>2

LEMMA EventSurvives ==
    ASSUME Typed, EventOnTheWay, Keepalive \/ StreamEnds
    PROVE  missed' \/ EventOnTheWay'
<1>1. PICK i \in DOMAIN lines : lines[i] = "field"
  BY DEF EventOnTheWay
<1>2. CASE Keepalive
  <2>1. i \in DOMAIN lines' /\ lines'[i] = "field"
    BY <1>1, <1>2, Vocabulary, LineFacts DEF Keepalive, Typed
  <2> QED BY <2>1 DEF EventOnTheWay
<1>3. CASE StreamEnds
  <2>1. missed' \/ lines' = lines
    <3>1. lines \in Seq(Line) /\ Len(lines) \in Nat
      BY LineFacts DEF Typed
    <3>2. ASSUME NEW n \in 0..Len(lines), lines' = SubSeq(lines, 1, n),
                 missed' = (missed \/ n < Len(lines))
          PROVE  missed' \/ lines' = lines
      <4>1. CASE n < Len(lines)
        BY <3>2, <4>1
      <4>2. CASE n = Len(lines)
        BY <3>1, <3>2, <4>2, LineFacts
      <4> QED BY <3>1, <4>1, <4>2
    <3> QED BY <1>3, <3>2 DEF StreamEnds
  <2> QED BY <1>1, <2>1 DEF EventOnTheWay
<1> QED BY <1>2, <1>3

\* What the reader has seen of an event, or will see, leads to a refetch.
LEMMA ReadKeepsEvent ==
    ASSUME Typed, ReadLine, EventOnTheWay \/ sawEventField
    PROVE  \/ EventOnTheWay' \/ sawEventField'
           \/ pc' = "fetch" /\ body' = NoBody
<1> DEFINE line == Head(lines)
<1>1. /\ lines # <<>> /\ lines' = Tail(lines)
      /\ sawEventField' = EventField(line)
      /\ line = "" /\ sawEventField => pc' = "fetch" /\ body' = NoBody
  BY DEF ReadLine, Refetch
<1>2. CASE line = "field"
  BY <1>1, <1>2 DEF EventField
<1>3. CASE line # "field" /\ EventOnTheWay
  <2>1. PICK i \in DOMAIN lines : lines[i] = "field"
    BY <1>3 DEF EventOnTheWay
  <2>2. i # 1
    BY <1>1, <1>3, <2>1, LineFacts DEF Typed
  <2>3. i - 1 \in DOMAIN lines' /\ lines'[i - 1] = "field"
    BY <1>1, <2>1, <2>2, LineFacts DEF Typed
  <2> QED BY <2>3 DEF EventOnTheWay
<1>4. CASE line # "field" /\ sawEventField
  BY <1>1, <1>4 DEF EventField
<1> QED BY <1>2, <1>3, <1>4

LEMMA FreshnessStep == Typed /\ Freshness /\ [Next]_vars => Freshness'
<1> SUFFICES ASSUME Typed, Freshness, [Next]_vars PROVE Freshness'
    OBVIOUS
<1>a. StaleExplained <=>
          \/ Fresh \/ missed \/ sawEventField \/ EventOnTheWay
          \/ pc = "fetch" /\ body \in {NoBody, published}
  BY DEF StaleExplained, EventOnTheWay
<1>b. (StaleExplained <=>
          \/ Fresh \/ missed \/ sawEventField \/ EventOnTheWay
          \/ pc = "fetch" /\ body \in {NoBody, published})'
  BY DEF StaleExplained, EventOnTheWay
<1> USE <1>a, <1>b
    DEF Freshness, DownIsQuiet, AnswerOvertaken, Polling,
        subscribeVars, pollVars, fetchVars
<1>1. CASE Publish
  <2>1. missed' \/ EventOnTheWay'
    BY <1>1, PublishExplains
  <2>2. conn # "open" => lines' = lines
    BY <1>1 DEF Publish
  <2> QED BY <1>1, <2>1, <2>2 DEF Publish
<1>2. CASE Keepalive
  <2>1. EventOnTheWay => missed' \/ EventOnTheWay'
    BY <1>2, EventSurvives
  <2> QED BY <1>2, <2>1 DEF Keepalive, Fresh
<1>3. CASE StreamEnds
  <2>1. EventOnTheWay => missed' \/ EventOnTheWay'
    BY <1>3, EventSurvives
  <2>2. missed => missed'
    BY <1>3 DEF StreamEnds
  <2> QED BY <1>3, <2>1, <2>2 DEF StreamEnds, Fresh
<1>4. CASE Connected
  <2>1. ~EventOnTheWay
    BY <1>4 DEF Connected, EventOnTheWay
  <2> QED BY <1>4, <2>1 DEF Connected, Fresh
<1>5. CASE pc # "fetch" /\ StreamDown
  <2>1. EventOnTheWay => lines # <<>>
    BY DEF EventOnTheWay
  <2> QED BY <1>5, <2>1 DEF StreamDown, Fresh
<1>6. CASE ReadLine
  <2>1. EventOnTheWay \/ sawEventField =>
            \/ EventOnTheWay' \/ sawEventField'
            \/ pc' = "fetch" /\ body' = NoBody
    BY <1>6, ReadKeepsEvent
  <2>2. /\ pc = "stream" /\ UNCHANGED <<published, current, missed>>
        /\ \/ pc' = "fetch" /\ caller' = "stream" /\ body' = NoBody
           \/ UNCHANGED <<pc, caller, body>>
    BY <1>6 DEF ReadLine, Refetch
  <2> QED BY <2>1, <2>2 DEF Fresh
<1>7. CASE Poll
  <2>1. /\ pc = "poll" /\ pc' = "fetch" /\ caller' = "poll" /\ body' = NoBody
        /\ UNCHANGED <<conn, lines, sawEventField>>
    BY <1>7 DEF Poll, Refetch
  <2> QED BY <2>1
<1>8. CASE BackoffPasses
  BY <1>8 DEF BackoffPasses, Fresh, EventOnTheWay
<1>9. CASE FetchAnswered
  BY <1>9 DEF FetchAnswered
<1>10. CASE FetchDone
  <2>1. EventOnTheWay' = EventOnTheWay
    BY <1>10 DEF FetchDone, EventOnTheWay
  <2>2. /\ pc = "fetch" /\ body # NoBody /\ pc' = caller
        /\ UNCHANGED <<published, conn, lines, sawEventField, caller>>
        /\ caller \in {"stream", "poll"}
    BY <1>10 DEF FetchDone, Typed
  <2>3. DownIsQuiet' /\ AnswerOvertaken'
    BY <2>2
  <2>4. CASE body = published
    <3>1. Fresh'
      BY <1>10, <2>4 DEF FetchDone, Fresh
    <3> QED BY <2>3, <3>1
  <2>5. CASE body # published
    <3>1. missed' = missed
      BY <1>10, <2>5 DEF FetchDone, Typed
    <3> QED BY <2>1, <2>2, <2>3, <2>5, <3>1
  <2> QED BY <2>4, <2>5
<1>11. CASE FetchFails
  <2>1. /\ pc = "fetch" /\ pc' = caller /\ missed'
        /\ UNCHANGED <<conn, lines, sawEventField, caller>>
        /\ caller \in {"stream", "poll"}
    BY <1>11 DEF FetchFails, Typed
  <2> QED BY <2>1
<1>12. CASE Cancel
  BY <1>12 DEF Cancel
<1>13. CASE Tick
  BY <1>13 DEF Tick, Fresh, EventOnTheWay
<1>14. CASE UNCHANGED vars
  BY <1>14 DEF vars, Fresh, EventOnTheWay
<1> QED
  BY <1>1, <1>2, <1>3, <1>4, <1>5, <1>6, <1>7, <1>8, <1>9, <1>10, <1>11, <1>12,
     <1>13, <1>14
  DEF Next, Subscribe, Fetch, ConnectFails, ReadError, EndOfStream, IdleTimerFires

\* A stale bundle is served only while an event or the refetch it caused is
\* still to come, or after one was lost (runner.go:12-13, sse.go:69-96).
THEOREM StaleIsExplained == Spec => []StaleExplained
<1>1. Freshness => StaleExplained
  BY DEF Freshness
<1> QED
  BY <1>1, TypedInit, TypedStep, FreshnessInit, FreshnessStep, PTL DEF Spec

-----------------------------------------------------------------------------
(* Order.  Fetches do not overlap, so an answer is never older than the    *)
(* bundle being served, however old it is when it arrives.                 *)

AnswersInOrder ==
    current <= published /\ (body # NoBody => current <= body /\ body <= published)

LEMMA OrderStep == Typed /\ AnswersInOrder /\ [Next]_vars => AnswersInOrder'
<1> SUFFICES ASSUME Typed, AnswersInOrder, [Next]_vars PROVE AnswersInOrder'
    OBVIOUS
<1> USE Constants DEF AnswersInOrder, Typed, subscribeVars, pollVars, fetchVars
<1>1. CASE Publish
  BY <1>1 DEF Publish
<1>2. CASE Keepalive \/ StreamEnds \/ Connected \/ StreamDown \/ BackoffPasses
           \/ Cancel \/ Tick
  <2>1. UNCHANGED <<published, current, body>>
    BY <1>2 DEF Keepalive, StreamEnds, Connected, StreamDown, BackoffPasses,
                Cancel, Tick
  <2> QED BY <2>1
<1>3. CASE ReadLine \/ Poll
  <2>1. UNCHANGED <<published, current>> /\ body' \in {body, NoBody}
    BY <1>3 DEF ReadLine, Poll, Refetch
  <2> QED BY <2>1
<1>4. CASE FetchAnswered
  BY <1>4 DEF FetchAnswered
<1>5. CASE FetchDone \/ FetchFails
  <2>1. /\ published' = published /\ body' = NoBody
        /\ current' = current \/ (body # NoBody /\ current' = body)
    BY <1>5 DEF FetchDone, FetchFails
  <2> QED BY <2>1
<1>6. CASE UNCHANGED vars
  BY <1>6 DEF vars
<1> QED
  BY <1>1, <1>2, <1>3, <1>4, <1>5, <1>6
  DEF Next, Subscribe, Fetch, ConnectFails, ReadError, EndOfStream, IdleTimerFires

\* What is served never goes back to an older bundle, with events, polls,
\* late answers and reconnects in any order (runner.go:103-117).
THEOREM NeverBackwards == Spec => [][current' >= current]_vars
<1>1. Init => AnswersInOrder
  BY DEF Init, AnswersInOrder
<1>2. Typed /\ AnswersInOrder /\ [Next]_vars => [current' >= current]_vars
  <2> SUFFICES ASSUME Typed, AnswersInOrder, Next PROVE current' >= current
      BY DEF Typed
  <2>1. current' = current \/ (body # NoBody /\ current' = body)
    BY DEF Next, Publish, Keepalive, StreamEnds, Subscribe, Connected,
           ConnectFails, ReadError, EndOfStream, IdleTimerFires, StreamDown,
           ReadLine, Poll, BackoffPasses, Fetch, FetchAnswered, FetchDone,
           FetchFails, Cancel, Tick
  <2> QED BY <2>1, Constants DEF AnswersInOrder, Typed
<1> QED BY <1>1, <1>2, TypedInit, TypedStep, OrderStep, PTL DEF Spec
=============================================================================
