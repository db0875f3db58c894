---------------------------- MODULE DamperProofs ----------------------------
(***************************************************************************)
(* Proofs about Damper.tla, for every window, threshold and quiet period   *)
(* that satisfy DampingAssumption, every set of names and of answers, and  *)
(* every length of time.  The argument is about one record rs and the set  *)
(* S of its unforced changes, and is lifted to all records at the end.     *)
(***************************************************************************)
EXTENDS Damper, FiniteSetTheorems, TLAPS

Window(S, t) == {c \in S : t - DampWindow < c.at /\ c.at <= t}

\* LogTracksChurn, BoundedChurn and FreezeJustified of one record.
Tracks(rs, S, t) ==
    /\ IsFiniteSet(S)
    /\ \A c \in S : c.at <= t
    /\ IsFiniteSet(rs.changeLog)
    /\ ~rs.frozen => pruneWindow(S, t) = pruneWindow(rs.changeLog, t)
    /\ rs.frozen => /\ rs.lastSuppressed <= t
                    /\ \A c \in S : c.at <= rs.lastSuppressed

Bounded(S) == \A c \in S : Cardinality(Window(S, c.at)) <= DampChangeThreshold

Justified(rs, S, t) ==
    rs.frozen => \E u \in 0..t :
                    /\ \A c \in S : c.at <= u
                    /\ Cardinality(Window(S, u)) >= DampChangeThreshold

RecInv(rs, S, t) == Tracks(rs, S, t) /\ Bounded(S) /\ Justified(rs, S, t)

\* The next change is a change, and a new one.
LEMMA NextChangeFacts ==
    ASSUME NEW S \in SUBSET Change, IsFiniteSet(S), NEW t \in Nat
    PROVE  /\ NextChange(S, t) \in Change
           /\ NextChange(S, t).at = t
           /\ Logged(S, t) \in SUBSET Change
           /\ IsFiniteSet(Logged(S, t))
<1>1. IsFiniteSet({c \in S : c.at = t})
  BY FS_Subset
<1>2. Cardinality({c \in S : c.at = t}) \in Nat
  BY <1>1, FS_CardinalityType
<1>3. NextChange(S, t) \in Change /\ NextChange(S, t).at = t
  BY <1>2 DEF NextChange, Change
<1>4. IsFiniteSet(Logged(S, t))
  BY FS_AddElement DEF Logged
<1> QED BY <1>3, <1>4 DEF Logged

\* Two logs that agree on the window number the next change alike, and agree
\* on the window after it.
LEMMA LoggedAgree ==
    ASSUME NEW S \in SUBSET Change, NEW L \in SUBSET Change, NEW t \in Nat,
           IsFiniteSet(S), IsFiniteSet(L),
           pruneWindow(S, t) = pruneWindow(L, t)
    PROVE  pruneWindow(Logged(S, t), t) = pruneWindow(Logged(L, t), t)
<1>1. \A c \in Change : c.at = t => c.at > t - DampWindow
  BY DampingAssumption DEF Change
<1>2. {c \in S : c.at = t} = {c \in L : c.at = t}
  BY <1>1 DEF pruneWindow
<1>3. NextChange(S, t) = NextChange(L, t)
  BY <1>2 DEF NextChange
<1> QED BY <1>3 DEF Logged, pruneWindow

\* maybeAutoUnfreeze keeps the record's invariant: by the time the quiet
\* period is over, every change has left the window.
LEMMA UnfreezeStep ==
    ASSUME NEW A, NEW rs \in RecordDampState(A), NEW S \in SUBSET Change,
           NEW t \in Nat, RecInv(rs, S, t)
    PROVE  /\ maybeAutoUnfreeze(rs, t) \in RecordDampState(A)
           /\ maybeAutoUnfreeze(rs, t).served = rs.served
           /\ RecInv(maybeAutoUnfreeze(rs, t), S, t)
<1>0. /\ rs.changeLog \in SUBSET Change /\ rs.frozen \in BOOLEAN
      /\ rs.lastSuppressed \in Nat
  BY DEF RecordDampState
<1>1. CASE ~(rs.frozen /\ t - rs.lastSuppressed >= UnfreezeQuietPeriod)
  BY <1>1 DEF maybeAutoUnfreeze
<1>2. CASE rs.frozen /\ t - rs.lastSuppressed >= UnfreezeQuietPeriod
  <2> DEFINE r == [rs EXCEPT !.frozen = FALSE, !.changeLog = {}]
  <2>1. maybeAutoUnfreeze(rs, t) = r
    BY <1>2 DEF maybeAutoUnfreeze
  <2>2. /\ r \in RecordDampState(A) /\ r.served = rs.served
        /\ r.frozen = FALSE /\ r.changeLog = {}
    BY DEF RecordDampState
  <2> HIDE DEF r
  <2>3. \A c \in S : c.at \in Nat /\ c.at <= rs.lastSuppressed
    BY <1>2 DEF RecInv, Tracks, Change
  <2>4. \A c \in S : ~(c.at > t - DampWindow)
    BY <1>0, <1>2, <2>3, DampingAssumption
  <2>5. pruneWindow(S, t) = pruneWindow(r.changeLog, t)
    BY <2>2, <2>4 DEF pruneWindow
  <2>6. Tracks(r, S, t)
    BY <2>2, <2>5, FS_EmptySet DEF RecInv, Tracks
  <2>7. RecInv(r, S, t)
    BY <2>2, <2>6 DEF RecInv, Justified
  <2> QED BY <2>1, <2>2, <2>7
<1> QED BY <1>1, <1>2

\* An accepted change keeps the bound: every window it falls into is part of
\* the tentative log, which was counted.
LEMMA AcceptStep ==
    ASSUME NEW S \in SUBSET Change, NEW L \in SUBSET Change, NEW t \in Nat,
           IsFiniteSet(S), IsFiniteSet(L), \A c \in S : c.at <= t,
           pruneWindow(S, t) = pruneWindow(L, t), Bounded(S),
           Cardinality(pruneWindow(Logged(L, t), t)) <= DampChangeThreshold
    PROVE  Bounded(Logged(S, t))
<1> DEFINE e == NextChange(S, t)
           N == Logged(S, t)
<1>1. e \in Change /\ e.at = t /\ N \in SUBSET Change /\ IsFiniteSet(N)
      /\ N = S \cup {e}
  BY NextChangeFacts DEF Logged
<1> HIDE DEF e, N
<1>2. Cardinality(pruneWindow(N, t)) <= DampChangeThreshold
  BY LoggedAgree DEF N
<1>3. Window(N, t) = pruneWindow(N, t)
  <2>1. \A c \in N : c.at \in Nat /\ c.at <= t
    BY <1>1 DEF Change
  <2> QED BY <2>1 DEF Window, pruneWindow
<1>4. ASSUME NEW c \in N
      PROVE  Cardinality(Window(N, c.at)) <= DampChangeThreshold
  <2>1. c.at \in Nat /\ c.at <= t
    BY <1>1 DEF Change
  <2>2. CASE c.at = t
    BY <1>2, <1>3, <2>2
  <2>3. CASE c.at # t
    <3>1. c \in S
      BY <1>1, <2>3
    <3>2. Window(N, c.at) = Window(S, c.at)
      BY <1>1, <2>1, <2>3 DEF Window
    <3> QED BY <3>1, <3>2 DEF Bounded
  <2> QED BY <2>2, <2>3
<1> QED BY <1>4 DEF Bounded, N

\* A change that does not fit means the window is full already.
LEMMA FullWindow ==
    ASSUME NEW S \in SUBSET Change, NEW L \in SUBSET Change, NEW t \in Nat,
           IsFiniteSet(S), IsFiniteSet(L), \A c \in S : c.at <= t,
           pruneWindow(S, t) = pruneWindow(L, t),
           Cardinality(pruneWindow(Logged(L, t), t)) > DampChangeThreshold
    PROVE  Cardinality(Window(S, t)) >= DampChangeThreshold
<1> DEFINE e == NextChange(S, t)
           W == Window(S, t)
<1>1. e \in Change /\ e.at = t
  BY NextChangeFacts
<1>2. pruneWindow(Logged(S, t), t) = W \cup {e}
  <2>1. \A c \in S : c.at \in Nat /\ c.at <= t
    BY DEF Change
  <2>2. e.at > t - DampWindow
    BY <1>1, DampingAssumption
  <2> HIDE DEF e
  <2> QED BY <2>1, <2>2 DEF pruneWindow, Logged, Window, e
<1>3. IsFiniteSet(W)
  BY FS_Subset DEF Window
<1> HIDE DEF e, W
<1>4. Cardinality(W) \in Nat
  BY <1>3, FS_CardinalityType
<1>5. Cardinality(W \cup {e}) = Cardinality(W)
        \/ Cardinality(W \cup {e}) = Cardinality(W) + 1
  <2>1. CASE e \in W
    <3>1. W \cup {e} = W
      BY <2>1
    <3> QED BY <3>1
  <2>2. CASE e \notin W
    BY <1>3, <2>2, FS_AddElement
  <2> QED BY <2>1, <2>2
<1>6. Cardinality(W \cup {e}) > DampChangeThreshold
  BY <1>2, LoggedAgree
<1> QED BY <1>4, <1>5, <1>6, DampingAssumption DEF W

\* A change that does not apply: only the freeze clock may move.
LEMMA SuppressStep ==
    ASSUME NEW A, NEW rs \in RecordDampState(A), NEW S \in SUBSET Change,
           NEW t \in Nat, RecInv(rs, S, t),
           \/ rs.frozen
           \/ Cardinality(pruneWindow(Logged(rs.changeLog, t), t)) > DampChangeThreshold
    PROVE  RecInv([rs EXCEPT !.frozen = TRUE, !.lastSuppressed = t], S, t)
<1> DEFINE r == [rs EXCEPT !.frozen = TRUE, !.lastSuppressed = t]
<1>0. /\ rs.changeLog \in SUBSET Change /\ rs.frozen \in BOOLEAN
      /\ r.frozen = TRUE /\ r.lastSuppressed = t /\ r.changeLog = rs.changeLog
  BY DEF RecordDampState
<1> HIDE DEF r
<1>1. Tracks(r, S, t)
  BY <1>0 DEF RecInv, Tracks
<1>2. CASE rs.frozen
  <2>1. Justified(r, S, t)
    BY <1>2 DEF RecInv, Justified
  <2> QED BY <1>1, <2>1 DEF RecInv, r
<1>3. CASE ~rs.frozen
  <2>1. Cardinality(Window(S, t)) >= DampChangeThreshold
    BY <1>0, <1>3, FullWindow DEF RecInv, Tracks
  <2>2. t \in 0..t /\ \A c \in S : c.at <= t
    BY DEF RecInv, Tracks
  <2>3. Justified(r, S, t)
    BY <2>1, <2>2 DEF Justified
  <2> QED BY <1>1, <2>3 DEF RecInv, r
<1> QED BY <1>0, <1>2, <1>3

\* The changes on record after an Evaluate: one more when an unforced change
\* was served.
ChurnAfter(rs, r, S, forced, t) ==
    IF r.served # rs.served /\ ~forced THEN Logged(S, t) ELSE S

LEMMA DampStep ==
    ASSUME NEW A, NEW rs \in RecordDampState(A), NEW S \in SUBSET Change,
           NEW t \in Nat, NEW candidate \in A, NEW forced \in BOOLEAN,
           RecInv(rs, S, t)
    PROVE  /\ Damp(rs, candidate, forced, t) \in RecordDampState(A)
           /\ RecInv(Damp(rs, candidate, forced, t),
                     ChurnAfter(rs, Damp(rs, candidate, forced, t), S, forced, t), t)
<1> DEFINE d == Damp(rs, candidate, forced, t)
           L == rs.changeLog
           tentative == pruneWindow(Logged(L, t), t)
<1>0. /\ L \in SUBSET Change /\ rs.frozen \in BOOLEAN /\ rs.served \in A
      /\ rs.lastSuppressed \in Nat /\ IsFiniteSet(L) /\ IsFiniteSet(S)
      /\ \A c \in S : c.at <= t
  BY DEF RecordDampState, RecInv, Tracks
<1>1. CASE rs.served = candidate
  <2>1. d = rs
    BY <1>1 DEF Damp
  <2> HIDE DEF d
  <2> QED BY <2>1 DEF ChurnAfter, d
<1>2. CASE rs.served # candidate /\ forced
  <2> DEFINE r == [rs EXCEPT !.served = candidate]
  <2>1. d = r
    BY <1>2 DEF Damp
  <2>2. /\ r \in RecordDampState(A) /\ r.frozen = rs.frozen
        /\ r.changeLog = L /\ r.lastSuppressed = rs.lastSuppressed
    BY DEF RecordDampState
  <2> HIDE DEF d, r
  <2>3. RecInv(r, S, t)
    BY <2>2 DEF RecInv, Tracks, Justified
  <2>4. ChurnAfter(rs, d, S, forced, t) = S
    BY <1>2 DEF ChurnAfter
  <2> QED BY <2>1, <2>2, <2>3, <2>4 DEF d
<1>3. CASE /\ rs.served # candidate /\ ~forced
           /\ rs.frozen \/ Cardinality(tentative) > DampChangeThreshold
  <2> DEFINE r == [rs EXCEPT !.frozen = TRUE, !.lastSuppressed = t]
  <2>1. d = r
    BY <1>3 DEF Damp, RecordDampState
  <2>2. r \in RecordDampState(A) /\ r.served = rs.served
    BY DEF RecordDampState
  <2>3. RecInv(r, S, t)
    BY <1>3, SuppressStep
  <2> HIDE DEF d, r
  <2>4. ChurnAfter(rs, d, S, forced, t) = S
    BY <2>1, <2>2 DEF ChurnAfter
  <2> QED BY <2>1, <2>2, <2>3, <2>4 DEF d
<1>4. CASE /\ rs.served # candidate /\ ~forced /\ ~rs.frozen
           /\ ~(Cardinality(tentative) > DampChangeThreshold)
  <2> DEFINE r == [rs EXCEPT !.changeLog = tentative, !.served = candidate]
             N == Logged(S, t)
  <2>1. d = r
    BY <1>4 DEF Damp
  <2>2. Logged(L, t) \in SUBSET Change /\ IsFiniteSet(Logged(L, t))
        /\ N \in SUBSET Change /\ IsFiniteSet(N)
        /\ N = S \cup {NextChange(S, t)} /\ NextChange(S, t).at = t
    BY <1>0, NextChangeFacts DEF Logged
  <2>3. tentative \in SUBSET Change /\ IsFiniteSet(tentative)
    BY <2>2, FS_Subset DEF pruneWindow
  <2>4. pruneWindow(S, t) = pruneWindow(L, t)
    BY <1>4 DEF RecInv, Tracks
  <2>5. pruneWindow(N, t) = tentative
    BY <1>0, <2>4, LoggedAgree
  <2>6. pruneWindow(tentative, t) = tentative
    BY DEF pruneWindow
  <2>7. Cardinality(tentative) <= DampChangeThreshold
    BY <1>4, <2>3, FS_CardinalityType, DampingAssumption
  <2>8. Bounded(N)
    BY <1>0, <2>4, <2>7, AcceptStep DEF RecInv
  <2> HIDE DEF tentative, N, d, L
  <2>9. /\ r \in RecordDampState(A) /\ r.frozen = rs.frozen
        /\ r.changeLog = tentative /\ r.served = candidate
    BY <2>3 DEF RecordDampState
  <2> HIDE DEF r
  <2>10. \A c \in N : c.at <= t
    BY <1>0, <2>2
  <2>11. RecInv(r, N, t)
    BY <1>4, <2>2, <2>3, <2>5, <2>6, <2>8, <2>9, <2>10 DEF RecInv, Tracks, Justified
  <2>12. ChurnAfter(rs, d, S, forced, t) = N
    BY <1>4, <2>1, <2>9 DEF ChurnAfter, N
  <2> QED BY <2>1, <2>9, <2>11, <2>12 DEF d
<1> QED BY <1>1, <1>2, <1>3, <1>4

\* The passing of time only takes changes out of the window.
LEMMA TickStep ==
    ASSUME NEW A, NEW rs \in RecordDampState(A), NEW S \in SUBSET Change,
           NEW t \in Nat, RecInv(rs, S, t)
    PROVE  RecInv(rs, S, t + 1)
<1>0. /\ rs.changeLog \in SUBSET Change /\ rs.frozen \in BOOLEAN
      /\ rs.lastSuppressed \in Nat
  BY DEF RecordDampState
<1>1. ASSUME NEW X \in SUBSET Change
      PROVE  pruneWindow(X, t + 1) = pruneWindow(pruneWindow(X, t), t + 1)
  <2>1. \A c \in X : c.at > t + 1 - DampWindow => c.at > t - DampWindow
    BY DampingAssumption DEF Change
  <2>2. \A c \in X : c \in pruneWindow(X, t + 1)
                       <=> c \in pruneWindow(pruneWindow(X, t), t + 1)
    BY <2>1, DampingAssumption DEF pruneWindow, Change
  <2>3. /\ pruneWindow(X, t + 1) \subseteq X
        /\ pruneWindow(pruneWindow(X, t), t + 1) \subseteq X
    BY DEF pruneWindow
  <2> QED BY <2>2, <2>3
<1>2. \A c \in S : c.at <= t + 1
  BY DEF RecInv, Tracks, Change
<1>3. ~rs.frozen => pruneWindow(S, t + 1) = pruneWindow(rs.changeLog, t + 1)
  <2>1. pruneWindow(S, t + 1) = pruneWindow(pruneWindow(S, t), t + 1)
    BY <1>1
  <2>2. pruneWindow(rs.changeLog, t + 1)
          = pruneWindow(pruneWindow(rs.changeLog, t), t + 1)
    BY <1>0, <1>1
  <2>3. ~rs.frozen => pruneWindow(S, t) = pruneWindow(rs.changeLog, t)
    BY DEF RecInv, Tracks
  <2> QED BY <2>1, <2>2, <2>3
<1>4. rs.frozen => rs.lastSuppressed <= t + 1
  BY <1>0 DEF RecInv, Tracks
<1>5. Tracks(rs, S, t + 1)
  BY <1>2, <1>3, <1>4 DEF RecInv, Tracks
<1>6. Justified(rs, S, t + 1)
  BY DEF RecInv, Justified
<1> QED BY <1>5, <1>6 DEF RecInv

-----------------------------------------------------------------------------

IInv == TypeOK /\ LogTracksChurn /\ BoundedChurn /\ FreezeJustified

\* The invariant, record by record.
NameInv(r, S, t) == IF r = NoRecord THEN S = {} ELSE RecInv(r, S, t)

EveryName == \A f \in Fqdns : NameInv(records[f], churn[f], now)

LEMMA IInvByName == IInv <=> TypeOK /\ EveryName
<1> SUFFICES ASSUME TypeOK
             PROVE  (LogTracksChurn /\ BoundedChurn /\ FreezeJustified) <=> EveryName
  BY DEF IInv
<1>1. ASSUME NEW f \in Fqdns, NEW t PROVE ChurnInWindow(f, t) = Window(churn[f], t)
  BY DEF ChurnInWindow, Window
<1>2. ASSUME NEW f \in Fqdns, records[f] # NoRecord
      PROVE  /\ Frozen(f) <=> records[f].frozen
             /\ records[f].frozen \in BOOLEAN
  BY <1>2 DEF Frozen, TypeOK, RecordDampState
<1>3. ASSUME NEW f \in Fqdns, records[f] = NoRecord
      PROVE  ~Frozen(f)
  BY <1>3 DEF Frozen
<1>4. ASSUME LogTracksChurn, BoundedChurn, FreezeJustified, NEW f \in Fqdns
      PROVE  NameInv(records[f], churn[f], now)
  <2>1. CASE records[f] = NoRecord
    BY <1>4, <2>1 DEF LogTracksChurn, NameInv
  <2>2. CASE records[f] # NoRecord
    <3>1. Tracks(records[f], churn[f], now)
      BY <1>2, <1>4, <2>2 DEF LogTracksChurn, Tracks
    <3>2. Bounded(churn[f])
      BY <1>1, <1>4 DEF BoundedChurn, Bounded
    <3>3. Justified(records[f], churn[f], now)
      BY <1>1, <1>2, <1>4, <2>2 DEF FreezeJustified, Justified
    <3> QED BY <2>2, <3>1, <3>2, <3>3 DEF NameInv, RecInv
  <2> QED BY <2>1, <2>2
<1>5. ASSUME \A f \in Fqdns : NameInv(records[f], churn[f], now)
      PROVE  LogTracksChurn /\ BoundedChurn /\ FreezeJustified
  <2>1. ASSUME NEW f \in Fqdns, records[f] = NoRecord
        PROVE  churn[f] = {} /\ IsFiniteSet(churn[f])
    BY <1>5, <2>1, FS_EmptySet DEF NameInv
  <2>2. ASSUME NEW f \in Fqdns, records[f] # NoRecord
        PROVE  RecInv(records[f], churn[f], now)
    BY <1>5, <2>2 DEF NameInv
  <2>3. LogTracksChurn
    BY <1>2, <1>3, <2>1, <2>2 DEF LogTracksChurn, RecInv, Tracks
  <2>4. BoundedChurn
    BY <1>1, <2>1, <2>2 DEF BoundedChurn, RecInv, Bounded
  <2>5. FreezeJustified
    <3> SUFFICES ASSUME NEW f \in Fqdns, Frozen(f)
                 PROVE  \E t \in 0..now :
                          /\ \A c \in churn[f] : c.at <= t
                          /\ Cardinality(ChurnInWindow(f, t)) >= DampChangeThreshold
      BY DEF FreezeJustified
    <3>1. records[f] # NoRecord /\ records[f].frozen
      BY DEF Frozen
    <3> QED BY <1>1, <2>2, <3>1 DEF RecInv, Justified
  <2> QED BY <2>3, <2>4, <2>5
<1> QED BY <1>4, <1>5 DEF EveryName

LEMMA IInvInit == NewDamper => IInv
<1> SUFFICES ASSUME NewDamper PROVE IInv
  OBVIOUS
<1>1. TypeOK
  BY MaxTimeAssumption DEF NewDamper, TypeOK
<1>2. EveryName
  BY DEF NewDamper, NameInv, EveryName
<1> QED BY <1>1, <1>2, IInvByName

LEMMA ByNameStep == TypeOK /\ EveryName /\ [Next]_vars => TypeOK' /\ EveryName'
<1> SUFFICES ASSUME TypeOK, EveryName, [Next]_vars
             PROVE  TypeOK' /\ \A f \in Fqdns : NameInv(records'[f], churn'[f], now')
  BY DEF EveryName
<1>0. /\ TypeOK /\ now \in Nat
      /\ \A f \in Fqdns : NameInv(records[f], churn[f], now)
  BY DEF TypeOK, EveryName
<1>1. CASE Tick
  <2>1. TypeOK'
    <3>1. now + 1 \in 0..MaxTime
      BY <1>0, <1>1, MaxTimeAssumption DEF Tick, TypeOK
    <3> QED BY <1>0, <1>1, <3>1 DEF Tick, TypeOK
  <2>2. ASSUME NEW f \in Fqdns PROVE NameInv(records[f], churn[f], now + 1)
    <3>1. /\ records[f] # NoRecord => records[f] \in RecordDampState(AnswerSets)
          /\ churn[f] \in SUBSET Change
      BY <1>0 DEF TypeOK
    <3> QED BY <1>0, <3>1, TickStep DEF NameInv
  <2> QED BY <1>1, <2>1, <2>2 DEF Tick
<1>2. ASSUME NEW f \in Fqdns, NEW candidate \in AnswerSets, FirstQuery(f, candidate)
      PROVE  TypeOK' /\ \A g \in Fqdns : NameInv(records'[g], churn'[g], now')
  <2> DEFINE r == NewRecord(candidate)
  <2>1. r \in RecordDampState(AnswerSets) /\ r.changeLog = {} /\ r.frozen = FALSE
    BY DEF NewRecord, RecordDampState
  <2>2. churn[f] = {}
    BY <1>0, <1>2 DEF FirstQuery, NameInv
  <2> HIDE DEF r
  <2>3. RecInv(r, {}, now)
    BY <2>1, FS_EmptySet DEF RecInv, Tracks, Bounded, Justified
  <2>4. records' = [records EXCEPT ![f] = r] /\ churn' = churn /\ now' = now
    BY <1>2 DEF FirstQuery, r
  <2>5. TypeOK'
    BY <1>0, <2>1, <2>4 DEF TypeOK
  <2>6. ASSUME NEW g \in Fqdns PROVE NameInv(records'[g], churn'[g], now')
    <3>1. CASE g = f
      <4>1. records'[g] = r /\ churn'[g] = {} /\ r # NoRecord
        BY <1>0, <2>1, <2>2, <2>4, <3>1, NoRecordAssumption DEF TypeOK
      <4> QED BY <2>3, <2>4, <4>1 DEF NameInv
    <3>2. CASE g # f
      <4>1. records'[g] = records[g] /\ churn'[g] = churn[g]
        BY <1>0, <2>4, <3>2 DEF TypeOK
      <4> QED BY <1>0, <2>4, <4>1
    <3> QED BY <3>1, <3>2
  <2> QED BY <2>5, <2>6
<1>3. ASSUME NEW f \in Fqdns, NEW candidate \in AnswerSets,
             NEW forced \in BOOLEAN, Query(f, candidate, forced)
      PROVE  TypeOK' /\ \A g \in Fqdns : NameInv(records'[g], churn'[g], now')
  <2> DEFINE rs == records[f]
             thawed == maybeAutoUnfreeze(rs, now)
             r == Damp(thawed, candidate, forced, now)
             S == ChurnAfter(thawed, r, churn[f], forced, now)
  <2>1. rs # NoRecord /\ rs \in RecordDampState(AnswerSets)
        /\ churn[f] \in SUBSET Change /\ RecInv(rs, churn[f], now)
    BY <1>0, <1>3 DEF Query, TypeOK, NameInv
  <2>2. /\ thawed \in RecordDampState(AnswerSets) /\ thawed.served = rs.served
        /\ RecInv(thawed, churn[f], now)
    BY <1>0, <2>1, UnfreezeStep
  <2> HIDE DEF thawed
  <2>3. r \in RecordDampState(AnswerSets) /\ RecInv(r, S, now)
    BY <1>0, <2>1, <2>2, DampStep
  <2>4. S \in SUBSET Change
    <3>1. IsFiniteSet(churn[f])
      BY <2>1 DEF RecInv, Tracks
    <3> QED BY <1>0, <2>1, <3>1, NextChangeFacts DEF ChurnAfter
  <2> HIDE DEF r, rs
  <2>5. records' = [records EXCEPT ![f] = r] /\ records'[f] = r /\ now' = now
    BY <1>0, <1>3 DEF Query, Evaluate, TypeOK, r, thawed, rs
  <2>6. churn' = [churn EXCEPT ![f] = S]
    BY <1>0, <1>3, <2>2, <2>5 DEF Query, TypeOK, ChurnAfter, rs
  <2> HIDE DEF S
  <2>7. TypeOK'
    BY <1>0, <2>3, <2>4, <2>5, <2>6 DEF TypeOK
  <2>8. ASSUME NEW g \in Fqdns PROVE NameInv(records'[g], churn'[g], now')
    <3>1. CASE g = f
      <4>1. churn'[g] = S /\ r # NoRecord
        BY <1>0, <2>3, <2>6, <3>1, NoRecordAssumption DEF TypeOK
      <4> QED BY <2>3, <2>5, <3>1, <4>1 DEF NameInv
    <3>2. CASE g # f
      <4>1. records'[g] = records[g] /\ churn'[g] = churn[g]
        BY <1>0, <2>5, <2>6, <3>2 DEF TypeOK
      <4> QED BY <1>0, <2>5, <4>1
    <3> QED BY <3>1, <3>2
  <2> QED BY <2>7, <2>8
<1>4. CASE UNCHANGED vars
  BY <1>0, <1>4 DEF vars, TypeOK
<1> QED BY <1>1, <1>2, <1>3, <1>4 DEF Next

LEMMA Invariance == Spec => []IInv
BY IInvInit, IInvByName, ByNameStep, PTL DEF Spec

\* Every reachable state of the damper is well typed.
THEOREM DamperTypeCorrect == Spec => []TypeOK
<1>1. IInv => TypeOK
  BY DEF IInv
<1> QED BY <1>1, Invariance, PTL

\* Whatever the queries do, no window holds more unforced changes of the
\* served answers than the threshold (damper.go, Evaluate).
THEOREM ChurnIsBounded == Spec => []BoundedChurn
<1>1. IInv => BoundedChurn
  BY DEF IInv
<1> QED BY <1>1, Invariance, PTL

\* The change log holds what was really served, up to pruning, and the freeze
\* clock never lies before the last unforced change (damper.go, Evaluate).
THEOREM LogIsFaithful == Spec => []LogTracksChurn
<1>1. IInv => LogTracksChurn
  BY DEF IInv
<1> QED BY <1>1, Invariance, PTL

\* A record is only ever frozen after a full window of unforced changes
\* (damper.go, Evaluate and maybeAutoUnfreeze).
THEOREM FreezesAreJustified == Spec => []FreezeJustified
<1>1. IInv => FreezeJustified
  BY DEF IInv
<1> QED BY <1>1, Invariance, PTL
=============================================================================
