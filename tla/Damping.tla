------------------------------ MODULE Damping -------------------------------
(***************************************************************************)
(* The flap-damping step of one record (internal/dnsserver/damper.go), as  *)
(* operators on its bookkeeping.  Damper.tla runs it alone against a       *)
(* clock, Evaluator.tla behind the candidate walk.                         *)
(*                                                                         *)
(* An answer set is an opaque value: answerSetEqual compares multisets, so *)
(* values that stand for different multisets are different and "=" is the  *)
(* comparison.  The change log is a multiset of instants, held as a set of *)
(* [at, n]: n numbers the changes of one instant.  Pruning drops instants  *)
(* whole, so the numbering stays exact.                                    *)
(***************************************************************************)
EXTENDS Integers, FiniteSets

CONSTANTS DampWindow,           \* dampWindow, in ticks of the clock
          DampChangeThreshold,  \* dampChangeThreshold
          UnfreezeQuietPeriod   \* unfreezeQuietPeriod, in ticks

\* In the code 10 minutes, 3 changes and 20 minutes.
ASSUME DampingAssumption ==
    /\ DampWindow \in Nat \ {0}
    /\ DampChangeThreshold \in Nat
    /\ UnfreezeQuietPeriod \in Nat
    /\ UnfreezeQuietPeriod >= DampWindow

Change == [at: Nat, n: Nat]

RecordDampState(AnswerSets) ==
    [served: AnswerSets, changeLog: SUBSET Change,
     frozen: BOOLEAN, lastSuppressed: Nat]

\* The record made by the first Evaluate of an fqdn: it serves the candidate.
NewRecord(candidate) ==
    [served |-> candidate, changeLog |-> {}, frozen |-> FALSE,
     lastSuppressed |-> 0]

\* Mutant: the freeze ends at the next query, the quiet period not awaited.
UnfreezeAtOnce(rs, now) ==
    IF rs.frozen
      THEN [rs EXCEPT !.frozen = FALSE, !.changeLog = {}]
      ELSE rs

maybeAutoUnfreeze(rs, now) ==
    IF rs.frozen /\ now - rs.lastSuppressed >= UnfreezeQuietPeriod
      THEN [rs EXCEPT !.frozen = FALSE, !.changeLog = {}]
      ELSE rs

\* Mutant: a window one tick longer than dampWindow.
PruneWindowLate(changes, now) ==
    {c \in changes : c.at >= now - DampWindow}

pruneWindow(changes, now) == {c \in changes : c.at > now - DampWindow}

\* One more change at instant now.
NextChange(changes, now) ==
    [at |-> now, n |-> Cardinality({c \in changes : c.at = now})]

Logged(changes, now) == changes \cup {NextChange(changes, now)}

\* Mutant: the freeze clock is set to the start of the quiet period.
DampBackdated(rs, candidate, forced, now) ==
    LET tentative == pruneWindow(Logged(rs.changeLog, now), now)
    IN  IF rs.served = candidate THEN rs
        ELSE IF forced THEN [rs EXCEPT !.served = candidate]
        ELSE IF rs.frozen \/ Cardinality(tentative) > DampChangeThreshold
          THEN [rs EXCEPT !.frozen = TRUE,
                          !.lastSuppressed = now - UnfreezeQuietPeriod]
        ELSE [rs EXCEPT !.changeLog = tentative, !.served = candidate]

\* Mutant: a change over the threshold is held back but freezes nothing.
DampNoFreeze(rs, candidate, forced, now) ==
    LET tentative == pruneWindow(Logged(rs.changeLog, now), now)
    IN  IF rs.served = candidate THEN rs
        ELSE IF forced THEN [rs EXCEPT !.served = candidate]
        ELSE IF rs.frozen \/ Cardinality(tentative) > DampChangeThreshold
          THEN [rs EXCEPT !.lastSuppressed = now]
        ELSE [rs EXCEPT !.changeLog = tentative, !.served = candidate]

\* Evaluate for an fqdn that has a record, after the automatic unfreeze.
\* What it returns is the served field of the result in every case.
Damp(rs, candidate, forced, now) ==
    LET tentative == pruneWindow(Logged(rs.changeLog, now), now)
    IN  IF rs.served = candidate THEN rs
        ELSE IF forced THEN [rs EXCEPT !.served = candidate]
        ELSE IF rs.frozen THEN [rs EXCEPT !.lastSuppressed = now]
        ELSE IF Cardinality(tentative) > DampChangeThreshold
          THEN [rs EXCEPT !.frozen = TRUE, !.lastSuppressed = now]
        ELSE [rs EXCEPT !.changeLog = tentative, !.served = candidate]

Evaluate(rs, candidate, forced, now) ==
    Damp(maybeAutoUnfreeze(rs, now), candidate, forced, now)
=============================================================================
