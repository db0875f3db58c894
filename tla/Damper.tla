------------------------------- MODULE Damper -------------------------------
(***************************************************************************)
(* Damper (internal/dnsserver/damper.go) against a clock: any candidate    *)
(* answer set may arrive at any instant, forced or not.  Time is the       *)
(* monotonic clock of time.Now, in ticks.  Evaluate calls are one at a     *)
(* time here; Evaluator.tla has the concurrent callers.                    *)
(***************************************************************************)
EXTENDS Damping

CONSTANTS Fqdns,         \* record names
          AnswerSets,    \* candidate answer sets
          NoRecord,      \* an fqdn the damper has not seen
          MaxTime        \* bound: last instant of the clock

ASSUME MaxTimeAssumption == MaxTime \in Nat
ASSUME NoRecordAssumption == NoRecord \notin RecordDampState(AnswerSets)

VARIABLES records,       \* Damper.records
          now,           \* the clock
          churn          \* auxiliary: every unforced change served, as [at, n]

vars == <<records, now, churn>>

TypeOK ==
    /\ records \in [Fqdns -> RecordDampState(AnswerSets) \cup {NoRecord}]
    /\ now \in 0..MaxTime
    /\ churn \in [Fqdns -> SUBSET Change]

NewDamper ==
    /\ records = [f \in Fqdns |-> NoRecord]
    /\ now = 0
    /\ churn = [f \in Fqdns |-> {}]

Tick ==
    /\ now < MaxTime
    /\ now' = now + 1
    /\ UNCHANGED <<records, churn>>

FirstQuery(f, candidate) ==
    /\ records[f] = NoRecord
    /\ records' = [records EXCEPT ![f] = NewRecord(candidate)]
    /\ UNCHANGED <<now, churn>>

Query(f, candidate, forced) ==
    /\ records[f] # NoRecord
    /\ records' = [records EXCEPT ![f] = Evaluate(@, candidate, forced, now)]
    /\ churn' = IF records'[f].served # records[f].served /\ ~forced
                  THEN [churn EXCEPT ![f] = Logged(@, now)]
                  ELSE churn
    /\ UNCHANGED now

Next ==
    \/ Tick
    \/ \E f \in Fqdns, candidate \in AnswerSets : FirstQuery(f, candidate)
    \/ \E f \in Fqdns, candidate \in AnswerSets, forced \in BOOLEAN :
           Query(f, candidate, forced)

Spec == NewDamper /\ [][Next]_vars

-----------------------------------------------------------------------------

\* The unforced changes of the window that ends at instant t.
ChurnInWindow(f, t) == {c \in churn[f] : t - DampWindow < c.at /\ c.at <= t}

(***************************************************************************)
(* "More than 3 answer-set changes in a rolling 10-minute window freezes   *)
(* the record" (damper.go:10-13): looking back one window from any change  *)
(* that was served, at most the threshold of them were unforced, however   *)
(* freezes, thaws (which clear the log), prunings and forced moves fall.   *)
(***************************************************************************)
BoundedChurn ==
    \A f \in Fqdns : \A c \in churn[f] :
        Cardinality(ChurnInWindow(f, c.at)) <= DampChangeThreshold

Frozen(f) == records[f] # NoRecord /\ records[f].frozen

(***************************************************************************)
(* No record is frozen without cause: a frozen record has had a window     *)
(* full of unforced changes, and no unforced change since that window      *)
(* ended (the window's edge in pruneWindow, damper.go:110-119, and the log *)
(* a thaw clears, damper.go:100-108).                                      *)
(***************************************************************************)
FreezeJustified ==
    \A f \in Fqdns : Frozen(f) =>
        \E t \in 0..now :
            /\ \A c \in churn[f] : c.at <= t
            /\ Cardinality(ChurnInWindow(f, t)) >= DampChangeThreshold

\* The strengthening that makes both inductive: what the change log and the
\* freeze clock say of the changes really served.
LogTracksChurn ==
    \A f \in Fqdns :
        /\ IsFiniteSet(churn[f])
        /\ \A c \in churn[f] : c.at <= now
        /\ records[f] = NoRecord => churn[f] = {}
        /\ records[f] # NoRecord => IsFiniteSet(records[f].changeLog)
        /\ records[f] # NoRecord /\ ~records[f].frozen =>
               pruneWindow(churn[f], now) = pruneWindow(records[f].changeLog, now)
        /\ Frozen(f) =>
               /\ records[f].lastSuppressed <= now
               /\ \A c \in churn[f] : c.at <= records[f].lastSuppressed
=============================================================================
