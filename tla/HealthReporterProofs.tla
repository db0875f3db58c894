------------------------ MODULE HealthReporterProofs ------------------------
(***************************************************************************)
(* Proofs about HealthReporter.tla, for every set of keys, every number of *)
(* retries and every bound on the queue and on abandoned requests.         *)
(***************************************************************************)
EXTENDS HealthReporter, TLAPS

LEMMA Vocabulary ==
    /\ Healthy # Unhealthy /\ Healthy # Unknown /\ Unhealthy # Unknown
    /\ HealthValues = {Healthy, Unhealthy, Unknown}
    /\ Posting = {"post", "posted", "backoff"}
BY DEF Healthy, Unhealthy, Unknown, HealthValues, Posting

LEMMA AppendFacts ==
    ASSUME NEW q \in Seq(Transition), NEW t \in Transition
    PROVE  /\ Append(q, t) \in Seq(Transition)
           /\ Append(q, t) # <<>>
           /\ DOMAIN Append(q, t) = (DOMAIN q) \cup {Len(q) + 1}
           /\ \A i \in DOMAIN q : i < Len(q) + 1 /\ Append(q, t)[i] = q[i]
           /\ Append(q, t)[Len(q) + 1] = t
OBVIOUS

LEMMA EmptyFacts ==
    /\ <<>> \in Seq(Transition)
    /\ DOMAIN <<>> = {}
BY DEF Transition

LEMMA ElementFacts ==
    ASSUME NEW q \in Seq(Transition), NEW i \in DOMAIN q
    PROVE  q[i] \in Transition /\ q[i].key \in Keys /\ i \in Nat
<1>1. i \in 1..Len(q) /\ q \in [1..Len(q) -> Transition]
  OBVIOUS
<1>2. q[i] \in Transition
  BY <1>1
<1> QED BY <1>1, <1>2 DEF Transition

-----------------------------------------------------------------------------
(* Types.                                                                  *)

LEMMA StatesType == LocalTypeOK => States \in Snapshot
BY DEF LocalTypeOK, States, Snapshot

LEMMA TypeInit == Init => TypeOK
<1> SUFFICES ASSUME Init PROVE TypeOK
    OBVIOUS
<1>1. NoReport \in [transitions: Seq(Transition), states: Snapshot]
  BY EmptyFacts DEF NoReport, Snapshot
<1>2. attempt \in 0..(MaxHealthReportRetries + 1)
  BY ReporterAssumption DEF Init
<1>3. moved \in Transition
  BY Vocabulary DEF Init, Transition
<1>4. LocalTypeOK
  BY Vocabulary DEF Init, LocalInit, LocalTypeOK
<1>5. NoReport.states \in Snapshot
  BY <1>1
<1>6. sender \notin Posting /\ picture \in Snapshot /\ net \subseteq Snapshot
  BY <1>5, Vocabulary DEF Init
<1> QED BY <1>1, <1>2, <1>3, <1>4, <1>6, EmptyFacts DEF Init, TypeOK

LEMMA TypeStep == TypeOK /\ [Next]_vars => TypeOK'
<1> SUFFICES ASSUME TypeOK, [Next]_vars PROVE TypeOK'
    OBVIOUS
<1> USE DEF TypeOK, proberVars, queueVars, senderVars, zeusVars
<1>1. ASSUME NEW k \in Keys, NEW h \in HealthValues, RecordResult(k, h)
      PROVE  TypeOK'
  <2>1. LocalTypeOK'
    BY <1>1 DEF RecordResult, Observe, LocalTypeOK
  <2>2. moved' \in Transition
    BY <1>1 DEF RecordResult, Transition
  <2> QED BY <1>1, <2>1, <2>2 DEF RecordResult
<1>2. CASE Queue
  BY <1>2, AppendFacts DEF Queue, LocalTypeOK
<1>3. CASE Wake
  BY <1>3 DEF Wake, Signal, LocalTypeOK
<1>4. CASE Woken \/ Heartbeat \/ Retry \/ Accepted \/ Cancel
  <2>1. UNCHANGED <<state, ready, prober, moved, pending, report, attempt,
                    net, picture, excused>>
    BY <1>4 DEF Woken, Heartbeat, Retry, Accepted, Cancel
  <2>2. /\ sender' \in {"wait", "take", "read", "stopped"} \cup Posting
        /\ sender' \in Posting => sender \in Posting
    BY <1>4, Vocabulary DEF Woken, Heartbeat, Retry, Accepted, Cancel
  <2>3. wake' \in BOOLEAN
    BY <1>4 DEF Woken, Heartbeat, Retry, Accepted, Cancel
  <2> QED BY <2>1, <2>2, <2>3 DEF LocalTypeOK
<1>5. CASE Take
  BY <1>5, EmptyFacts, Vocabulary DEF Take, LocalTypeOK
<1>6. CASE ReadStates
  <2>1. attempt' = 0 /\ 0 \in 0..(MaxHealthReportRetries + 1)
    BY <1>6, ReporterAssumption DEF ReadStates
  <2>2. report' \in [transitions: Seq(Transition), states: Snapshot]
    BY <1>6, StatesType DEF ReadStates
  <2> QED BY <1>6, <2>1, <2>2, Vocabulary, ReporterAssumption DEF ReadStates, LocalTypeOK
<1>7. CASE AttemptFails
  <2>1. /\ attempt' \in 0..(MaxHealthReportRetries + 1)
        /\ sender' \in Posting => attempt' <= MaxHealthReportRetries
    BY <1>7, ReporterAssumption, Vocabulary DEF AttemptFails, GivesUp
  <2>2. net' \subseteq Snapshot
    BY <1>7 DEF AttemptFails
  <2> QED BY <1>7, <2>1, <2>2, Vocabulary DEF AttemptFails, LocalTypeOK
<1>8. CASE Delivered
  BY <1>8, Vocabulary DEF Delivered, LocalTypeOK
<1>9. CASE LateArrival \/ Lost
  BY <1>9 DEF LateArrival, Lost, LocalTypeOK
<1>10. CASE UNCHANGED vars
  BY <1>10 DEF vars, LocalTypeOK
<1> QED
  BY <1>1, <1>2, <1>3, <1>4, <1>5, <1>6, <1>7, <1>8, <1>9, <1>10
  DEF Next, Notify, Send

\* Every reachable state of the reporter is well typed.
THEOREM ReporterTypeCorrect == Spec => []TypeOK
BY TypeInit, TypeStep, PTL DEF Spec

-----------------------------------------------------------------------------
(* No wake-up is lost: the invariant is inductive given the types.         *)

LEMMA WakeupStep == TypeOK /\ NoLostWakeup /\ [Next]_vars => NoLostWakeup'
<1> SUFFICES ASSUME TypeOK, NoLostWakeup, [Next]_vars PROVE NoLostWakeup'
    OBVIOUS
<1> USE DEF NoLostWakeup, proberVars, queueVars, senderVars, zeusVars
<1>1. ASSUME NEW k \in Keys, NEW h \in HealthValues, RecordResult(k, h)
      PROVE  NoLostWakeup'
  BY <1>1 DEF RecordResult
<1>2. CASE Queue \/ Wake
  BY <1>2 DEF Queue, Wake, Signal
<1>3. CASE Send
  BY <1>3 DEF Send, Woken, Heartbeat, Take, ReadStates, Retry
<1>4. CASE Accepted \/ AttemptFails \/ Cancel
  BY <1>4 DEF Accepted, AttemptFails, Cancel
<1>5. CASE Delivered \/ LateArrival \/ Lost
  BY <1>5 DEF Delivered, LateArrival, Lost
<1>6. CASE UNCHANGED vars
  BY <1>6 DEF vars
<1> QED BY <1>1, <1>2, <1>3, <1>4, <1>5, <1>6 DEF Next, Notify

\* A queued transition is always about to be sent (reporter.go:53-60, 83-99).
THEOREM NoWakeupIsLost == Spec => []NoLostWakeup
<1>1. Init => NoLostWakeup
  BY DEF Init, NoLostWakeup
<1> QED BY <1>1, TypeInit, TypeStep, WakeupStep, PTL DEF Spec
-----------------------------------------------------------------------------
(* What is queued, taken or being sent, and the health of its key.         *)

\* The key of the transition at i in q moved again, later in q.
MovedAgain(q, i) == \E j \in DOMAIN q : j > i /\ q[j].key = q[i].key

InHand(k) == prober = "queue" /\ moved.key = k

\* A key with a health has had a result.
HealthNeedsResult == \A k \in Keys : state[k] # Unknown => ready[k]

\* The transition in the prober's hand is its key's health.
HandIsCurrent ==
    prober = "queue" => state[moved.key] = moved.state /\ ready[moved.key]

\* So is a queued one, unless its key moved again.
QueueIsCurrent ==
    \A i \in DOMAIN pending :
        /\ ready[pending[i].key]
        /\ \/ state[pending[i].key] = pending[i].state
           \/ MovedAgain(pending, i)
           \/ InHand(pending[i].key)

\* And so is one that was just taken.
TakenIsCurrent ==
    sender = "read" =>
        \A i \in DOMAIN report.transitions :
            LET t == report.transitions[i]
            IN  /\ ready[t.key]
                /\ \/ state[t.key] = t.state
                   \/ MovedAgain(report.transitions, i)
                   \/ Unreported(t.key)

Current ==
    /\ HealthNeedsResult
    /\ HandIsCurrent
    /\ QueueIsCurrent
    /\ TakenIsCurrent
    /\ SnapshotCovers

LEMMA CurrentInit == Init => Current
<1> SUFFICES ASSUME Init PROVE Current
    OBVIOUS
<1>1. HealthNeedsResult
  BY DEF Init, LocalInit, HealthNeedsResult
<1>2. HandIsCurrent /\ QueueIsCurrent
  BY EmptyFacts DEF Init, HandIsCurrent, QueueIsCurrent
<1>3. TakenIsCurrent /\ SnapshotCovers
  BY Vocabulary DEF Init, TakenIsCurrent, SnapshotCovers
<1> QED BY <1>1, <1>2, <1>3 DEF Current

\* A result: the keys whose health changes are in hand afterwards.
LEMMA CurrentRecord ==
    ASSUME TypeOK, Current, NEW k \in Keys, NEW h \in HealthValues,
           RecordResult(k, h)
    PROVE  Current'
<1> USE DEF TypeOK, LocalTypeOK
<1>1. /\ prober = "idle"
      /\ state' = [state EXCEPT ![k] = h] /\ ready' = [ready EXCEPT ![k] = TRUE]
      /\ UNCHANGED <<pending, sender, report>>
      /\ h # state[k] => prober' = "queue" /\ moved' = [key |-> k, state |-> h]
      /\ h = state[k] => prober' = "idle" /\ moved' = moved
  BY DEF RecordResult, Observe, Transitioned, queueVars, senderVars, zeusVars
<1>2. HealthNeedsResult'
  BY <1>1 DEF Current, HealthNeedsResult
<1>3. HandIsCurrent'
  BY <1>1 DEF HandIsCurrent
<1>4. \A l \in Keys :
        /\ ready[l] => ready'[l]
        /\ state'[l] = state[l] \/ InHand(l)'
        /\ ~InHand(l)
  BY <1>1 DEF InHand
<1>5. QueueIsCurrent'
  <2> SUFFICES ASSUME NEW i \in DOMAIN pending
               PROVE  /\ ready'[pending[i].key]
                      /\ \/ state'[pending[i].key] = pending[i].state
                         \/ MovedAgain(pending, i)
                         \/ InHand(pending[i].key)'
    BY <1>1 DEF QueueIsCurrent, MovedAgain
  <2>1. pending[i].key \in Keys
    BY ElementFacts
  <2>2. /\ ready[pending[i].key]
        /\ \/ state[pending[i].key] = pending[i].state
           \/ MovedAgain(pending, i)
           \/ InHand(pending[i].key)
    BY DEF Current, QueueIsCurrent
  <2> HIDE DEF TypeOK, LocalTypeOK
  <2> QED BY <1>1, <1>4, <2>1, <2>2 DEF InHand
<1>6. \A l \in Keys : Unreported(l) => Unreported(l)'
  BY <1>1 DEF Unreported
<1>7. TakenIsCurrent'
  <2> SUFFICES ASSUME sender = "read", NEW i \in DOMAIN report.transitions
               PROVE  LET t == report.transitions[i]
                      IN  /\ ready'[t.key]
                          /\ \/ state'[t.key] = t.state
                             \/ MovedAgain(report.transitions, i)
                             \/ Unreported(t.key)'
    BY <1>1 DEF TakenIsCurrent, MovedAgain
  <2>1. report.transitions[i].key \in Keys
    BY ElementFacts
  <2>2. \A l \in Keys : InHand(l)' => Unreported(l)'
    BY DEF InHand, Unreported
  <2> DEFINE t == report.transitions[i]
  <2>3. /\ ready[t.key]
        /\ \/ state[t.key] = t.state
           \/ MovedAgain(report.transitions, i)
           \/ Unreported(t.key)
    BY DEF Current, TakenIsCurrent
  <2> HIDE DEF TypeOK, LocalTypeOK
  <2> QED BY <1>1, <1>4, <1>6, <2>1, <2>2, <2>3 DEF Unreported
<1>8. SnapshotCovers'
  <2> SUFFICES ASSUME sender \in Posting, NEW i \in DOMAIN report.transitions
               PROVE  LET t == report.transitions[i]
                      IN  \/ report.states[t.key] = t.state
                          \/ \E j \in DOMAIN report.transitions :
                                j > i /\ report.transitions[j].key = t.key
                          \/ Unreported(t.key)'
    BY <1>1 DEF SnapshotCovers
  <2>1. report.transitions[i].key \in Keys
    BY ElementFacts
  <2> DEFINE t == report.transitions[i]
  <2>2. \/ report.states[t.key] = t.state
        \/ \E j \in DOMAIN report.transitions :
              j > i /\ report.transitions[j].key = t.key
        \/ Unreported(t.key)
    BY DEF Current, SnapshotCovers
  <2> HIDE DEF TypeOK, LocalTypeOK
  <2> QED BY <1>1, <1>6, <2>1, <2>2 DEF Unreported
<1> QED BY <1>2, <1>3, <1>5, <1>7, <1>8 DEF Current

\* Queueing moves the transition from the hand to the end of the queue.
LEMMA CurrentQueue == TypeOK /\ Current /\ Queue => Current'
<1> SUFFICES ASSUME TypeOK, Current, Queue PROVE Current'
    OBVIOUS
<1> USE DEF TypeOK, LocalTypeOK
<1>1. /\ prober = "queue" /\ prober' = "wake"
      /\ pending' = Append(pending, moved)
      /\ UNCHANGED <<state, ready, moved, sender, report>>
  BY DEF Queue, senderVars
<1>2. /\ DOMAIN pending' = (DOMAIN pending) \cup {Len(pending) + 1}
      /\ \A i \in DOMAIN pending :
            i < Len(pending) + 1 /\ pending'[i] = pending[i]
      /\ pending'[Len(pending) + 1] = moved
  BY <1>1, AppendFacts
<1>3. HealthNeedsResult' /\ HandIsCurrent'
  BY <1>1 DEF Current, HealthNeedsResult, HandIsCurrent
<1>4. QueueIsCurrent'
  <2> SUFFICES ASSUME NEW i \in DOMAIN pending'
               PROVE  /\ ready[pending'[i].key]
                      /\ \/ state[pending'[i].key] = pending'[i].state
                         \/ \E j \in DOMAIN pending' :
                               j > i /\ pending'[j].key = pending'[i].key
    BY <1>1 DEF QueueIsCurrent, MovedAgain
  <2>1. CASE i = Len(pending) + 1
    BY <1>1, <1>2, <2>1 DEF Current, HandIsCurrent
  <2>2. CASE i \in DOMAIN pending
    <3>1. /\ pending'[i] = pending[i]
          /\ i < Len(pending) + 1 /\ Len(pending) + 1 \in DOMAIN pending'
      BY <1>2, <2>2
    <3>2. CASE MovedAgain(pending, i)
      BY <1>2, <2>2, <3>1, <3>2 DEF Current, QueueIsCurrent, MovedAgain
    <3>3. CASE ~MovedAgain(pending, i)
      <4>1. /\ ready[pending[i].key]
            /\ state[pending[i].key] = pending[i].state \/ InHand(pending[i].key)
        BY <2>2, <3>3 DEF Current, QueueIsCurrent
      <4> QED BY <1>2, <3>1, <4>1 DEF InHand
    <3> QED BY <3>2, <3>3
  <2> QED BY <1>2, <2>1, <2>2
<1>5. \A l : Unreported(l) => Unreported(l)'
  BY <1>1, <1>2 DEF Unreported
<1>6. TakenIsCurrent' /\ SnapshotCovers'
  BY <1>1, <1>5 DEF Current, TakenIsCurrent, SnapshotCovers, MovedAgain
<1> QED BY <1>3, <1>4, <1>6 DEF Current

\* Taking empties the queue into the report.
LEMMA CurrentTake == TypeOK /\ Current /\ Take => Current'
<1> SUFFICES ASSUME TypeOK, Current, Take PROVE Current'
    OBVIOUS
<1> USE DEF TypeOK, LocalTypeOK
<1>1. /\ sender' = "read" /\ pending' = <<>>
      /\ report'.transitions = pending
      /\ UNCHANGED <<state, ready, prober, moved>>
  BY DEF Take, proberVars
<1>2. HealthNeedsResult' /\ HandIsCurrent'
  BY <1>1 DEF Current, HealthNeedsResult, HandIsCurrent
<1>3. QueueIsCurrent' /\ SnapshotCovers'
  BY <1>1, EmptyFacts, Vocabulary DEF QueueIsCurrent, SnapshotCovers
<1>4. \A l : InHand(l) => Unreported(l)'
  BY <1>1 DEF InHand, Unreported
<1>5. TakenIsCurrent'
  BY <1>1, <1>4 DEF Current, QueueIsCurrent, TakenIsCurrent, MovedAgain
<1> QED BY <1>2, <1>3, <1>5 DEF Current

\* Reading the states gives every taken transition's key its health now.
LEMMA CurrentRead == TypeOK /\ Current /\ ReadStates => Current'
<1> SUFFICES ASSUME TypeOK, Current, ReadStates PROVE Current'
    OBVIOUS
<1> USE DEF TypeOK, LocalTypeOK
<1>1. /\ sender = "read" /\ sender' = "post"
      /\ report'.transitions = report.transitions /\ report'.states = States
      /\ UNCHANGED <<state, ready, prober, moved, pending>>
  BY DEF ReadStates, proberVars, queueVars
<1>2. HealthNeedsResult' /\ HandIsCurrent' /\ QueueIsCurrent' /\ TakenIsCurrent'
  BY <1>1 DEF Current, HealthNeedsResult, HandIsCurrent, QueueIsCurrent,
              TakenIsCurrent, MovedAgain, InHand
<1>3. \A l : Unreported(l) => Unreported(l)'
  BY <1>1 DEF Unreported
<1>4. SnapshotCovers'
  <2> SUFFICES ASSUME NEW i \in DOMAIN report.transitions
               PROVE  LET t == report.transitions[i]
                      IN  \/ States[t.key] = t.state
                          \/ MovedAgain(report.transitions, i)
                          \/ Unreported(t.key)
    BY <1>1, <1>3 DEF SnapshotCovers, MovedAgain
  <2>1. report.transitions[i].key \in Keys
    BY ElementFacts
  <2> QED BY <1>1, <2>1 DEF Current, TakenIsCurrent, States
<1> QED BY <1>2, <1>4 DEF Current

\* The other steps leave the queue, the report and the health alone.
LEMMA CurrentRest ==
    ASSUME Current,
           UNCHANGED <<state, ready, pending, moved, report>>,
           prober' = "queue" <=> prober = "queue",
           sender' = "read" => sender = "read",
           sender' \in Posting => sender \in Posting
    PROVE  Current'
<1>1. HealthNeedsResult' /\ HandIsCurrent' /\ QueueIsCurrent'
  BY DEF Current, HealthNeedsResult, HandIsCurrent, QueueIsCurrent, MovedAgain,
         InHand
<1>2. \A l : Unreported(l) => Unreported(l)'
  BY DEF Unreported
<1>3. TakenIsCurrent' /\ SnapshotCovers'
  BY <1>2 DEF Current, TakenIsCurrent, SnapshotCovers, MovedAgain
<1> QED BY <1>1, <1>3 DEF Current

LEMMA CurrentStep == TypeOK /\ Current /\ [Next]_vars => Current'
<1> SUFFICES ASSUME TypeOK, Current, [Next]_vars PROVE Current'
    OBVIOUS
<1>1. ASSUME NEW k \in Keys, NEW h \in HealthValues, RecordResult(k, h)
      PROVE  Current'
  BY <1>1, CurrentRecord
<1>2. CASE Wake \/ Woken \/ Heartbeat \/ Retry
  <2>1. /\ UNCHANGED <<state, ready, pending, moved, report>>
        /\ prober' = "queue" <=> prober = "queue"
        /\ sender' = "read" => sender = "read"
        /\ sender' \in Posting => sender \in Posting
    BY <1>2, Vocabulary DEF Wake, Woken, Heartbeat, Retry, proberVars, queueVars,
                            senderVars, zeusVars
  <2> QED BY <2>1, CurrentRest
<1>3. CASE Accepted \/ AttemptFails \/ Cancel
  <2>1. /\ UNCHANGED <<state, ready, pending, moved, report, prober>>
        /\ sender' = "read" => sender = "read"
        /\ sender' \in Posting => sender \in Posting
    BY <1>3, Vocabulary DEF Accepted, AttemptFails, Cancel, proberVars, queueVars
  <2> QED BY <2>1, CurrentRest
<1>4. CASE Delivered \/ LateArrival \/ Lost \/ UNCHANGED vars
  <2>1. /\ UNCHANGED <<state, ready, pending, moved, report, prober>>
        /\ sender' = "read" => sender = "read"
        /\ sender' \in Posting => sender \in Posting
    BY <1>4, Vocabulary DEF Delivered, LateArrival, Lost, vars, proberVars,
                            queueVars, senderVars
  <2> QED BY <2>1, CurrentRest
<1> QED
  BY <1>1, <1>2, <1>3, <1>4, CurrentQueue, CurrentTake, CurrentRead
  DEF Next, Notify, Send

\* The states of a report are never older than its transitions
\* (reporter.go:95-115).
THEOREM SnapshotsCover == Spec => []SnapshotCovers
BY TypeInit, TypeStep, CurrentInit, CurrentStep, PTL DEF Spec, Current
-----------------------------------------------------------------------------
(* What zeus knows when the sender rests.                                  *)

\* A health that exists is in a queue, or will be read, or is in the report on
\* its way, or is what zeus was told last.
NewsTravels ==
    \A k \in Keys :
        state[k] # Unknown =>
            \/ Unreported(k)
            \/ sender \in {"take", "read", "stopped"}
            \/ sender \in Posting /\ report.states[k] = state[k]
            \/ sender = "wait" /\ (excused \/ picture[k] = state[k])

\* An answered report is zeus's picture, unless an abandoned one came after.
AnsweredIsPicture ==
    sender = "posted" /\ ~excused => picture = report.states

Travelling ==
    /\ HealthNeedsResult
    /\ NewsTravels
    /\ AnsweredIsPicture
LEMMA TravellingInit == Init => Travelling
BY Vocabulary DEF Init, LocalInit, Travelling, HealthNeedsResult, NewsTravels,
                  AnsweredIsPicture

LEMMA TravellingRecord ==
    ASSUME TypeOK, Travelling, NEW k \in Keys, NEW h \in HealthValues,
           RecordResult(k, h)
    PROVE  Travelling'
<1>1. /\ prober = "idle"
      /\ state' = [state EXCEPT ![k] = h] /\ ready' = [ready EXCEPT ![k] = TRUE]
      /\ UNCHANGED <<pending, sender, report, picture, excused>>
      /\ h # state[k] => prober' = "queue" /\ moved' = [key |-> k, state |-> h]
      /\ h = state[k] => prober' = "idle" /\ moved' = moved
  BY DEF RecordResult, Observe, Transitioned, queueVars, senderVars, zeusVars
<1>2. LocalTypeOK
  BY DEF TypeOK
<1>3. HealthNeedsResult'
  BY <1>1, <1>2 DEF Travelling, HealthNeedsResult, LocalTypeOK
<1>4. AnsweredIsPicture'
  BY <1>1 DEF Travelling, AnsweredIsPicture
<1>5. \A l \in Keys : state'[l] = state[l] \/ Unreported(l)'
  BY <1>1, <1>2 DEF Unreported, LocalTypeOK
<1>6. \A l \in Keys : Unreported(l) => Unreported(l)'
  BY <1>1 DEF Unreported
<1>7. NewsTravels'
  BY <1>1, <1>5, <1>6 DEF Travelling, NewsTravels
<1> QED BY <1>3, <1>4, <1>7 DEF Travelling

\* Reading the states puts every health into the report.
LEMMA TravellingRead == TypeOK /\ Travelling /\ ReadStates => Travelling'
<1> SUFFICES ASSUME TypeOK, Travelling, ReadStates PROVE Travelling'
    OBVIOUS
<1>1. /\ sender' = "post" /\ report'.states = States
      /\ UNCHANGED <<state, ready>>
  BY DEF ReadStates, proberVars, TypeOK
<1>2. HealthNeedsResult' /\ AnsweredIsPicture'
  BY <1>1 DEF Travelling, HealthNeedsResult, AnsweredIsPicture
<1>3. \A k \in Keys : state[k] # Unknown => report'.states[k] = state[k]
  BY <1>1 DEF Travelling, HealthNeedsResult, States
<1>4. NewsTravels'
  BY <1>1, <1>3, Vocabulary DEF NewsTravels
<1> QED BY <1>2, <1>4 DEF Travelling

LEMMA TravellingStep == TypeOK /\ Travelling /\ [Next]_vars => Travelling'
<1> SUFFICES ASSUME TypeOK, Travelling, [Next]_vars PROVE Travelling'
    OBVIOUS
<1> USE DEF proberVars, queueVars, senderVars, zeusVars, Travelling,
            HealthNeedsResult, NewsTravels, AnsweredIsPicture
<1>1. ASSUME NEW k \in Keys, NEW h \in HealthValues, RecordResult(k, h)
      PROVE  Travelling'
  BY <1>1, TravellingRecord
<1>2. CASE Queue
  <2>1. \A l : Unreported(l) => Unreported(l)'
    BY <1>2, AppendFacts DEF Queue, Unreported, TypeOK
  <2> QED BY <1>2, <2>1 DEF Queue
<1>3. CASE Wake
  <2>1. \A l : Unreported(l) => Unreported(l)'
    BY <1>3 DEF Wake, Unreported
  <2> QED BY <1>3, <2>1 DEF Wake
<1>4. CASE Woken \/ Heartbeat \/ Take \/ Cancel
  BY <1>4 DEF Woken, Heartbeat, Take, Cancel
<1>5. CASE ReadStates
  BY <1>5, TravellingRead
<1>6. CASE Retry \/ Accepted \/ AttemptFails \/ Delivered
  <2>1. \A l : Unreported(l) => Unreported(l)'
    BY <1>6 DEF Retry, Accepted, AttemptFails, Delivered, Unreported
  <2>2. CASE Retry
    BY <2>1, <2>2, Vocabulary DEF Retry
  <2>3. CASE Accepted
    BY <2>1, <2>3, Vocabulary DEF Accepted
  <2>4. CASE AttemptFails
    BY <2>1, <2>4, Vocabulary DEF AttemptFails
  <2>5. CASE Delivered
    BY <2>1, <2>5, Vocabulary DEF Delivered
  <2> QED BY <1>6, <2>2, <2>3, <2>4, <2>5
<1>7. CASE LateArrival \/ Lost \/ UNCHANGED vars
  <2>1. \A l : Unreported(l) => Unreported(l)'
    BY <1>7 DEF LateArrival, Lost, vars, Unreported
  <2> QED BY <1>7, <2>1 DEF LateArrival, Lost, vars
<1> QED
  BY <1>1, <1>2, <1>3, <1>4, <1>5, <1>6, <1>7 DEF Next, Notify, Send

LEMMA RestingAgrees == Travelling /\ NoLostWakeup => QuiescentAgreement
<1> SUFFICES ASSUME Travelling, NoLostWakeup, sender = "wait", ~wake,
                    prober = "idle", ~excused, NEW k \in Keys,
                    state[k] # Unknown
             PROVE  picture[k] = state[k]
  BY DEF QuiescentAgreement
<1>1. pending = <<>>
  BY DEF NoLostWakeup
<1>2. ~Unreported(k)
  BY <1>1, EmptyFacts DEF Unreported
<1> QED BY <1>2, Vocabulary DEF Travelling, NewsTravels

\* At rest zeus knows the health of every target, whatever was interleaved,
\* retried or merged before (reporter.go:50-140).
THEOREM RestIsAgreement == Spec => []QuiescentAgreement
<1>1. Init => NoLostWakeup
  BY DEF Init, NoLostWakeup
<1> QED
  BY <1>1, TypeInit, TypeStep, WakeupStep, TravellingInit, TravellingStep,
     RestingAgrees, PTL DEF Spec
=============================================================================
