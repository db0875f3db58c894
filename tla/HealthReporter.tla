--------------------------- MODULE HealthReporter ---------------------------
(***************************************************************************)
(* remote.HealthReporter (internal/remote/reporter.go, health.go): the     *)
(* probe runner queues every change of a target's health and wakes the     *)
(* sender; the sender, woken or at a heartbeat, posts the queue together   *)
(* with the states of all targets, and tries again when that fails.  The   *)
(* health machine is LocalHealth.                                          *)
(*                                                                         *)
(* zeus takes over the states of every report it processes.  The answer    *)
(* may be lost, and a request whose sender gave it up may still arrive.    *)
(***************************************************************************)
EXTENDS LocalHealth, Sequences, FiniteSets

CONSTANTS MaxHealthReportRetries,
          MaxPending,      \* bound: transitions queued
          MaxLate          \* bound: abandoned requests under way

ASSUME ReporterAssumption == MaxHealthReportRetries \in Nat

VARIABLES prober, moved,   \* the notifying goroutine: place, its transition
          pending, wake,   \* the queue, the channel of capacity one
          sender, report, attempt,   \* Run and sendNow: place, locals
          net,             \* snapshots in abandoned requests
          picture,         \* zeus: the states of the last report
          excused          \* auxiliary: since zeus last processed a report of
                           \* the sender's, an abandoned one arrived or a
                           \* round was given up

proberVars == <<state, ready, prober, moved>>
queueVars == <<pending, wake>>
senderVars == <<sender, report, attempt>>
zeusVars == <<net, picture, excused>>
vars == <<proberVars, queueVars, senderVars, zeusVars>>

Absent == "absent"         \* a key that is not in a states map
Transition == [key: Keys, state: HealthValues]
Snapshot == [Keys -> HealthValues \cup {Absent}]

NoReport == [transitions |-> <<>>, states |-> [k \in Keys |-> Absent]]
Posting == {"post", "posted", "backoff"}

\* Mutant: the snapshot is taken once and kept.
StatesCached ==
    IF report # NoReport THEN report.states
    ELSE [k \in Keys |-> IF ready[k] THEN state[k] ELSE Absent]

\* Machine.States: the keys with a result, and their health.
States == [k \in Keys |-> IF ready[k] THEN state[k] ELSE Absent]

Init ==
    /\ LocalInit
    /\ prober = "idle"
    /\ moved \in [key: Keys, state: {Unknown}]
    /\ pending = <<>> /\ wake = FALSE
    /\ sender = "wait" /\ report = NoReport /\ attempt = 0
    /\ net = {} /\ picture = NoReport.states /\ excused = FALSE

-----------------------------------------------------------------------------
(* The probe runner's goroutine: RecordResult, then NotifyTransition if    *)
(* the health changed.                                                     *)

\* Mutant: only a target that goes down is worth a report.
TransitionedDown(k, h) == h # state[k] /\ h = Unhealthy

Transitioned(k, h) == h # state[k]

RecordResult(k, h) ==
    /\ prober = "idle"
    /\ Observe(k, h)
    /\ IF Transitioned(k, h)
         THEN prober' = "queue" /\ moved' = [key |-> k, state |-> h]
         ELSE UNCHANGED <<prober, moved>>
    /\ UNCHANGED <<queueVars, senderVars, zeusVars>>

\* Under the lock.
Queue ==
    /\ prober = "queue" /\ Len(pending) < MaxPending
    /\ pending' = Append(pending, moved)
    /\ prober' = "wake"
    /\ UNCHANGED <<state, ready, moved, wake, senderVars, zeusVars>>

\* Mutant: the channel has no buffer.
SignalUnbuffered == wake \/ sender = "wait"

\* The channel, of capacity one, after a send.
Signal == TRUE

\* The send does not block: a full channel is left as it is.
Wake ==
    /\ prober = "wake"
    /\ wake' = Signal
    /\ prober' = "idle"
    /\ UNCHANGED <<state, ready, moved, pending, senderVars, zeusVars>>

-----------------------------------------------------------------------------
(* HealthReporter.Run and sendNow.                                         *)

Woken ==
    /\ sender = "wait" /\ wake
    /\ wake' = FALSE
    /\ sender' = "take"
    /\ UNCHANGED <<proberVars, pending, report, attempt, zeusVars>>

\* Mutant: no heartbeat without news.
HeartbeatOnlyNews ==
    /\ sender = "wait" /\ pending # <<>>
    /\ sender' = "take"
    /\ UNCHANGED <<proberVars, queueVars, report, attempt, zeusVars>>

Heartbeat ==
    /\ sender = "wait"
    /\ sender' = "take"
    /\ UNCHANGED <<proberVars, queueVars, report, attempt, zeusVars>>

\* Under the lock.
Take ==
    /\ sender = "take"
    /\ report' = [report EXCEPT !.transitions = pending]
    /\ pending' = <<>>
    /\ sender' = "read"
    /\ UNCHANGED <<proberVars, wake, attempt, zeusVars>>

\* The machine is asked after the queue was emptied; the report is built and
\* the first attempt leaves.
ReadStates ==
    /\ sender = "read"
    /\ report' = [report EXCEPT !.states = States]
    /\ sender' = "post" /\ attempt' = 0
    /\ UNCHANGED <<proberVars, queueVars, zeusVars>>

\* A 2xx answer reaches the sender.
Accepted ==
    /\ sender = "posted"
    /\ sender' = "wait"
    /\ UNCHANGED <<proberVars, queueVars, report, attempt, zeusVars>>

\* Mutant: one retry too many.
GivesUpLate(n) == n > MaxHealthReportRetries + 1

GivesUp(n) == n > MaxHealthReportRetries

\* Transport error, timeout or another status, whether zeus processed the
\* request, will yet, or never sees it.
AttemptFails ==
    /\ sender \in {"post", "posted"}
    /\ attempt' = attempt + 1
    /\ IF GivesUp(attempt')
         THEN sender' = "wait" /\ excused' = TRUE
         ELSE sender' = "backoff" /\ UNCHANGED excused
    /\ \/ UNCHANGED net
       \/ /\ sender = "post" /\ Cardinality(net) < MaxLate
          /\ net' = net \cup {report.states}
    /\ UNCHANGED <<proberVars, queueVars, report, picture>>

\* The backoff has passed; the same report leaves again.
Retry ==
    /\ sender = "backoff"
    /\ sender' = "post"
    /\ UNCHANGED <<proberVars, queueVars, report, attempt, zeusVars>>

\* The context is cancelled: every wait and every request ends.
Cancel ==
    /\ sender # "stopped"
    /\ sender' = "stopped"
    /\ UNCHANGED <<proberVars, queueVars, report, attempt, zeusVars>>

-----------------------------------------------------------------------------
(* zeus and the network.                                                   *)

Delivered ==
    /\ sender = "post"
    /\ picture' = report.states /\ excused' = FALSE
    /\ sender' = "posted"
    /\ UNCHANGED <<proberVars, queueVars, report, attempt, net>>

LateArrival ==
    /\ \E s \in net : picture' = s /\ net' = net \ {s}
    /\ excused' = TRUE
    /\ UNCHANGED <<proberVars, queueVars, senderVars>>

Lost ==
    /\ \E s \in net : net' = net \ {s}
    /\ UNCHANGED <<proberVars, queueVars, senderVars, picture, excused>>

-----------------------------------------------------------------------------

Notify == Queue \/ Wake

Send == Woken \/ Heartbeat \/ Take \/ ReadStates \/ Retry

Next ==
    \/ \E k \in Keys, h \in HealthValues : RecordResult(k, h)
    \/ Notify
    \/ Send \/ Accepted \/ AttemptFails \/ Cancel
    \/ Delivered \/ LateArrival \/ Lost

(***************************************************************************)
(* Goroutines run, the ticker ticks, an attempt ends by its timeout at the *)
(* latest, and zeus can be reached again and again.  Nothing is assumed of *)
(* the probes or of abandoned requests.                                    *)
(***************************************************************************)
Fairness ==
    /\ WF_vars(Notify)
    /\ WF_vars(Send)
    /\ WF_vars(Accepted \/ AttemptFails)
    /\ SF_vars(Delivered)

Spec == Init /\ [][Next]_vars /\ Fairness

-----------------------------------------------------------------------------

TypeOK ==
    /\ LocalTypeOK
    /\ prober \in {"idle", "queue", "wake"}
    /\ moved \in Transition
    /\ pending \in Seq(Transition)
    /\ wake \in BOOLEAN
    /\ sender \in {"wait", "take", "read", "stopped"} \cup Posting
    /\ report \in [transitions: Seq(Transition), states: Snapshot]
    /\ attempt \in 0..(MaxHealthReportRetries + 1)
    /\ sender \in Posting => attempt <= MaxHealthReportRetries
    /\ net \subseteq Snapshot
    /\ picture \in Snapshot
    /\ excused \in BOOLEAN

(***************************************************************************)
(* "An immediate send on any transition" (reporter.go:27-28), although a   *)
(* full channel is skipped and the sender may be anywhere in its loop:     *)
(* what is queued has a wake-up waiting, or one about to come, or a sender *)
(* about to take it, or a sender that will look at the channel again.      *)
(***************************************************************************)
NoLostWakeup ==
    pending # <<>> =>
        wake \/ prober = "wake" \/ sender \in {"take", "stopped"}

\* A change of k's health that no report has taken yet.
Unreported(k) ==
    \/ prober = "queue" /\ moved.key = k
    \/ \E i \in DOMAIN pending : pending[i].key = k

(***************************************************************************)
(* The queue and the states are read one after the other, and the same     *)
(* report is sent by every retry (reporter.go:95-115).  Its states are     *)
(* never older than the transitions next to them: where they differ from   *)
(* the last transition of a key, that key moved again and the news is      *)
(* still to be sent.                                                       *)
(***************************************************************************)
SnapshotCovers ==
    sender \in Posting =>
        \A i \in DOMAIN report.transitions :
            LET t == report.transitions[i]
            IN  \/ report.states[t.key] = t.state
                \/ \E j \in DOMAIN report.transitions :
                      j > i /\ report.transitions[j].key = t.key
                \/ Unreported(t.key)

(***************************************************************************)
(* A retry resends an old picture, a transition may come in at any point   *)
(* of a round, and wake-ups are merged; still, when the sender rests with  *)
(* no wake-up waiting and nobody is notifying, zeus knows the health of    *)
(* every target that has one, unless it was told otherwise by an abandoned *)
(* request or a round was given up since.                                  *)
(***************************************************************************)
QuiescentAgreement ==
    sender = "wait" /\ ~wake /\ prober = "idle" /\ ~excused =>
        \A k \in Keys : state[k] # Unknown => picture[k] = state[k]

(***************************************************************************)
(* "This is self-healing, never a silent permanent loss: ... the very next *)
(* successful send re-establishes the true picture" (reporter.go:12-15):   *)
(* a health that lasts is what zeus comes to know and goes on knowing,     *)
(* whatever was given up, lost or late.                                    *)
(***************************************************************************)
PictureConverges ==
    \A k \in Keys, h \in {Healthy, Unhealthy} :
        <>[](state[k] = h /\ sender # "stopped") => <>[](picture[k] = h)
=============================================================================
