# zeus-gslb: TLA+ specifications and proofs

zeus-gslb is a DNS responder. Zeus, a control plane that is not in this
repository, compiles a *bundle* of records; the responder fetches or reads it,
probes the local targets it names, and answers A queries from both. This
directory holds specifications of its parts, the TLC configurations that check
them on small instances, and TLAPS proofs.

## The system

| Component (source) | State | Operations | Talks to |
|---|---|---|---|
| Health machine (`checks/machine.go`) | per key: health, two streaks, cycles; one mutex | `RecordResult`, `State`, `Ready`, `States` | written by the probe runner, read by queries and the reporter |
| Probe runner (`checks/runner.go`, `prober.go`, `k8s.go`) | `lastRun` per key | `BuildTargets`, `RunOnce` | reads the store, writes the machine, notifies the reporter |
| Damper (`dnsserver/damper.go`) | per name: served answers, change log, frozen, last suppressed; **no lock** | `Evaluate`, `Frozen` | called by every query |
| Evaluator (`dnsserver/evaluate.go`) | active keys per name; one mutex | `Resolve` | reads the machine, calls the damper |
| Handler (`dnsserver/handler.go`) | none | `ServeDNS` | one goroutine per query; reads the store |
| Store (`bundle/store.go`, `boot_fetch.go`) | current bundle, mtime; one RW mutex | `NewStore`, `BootFromFetch`, `reloadIfChanged`, `ApplyIfChanged` | file, cache, zeus |
| Bundle and cache file (`bundle/bundle.go`) | files | `ParseAndValidate`, `SaveCache`, `LoadCache` | file system |
| Remote runner (`remote/runner.go`, `sse.go`, `client.go`) | stream, attempt | `Run`, `pollUntil`, `refetchAndApply` | zeus, store |
| Reporter (`remote/reporter.go`, `health.go`) | pending transitions, wake channel | `NotifyTransition`, `Run`, `sendNow` | machine, zeus |
| Wiring and listeners (`cmd/zeus-gslb/main.go`, `dnsserver/server.go`) | lazy k8s lister, two listeners, error channel | start-up, signal, shutdown, exit code | all |

What is hard about it: queries are goroutines that share the damper, the active
keys and the machine while the probe runner writes and the store swaps bundles;
a query's walk is a sequence of separate reads; freezes depend on time and on
the order of earlier queries; the file may be replaced between two system calls;
the process may die between any two steps of persisting; streams break or fall
silent, fetches fail and events are lost; reports are retried, abandoned and
arrive late; probes are serial while the bundle and the backends change; a
signal, a failing listener and queries in flight meet at the exit.

What makes each part correct:

- machine: its verdict is that of the whole history of results;
- damper: bounded churn, no freeze without cause;
- evaluator: an answer that is down is never given, a failure only when nothing
  is up, the active keys describe what is served;
- store: what is persisted is what was accepted, a restart serves again, no
  update of the file is missed, the cache lags only after a failed save;
- remote runner: an old bundle is served only while news is on its way or after
  some was lost, a silent stream is left, polling makes up for a stream that
  stays down;
- reporter: no wake-up is lost, a report's states are as new as its
  transitions, zeus's picture converges;
- probe runner: each target has the first definition at the fastest interval,
  waits a bounded time for its next probe, and gets the verdict its backend
  deserves;
- process: it ends when told, not before, with the right code, and lets
  queries finish.

## Modules

| Module | Models | Uses |
|---|---|---|
| `Health` | vocabulary and threshold step of one target | |
| `LocalHealth` | abstract: what `State` and `Ready` promise a reader | `Health` |
| `HealthMachine` | `checks.Machine`; refines `LocalHealth` | `Health` |
| `Damping` | one record's damping step, as operators | |
| `Damper` | the damper against a clock | `Damping` |
| `Evaluator` | `ServeDNS` and `Resolve` with concurrent queries | `LocalHealth`, `Damping` |
| `LastGood` | abstract: what the store promises | |
| `BundleStore` | `bundle.Store`, both modes, with the file system; refines `LastGood` | `LastGood` |
| `Backoff` | `ExponentialBackoff` with the width of a duration | |
| `RemoteSync` | `remote.Runner`, `Subscribe`, `FetchBundle` against zeus | `Backoff` |
| `HealthReporter` | `remote.Reporter` and `ReportHealth` beside the machine | `Health` |
| `Targets` | `BuildTargets`, `NewProber`, `needsK8sProbe`, as operators | |
| `ProbeRunner` | `checks.Runner`, the probers and the lister, with the machine | `Targets`, `Health` |
| `Process` | `main` and `dnsserver.Server`: start, signal, exit | |
| `*Proofs` | proofs about the module of that name; `RemoteSyncProofs` also about `Backoff` and `Targets` | |
| `MC*` | constants for TLC; `MCAlgorithms` also the reference definitions | |

`PROJECT.json` maps every definition to the lines it models.

**HealthMachine.** `targets` is `Machine.targets`; a key that was never recorded
has zero cycles. `RecordResult` is one atomic action (one lock) whose thresholds
are chosen anew at each call, because they come from the bundle in force. The
auxiliary `log` keeps every result.

**Damping, Damper.** `Evaluate` is translated branch by branch; it always
returns the record's `served` field. An answer set is an opaque value, the change
log a multiset of instants. The clock is the monotonic one of `time.Now`, in
ticks. The auxiliary `churn` records the unforced changes that were really
served, without looking at the change log.

**Evaluator.** One name. A query goes through `ServeDNS` (read the bundle
pointer), `ReadActive`, `ReadState`/`ReadReady` per candidate, `EnterDamper`,
`LeaveDamper`, `RecordActive`: one action per access to shared state. The probe
runner is `CheckResult`, which is `LocalHealth`'s `Observe`; the store is `Swap`.
A behaviour takes place in one of `Worlds`: the bundles that may be swapped, the
queries that come, the last instant. Damper calls that overlap are a data race:
each field of the record that results is anything the racers may write to it
(`RaceRecords`: the log they found or a part of it, cleared, or with the change
accepted onto it), the answer may be a part of one of the slices, or the process
ends (`RaceFault`). Resolving a name
with no record is NXDOMAIN, a query outside the zone or with several questions is
`refused`. `down`, `up` and `first` are auxiliary: the candidates that were
effectively unhealthy, and not, at every instant of the query, and the keys whose
first result came during it. The machine is never nil, as in `main.go`. A
candidate is *dead* for a query if it was unhealthy throughout and its first
result did not come during the query (`Dead`): one that was pushed unhealthy and
gets its first result between `State` and `Ready` is viable for this one walk.

**BundleStore.** One goroutine owns the writes in each mode; `pc` is its place.
Every `Stat`, read, write, sync and rename is a step. `OperatorWrites` replaces
or removes the file at any point, with a new mtime each time. `Crash` loses the
process; `HostCrash` also cuts short what was not synced. A rename that the host
failure undoes leaves the state of a crash just before the rename, which is
covered. A read that fails is a missing file.

**RemoteSync.** One goroutine, at `pc`: connecting, reading the stream, polling,
fetching. A bundle is the number of its publication. The stream is a sequence of
lines, each a field, a comment or blank, which zeus extends, closes, or drops
without a word; `ReadLine` is one turn of `Subscribe`'s loop. The timers (idle,
backoff, poll ticker, client timeout) count down with `Tick`, which does not pass
a timer that is due; what the goroutine does takes no time. A fetch has two
steps, since zeus answers with the bundle of one moment and the answer is applied
at a later one. `attempt` is never reset, as in `Run`, and saturates where the
delay no longer grows. The auxiliary `missed` remembers lost events and failed
fetches.

**HealthReporter.** Three goroutines: the probe loop (`RecordResult`, then
`Queue` and `Wake`, the two halves of `NotifyTransition`), the sender
(`Woken` or `Heartbeat`, `Take`, `ReadStates`, the attempts of `sendNow`) and the
requests on the network. An attempt that timed out may have been answered, may
still arrive later (`LateArrival`), or is lost. `picture` is what zeus knows.

**Targets, ProbeRunner.** `RunOnce` reads the bundle and starts a pass, which
probes the due targets one after the other in any order: `StartProbe`,
`RecordResult`. A backend answers, refuses, or does not answer before the
timeout. The lister starts inside a pass (`sync`); the API works, is absent, or
is silent, from the start and for ever. Bundles, backends, slices and the shutdown change at any
point. Instants are kept as ages, so there is no bound on time. `lastRun` and the
machine's entries outlive their target, as in the code.

**Process.** `main` from the flags to the exit code, `Run` with its error
channel of two, and the two listeners, which bind, fail, serve and drain as the
DNS library lets them. A shutdown may find a listener that is not yet bound.

## Runs

| Run | Bounds | Result |
|---|---|---|
| `health_machine` | 1 key, thresholds 0, 2, 3, 5 results | the verdict matches the history; `LocalHealth` implemented |
| `damper` | window 2, threshold 3, quiet 3, 10 ticks, 2 answer sets | bounded churn, justified freezes |
| `evaluator` | 1 query at a time over 3 ticks, in mode all with a local and a remote candidate, legacy and missing records, with candidates that lose addresses or leave, or with a local candidate pushed unhealthy before its first result; 2 racing queries in both modes with an unparseable address | a dead candidate leaves even a frozen record; withdrawn addresses only under a freeze; SERVFAIL only with cause; a dead candidate slips through a walk only at its first result |
| `evaluator_single` | 1 query at a time, mode single | **violated**, see below |
| `store_fetch` | 6 contents, 1 retry, 2 crashes | `LastGood` implemented; comes back to serve; the cache lags only after a failed save |
| `store_file` | 3 contents, 2 replacements, 2 crashes | no update missed; what is persisted is what is served, or looked at again |
| `algorithms` | durations of 7 bits, 10 attempts; 3 local checks, 2 keys, intervals -1 to 2, a known and an unknown probe | both functions equal their references |
| `remote_sync` | 3 publications, one rejected; backoff 1 to 3, poll 2, idle 2, fetch timeout 1; 5 lines | staleness has a cause; silence is left; polling keeps up |
| `remote_gap` | 1 publication, no fetch fails | **violated** |
| `reporter` | 1 key, 1 retry, 2 queued, 1 abandoned request | no lost wake-up; states as new as the news; agreement at rest and in the end |
| `probe_runner` | 2 keys, tcp/http and k8s, intervals up to 2, thresholds up to 2, timeout 2, tick 1; gaps counted to 6, one more than the bound | gaps bounded; the verdict follows the backend |
| `process` | 2 queries per listener, all options | ends when told and only then; drained; right code |

Why the bounds are enough: keys do not interact in the machine, so one; names
share only the damper's map, so one (an insert of another name may end the
process, since the map has no lock: a restart like that of `RaceFault`, which is
modelled for overlapping queries of one name only); five results hold a run of the largest threshold
(3) before and after an interruption; ten ticks hold freeze, quiet period,
thaw and a second freeze; a threshold of one change makes freezing reachable
with two candidates in the evaluator; two queries are the smallest race; one
crash during a boot that itself follows a crash needs two. The backoff's cap lies
below and above the poll interval in `remote_sync`, so both regimes occur, and
five lines hold an event with a comment inside it and part of the next. Seven
bits put the wrap-around within ten doublings. In the reporter keys are
independent but for the shared report, and two queued transitions are a change
and its reversal. In the probe runner a target that times out holds up one that
does not, a pass is longer than the tick, and one bundle lacks the k8s target so
that it leaves and returns.

The evaluator's properties about the damper's record are stated for queries one
at a time (`Sequential`): after a race nothing about the record is certain.

`GapBounded` is `longest + others`, where `others` is the time the probes of the
other slow targets of one pass take, and `longest` is the larger of
`MaxInterval - 1 + max(others, BaseTick)` and the time of a whole pass. The whole
pass counts the target's own probe too: the schedule starts when a pass starts,
so a target whose probe times out after more than an interval has waited through
its own probe, and through those behind it, before it is due again. The time the
lister takes to start within a pass is not counted: nothing in the code bounds it
(disagreement 11).

Deadlock is not checked: every part may come to rest, or its counters reach
their bounds.

Fairness:

- `BundleStore`: `WF(Process)`, the goroutine takes a step when it can (Go
  schedules it, a ticker drives the poll, the container is restarted after
  `main` gave up). File changes, successful fetches and writes and the absence
  of crashes are not assumed; crashes are finitely many.
- `RemoteSync`: `WF` of time, of reading a line that is there, of the end and the
  idle timer of a stream, of the poll and the backoff timer, and of a fetch's end
  at its timeout (`http.Client.Timeout`). `SF` of an answer and of its arrival:
  not every fetch fails for ever. The connect has no fairness at all, because
  `streamClient` has no timeout; where a property needs it, it is a hypothesis
  (`RequestsAnswered`).
- `HealthReporter`: `WF` of the steps of `NotifyTransition` and of the sender,
  of an attempt's end (the request has a timeout), `SF` of a delivery: not every
  report is lost.
- `ProbeRunner`: `WF` of the goroutine, `SF` of time, since a backend that keeps
  changing its mind does not stop the clock.
- `Process`: `WF` of `main`, of the shutdown, of answering a query and of a
  listener's end, which the server library promises. Signals and failures are
  not assumed.

## Disagreements between the code and what it says

Checked as runs:

1. `evaluator_single`: in mode `single` the walk stops at the first viable
   candidate and does not see that the active one behind it died. Under a freeze
   the dead address stays served, against "a forced move ... is ALWAYS allowed"
   (`damper.go:50-51`). The counterexample: the second candidate is served after
   a failover, the first one recovers, its return is held back by a freeze, then
   the second one dies.
2. `remote_gap`: a poll needs a whole `PollInterval` (5s) within one backoff, and
   the first backoffs are shorter (1s, 2s, 4s); nothing is fetched on reconnect.
   What was published while the stream was down is then not served until the next
   event, against "poll the bundle endpoint every PollInterval while the stream is
   down" (`runner.go:14-16`).

Contained in the models, and visible in the hypotheses and exceptions of the
properties that do hold:

3. `viable` reads `State` and `Ready` separately; a first, failing result in
   between makes a candidate viable that is unhealthy before and after, against
   `evaluate.go:144-147` (`DownViableOnlyAtFirst`).
4. The damper has no lock but is shared by all queries (`evaluate.go:34-37`):
   `EnterDamper`, `RaceFault`, `Sequential`.
5. `NewStore` persists a second read of the file without validating it, against
   "persist every accepted bundle" (`store.go:14-15`): `BootReread`,
   `PersistsServed`.
6. A peer that accepts the request for the stream and never answers holds
   `Subscribe` for ever, against "must not wedge the caller" (`sse.go:26-27`):
   `RequestsAnswered`.
7. A zero backoff reconnects without a poll, against `runner.go:73-74`.
8. `States` includes targets that are still unknown; the body of the report is
   documented as `healthy|unhealthy` (`health.go:8`): `States`.
9. Targets that time out delay the others by seconds, against "well under a
   second" (`checks/runner.go:140-141`): the bound of `GapBounded`.
10. A k8s target without a lister is judged unhealthy, not skipped
    (`checks/runner.go:42-43`): `Up` in `VerdictFollowsBackend`.
11. A lister that never syncs stops all probing, against
    `checks/runner.go:44-45`: the exception of `VerdictFollowsBackend`.
12. A target that leaves and returns within its interval is not due at once
    (`checks/runner.go:95-97`): `Due`, `GapBounded`.
13. The active keys are the keys of the candidates that gave an answer. When a
    swap gives an address that stays served under a freeze to another target
    key, the failure of that key forces no move, against `damper.go:49-51`:
    `OneKeyEach` in `ForcedWherever`.

## Proofs

All theorems hold for all values of the constants that satisfy the named
assumptions.

*Health machine* (from: thresholds are integers). `HealthMatchesHistory` is not
inductive, because the health after a result depends on the counters. The
invariant adds `CountersAreTrailingRuns`: each counter is the length of the run
of its outcome that ends the log. Then a result is a decision exactly when the
counter reaches the threshold (`DecidesUpStep`, `DecidesDownStep`), a new
decision has the last word, and no decision leaves the verdict. The refinement
of `LocalHealth` needs type correctness only.

*Damper* (from: the window is positive and the quiet period at least a window;
10 and 20 minutes in the code). `BoundedChurn` speaks of changes served, the
code counts its change log, and the log is cleared by a thaw.
`LogTracksChurn` links them: an unfrozen record's log has exactly the window's
changes, and a frozen record has had none after the last suppressed attempt. So
at a thaw the window is empty and clearing the log loses nothing
(`UnfreezeStep`), an accepted change was counted with all that share a window
with it (`AcceptStep`), and a rejected one finds the window full
(`FullWindow`).

*Store.* `FetchKeepsPromise`: with `--zeus-url` every step is a step of
`LastGood` or a stutter. `FetchInv` carries it: the cache is whole and synced,
what is being saved is what is served, and the temporary file is whole and synced
before the rename. It fails with `--bundle`, where the second read of the boot is
persisted unseen. What remains in both modes is `PersistedIsServed`, from
`RereadInv` (a file that still has the first mtime is the one that was loaded).
`OnlyFailureLags` follows from `FetchInv`.

*Reporter.* `NoWakeupIsLost`: a non-empty queue has a token in the channel, a
signal about to come, or a sender about to take it. `SnapshotsCover` and
`RestIsAgreement` need to know that nothing in hand, queued or taken is older
than the machine unless newer news follows it, and that news of a change travels:
it is in the hand, the queue, the report, or zeus has it, unless a round was given
up or an abandoned request is still out.

*Process.* The invariant says how many reports the error channel holds against
how many listeners have ended (so a send never blocks), that every end has a
reason, that the exit is last, and that the listeners follow `Run`. From it:
exit code 0 only after a signal or for a version request, and no other for a
responder that ran and was told to stop, and no query is cut off
unless its listener bound after it was shut down.

*Pure functions* (from: the base and the ceiling are naturals, the ceiling at most half
the largest duration; intervals are integers). `BackoffCorrect`: the loop of doublings, with its test
before each, is `min(base * 2^attempt, ceiling)` and never overflows. The
library's induction theorems take a predicate as a parameter, which the provers
cannot instantiate; `SetInduction` takes the *set* of the numbers that have the
property instead, and follows from the least element of a set of naturals
(`WFMin`). A recursive function is a `CHOOSE`, so its proof shows first that one
function satisfies its equation and then, by that induction, that it is the only
one: `Doubled` for the loop, `Merged` for the fold of `BuildTargets` over the
checks (`MergeStep`, `FoldIsMerged`), from which `TargetsCorrect` follows. `2^n`,
which the provers do not compute, is the number of subsets of `1..n`.

*Synchronisation* (from: naturals, and the same bound on the ceiling, 30 s in the
code). `StaleExplained` needs two more facts: a stream that is down has no
lines left to read, and an answer under way that a publication has overtaken has
an event behind it or a lost one counted (`Freshness`). An event stays on its
way through comments and blank lines until it is whole (`EventSurvives`,
`ReadKeepsEvent`). `NeverBackwards`: one fetch at a time, so an answer is never
older than what is served (`AnswersInOrder`).

*Evaluator* (from: a world has finitely many queries; the candidates of a record,
if it has any, are a sequence of candidates). Three invariants, one above the other.

- `Typed` holds for any number of queries that race on the damper: what a query
  reads, judges and collects at each `pc`, and that a damper record has something
  to serve.
- `WalksSound`, also for any number of queries, keeps the auxiliary `down`, `up`
  and `first` true to the walk: what was read agrees with what was down or up so
  far, and a result between the two reads of a candidate is that candidate's
  first. `DownViableOnlyAtFirst` and `ServfailJustified` follow.
- `Alone` is about one query at a time. Between queries the active keys and the
  served addresses explain each other; within one, what it holds of the damper's
  answer is explained by its viable candidates or by the keys it began with.
  `ActiveExplainsServed` and `WithdrawnOnlyWhileFrozen` follow.

`DeadIsNeverServed` has a hypothesis, `ForcedWherever`, because the property
needs one: mode `all` (in mode `single` it is false, `evaluator_single`), and
each address under one key (disagreement 13). The worlds of the run satisfy it,
and `MCForced` has TLC evaluate that. What the damper let through comes from
viable candidates, which are not dead (`WalksSound`); what it held back is
explained by keys that were active when the walk began (`Alone`), and had one of
their candidates been dead, the walk, which passes them all, would have forced
the move.

*Probe runner* (from: finitely many keys; the stated maxima hold of all bundles).
`WaitsAreBounded`: `GapBounded` becomes inductive by trading the time a target
has waited for what is left (`Waits`). Out of a pass, the gap and the time to the
next tick stay within `longest`. In a pass, for a target that is not to be probed
in it, so do the gap and what the slow targets still to be probed and the probe
under way may take; for one whose turn is still to come, the gap and the probes of
the others stay within `longest + others`. A target that is not due has been
probed less than an interval ago (`AgeTold`).

Only model-checked: liveness (`OutageSurvived`, `ReloadConverges`, `NeverWedged`,
`DownStaysFresh`, `PictureConverges`, `VerdictFollowsBackend`, `StopsWhenTold` and
`OneListenerIsNotEnough`), which rests on fairness and is outside the prover's
reach.

## Not modelled

Wire formats, TTLs and SOA contents, JSON decoding, logging; the insides of
sockets, HTTP, the informer and the DNS library, which appear as what the code
sees of them. `LinearBackoff` and the lengths of the boot's and the reporter's
delays; the default heartbeat interval; the cut at 16 MiB; two versions of the
file with one mtime.

## What could follow

A composition of `RemoteSync` with the steps of the store's persistence, and of
`ProbeRunner` with `HealthReporter`, which now share the machine's vocabulary
only.
