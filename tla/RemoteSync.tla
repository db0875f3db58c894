----------------------------- MODULE RemoteSync -----------------------------
(***************************************************************************)
(* remote.Runner after boot (internal/remote/runner.go, sse.go, client.go) *)
(* against zeus: hold the event stream open and refetch the bundle on each *)
(* event; while it is down, poll until the backoff has passed, then        *)
(* reconnect.  One goroutine, at pc; a reader goroutine hands it the lines *)
(* of the stream one by one, so it sees the end of the stream only after   *)
(* the last line.                                                          *)
(*                                                                         *)
(* A bundle is the number of its publication, which stands for its content *)
(* hash.  Time goes in units; Tick lets one pass, and waits for the        *)
(* goroutine when one of its timers is due.  zeus sends an event when it   *)
(* publishes and keepalives when it likes, and nothing on connect.         *)
(***************************************************************************)
EXTENDS Backoff, Sequences, FiniteSetsExt

CONSTANTS MaxVersion,      \* bound: publications
          Rejected,        \* publications ParseAndValidate refuses
          BackoffBase, BackoffMax,
          PollInterval, IdleTimeout, FetchTimeout,
          MaxLines,        \* bound: lines in flight
          FetchReliable    \* no fetch of the bundle fails

ASSUME RemoteSyncAssumption ==
    /\ {MaxVersion, BackoffBase, BackoffMax, MaxLines} \subseteq Nat
    /\ {PollInterval, IdleTimeout, FetchTimeout} \subseteq Nat \ {0}
    /\ Rejected \subseteq 1..MaxVersion
    /\ FetchReliable \in BOOLEAN
    \* 1 s and 30 s (main.go:55-56) are far from half the range of a duration.
    /\ BackoffMax <= 2^(Bits - 2)

VARIABLES published,       \* zeus: the latest bundle
          conn,            \* the stream: closed, open, eof (closed by zeus),
                           \* silent (zeus is gone and nothing says so)
          lines,           \* lines on their way
          pc, current,     \* the goroutine, Store.current
          sawEventField, idle,           \* Subscribe: flag, time left
          attempt,         \* Run: saturates where the backoff no longer grows
          deadline, ticker, tick,        \* pollUntil: time left, time to the
                                         \* next tick, tick in the channel
          caller, body, waited,          \* refetchAndApply: who called, the
                                         \* response, time since the request
          missed           \* auxiliary: since current was last the latest, an
                           \* event was lost or a refetch failed

vars == <<published, conn, lines, pc, current, sawEventField, idle, attempt,
          deadline, ticker, tick, caller, body, waited, missed>>
subscribeVars == <<sawEventField, idle>>
pollVars == <<deadline, ticker, tick>>
fetchVars == <<caller, body, waited>>

NoBody == -1
AttemptCap == 1 + Min({n \in 0..BackoffMax : \/ BackoffBase = 0
                                             \/ BackoffBase * 2^n >= BackoffMax})
Delay(n) == ExponentialBackoff(BackoffBase, BackoffMax, n)

\* The wire form of an event and of a keepalive; a comment may stand
\* anywhere.
EventFrames == {<<"field", "">>, <<"field", "comment", "">>}
KeepaliveFrame == <<"comment", "">>

Init ==
    /\ published = 0 /\ current = 0
    /\ conn = "closed" /\ lines = <<>>
    /\ pc = "connect"
    /\ sawEventField = FALSE /\ idle = 0
    /\ attempt = 0
    /\ deadline = 0 /\ ticker = 0 /\ tick = FALSE
    /\ caller = "stream" /\ body = NoBody /\ waited = 0
    /\ missed = FALSE

-----------------------------------------------------------------------------
(* zeus and the network.                                                   *)

Publish ==
    /\ published < MaxVersion
    /\ published' = published + 1
    /\ IF conn = "open"
         THEN \E f \in EventFrames : /\ Len(lines \o f) <= MaxLines
                                     /\ lines' = lines \o f
                                     /\ UNCHANGED missed
         ELSE missed' = TRUE /\ UNCHANGED lines
    /\ UNCHANGED <<conn, pc, current, subscribeVars, attempt, pollVars, fetchVars>>

Keepalive ==
    /\ conn = "open"
    /\ Len(lines \o KeepaliveFrame) <= MaxLines
    /\ lines' = lines \o KeepaliveFrame
    /\ UNCHANGED <<published, conn, pc, current, subscribeVars, attempt,
                   pollVars, fetchVars, missed>>

\* zeus closes the stream, or vanishes without a word and takes lines along.
StreamEnds ==
    /\ conn = "open"
    /\ \/ conn' = "eof" /\ UNCHANGED <<lines, missed>>
       \/ /\ conn' = "silent"
          /\ \E n \in 0..Len(lines) :
                /\ lines' = SubSeq(lines, 1, n)
                /\ missed' = (missed \/ n < Len(lines))
    /\ UNCHANGED <<published, pc, current, subscribeVars, attempt, pollVars, fetchVars>>

-----------------------------------------------------------------------------
(* Client.Subscribe.                                                       *)

\* The response headers arrive, with status 200.
Connected ==
    /\ pc = "connect"
    /\ pc' = "stream" /\ conn' = "open" /\ lines' = <<>>
    /\ sawEventField' = FALSE /\ idle' = IdleTimeout
    /\ UNCHANGED <<published, current, attempt, pollVars, fetchVars, missed>>

\* Mutant: every reconnect waits as long as the first.
AnotherAttemptReset == 1

\* Run counts attempts for good; a stream that came up does not reset them.
AnotherAttempt == Min({attempt + 1, AttemptCap})

\* Subscribe returns; Run computes the backoff and enters pollUntil.
StreamDown ==
    /\ pc' = "poll"
    /\ attempt' = AnotherAttempt
    /\ deadline' = Delay(attempt')
    /\ ticker' = PollInterval /\ tick' = FALSE
    /\ conn' = "closed" /\ lines' = <<>> /\ sawEventField' = FALSE
    /\ missed' = (missed \/ lines # <<>> \/ sawEventField)
    /\ UNCHANGED <<published, current, idle, fetchVars>>

ConnectFails == pc = "connect" /\ StreamDown

\* A read fails, or a line is too long for the scanner.
ReadError == pc = "stream" /\ StreamDown
EndOfStream == pc = "stream" /\ conn = "eof" /\ lines = <<>> /\ StreamDown

\* Mutant: the time of the last line is looked at when the next one arrives.
IdleCheckedOnLine == pc = "stream" /\ idle = 0 /\ lines # <<>> /\ StreamDown

IdleTimerFires == pc = "stream" /\ idle = 0 /\ StreamDown

\* FetchBundle is called: the request leaves.
Refetch(from) ==
    /\ pc' = "fetch" /\ caller' = from /\ body' = NoBody /\ waited' = 0

\* Mutant: a comment ends the event it stands in.
EventFieldUntilComment(line) == line = "field"

\* sawEventField after a line.
EventField(line) == line = "field" \/ (sawEventField /\ line # "")

\* One line: the idle timer restarts; a blank line after a field is an event.
ReadLine ==
    LET line == Head(lines)
    IN  /\ pc = "stream" /\ lines # <<>>
        /\ lines' = Tail(lines)
        /\ idle' = IdleTimeout
        /\ sawEventField' = EventField(line)
        /\ IF line = "" /\ sawEventField THEN Refetch("stream")
                                         ELSE UNCHANGED <<pc, fetchVars>>
        /\ UNCHANGED <<published, conn, current, attempt, pollVars, missed>>

-----------------------------------------------------------------------------
(* Runner.pollUntil.                                                       *)

Poll ==
    /\ pc = "poll" /\ tick
    /\ tick' = FALSE
    /\ Refetch("poll")
    /\ UNCHANGED <<published, conn, lines, current, subscribeVars, attempt,
                   deadline, ticker, missed>>

BackoffPasses ==
    /\ pc = "poll" /\ deadline = 0
    /\ pc' = "connect"
    /\ UNCHANGED <<published, conn, lines, current, subscribeVars, attempt,
                   pollVars, fetchVars, missed>>

-----------------------------------------------------------------------------
(* Runner.refetchAndApply.                                                 *)

\* zeus answers with the bundle of that moment.
FetchAnswered ==
    /\ pc = "fetch" /\ body = NoBody
    /\ body' = published
    /\ UNCHANGED <<published, conn, lines, pc, current, subscribeVars, attempt,
                   pollVars, caller, waited, missed>>

\* The response arrives: ApplyIfChanged takes it unless it is invalid or
\* what is served already.
FetchDone ==
    /\ pc = "fetch" /\ body # NoBody
    /\ current' = IF body \in Rejected THEN current ELSE body
    /\ missed' = (missed /\ body # published)
    /\ pc' = caller /\ body' = NoBody /\ waited' = 0
    /\ UNCHANGED <<published, conn, lines, subscribeVars, attempt, pollVars, caller>>

\* Transport error, timeout, another status than 200.
FetchFails ==
    /\ pc = "fetch" /\ ~FetchReliable
    /\ missed' = TRUE
    /\ pc' = caller /\ body' = NoBody /\ waited' = 0
    /\ UNCHANGED <<published, conn, lines, current, subscribeVars, attempt,
                   pollVars, caller>>

-----------------------------------------------------------------------------

\* The context is cancelled: every wait ends and Run returns.
Cancel ==
    /\ pc # "stopped"
    /\ pc' = "stopped" /\ conn' = "closed" /\ lines' = <<>>
    /\ missed' = TRUE
    /\ UNCHANGED <<published, current, subscribeVars, attempt, pollVars, fetchVars>>

TimerDue ==
    \/ pc = "stream" /\ idle = 0
    \/ pc = "poll" /\ (deadline = 0 \/ tick)
    \/ pc = "fetch" /\ waited = FetchTimeout

Less(n) == IF n = 0 THEN 0 ELSE n - 1

\* The timers of the call under way run on; a tick that finds the channel
\* full is dropped.
Tick ==
    /\ pc \in {"stream", "poll", "fetch"} /\ ~TimerDue
    /\ LET subscribed == pc = "stream" \/ (pc = "fetch" /\ caller = "stream")
       IN  /\ idle' = IF subscribed THEN Less(idle) ELSE idle
           /\ deadline' = IF subscribed THEN deadline ELSE Less(deadline)
           /\ ticker' = IF subscribed THEN ticker
                        ELSE IF ticker = 1 THEN PollInterval ELSE ticker - 1
           /\ tick' = (tick \/ (~subscribed /\ ticker = 1))
    /\ waited' = IF pc = "fetch" THEN waited + 1 ELSE waited
    /\ UNCHANGED <<published, conn, lines, pc, current, sawEventField, attempt,
                   caller, body, missed>>

Subscribe ==
    \/ Connected
    \/ ConnectFails
    \/ ReadLine
    \/ ReadError
    \/ EndOfStream
    \/ IdleTimerFires

Fetch == FetchAnswered \/ FetchDone \/ FetchFails

Next ==
    \/ Publish \/ Keepalive \/ StreamEnds
    \/ Subscribe
    \/ Poll \/ BackoffPasses
    \/ Fetch
    \/ Cancel
    \/ Tick

(***************************************************************************)
(* The goroutine runs and time passes.  The request for the stream may     *)
(* stay without an answer for ever: streamClient has no timeout.  A fetch  *)
(* ends by its timeout at the latest, and not every fetch fails.  Nothing  *)
(* is assumed of publications, keepalives and how long a stream lives.     *)
(***************************************************************************)
Fairness ==
    /\ WF_vars(Tick)
    /\ WF_vars(ReadLine)
    /\ WF_vars(EndOfStream \/ IdleTimerFires)
    /\ WF_vars(Poll \/ BackoffPasses)
    /\ WF_vars(waited = FetchTimeout /\ (FetchDone \/ FetchFails))
    /\ SF_vars(FetchAnswered)
    /\ SF_vars(FetchDone)

Spec == Init /\ [][Next]_vars /\ Fairness

-----------------------------------------------------------------------------

TypeOK ==
    /\ {published, current} \subseteq 0..MaxVersion
    /\ conn \in {"closed", "open", "eof", "silent"}
    /\ Len(lines) <= MaxLines
    /\ pc \in {"connect", "stream", "poll", "fetch", "stopped"}
    /\ idle \in 0..IdleTimeout
    /\ attempt \in 0..AttemptCap
    /\ deadline \in 0..BackoffMax /\ ticker \in 0..PollInterval
    /\ caller \in {"stream", "poll"}
    /\ body \in 0..MaxVersion \cup {NoBody}
    /\ waited \in 0..FetchTimeout
    /\ {sawEventField, tick, missed} \subseteq BOOLEAN

\* What is served is the latest bundle that could be.
Fresh == current = published \/ published \in Rejected

(***************************************************************************)
(* "On any event, refetch the bundle and apply it" (runner.go:12-13), with *)
(* events, publications and refetches in any order: a bundle older than    *)
(* the latest is served only while an event is still on its way, or the    *)
(* refetch it caused, or after an event or a refetch was lost.             *)
(***************************************************************************)
StaleExplained ==
    \/ Fresh
    \/ missed
    \/ sawEventField
    \/ \E i \in DOMAIN lines : lines[i] = "field"
    \/ pc = "fetch" /\ body \in {NoBody, published}

\* Connected, or so it seems, to a zeus that says nothing.
Silence == pc = "stream" /\ conn = "silent" /\ lines = <<>>

\* No request for the stream stays without an answer.
RequestsAnswered == []<>(pc # "connect")

(***************************************************************************)
(* "Half-open streams that look connected but deliver nothing must not     *)
(* wedge the caller" (sse.go:26-27): once the response headers are there   *)
(* Subscribe does not stay with a peer that falls silent.                  *)
(***************************************************************************)
NeverWedged == Silence ~> ~Silence

(***************************************************************************)
(* "The poll fallback keeps answers fresh while the stream stays down"     *)
(* (runner.go:121-123): when no connection ever comes up again, and each   *)
(* attempt is told so, the latest bundle is served in the end, whatever    *)
(* fetches failed on the way.                                              *)
(***************************************************************************)
DownStaysFresh ==
    RequestsAnswered /\ <>[](conn = "closed" /\ pc # "stopped") => <>[]Fresh

(***************************************************************************)
(* "Poll the bundle endpoint every PollInterval while the stream is down,  *)
(* so answers do not go stale for the whole backoff window"                *)
(* (runner.go:14-16): what was published while the stream was down is      *)
(* served in the end, when every request for the stream is answered.       *)
(***************************************************************************)
EventuallyFresh == RequestsAnswered => <>[](Fresh \/ pc = "stopped")
=============================================================================
