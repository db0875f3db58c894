------------------------------ MODULE Process -------------------------------
(***************************************************************************)
(* The life of the process: main (cmd/zeus-gslb/main.go) from its options  *)
(* to its exit code, and dnsserver.Server (internal/dnsserver/server.go)   *)
(* with its two listeners.  The listeners are servers of a DNS library: a  *)
(* listener binds, then serves queries until it fails or is shut down,     *)
(* and ends only after the queries it took; ShutdownContext refuses a      *)
(* listener that has not bound yet, and otherwise waits for its end.       *)
(***************************************************************************)
EXTENDS Naturals, Sequences

CONSTANT MaxQueries      \* bound: queries in flight per listener

ASSUME ProcessAssumption == MaxQueries \in Nat

Listeners == {"udp", "tcp"}

VARIABLES options,         \* which flags are given and good
          pc,              \* main: flags, boot, serve, udp and tcp (their
                           \* shutdown), return, exited
          exit,            \* the exit code
          cancelled,       \* a signal came
          listener,        \* new, binding, listening, closing, ended
          queries,         \* handlers at work
          errCh, err,      \* Server.Run: channel and result
          failed,          \* auxiliary: listeners that failed
          missed           \* auxiliary: listeners whose shutdown came before
                           \* they had bound

vars == <<options, pc, exit, cancelled, listener, queries, errCh, err, failed, missed>>
dnsVars == <<listener, queries, errCh, failed, missed>>

NoExit == 99

Init ==
    /\ options \in [version: BOOLEAN, responder: BOOLEAN, cacheDir: BOOLEAN,
                    zeusURL: BOOLEAN, cluster: BOOLEAN, token: BOOLEAN,
                    tokenEnv: BOOLEAN]
    /\ pc = "flags" /\ exit = NoExit /\ cancelled = FALSE
    /\ listener = [l \in Listeners |-> "new"]
    /\ queries = [l \in Listeners |-> 0]
    /\ errCh = <<>> /\ err = "none" /\ failed = {} /\ missed = {}

Exit(code) == pc' = "exited" /\ exit' = code

-----------------------------------------------------------------------------
(* main.                                                                   *)

\* The options main ends with log.Fatalf.
Unusable(o) ==
    \/ ~o.responder
    \/ ~o.cacheDir
    \/ o.zeusURL /\ ~(o.cluster /\ (o.token \/ o.tokenEnv))

\* From here on a signal cancels the context.
ParseFlags ==
    /\ pc = "flags"
    /\ IF options.version THEN Exit(0)
       ELSE IF Unusable(options) THEN Exit(1)
       ELSE pc' = "boot" /\ UNCHANGED exit
    /\ UNCHANGED <<options, cancelled, dnsVars, err>>

\* NewStore or BootFromFetch returns; with a bundle the server starts.
Boot ==
    /\ pc = "boot"
    /\ \/ Exit(1) /\ UNCHANGED listener
       \/ /\ pc' = "serve" /\ UNCHANGED exit
          /\ listener' = [l \in Listeners |-> "binding"]
    /\ UNCHANGED <<options, cancelled, queries, errCh, err, failed, missed>>

\* A second signal changes nothing: the first is still being handled.
Signal ==
    /\ pc \notin {"flags", "exited"}
    /\ cancelled' = TRUE
    /\ UNCHANGED <<options, pc, exit, dnsVars, err>>

\* Mutants: an error of the server is logged, not fatal; the code is decided
\* from what ended Run.
ExitCodeZero(e) == 0
ExitCodeOfError(e) == IF e \in Listeners THEN 1 ELSE 0

\* main after Server.Run: an error while the context stands is fatal.
ExitCode(e) == IF e # "none" /\ ~cancelled THEN 1 ELSE 0

MainReturns ==
    /\ pc = "return"
    /\ Exit(ExitCode(err))
    /\ UNCHANGED <<options, cancelled, dnsVars, err>>

-----------------------------------------------------------------------------
(* Server.Run.                                                             *)

\* Mutants: Run waits for the context only, for the listeners only.
RunEndsOnSignal == IF cancelled THEN {"context"} ELSE {}
RunEndsOnError == IF errCh # <<>> THEN {Head(errCh)} ELSE {}

\* What the select of Run may receive.
RunEnds ==
    (IF cancelled THEN {"context"} ELSE {})
      \cup (IF errCh # <<>> THEN {Head(errCh)} ELSE {})

ServerStops ==
    /\ pc = "serve"
    /\ err' \in RunEnds
    /\ errCh' = IF err' = "context" THEN errCh ELSE Tail(errCh)
    /\ pc' = "udp"
    /\ UNCHANGED <<options, exit, cancelled, listener, queries, failed, missed>>

\* Mutant: an error of the first shutdown, which is ignored, ends the second.
AfterShutdownInARow(l) == IF l = "udp" /\ listener[l] # "binding" THEN "tcp"
                         ELSE "return"

AfterShutdown(l) == IF l = "udp" THEN "tcp" ELSE "return"

\* ShutdownContext is called and returns at once, or closes the listener and
\* waits.
Shutdown(l) ==
    /\ pc = l
    /\ IF listener[l] = "listening"
         THEN listener' = [listener EXCEPT ![l] = "closing"] /\ UNCHANGED pc
         ELSE listener[l] # "closing" /\ pc' = AfterShutdown(l) /\ UNCHANGED listener
    /\ missed' = IF listener[l] = "binding" THEN missed \cup {l} ELSE missed
    /\ UNCHANGED <<options, exit, cancelled, queries, errCh, err, failed>>

-----------------------------------------------------------------------------
(* The listeners, until the process exits.                                 *)

Bind(l) ==
    /\ pc # "exited" /\ listener[l] = "binding"
    /\ listener' = [listener EXCEPT ![l] = "listening"]
    /\ UNCHANGED <<options, pc, exit, cancelled, queries, errCh, err, failed, missed>>

\* Mutant: an error is sent where it arises and once more on return.
ReportTwice(l, result) ==
    /\ listener' = [listener EXCEPT ![l] = "ended"]
    /\ errCh' = errCh \o <<result, result>>

\* The result of runNamed goes to the channel, which holds both.
Report(l, result) ==
    /\ listener' = [listener EXCEPT ![l] = "ended"]
    /\ errCh' = Append(errCh, result)

BindFails(l) ==
    /\ pc # "exited" /\ listener[l] = "binding"
    /\ Report(l, l) /\ failed' = failed \cup {l}
    /\ UNCHANGED <<options, pc, exit, cancelled, queries, err, missed>>

ListenerFails(l) ==
    /\ pc # "exited" /\ listener[l] = "listening"
    /\ listener' = [listener EXCEPT ![l] = "closing"]
    /\ failed' = failed \cup {l}
    /\ UNCHANGED <<options, pc, exit, cancelled, queries, errCh, err, missed>>

Query(l) ==
    /\ pc # "exited" /\ listener[l] = "listening" /\ queries[l] < MaxQueries
    /\ queries' = [queries EXCEPT ![l] = @ + 1]
    /\ UNCHANGED <<options, pc, exit, cancelled, listener, errCh, err, failed, missed>>

Answered(l) ==
    /\ pc # "exited" /\ queries[l] > 0
    /\ queries' = [queries EXCEPT ![l] = @ - 1]
    /\ UNCHANGED <<options, pc, exit, cancelled, listener, errCh, err, failed, missed>>

ListenerEnds(l) ==
    /\ pc # "exited" /\ listener[l] = "closing" /\ queries[l] = 0
    /\ Report(l, IF l \in failed THEN l ELSE "none")
    /\ UNCHANGED <<options, pc, exit, cancelled, queries, err, failed, missed>>

Main == ParseFlags \/ Boot \/ ServerStops \/ MainReturns

Next ==
    \/ Main \/ Signal
    \/ \E l \in Listeners :
          \/ Shutdown(l)
          \/ Bind(l) \/ BindFails(l) \/ ListenerFails(l) \/ ListenerEnds(l)
          \/ Query(l) \/ Answered(l)

(***************************************************************************)
(* Every goroutine runs, the boot comes to an end and handlers answer;     *)
(* signals, failures and queries are not assumed.                          *)
(***************************************************************************)
Spec ==
    /\ Init /\ [][Next]_vars /\ WF_vars(Main)
    /\ \A l \in Listeners :
          WF_vars(Shutdown(l)) /\ WF_vars(Answered(l)) /\ WF_vars(ListenerEnds(l))

-----------------------------------------------------------------------------

TypeOK ==
    /\ pc \in {"flags", "boot", "serve", "return", "exited"} \cup Listeners
    /\ exit \in {NoExit, 0, 1}
    /\ cancelled \in BOOLEAN
    /\ listener \in [Listeners -> {"new", "binding", "listening", "closing", "ended"}]
    /\ queries \in [Listeners -> 0..MaxQueries]
    /\ errCh \in Seq(Listeners \cup {"none"}) /\ Len(errCh) <= 2
    /\ err \in {"none", "context"} \cup Listeners
    /\ failed \subseteq Listeners /\ missed \subseteq Listeners

(***************************************************************************)
(* The exit code is what a supervisor restarts by: a responder that ran    *)
(* ends with 0 if and only if it was told to stop (main.go:223-226),       *)
(* whatever its listeners did before, during and after.  A listener that   *)
(* fails together with the signal makes no failure of the shutdown,        *)
(* whichever of the two Run's select receives; only a boot that fails ends *)
(* with 1 in spite of the signal.                                          *)
(***************************************************************************)
ExitZeroIffTold ==
    /\ exit = 0 => cancelled \/ options.version
    /\ exit = 1 /\ cancelled => \A l \in Listeners : listener[l] = "new"

(***************************************************************************)
(* "It always attempts to shut down both before returning" (server.go:33): *)
(* no query is cut short by the end of the process, unless its listener    *)
(* bound only after its shutdown had been asked for in vain.               *)
(***************************************************************************)
DrainedBeforeExit ==
    exit # NoExit => \A l \in Listeners : queries[l] > 0 => l \in missed

(***************************************************************************)
(* A signal ends the process at any stage (main.go:125, server.go:41-43),  *)
(* even one that comes before a listener has bound or while one is ending. *)
(***************************************************************************)
StopsWhenTold == cancelled ~> pc = "exited"

(***************************************************************************)
(* "Blocks until ... either listener fails" (server.go:32-33): the process *)
(* does not go on with one protocol.                                       *)
(***************************************************************************)
OneListenerIsNotEnough == failed # {} ~> pc = "exited"
=============================================================================
