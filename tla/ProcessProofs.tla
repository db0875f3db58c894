---------------------------- MODULE ProcessProofs ----------------------------
(***************************************************************************)
(* Proofs about Process.tla, for every number of queries in flight.        *)
(***************************************************************************)
EXTENDS Process, TLAPS

Results == Listeners \cup {"none"}

\* How many listeners have reported.
Reported(l) == IF listener[l] = "ended" THEN 1 ELSE 0
ReportsFit == Len(errCh) <= Reported("udp") + Reported("tcp")

Running == {"serve", "udp", "tcp", "return"}
After(l) == IF l = "udp" THEN {"tcp", "return"} ELSE {"return"}

\* Before Run ends, a listener only ends by its own failure.
OnlyFailures ==
    pc \in {"flags", "boot", "serve"} =>
        /\ \A l \in Listeners : listener[l] \in {"closing", "ended"} => l \in failed
        /\ \A i \in DOMAIN errCh : errCh[i] # "none"

\* Run ends for a reason.
EndedForAReason ==
    pc \in {"udp", "tcp", "return"} =>
        err # "none" /\ (err = "context" => cancelled)

ExitIsLast == pc = "exited" <=> exit # NoExit

\* Where the listeners stand.
ListenersFollow ==
    /\ pc \in {"flags", "boot"} => \A l \in Listeners : listener[l] = "new"
    /\ pc \in Running => \A l \in Listeners : listener[l] # "new"
    /\ \A l \in Listeners : queries[l] > 0 => listener[l] \in {"listening", "closing"}
    /\ \A l \in Listeners : pc \in After(l) => listener[l] = "ended" \/ l \in missed

IInv ==
    /\ TypeOK /\ ReportsFit
    /\ OnlyFailures /\ EndedForAReason /\ ExitIsLast /\ ListenersFollow
    /\ ExitZeroIffTold /\ DrainedBeforeExit
-----------------------------------------------------------------------------

LEMMA Names ==
    /\ Listeners = {"udp", "tcp"}
    /\ \A l \in Listeners : l # "none" /\ l # "context"
    /\ NoExit # 0 /\ NoExit # 1
BY DEF Listeners, NoExit

LEMMA QueueFacts ==
    ASSUME NEW q \in Seq(Results), NEW r \in Results
    PROVE  /\ Append(q, r) \in Seq(Results)
           /\ Len(Append(q, r)) = Len(q) + 1
           /\ \A i \in DOMAIN Append(q, r) :
                 Append(q, r)[i] = r \/ (i \in DOMAIN q /\ Append(q, r)[i] = q[i])
           /\ q # <<>> =>
                 /\ Head(q) \in Results /\ 1 \in DOMAIN q /\ Head(q) = q[1]
                 /\ Tail(q) \in Seq(Results)
                 /\ Len(Tail(q)) = Len(q) - 1
<1>1. Len(q) \in Nat /\ DOMAIN q = 1..Len(q)
  OBVIOUS
<1> QED BY <1>1

LEMMA InvInit == Init => IInv
<1> SUFFICES ASSUME Init PROVE IInv
    OBVIOUS
<1>1. <<>> \in Seq(Results) /\ Len(<<>>) = 0 /\ DOMAIN <<>> = {}
  OBVIOUS
<1>2. TypeOK
  <2>1. queries \in [Listeners -> 0..MaxQueries]
    BY ProcessAssumption DEF Init
  <2>2. errCh \in Seq(Listeners \cup {"none"}) /\ Len(errCh) <= 2
    BY <1>1 DEF Init, Results
  <2>3. listener \in [Listeners -> {"new", "binding", "listening", "closing", "ended"}]
    BY DEF Init
  <2> QED BY <2>1, <2>2, <2>3 DEF Init, TypeOK
<1>3. ReportsFit
  BY <1>1 DEF Init, ReportsFit, Reported, Listeners
<1>4. OnlyFailures
  BY <1>1 DEF Init, OnlyFailures
<1>5. ListenersFollow
  BY DEF Init, ListenersFollow, Running, After
<1> QED
  BY <1>2, <1>3, <1>4, <1>5, Names DEF Init, IInv, EndedForAReason, ExitIsLast,
     ExitZeroIffTold, DrainedBeforeExit

\* A listener's result reaches the channel.
LEMMA ReportStep ==
    ASSUME IInv, NEW l \in Listeners, NEW r \in Results, Report(l, r),
           listener[l] # "ended", queries[l] = 0, pc # "exited",
           listener[l] # "new",
           r = "none" => pc \notin {"flags", "boot", "serve"},
           l \in failed' \/ pc \notin {"flags", "boot", "serve"},
           failed \subseteq failed', failed' \subseteq Listeners,
           UNCHANGED <<options, pc, exit, cancelled, queries, err, missed>>
    PROVE  IInv'
<1> USE DEF IInv, TypeOK
<1>0. errCh \in Seq(Results)
  BY DEF Results
<1>1. /\ errCh' \in Seq(Results) /\ Len(errCh') = Len(errCh) + 1
      /\ \A i \in DOMAIN errCh' :
            errCh'[i] = r \/ (i \in DOMAIN errCh /\ errCh'[i] = errCh[i])
  BY <1>0, QueueFacts DEF Report
<1>2. /\ listener' = [listener EXCEPT ![l] = "ended"]
      /\ \A m \in Listeners \ {l} : listener'[m] = listener[m]
      /\ listener'[l] = "ended"
  BY DEF Report
<1>3. ReportsFit'
  <2>1. l = "udp" \/ l = "tcp"
    BY Names
  <2>2. /\ l = "udp" => Reported("udp")' = 1 /\ Reported("udp") = 0
                         /\ Reported("tcp")' = Reported("tcp")
        /\ l = "tcp" => Reported("tcp")' = 1 /\ Reported("tcp") = 0
                         /\ Reported("udp")' = Reported("udp")
    BY <1>2, Names DEF Reported
  <2>3. Reported("udp") \in Nat /\ Reported("tcp") \in Nat /\ Len(errCh) \in Nat
    BY <1>0 DEF Reported
  <2> QED BY <1>1, <2>1, <2>2, <2>3 DEF ReportsFit
<1>4. TypeOK'
  <2>1. Len(errCh') <= 2
    BY <1>1, <1>3 DEF ReportsFit, Reported
  <2>2. listener' \in [Listeners -> {"new", "binding", "listening", "closing", "ended"}]
    BY <1>2
  <2> QED BY <1>1, <2>1, <2>2 DEF Results
<1>5. OnlyFailures'
  BY <1>1, <1>2 DEF OnlyFailures
<1>6. ListenersFollow'
  BY <1>2 DEF ListenersFollow, Running, After
<1> QED BY <1>3, <1>4, <1>5, <1>6
        DEF EndedForAReason, ExitIsLast, ExitZeroIffTold, DrainedBeforeExit

LEMMA MainStep == IInv /\ (Main \/ Signal) => IInv'
<1> SUFFICES ASSUME IInv, Main \/ Signal PROVE IInv'
    OBVIOUS
<1> USE DEF IInv, TypeOK, Exit, dnsVars
<1>0. errCh \in Seq(Results) /\ Len(errCh) \in Nat
  BY DEF Results
<1>1. CASE ParseFlags
  BY <1>1, Names
  DEF ParseFlags, ReportsFit, Reported, OnlyFailures, EndedForAReason, ExitIsLast,
      ListenersFollow, Running, After, ExitZeroIffTold, DrainedBeforeExit
<1>2. CASE Boot
  BY <1>2, Names
  DEF Boot, ReportsFit, Reported, OnlyFailures, EndedForAReason, ExitIsLast,
      ListenersFollow, Running, After, ExitZeroIffTold, DrainedBeforeExit
<1>3. CASE Signal
  BY <1>3, Names
  DEF Signal, ReportsFit, Reported, OnlyFailures, EndedForAReason, ExitIsLast,
      ListenersFollow, Running, After, ExitZeroIffTold, DrainedBeforeExit
<1>4. CASE ServerStops
  <2>1. /\ err' # "none" /\ (err' = "context" => cancelled)
        /\ err' \in {"context"} \cup Listeners
    BY <1>0, <1>4, QueueFacts, Names DEF ServerStops, RunEnds, OnlyFailures, Results
  <2>2. err' # "context" => errCh # <<>>
    BY <1>4 DEF ServerStops, RunEnds
  <2>3. errCh' \in Seq(Results) /\ Len(errCh') <= Len(errCh) /\ Len(errCh') \in Nat
    BY <1>0, <1>4, <2>2, QueueFacts DEF ServerStops
  <2>4. /\ pc = "serve" /\ pc' = "udp"
        /\ UNCHANGED <<options, exit, cancelled, listener, queries, failed, missed>>
    BY <1>4 DEF ServerStops
  <2>5. TypeOK'
    BY <2>1, <2>3, <2>4, Names DEF Results
  <2>6. ReportsFit'
    BY <1>0, <2>3, <2>4 DEF ReportsFit, Reported
  <2> QED
    BY <2>1, <2>4, <2>5, <2>6
    DEF OnlyFailures, EndedForAReason, ExitIsLast, ListenersFollow, Running,
        After, ExitZeroIffTold, DrainedBeforeExit
<1>5. CASE MainReturns
  <2>1. /\ pc = "return" /\ pc' = "exited" /\ exit' = ExitCode(err)
        /\ UNCHANGED <<options, cancelled, listener, queries, errCh, failed,
                       missed, err>>
    BY <1>5 DEF MainReturns
  <2>2. exit' \in {0, 1} /\ (exit' = 0 <=> cancelled)
    BY <2>1 DEF ExitCode, EndedForAReason
  <2>3. \A l \in Listeners : queries[l] > 0 => l \in missed
    BY <2>1, Names DEF ListenersFollow, After
  <2> QED
    BY <2>1, <2>2, <2>3, Names
    DEF ReportsFit, Reported, OnlyFailures, EndedForAReason, ExitIsLast,
        ListenersFollow, Running, After, ExitZeroIffTold, DrainedBeforeExit
<1> QED BY <1>1, <1>2, <1>3, <1>4, <1>5 DEF Main

LEMMA ListenerStep ==
    ASSUME IInv, NEW l \in Listeners,
           \/ Shutdown(l) \/ Bind(l) \/ BindFails(l) \/ ListenerFails(l)
           \/ ListenerEnds(l) \/ Query(l) \/ Answered(l)
    PROVE  IInv'
<1> USE DEF IInv, TypeOK
<1>1. CASE Shutdown(l)
  <2>1. /\ pc = l /\ pc' \in {l, "tcp", "return"}
        /\ UNCHANGED <<options, exit, cancelled, queries, errCh, err, failed>>
        /\ missed \subseteq missed' /\ missed' \subseteq Listeners
    BY <1>1, Names DEF Shutdown, AfterShutdown
  <2>2. /\ \A m \in Listeners : listener'[m] = listener[m]
              \/ (listener[m] = "listening" /\ listener'[m] = "closing")
        /\ listener' \in [Listeners -> {"new", "binding", "listening", "closing", "ended"}]
    BY <1>1 DEF Shutdown
  <2>3. ListenersFollow'
    <3>1. l = "udp" \/ l = "tcp"
      BY Names
    <3>2. pc' # l => listener[l] = "ended" \/ l \in missed'
      BY <1>1, <3>1 DEF Shutdown, ListenersFollow, Running
    <3>3. /\ l = "udp" => pc' \in {"udp", "tcp"}
          /\ l = "tcp" => pc' \in {"tcp", "return"}
      BY <1>1 DEF Shutdown, AfterShutdown
    <3> QED BY <2>1, <2>2, <3>1, <3>2, <3>3, Names DEF ListenersFollow, Running, After
  <2>4. ReportsFit'
    BY <2>1, <2>2, Names DEF ReportsFit, Reported
  <2> QED
    BY <2>1, <2>2, <2>3, <2>4, Names
    DEF OnlyFailures, EndedForAReason, ExitIsLast, ExitZeroIffTold,
        DrainedBeforeExit
<1>2. CASE Bind(l) \/ ListenerFails(l)
  <2>1. /\ pc # "exited" /\ listener[l] \in {"binding", "listening"}
        /\ UNCHANGED <<options, pc, exit, cancelled, queries, errCh, err, missed>>
        /\ failed \subseteq failed' /\ failed' \subseteq Listeners
        /\ listener' \in [Listeners -> {"new", "binding", "listening", "closing", "ended"}]
        /\ \A m \in Listeners \ {l} : listener'[m] = listener[m]
        /\ listener'[l] \in {"listening", "closing"}
        /\ listener'[l] = "closing" => l \in failed'
    BY <1>2 DEF Bind, ListenerFails
  <2>2. ReportsFit'
    BY <2>1, Names DEF ReportsFit, Reported
  <2>3. OnlyFailures'
    BY <2>1 DEF OnlyFailures
  <2>4. ListenersFollow'
    BY <2>1 DEF ListenersFollow, Running
  <2> QED
    BY <2>1, <2>2, <2>3, <2>4
    DEF EndedForAReason, ExitIsLast, ExitZeroIffTold, DrainedBeforeExit
<1>3. CASE BindFails(l)
  <2>1. queries[l] = 0
    BY <1>3 DEF BindFails, ListenersFollow
  <2> QED BY <1>3, <2>1, ReportStep, Names DEF BindFails, Results
<1>4. CASE ListenerEnds(l)
  <2> DEFINE r == IF l \in failed THEN l ELSE "none"
  <2>1. r = "none" => l \notin failed /\ pc \notin {"flags", "boot", "serve"}
    BY <1>4, Names DEF ListenerEnds, OnlyFailures
  <2>2. l \in failed \/ pc \notin {"flags", "boot", "serve"}
    BY <2>1
  <2> QED BY <1>4, <2>1, <2>2, ReportStep DEF ListenerEnds, Results
<1>5. CASE Query(l) \/ Answered(l)
  <2>1. /\ pc # "exited"
        /\ UNCHANGED <<options, pc, exit, cancelled, listener, errCh, err, failed, missed>>
        /\ \A m \in Listeners : queries'[m] > 0 =>
              queries[m] > 0 \/ listener[m] = "listening"
        /\ queries' \in [Listeners -> 0..MaxQueries]
    BY <1>5, ProcessAssumption DEF Query, Answered
  <2>2. ListenersFollow'
    BY <2>1 DEF ListenersFollow, Running
  <2> QED
    BY <2>1, <2>2
    DEF ReportsFit, Reported, OnlyFailures, EndedForAReason, ExitIsLast,
        ExitZeroIffTold, DrainedBeforeExit
<1> QED BY <1>1, <1>2, <1>3, <1>4, <1>5

LEMMA InvStep == IInv /\ [Next]_vars => IInv'
<1> SUFFICES ASSUME IInv, [Next]_vars PROVE IInv'
    OBVIOUS
<1>1. CASE UNCHANGED vars
  BY <1>1 DEF vars, IInv, TypeOK, ReportsFit, Reported, OnlyFailures,
     EndedForAReason, ExitIsLast, ListenersFollow, Running, After,
     ExitZeroIffTold, DrainedBeforeExit
<1> QED BY <1>1, MainStep, ListenerStep DEF Next

LEMMA Invariance == Spec => []IInv
BY InvInit, InvStep, PTL DEF Spec

\* Every reachable state of the process is well typed, and the error channel
\* of capacity two never blocks a listener (server.go, Run).
THEOREM ProcessTypeCorrect == Spec => []TypeOK
<1>1. IInv => TypeOK
  BY DEF IInv
<1> QED BY <1>1, Invariance, PTL

\* The exit code is zero only for a version request or after a signal, and a
\* responder that ran and was told to stop has no other (main.go, the end of
\* main).
THEOREM ExitZeroIsTold == Spec => []ExitZeroIffTold
<1>1. IInv => ExitZeroIffTold
  BY DEF IInv
<1> QED BY <1>1, Invariance, PTL

\* A query in flight at the exit belongs to a listener that bound after its
\* shutdown was asked for (server.go, Run and shutdown).
THEOREM ExitIsDrained == Spec => []DrainedBeforeExit
<1>1. IInv => DrainedBeforeExit
  BY DEF IInv
<1> QED BY <1>1, Invariance, PTL
=============================================================================
