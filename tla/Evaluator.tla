----------------------------- MODULE Evaluator ------------------------------
(***************************************************************************)
(* The answer path of the responder for one name: Handler.ServeDNS and     *)
(* Evaluator.Resolve (internal/dnsserver/handler.go, evaluate.go) on top   *)
(* of the local health interface (LocalHealth.tla) and the damper          *)
(* (Damping.tla).  Every query is a goroutine of the DNS server; beside    *)
(* them the probe runner publishes check results and the store swaps       *)
(* bundles.                                                                *)
(*                                                                         *)
(* A query's steps are its accesses to shared state: the bundle pointer,   *)
(* activeKeys (under Evaluator.mu), State and Ready of each candidate (two *)
(* separate locks of the machine), Damper.Evaluate, activeKeys again.      *)
(* Damper.Evaluate takes no lock.  When two calls overlap the outcome is   *)
(* any mix of the fields they read and write, a torn answer slice, or the  *)
(* end of the process (the runtime's concurrent map check, a bad slice).   *)
(*                                                                         *)
(* A record: its mode, its candidates in policy order or Absent (the       *)
(* legacy v1.0 form), the keys with a localCheck, the legacy state and     *)
(* answers.  Answers are sets of addresses; what is served is a multiset   *)
(* of addresses, as a function to counts.                                  *)
(***************************************************************************)
EXTENDS LocalHealth, Damping, Sequences

CONSTANTS Queries,       \* DNS queries
          Worlds,        \* what may surround the name: the bundles the store
                         \* swaps between, as far as the name goes (records or
                         \* NoRecord), the queries that come, the last instant
          NoRecord,      \* the name is not in the bundle; the damper has no
                         \* entry for it
          Absent,        \* no candidates field
          Unparseable    \* addresses net.ParseIP(..).To4() rejects

\* The candidates of a record are a list, each of one target key.
IsCandidates(c) ==
    /\ Len(c) \in Nat /\ DOMAIN c = 1..Len(c)
    /\ \A i \in DOMAIN c : c[i].targetKey \in Keys

ASSUME EvaluatorAssumption ==
    \A w \in Worlds :
        /\ w.queries \subseteq Queries /\ IsFiniteSet(w.queries)
        /\ w.last \in Nat
        /\ \A b \in w.bundles \ {NoRecord} :
              b.candidates # Absent => IsCandidates(b.candidates)

VARIABLES world,         \* the surroundings, one of Worlds throughout
          bundle,        \* Store.Current(), as far as this name goes
          now,           \* the clock
          rs,            \* Damper.records of the name
          activeKeys,    \* Evaluator.activeKeys of the name
          query          \* query[q]: the goroutine's locals

vars == <<state, ready, world, bundle, now, rs, activeKeys, query>>

QueryKinds == {"refused", "A", "AAAA", "other"}

\* A goroutine before its query.  Auxiliary: down and up are the candidates
\* effectively unhealthy, and not, at every instant since the query began,
\* first the keys whose first check result came meanwhile.
Idle == [pc |-> "idle", rec |-> NoRecord, prev |-> {}, at |-> 1, viable |-> {},
         forced |-> FALSE, raced |-> FALSE, served |-> <<>>,
         rcode |-> "none", answers |-> <<>>, down |-> {}, up |-> {}, first |-> {}]

Active(q) == query[q].pc \notin {"idle", "done"}
InDamper == {q \in Queries : query[q].pc = "damping"}

Init ==
    /\ LocalInit
    /\ world \in Worlds
    /\ bundle \in world.bundles
    /\ now = 0
    /\ rs = NoRecord
    /\ activeKeys = {}
    /\ query = [q \in Queries |-> Idle]

-----------------------------------------------------------------------------
(* Candidates.                                                             *)

Indices(rec) == DOMAIN rec.candidates
TargetKeys(rec, I) == {rec.candidates[i].targetKey : i \in I}

\* The multiset union of the answers of the candidates I.
AnswerBag(rec, I) ==
    [a \in UNION {rec.candidates[i].answers : i \in I} |->
        Cardinality({i \in I : a \in rec.candidates[i].answers})]

\* viable()'s effective health, from the two values it read of the machine.
Effective(rec, i, st, rd) ==
    LET c == rec.candidates[i]
    IN  IF c.targetKey \in rec.localChecks /\ ~(st = Unknown /\ ~rd)
          THEN st ELSE c.health

\* The candidates of rec that are effectively unhealthy in one instant of
\* the machine.
Down(rec, st, rd) ==
    {i \in Indices(rec) :
        LET k == rec.candidates[i].targetKey
        IN  Effective(rec, i, st[k], rd[k]) = Unhealthy}

-----------------------------------------------------------------------------
(* Replies.                                                                *)

\* The reply is written; of the locals only what the properties need stays.
Reply(q, m, rcode, answers) ==
    query' = [query EXCEPT ![q] =
                 [m EXCEPT !.pc = "done", !.rcode = rcode, !.answers = answers,
                           !.prev = {}, !.forced = FALSE, !.raced = FALSE,
                           !.served = <<>>]]

\* answerA drops what it cannot parse, and fails when nothing is left.
ReplyA(q, m, served) ==
    LET kept == [a \in (DOMAIN served) \ Unparseable |-> served[a]]
    IN  IF DOMAIN kept = {} THEN Reply(q, m, "SERVFAIL", <<>>)
                            ELSE Reply(q, m, "NOERROR", kept)

\* A legacy record answers by its state.
ReplyLegacy(q, m) ==
    IF m.rec.state \in {"ok", "degraded"}
      THEN ReplyA(q, m, [a \in m.rec.answers |-> 1])
      ELSE Reply(q, m, "SERVFAIL", <<>>)

-----------------------------------------------------------------------------
(* The steps of a query.                                                   *)

\* ServeDNS up to the call of Resolve: refuse, or read the bundle pointer
\* once, look the name up, and answer everything but an A query of a record
\* with candidates.
ServeDNS(q, kind) ==
    LET m == [Idle EXCEPT !.rec = bundle]
    IN  /\ q \in world.queries /\ ~Active(q)
        /\ \/ kind = "refused" /\ Reply(q, Idle, "REFUSED", <<>>)
           \/ kind # "refused" /\ bundle = NoRecord /\ Reply(q, m, "NXDOMAIN", <<>>)
           \/ /\ kind \in {"AAAA", "other"} /\ bundle # NoRecord
              /\ Reply(q, m, "NOERROR", <<>>)
           \/ /\ kind = "A" /\ bundle # NoRecord
              /\ bundle.candidates = Absent
              /\ ReplyLegacy(q, m)
           \/ /\ kind = "A" /\ bundle # NoRecord
              /\ bundle.candidates # Absent
              /\ query' = [query EXCEPT ![q] =
                    [m EXCEPT !.pc = "resolve",
                              !.down = Down(bundle, state, ready),
                              !.up = Indices(bundle) \ Down(bundle, state, ready)]]
        /\ UNCHANGED <<localVars, world, bundle, now, rs, activeKeys>>

\* Past the last candidate, or at the first viable one of mode "single":
\* fail when none is viable, else go to the damper.
AfterWalk(q, m) ==
    IF m.viable = {} THEN Reply(q, m, "SERVFAIL", <<>>)
                     ELSE query' = [query EXCEPT ![q] = [m EXCEPT !.pc = "damp"]]

Continue(q, m) ==
    IF m.at > Len(m.rec.candidates) THEN AfterWalk(q, m)
    ELSE query' = [query EXCEPT ![q] = [m EXCEPT !.pc = "walk"]]

\* Resolve reads the active keys and starts the walk.
ReadActive(q) ==
    /\ query[q].pc = "resolve"
    /\ Continue(q, [query[q] EXCEPT !.prev = activeKeys])
    /\ UNCHANGED <<localVars, world, bundle, now, rs, activeKeys>>

\* Mutant: an unhealthy candidate that was active does not force the move.
DecideNeverForced(q, health) ==
    LET m == query[q]
        c == m.rec.candidates[m.at]
        ok == health # Unhealthy /\ c.answers # {}
        n == [m EXCEPT !.viable = IF ok THEN @ \cup {m.at} ELSE @,
                       !.at = @ + 1]
    IN  IF ok /\ m.rec.mode # "all" THEN AfterWalk(q, n) ELSE Continue(q, n)

\* Mutant: the walk of mode "single" ends at the first candidate with
\* addresses, healthy or not.
DecideFirstOnly(q, health) ==
    LET m == query[q]
        c == m.rec.candidates[m.at]
        ok == health # Unhealthy /\ c.answers # {}
        n == [m EXCEPT !.forced = @ \/ (c.targetKey \in m.prev /\ health = Unhealthy),
                       !.viable = IF ok THEN @ \cup {m.at} ELSE @,
                       !.at = @ + 1]
    IN  IF m.rec.mode # "all" THEN AfterWalk(q, n) ELSE Continue(q, n)

\* One candidate's turn in the walk, its effective health known.
Decide(q, health) ==
    LET m == query[q]
        c == m.rec.candidates[m.at]
        ok == health # Unhealthy /\ c.answers # {}
        n == [m EXCEPT !.forced = @ \/ (c.targetKey \in m.prev /\ health = Unhealthy),
                       !.viable = IF ok THEN @ \cup {m.at} ELSE @,
                       !.at = @ + 1]
    IN  IF ok /\ m.rec.mode # "all" THEN AfterWalk(q, n) ELSE Continue(q, n)

\* viable(): a candidate without a localCheck is judged by its pushed health
\* alone; one with a definite local state by that state.
ReadState(q) ==
    LET m == query[q]
        k == m.rec.candidates[m.at].targetKey
    IN  /\ m.pc = "walk"
        /\ IF k \in m.rec.localChecks /\ state[k] = Unknown
             THEN query' = [query EXCEPT ![q].pc = "ready"]
             ELSE Decide(q, Effective(m.rec, m.at, state[k], TRUE))
        /\ UNCHANGED <<localVars, world, bundle, now, rs, activeKeys>>

\* Mutant: an unknown state is viable, whether the key had a result or not.
ReadReadyAssumed(q) ==
    LET m == query[q]
    IN  /\ m.pc = "ready"
        /\ Decide(q, Effective(m.rec, m.at, Unknown, TRUE))
        /\ UNCHANGED <<localVars, world, bundle, now, rs, activeKeys>>

\* viable(), the state read as Unknown: Ready is a second, later read.
ReadReady(q) ==
    LET m == query[q]
        k == m.rec.candidates[m.at].targetKey
    IN  /\ m.pc = "ready"
        /\ Decide(q, Effective(m.rec, m.at, Unknown, ready[k]))
        /\ UNCHANGED <<localVars, world, bundle, now, rs, activeKeys>>

\* Damper.Evaluate begins.  With another call under way both are racing.
EnterDamper(q) ==
    /\ query[q].pc = "damp"
    /\ query' = [p \in Queries |->
           IF p = q THEN [query[q] EXCEPT !.pc = "damping", !.raced = InDamper # {}]
           ELSE IF p \in InDamper THEN [query[p] EXCEPT !.raced = TRUE]
           ELSE query[p]]
    /\ UNCHANGED <<localVars, world, bundle, now, rs, activeKeys>>

Union(q) == AnswerBag(query[q].rec, query[q].viable)

\* Damper.Evaluate with no overlap.
Evaluated(q) ==
    IF rs = NoRecord THEN NewRecord(Union(q))
                     ELSE Evaluate(rs, Union(q), query[q].forced, now)

\* What a torn read of an answer slice may give: some of the answers of one
\* of the slices written.
Torn(B) == UNION {{[a \in D |-> b[a]] : D \in (SUBSET DOMAIN b) \ {{}}} : b \in B}

\* Damper.Evaluate under a race: any mix of what the racers may write to the
\* fields.  A racer's clock may have been read at an earlier instant.
RaceValues ==
    Torn({Union(p) : p \in InDamper} \cup IF rs = NoRecord THEN {} ELSE {rs.served})
\* A racer reads some part of the log, and clears it, keeps it, or has its
\* change accepted onto it.
RaceLogs ==
    LET read     == SUBSET IF rs = NoRecord THEN {} ELSE rs.changeLog
        accepted == {pruneWindow(Logged(l, t), t) : l \in read, t \in 0..now}
    IN  read \cup {l \in accepted : Cardinality(l) <= DampChangeThreshold}
RaceRecords ==
    [served: RaceValues, changeLog: RaceLogs, frozen: BOOLEAN,
     lastSuppressed: 0..now]

LeaveDamper(q) ==
    /\ query[q].pc = "damping"
    /\ \/ /\ ~query[q].raced
          /\ rs' = Evaluated(q)
          /\ query' = [query EXCEPT ![q].pc = "record", ![q].served = rs'.served]
       \/ /\ query[q].raced
          /\ rs' \in RaceRecords
          /\ \E v \in RaceValues :
                query' = [query EXCEPT ![q].pc = "record", ![q].served = v]
    /\ UNCHANGED <<localVars, world, bundle, now, activeKeys>>

\* Mutant: the active keys are recorded when the damper held the change back.
RecordActiveAlways(q) ==
    /\ query[q].pc = "record"
    /\ activeKeys' = TargetKeys(query[q].rec, query[q].viable)
    /\ ReplyA(q, query[q], query[q].served)
    /\ UNCHANGED <<localVars, world, bundle, now, rs>>

\* Resolve's last step and the reply.
RecordActive(q) ==
    /\ query[q].pc = "record"
    /\ activeKeys' = IF query[q].served = Union(q)
                       THEN TargetKeys(query[q].rec, query[q].viable)
                       ELSE activeKeys
    /\ ReplyA(q, query[q], query[q].served)
    /\ UNCHANGED <<localVars, world, bundle, now, rs>>

-----------------------------------------------------------------------------
(* The rest of the process.                                                *)

\* The probe runner records a result of a key that some bundle has a
\* localCheck for: visible to the walks under way.
CheckResult(k, h) ==
    /\ \E b \in world.bundles \ {NoRecord} : k \in b.localChecks
    /\ Observe(k, h)
    /\ query' = [q \in Queries |->
           IF ~Active(q) THEN query[q]
           ELSE LET d == Down(query[q].rec, state', ready')
                IN  [query[q] EXCEPT !.down = @ \cap d, !.up = @ \ d,
                                     !.first = IF ready[k] THEN @ ELSE @ \cup {k}]]
    /\ UNCHANGED <<world, bundle, now, rs, activeKeys>>

\* The store swaps the bundle; queries under way keep the one they read.
Swap(b) ==
    /\ bundle' = b
    /\ UNCHANGED <<localVars, world, now, rs, activeKeys, query>>

Tick ==
    /\ now < world.last
    /\ now' = now + 1
    /\ UNCHANGED <<localVars, world, bundle, rs, activeKeys, query>>

\* A race may end the process; it restarts with empty tables.
RaceFault ==
    /\ \E q \in InDamper : query[q].raced
    /\ state' = [k \in Keys |-> Unknown]
    /\ ready' = [k \in Keys |-> FALSE]
    /\ rs' = NoRecord
    /\ activeKeys' = {}
    /\ query' = [q \in Queries |-> Idle]
    /\ UNCHANGED <<world, bundle, now>>

QueryStep(q) ==
    \/ \E kind \in QueryKinds : ServeDNS(q, kind)
    \/ ReadActive(q)
    \/ ReadState(q)
    \/ ReadReady(q)
    \/ EnterDamper(q)
    \/ LeaveDamper(q)
    \/ RecordActive(q)

Next ==
    \/ \E q \in Queries : QueryStep(q)
    \/ \E k \in Keys, h \in HealthValues : CheckResult(k, h)
    \/ \E b \in world.bundles : Swap(b)
    \/ Tick
    \/ RaceFault

Spec == Init /\ [][Next]_vars

-----------------------------------------------------------------------------

Rcodes == {"none", "REFUSED", "NXDOMAIN", "NOERROR", "SERVFAIL"}
QueryPcs == {"idle", "resolve", "walk", "ready", "damp", "damping", "record", "done"}

TypeOK ==
    /\ LocalTypeOK
    /\ world \in Worlds /\ bundle \in world.bundles
    /\ now \in 0..world.last
    /\ activeKeys \subseteq Keys
    /\ rs = NoRecord \/ /\ rs.changeLog \subseteq Change
                        /\ rs.frozen \in BOOLEAN
                        /\ rs.lastSuppressed \in 0..now
                        /\ DOMAIN rs.served # {}
    /\ \A q \in Queries :
           /\ query[q].pc \in QueryPcs /\ query[q].rcode \in Rcodes
           /\ query[q].rec \in world.bundles \cup {NoRecord}
           /\ query[q].forced \in BOOLEAN /\ query[q].raced \in BOOLEAN
           /\ query[q].prev \cup query[q].first \subseteq Keys

\* q resolved a record with candidates and has replied.
Resolved(q) ==
    /\ query[q].pc = "done"
    /\ query[q].rec # NoRecord
    /\ query[q].rec.candidates # Absent
    /\ query[q].at > 1

\* No query overlaps another.  After a race in the damper nothing about its
\* record is certain.
Sequential == Cardinality(world.queries) = 1

\* The candidates that were effectively unhealthy all through the query of q,
\* but for those whose first check result came meanwhile, where State and Ready
\* may disagree (DownViableOnlyAtFirst).
Dead(q) ==
    {i \in query[q].down :
        query[q].rec.candidates[i].targetKey \notin query[q].first}

(***************************************************************************)
(* "A move away from a now-unhealthy answer is a forced move and is ALWAYS *)
(* allowed" (damper.go:49-51): no reply holds an address of a candidate    *)
(* that was dead all through the query, unless another candidate offers    *)
(* the same address, however long the record is frozen.                    *)
(* For queries one at a time.                                              *)
(***************************************************************************)
DeadNeverServed ==
    \A q \in Queries : Sequential /\ Resolved(q) =>
        \A i \in Dead(q) : \A a \in query[q].rec.candidates[i].answers :
            a \in DOMAIN query[q].answers =>
                \E j \in Indices(query[q].rec) \ Dead(q) :
                    a \in query[q].rec.candidates[j].answers

(***************************************************************************)
(* "Zero viable -> SERVFAIL" (evaluate.go:58-59) and only then: a query    *)
(* fails in the walk only if every candidate that has addresses was        *)
(* effectively unhealthy at some instant of the query.                     *)
(***************************************************************************)
ServfailJustified ==
    \A q \in Queries : Resolved(q) /\ query[q].rcode = "SERVFAIL" =>
        \/ query[q].viable # {}      \* nothing it would serve could be parsed
        \/ \A i \in query[q].up : query[q].rec.candidates[i].answers = {}

\* The records among the bundles B that have candidates.
Walkable(B) == {b \in B : b # NoRecord /\ b.candidates # Absent}

\* A candidate of key k offers address a in one of the bundles B.
OffersIn(B, k, a) ==
    \E rec \in Walkable(B) : \E i \in Indices(rec) :
        rec.candidates[i].targetKey = k /\ a \in rec.candidates[i].answers

Offers(k, a) == OffersIn(world.bundles, k, a)

\* No address comes with two keys in the bundles B.
OneKeyEach(B) ==
    \A r, s \in Walkable(B) : \A i \in Indices(r), j \in Indices(s) :
        r.candidates[i].answers \cap s.candidates[j].answers # {} =>
            r.candidates[i].targetKey = s.candidates[j].targetKey

\* Where a dead candidate's addresses are always moved away from: the walk
\* passes every candidate, and each address comes with one key, for the
\* active keys say nothing of an address that came with another key.
ForcedWherever ==
    \A w \in Worlds : Cardinality(w.queries) = 1 =>
        /\ \A r \in Walkable(w.bundles) : r.mode = "all" \/ Indices(r) = {}
        /\ OneKeyEach(w.bundles)

(***************************************************************************)
(* "activeKeys: targetKeys currently contributing to the served answer     *)
(* set" (evaluate.go:43): between queries, each address being served is    *)
(* one that an active key offers, and each active key offers one.          *)
(* For queries one at a time.                                              *)
(***************************************************************************)
ActiveExplainsServed ==
    (Sequential /\ rs # NoRecord /\ \A q \in Queries : ~Active(q)) =>
        /\ \A a \in DOMAIN rs.served : \E k \in activeKeys : Offers(k, a)
        /\ \A k \in activeKeys : \E a \in DOMAIN rs.served : Offers(k, a)

(***************************************************************************)
(* "A candidate with no addresses is never served" (README.md:31), as far  *)
(* as damping allows: a reply holds an address that the record the query   *)
(* read no longer lists only while the damper has the record frozen.       *)
(* For queries one at a time.                                              *)
(***************************************************************************)
WithdrawnOnlyWhileFrozen ==
    \A q \in Queries : Sequential /\ Resolved(q) =>
        \A a \in DOMAIN query[q].answers :
            \/ rs.frozen
            \/ \E i \in Indices(query[q].rec) :
                   a \in query[q].rec.candidates[i].answers

(***************************************************************************)
(* "A local Unknown that hasn't completed its first check cycle yet defers *)
(* to the pushed health value" (evaluate.go:144-147).  State and Ready are *)
(* two reads, so a first result between them slips through; nothing else   *)
(* does: a candidate that the rule calls unhealthy at every instant of the *)
(* query is viable only if its first result came during the query.         *)
(***************************************************************************)
DownViableOnlyAtFirst ==
    \A q \in Queries : \A i \in query[q].viable \cap query[q].down :
        query[q].rec.candidates[i].targetKey \in query[q].first
=============================================================================
