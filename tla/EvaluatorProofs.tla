-------------------------- MODULE EvaluatorProofs ---------------------------
(***************************************************************************)
(* Proofs about Evaluator.tla, for every set of queries, every record and  *)
(* bundle, every number of candidates and every damping parameter.         *)
(***************************************************************************)
EXTENDS Evaluator, FiniteSetTheorems, TLAPS

LEMMA Vocabulary ==
    /\ Healthy # Unhealthy /\ Healthy # Unknown /\ Unhealthy # Unknown
    /\ HealthValues = {Healthy, Unhealthy, Unknown}
BY DEF Healthy, Unhealthy, Unknown, HealthValues

-----------------------------------------------------------------------------
(* The damper's record.                                                    *)

RecordFields == {"served", "changeLog", "frozen", "lastSuppressed"}

RecordOK(r, t) ==
    /\ DOMAIN r = RecordFields
    /\ r.changeLog \subseteq Change /\ IsFiniteSet(r.changeLog)
    /\ r.frozen \in BOOLEAN
    /\ r.lastSuppressed \in 0..t
    /\ DOMAIN r.served # {}

LEMMA LoggedFacts ==
    ASSUME NEW L \in SUBSET Change, IsFiniteSet(L), NEW t \in Nat
    PROVE  /\ pruneWindow(Logged(L, t), t) \subseteq Change
           /\ IsFiniteSet(pruneWindow(Logged(L, t), t))
<1>1. IsFiniteSet({c \in L : c.at = t})
  BY FS_Subset
<1>2. Cardinality({c \in L : c.at = t}) \in Nat
  BY <1>1, FS_CardinalityType
<1>3. NextChange(L, t) \in Change
  BY <1>2 DEF NextChange, Change
<1>4. Logged(L, t) \subseteq Change /\ IsFiniteSet(Logged(L, t))
  BY <1>3, FS_AddElement DEF Logged
<1>5. pruneWindow(Logged(L, t), t) \subseteq Logged(L, t)
  BY DEF pruneWindow
<1> QED BY <1>4, <1>5, FS_Subset

LEMMA NewRecordFacts ==
    ASSUME NEW B, DOMAIN B # {}, NEW t \in Nat
    PROVE  RecordOK(NewRecord(B), t) /\ NewRecord(B).served = B
BY FS_EmptySet DEF NewRecord, RecordOK, RecordFields

LEMMA UnfreezeFacts ==
    ASSUME NEW r, NEW t \in Nat, RecordOK(r, t)
    PROVE  /\ RecordOK(maybeAutoUnfreeze(r, t), t)
           /\ maybeAutoUnfreeze(r, t).served = r.served
<1> DEFINE u == [r EXCEPT !.frozen = FALSE, !.changeLog = {}]
<1>1. RecordOK(u, t) /\ u.served = r.served
  BY FS_EmptySet DEF RecordOK, RecordFields
<1> HIDE DEF u
<1>2. maybeAutoUnfreeze(r, t) \in {r, u}
  BY DEF maybeAutoUnfreeze, u
<1> QED BY <1>1, <1>2

\* What the damper serves is the answer it was asked about or what it served;
\* the latter only if the move is not forced, and then the record is frozen.
LEMMA DampFacts ==
    ASSUME NEW r, NEW t \in Nat, RecordOK(r, t), NEW B, DOMAIN B # {},
           NEW forced \in BOOLEAN
    PROVE  LET d == Damp(r, B, forced, t)
           IN  /\ RecordOK(d, t)
               /\ d.served # B => d.served = r.served /\ ~forced /\ d.frozen
<1> DEFINE L == pruneWindow(Logged(r.changeLog, t), t)
           d == Damp(r, B, forced, t)
           held == [r EXCEPT !.lastSuppressed = t]
           frozen == [r EXCEPT !.frozen = TRUE, !.lastSuppressed = t]
           moved == [r EXCEPT !.served = B]
           accepted == [r EXCEPT !.changeLog = L, !.served = B]
<1>1. L \subseteq Change /\ IsFiniteSet(L)
  BY LoggedFacts DEF RecordOK
<1> HIDE DEF L
<1>2. /\ RecordOK(held, t) /\ held.served = r.served /\ held.frozen = r.frozen
      /\ RecordOK(frozen, t) /\ frozen.served = r.served /\ frozen.frozen
      /\ RecordOK(moved, t) /\ moved.served = B
      /\ RecordOK(accepted, t) /\ accepted.served = B
  BY <1>1 DEF RecordOK, RecordFields
<1>3. \/ d = r /\ r.served = B
      \/ d = moved
      \/ d = held /\ r.frozen /\ ~forced
      \/ d = frozen /\ ~forced
      \/ d = accepted
  BY DEF Damp, L
<1> HIDE DEF d, held, frozen, moved, accepted
<1>4. RecordOK(d, t)
  BY <1>2, <1>3
<1>5. d.served # B => d.served = r.served /\ ~forced /\ d.frozen
  BY <1>2, <1>3
<1> QED BY <1>4, <1>5 DEF d

LEMMA EvaluateFacts ==
    ASSUME NEW r, NEW t \in Nat, RecordOK(r, t), NEW B, DOMAIN B # {},
           NEW forced \in BOOLEAN
    PROVE  LET e == Evaluate(r, B, forced, t)
           IN  /\ RecordOK(e, t)
               /\ e.served # B => e.served = r.served /\ ~forced /\ e.frozen
<1> DEFINE u == maybeAutoUnfreeze(r, t)
<1>1. RecordOK(u, t) /\ u.served = r.served
  BY UnfreezeFacts
<1> HIDE DEF u
<1>2. LET d == Damp(u, B, forced, t)
      IN  /\ RecordOK(d, t)
          /\ d.served # B => d.served = u.served /\ ~forced /\ d.frozen
  BY <1>1, DampFacts
<1> QED BY <1>1, <1>2 DEF Evaluate, u

-----------------------------------------------------------------------------
(* What the steps of a query do to its locals: m before, n after.          *)

QueryFields == {"pc", "rec", "prev", "at", "viable", "forced", "raced", "served",
                "rcode", "answers", "down", "up", "first"}

SameQuery(m, n) ==
    /\ DOMAIN n = QueryFields
    /\ n.rec = m.rec /\ n.down = m.down /\ n.up = m.up /\ n.first = m.first

\* The reply is out.
Answered(m, n) ==
    /\ SameQuery(m, n) /\ n.at = m.at /\ n.viable = m.viable
    /\ n.pc = "done" /\ n.prev = {} /\ n.forced = FALSE /\ n.raced = FALSE

\* The query goes on.
Goes(m, n) ==
    /\ SameQuery(m, n)
    /\ n.prev = m.prev /\ n.raced = m.raced /\ n.rcode = m.rcode

IsOver(n) == n.at > Len(n.rec.candidates)

\* The walk goes on, leads to the damper or fails.
Proceeds(n) ==
    \/ n.pc = "walk" /\ ~IsOver(n)
    \/ n.pc = "damp" /\ n.viable # {} /\ (IsOver(n) \/ n.rec.mode # "all")
    \/ n.pc = "done" /\ n.viable = {} /\ IsOver(n) /\ n.rcode = "SERVFAIL"

\* One candidate was judged by health h.
Judged(m, h, n) ==
    LET c == m.rec.candidates[m.at]
        ok == h # Unhealthy /\ c.answers # {}
    IN  /\ SameQuery(m, n) /\ Proceeds(n)
        /\ n.at = m.at + 1
        /\ n.viable = IF ok THEN m.viable \cup {m.at} ELSE m.viable
        /\ IF n.pc = "done"
             THEN n.prev = {} /\ n.forced = FALSE /\ n.raced = FALSE /\ n.answers = <<>>
             ELSE /\ Goes(m, n)
                  /\ n.forced = (m.forced \/ (c.targetKey \in m.prev /\ h = Unhealthy))

LEMMA ReplyFacts ==
    ASSUME NEW q \in Queries, NEW m, DOMAIN m = QueryFields, NEW rcode, NEW answers,
           Reply(q, m, rcode, answers)
    PROVE  \E n : /\ query' = [query EXCEPT ![q] = n]
                  /\ Answered(m, n) /\ n.rcode = rcode /\ n.answers = answers
<1> DEFINE n == [m EXCEPT !.pc = "done", !.rcode = rcode, !.answers = answers,
                          !.prev = {}, !.forced = FALSE, !.raced = FALSE,
                          !.served = <<>>]
<1>1. query' = [query EXCEPT ![q] = n]
  BY DEF Reply
<1>2. Answered(m, n) /\ n.rcode = rcode /\ n.answers = answers
  BY DEF Answered, SameQuery, QueryFields
<1> QED BY <1>1, <1>2

LEMMA ReplyAFacts ==
    ASSUME NEW q \in Queries, NEW m, DOMAIN m = QueryFields, NEW served,
           ReplyA(q, m, served)
    PROVE  \E n : /\ query' = [query EXCEPT ![q] = n]
                  /\ Answered(m, n) /\ n.rcode \in {"SERVFAIL", "NOERROR"}
                  /\ DOMAIN n.answers \subseteq DOMAIN served
<1> DEFINE kept == [a \in (DOMAIN served) \ Unparseable |-> served[a]]
<1>1. CASE Reply(q, m, "SERVFAIL", <<>>)
  <2>1. DOMAIN <<>> = {}
    OBVIOUS
  <2> QED BY <1>1, <2>1, ReplyFacts
<1>2. CASE Reply(q, m, "NOERROR", kept)
  <2>1. DOMAIN kept \subseteq DOMAIN served
    OBVIOUS
  <2> HIDE DEF kept
  <2> QED BY <1>2, <2>1, ReplyFacts
<1> QED BY <1>1, <1>2 DEF ReplyA

LEMMA AfterWalkFacts ==
    ASSUME NEW q \in Queries, NEW m, DOMAIN m = QueryFields,
           IsOver(m) \/ (m.viable # {} /\ m.rec.mode # "all"), AfterWalk(q, m)
    PROVE  \E n : /\ query' = [query EXCEPT ![q] = n]
                  /\ SameQuery(m, n) /\ Proceeds(n) /\ n.at = m.at /\ n.viable = m.viable
                  /\ IF n.pc = "done"
                       THEN /\ n.prev = {} /\ n.forced = FALSE /\ n.raced = FALSE
                            /\ n.answers = <<>>
                       ELSE Goes(m, n) /\ n.forced = m.forced
<1>1. CASE m.viable = {}
  <2>1. Reply(q, m, "SERVFAIL", <<>>)
    BY <1>1 DEF AfterWalk
  <2>2. PICK n : /\ query' = [query EXCEPT ![q] = n]
                 /\ Answered(m, n) /\ n.rcode = "SERVFAIL" /\ n.answers = <<>>
    BY <2>1, ReplyFacts
  <2> QED BY <1>1, <2>2 DEF Answered, SameQuery, Proceeds, IsOver
<1>2. CASE m.viable # {}
  <2> DEFINE n == [m EXCEPT !.pc = "damp"]
  <2>1. query' = [query EXCEPT ![q] = n]
    BY <1>2 DEF AfterWalk
  <2>2. Goes(m, n) /\ n.at = m.at /\ n.viable = m.viable /\ n.forced = m.forced
        /\ n.pc = "damp"
    BY DEF Goes, SameQuery, QueryFields
  <2> HIDE DEF n
  <2>3. Proceeds(n)
    BY <1>2, <2>2 DEF Proceeds, IsOver, Goes, SameQuery
  <2> QED BY <2>1, <2>2, <2>3 DEF Goes
<1> QED BY <1>1, <1>2

LEMMA ContinueFacts ==
    ASSUME NEW q \in Queries, NEW m, DOMAIN m = QueryFields, Continue(q, m)
    PROVE  \E n : /\ query' = [query EXCEPT ![q] = n]
                  /\ SameQuery(m, n) /\ Proceeds(n) /\ n.at = m.at /\ n.viable = m.viable
                  /\ IF n.pc = "done"
                       THEN /\ n.prev = {} /\ n.forced = FALSE /\ n.raced = FALSE
                            /\ n.answers = <<>>
                       ELSE Goes(m, n) /\ n.forced = m.forced
<1>1. CASE IsOver(m)
  BY <1>1, AfterWalkFacts DEF Continue, IsOver
<1>2. CASE ~IsOver(m)
  <2> DEFINE n == [m EXCEPT !.pc = "walk"]
  <2>1. query' = [query EXCEPT ![q] = n]
    BY <1>2 DEF Continue, IsOver
  <2>2. Goes(m, n) /\ n.at = m.at /\ n.viable = m.viable /\ n.forced = m.forced
        /\ n.pc = "walk"
    BY DEF Goes, SameQuery, QueryFields
  <2> HIDE DEF n
  <2>3. Proceeds(n)
    BY <1>2, <2>2 DEF Proceeds, IsOver, Goes, SameQuery
  <2> QED BY <2>1, <2>2, <2>3 DEF Goes
<1> QED BY <1>1, <1>2

LEMMA DecideFacts ==
    ASSUME NEW q \in Queries, DOMAIN query[q] = QueryFields, NEW h, Decide(q, h)
    PROVE  \E n : query' = [query EXCEPT ![q] = n] /\ Judged(query[q], h, n)
<1> DEFINE m == query[q]
           c == m.rec.candidates[m.at]
           ok == h # Unhealthy /\ c.answers # {}
           forced == m.forced \/ (c.targetKey \in m.prev /\ h = Unhealthy)
           viable == IF ok THEN m.viable \cup {m.at} ELSE m.viable
           d == [m EXCEPT !.forced = forced, !.viable = viable, !.at = m.at + 1]
<1>1. /\ Goes(m, d) /\ d.at = m.at + 1 /\ d.viable = viable /\ d.forced = forced
  BY DEF Goes, SameQuery, QueryFields
<1>2. IF ok /\ m.rec.mode # "all" THEN AfterWalk(q, d) ELSE Continue(q, d)
  BY DEF Decide
<1>3. ok => viable # {}
  OBVIOUS
<1> HIDE DEF d
<1>4. \E n : /\ query' = [query EXCEPT ![q] = n]
             /\ SameQuery(d, n) /\ Proceeds(n) /\ n.at = d.at /\ n.viable = d.viable
             /\ IF n.pc = "done"
                  THEN /\ n.prev = {} /\ n.forced = FALSE /\ n.raced = FALSE
                       /\ n.answers = <<>>
                  ELSE Goes(d, n) /\ n.forced = d.forced
  <2>1. DOMAIN d = QueryFields /\ d.rec = m.rec
    BY <1>1 DEF Goes, SameQuery
  <2>2. CASE ok /\ m.rec.mode # "all"
    <3>1. d.viable # {} /\ d.rec.mode # "all" /\ AfterWalk(q, d)
      BY <1>1, <1>2, <1>3, <2>1, <2>2
    <3> QED BY <2>1, <3>1, AfterWalkFacts
  <2>3. CASE ~(ok /\ m.rec.mode # "all")
    <3>1. Continue(q, d)
      BY <1>2, <2>3
    <3> QED BY <2>1, <3>1, ContinueFacts
  <2> QED BY <2>2, <2>3
<1> QED BY <1>1, <1>4 DEF Judged, Goes, SameQuery

-----------------------------------------------------------------------------
(* The type invariant, strengthened: where a query stands says what its    *)
(* locals hold.                                                            *)

Busy(m) == m.pc \notin {"idle", "done"}
HasCandidates(m) == m.rec # NoRecord /\ m.rec.candidates # Absent
KeyAt(m, i) == m.rec.candidates[i].targetKey

LocalsTyped(w, m) ==
    /\ DOMAIN m = QueryFields
    /\ m.pc \in QueryPcs /\ m.rcode \in Rcodes
    /\ m.rec \in w.bundles \cup {NoRecord}
    /\ m.forced \in BOOLEAN /\ m.raced \in BOOLEAN
    /\ m.prev \subseteq Keys /\ m.first \subseteq Keys
    /\ m.at \in Nat \ {0}

IndicesTyped(m) ==
    /\ Busy(m) => HasCandidates(m)
    /\ \A i \in m.viable : /\ HasCandidates(m) /\ i \in Indices(m.rec) /\ i < m.at
                           /\ m.rec.candidates[i].answers # {}
    /\ \A i \in m.up : HasCandidates(m) /\ i \in Indices(m.rec)
    /\ \A i \in m.down : HasCandidates(m) /\ i \in Indices(m.rec)

\* How far the walk has come.
Stands(m) ==
    /\ m.pc = "resolve" => m.at = 1 /\ m.viable = {}
    /\ m.pc \in {"walk", "ready"} => ~IsOver(m)
    /\ m.pc \in {"damp", "damping", "record"} =>
           m.viable # {} /\ (IsOver(m) \/ m.rec.mode # "all")
    /\ m.pc = "record" => DOMAIN m.served # {}
    /\ m.pc = "done" /\ m.at > 1 /\ m.rcode = "SERVFAIL" /\ m.viable = {} => IsOver(m)

QueryTyped(w, m) == LocalsTyped(w, m) /\ IndicesTyped(m) /\ Stands(m)

Typed ==
    /\ LocalTypeOK
    /\ world \in Worlds /\ bundle \in world.bundles /\ now \in 0..world.last
    /\ activeKeys \subseteq Keys
    /\ rs = NoRecord \/ RecordOK(rs, now)
    /\ DOMAIN query = Queries
    /\ \A q \in Queries : QueryTyped(world, query[q])

LEMMA IdleTyped == \A w : QueryTyped(w, Idle)
<1>1. \A w : LocalsTyped(w, Idle)
  BY DEF LocalsTyped, Idle, QueryFields, QueryPcs, Rcodes
<1>2. IndicesTyped(Idle)
  BY DEF IndicesTyped, Idle, Busy
<1>3. Stands(Idle)
  BY DEF Stands, Idle
<1> QED BY <1>1, <1>2, <1>3 DEF QueryTyped

LEMMA AnsweredTyped ==
    ASSUME NEW w, NEW m, QueryTyped(w, m), NEW n, Answered(m, n), n.rcode \in Rcodes,
           n.rcode = "SERVFAIL" /\ n.at > 1 /\ n.viable = {} => IsOver(n)
    PROVE  QueryTyped(w, n)
<1>1. LocalsTyped(w, n)
  BY DEF QueryTyped, LocalsTyped, Answered, SameQuery, QueryPcs
<1>2. IndicesTyped(n)
  BY DEF QueryTyped, IndicesTyped, Answered, SameQuery, Busy, HasCandidates
<1>3. Stands(n)
  BY DEF Stands, Answered, SameQuery, IsOver
<1> QED BY <1>1, <1>2, <1>3 DEF QueryTyped

LEMMA CandidatesTyped ==
    ASSUME NEW w \in Worlds, NEW m, QueryTyped(w, m), HasCandidates(m)
    PROVE  /\ IsCandidates(m.rec.candidates)
           /\ \A i \in Indices(m.rec) : KeyAt(m, i) \in Keys
<1>1. IsCandidates(m.rec.candidates)
  BY EvaluatorAssumption DEF QueryTyped, LocalsTyped, HasCandidates
<1> QED BY <1>1 DEF IsCandidates, KeyAt, Indices

\* The candidate whose turn it is.
LEMMA TurnTyped ==
    ASSUME NEW w \in Worlds, NEW m, QueryTyped(w, m), m.pc \in {"walk", "ready"}
    PROVE  HasCandidates(m) /\ m.at \in Indices(m.rec) /\ KeyAt(m, m.at) \in Keys
<1>1. HasCandidates(m)
  BY DEF QueryTyped, IndicesTyped, Busy
<1>2. m.at \in Indices(m.rec)
  BY <1>1, CandidatesTyped DEF QueryTyped, Stands, IsOver, IsCandidates, Indices, LocalsTyped
<1> QED BY <1>1, <1>2, CandidatesTyped

LEMMA JudgedTyped ==
    ASSUME NEW w \in Worlds, NEW m, QueryTyped(w, m), m.pc \in {"walk", "ready"},
           NEW h, NEW n, Judged(m, h, n)
    PROVE  QueryTyped(w, n)
<1>1. HasCandidates(m) /\ m.at \in Indices(m.rec)
  BY TurnTyped
<1>2. n.at = m.at + 1 /\ n.at \in Nat \ {0}
  BY DEF Judged, QueryTyped, LocalsTyped
<1>3. LocalsTyped(w, n)
  BY <1>2 DEF QueryTyped, LocalsTyped, Judged, SameQuery, Goes, Proceeds, QueryPcs, Rcodes
<1>4. \A i \in n.viable : /\ HasCandidates(n) /\ i \in Indices(n.rec) /\ i < n.at
                          /\ n.rec.candidates[i].answers # {}
  <2> SUFFICES ASSUME NEW i \in n.viable
               PROVE  /\ HasCandidates(n) /\ i \in Indices(n.rec) /\ i < n.at
                      /\ n.rec.candidates[i].answers # {}
    OBVIOUS
  <2>1. n.rec = m.rec
    BY DEF Judged, SameQuery
  <2>2. CASE i \in m.viable
    <3>1. i \in Indices(m.rec) /\ i < m.at /\ m.rec.candidates[i].answers # {}
      BY <2>2 DEF QueryTyped, IndicesTyped
    <3>2. i \in Nat /\ m.at \in Nat
      BY <1>1, <3>1, CandidatesTyped DEF IsCandidates, Indices, QueryTyped, LocalsTyped
    <3> QED BY <1>1, <1>2, <2>1, <3>1, <3>2 DEF HasCandidates
  <2>3. CASE i \notin m.viable
    <3>1. i = m.at /\ m.rec.candidates[m.at].answers # {}
      BY <2>3 DEF Judged
    <3> QED BY <1>1, <1>2, <2>1, <3>1 DEF HasCandidates, QueryTyped, LocalsTyped
  <2> QED BY <2>2, <2>3
<1>5. IndicesTyped(n)
  BY <1>1, <1>4 DEF QueryTyped, IndicesTyped, Judged, SameQuery, HasCandidates
<1>6. Stands(n)
  BY DEF Stands, Judged, Proceeds
<1> QED BY <1>3, <1>5, <1>6 DEF QueryTyped

LEMMA PutTyped ==
    ASSUME Typed, NEW q \in Queries, NEW n, QueryTyped(world, n),
           query' = [query EXCEPT ![q] = n],
           UNCHANGED <<localVars, world, bundle, now>>,
           activeKeys' \subseteq Keys, rs' = NoRecord \/ RecordOK(rs', now)
    PROVE  Typed'
<1>1. /\ LocalTypeOK' /\ world' \in Worlds /\ bundle' \in world'.bundles
      /\ now' \in 0..world'.last /\ (rs' = NoRecord \/ RecordOK(rs', now'))
  BY DEF Typed, LocalTypeOK, localVars
<1>2. DOMAIN query' = Queries
  BY DEF Typed
<1>3. \A p \in Queries : QueryTyped(world', query'[p])
  <2> TAKE p \in Queries
  <2>1. CASE p = q
    BY <2>1 DEF Typed
  <2>2. CASE p # q
    BY <2>2 DEF Typed
  <2> QED BY <2>1, <2>2
<1> QED BY <1>1, <1>2, <1>3 DEF Typed

\* What a query knows before its walk.
Begun(n) ==
    /\ QueryTyped(world, n) /\ n.at = 1 /\ n.viable = {} /\ n.raced = FALSE
    /\ \/ n.pc = "done" /\ n.down = {} /\ n.up = {}
       \/ /\ n.pc = "resolve" /\ HasCandidates(n)
          /\ n.down = Down(n.rec, state, ready)
          /\ n.up = Indices(n.rec) \ Down(n.rec, state, ready)

LEMMA ServeDNSFacts ==
    ASSUME Typed, NEW q \in Queries, NEW kind \in QueryKinds, ServeDNS(q, kind)
    PROVE  /\ q \in world.queries /\ ~Busy(query[q])
           /\ UNCHANGED <<localVars, world, bundle, now, rs, activeKeys>>
           /\ \E n : query' = [query EXCEPT ![q] = n] /\ Begun(n)
<1>0. q \in world.queries /\ ~Busy(query[q])
  BY DEF ServeDNS, Active, Busy
<1> DEFINE m == [Idle EXCEPT !.rec = bundle]
           down == Down(bundle, state, ready)
           r == [m EXCEPT !.pc = "resolve", !.down = down, !.up = Indices(bundle) \ down]
<1>1. /\ QueryTyped(world, Idle) /\ DOMAIN Idle = QueryFields /\ Idle.at = 1
      /\ Idle.viable = {} /\ Idle.up = {} /\ Idle.down = {}
  BY IdleTyped DEF Idle, QueryFields
<1>2. /\ DOMAIN m = QueryFields /\ m.rec = bundle /\ m.at = 1 /\ m.viable = {}
      /\ m.pc = "idle" /\ m.rcode = "none" /\ m.up = {} /\ m.down = {} /\ m.prev = {}
      /\ m.first = {} /\ m.forced = FALSE /\ m.raced = FALSE
  BY DEF Idle, QueryFields
<1>3. /\ DOMAIN r = QueryFields /\ r.rec = bundle /\ r.at = 1 /\ r.viable = {}
      /\ r.pc = "resolve" /\ r.rcode = "none" /\ r.prev = {} /\ r.first = {}
      /\ r.forced = FALSE /\ r.raced = FALSE
      /\ r.down = down /\ r.up = Indices(bundle) \ down
  BY DEF Idle, QueryFields
<1>4. down \subseteq Indices(bundle)
  BY DEF Down
<1> HIDE DEF m, down, r
<1>5. bundle \in world.bundles
  BY DEF Typed
<1>6. QueryTyped(world, m)
  <2>0. m.forced \in BOOLEAN /\ m.raced \in BOOLEAN
    BY <1>2
  <2>1. LocalsTyped(world, m)
    BY <1>2, <1>5, <2>0 DEF LocalsTyped, QueryPcs, Rcodes
  <2>2. IndicesTyped(m)
    BY <1>2 DEF IndicesTyped, Busy
  <2>3. Stands(m)
    BY <1>2 DEF Stands
  <2> QED BY <2>1, <2>2, <2>3 DEF QueryTyped
<1>7. ASSUME bundle # NoRecord, bundle.candidates # Absent
      PROVE  QueryTyped(world, r)
  <2>0. r.forced \in BOOLEAN /\ r.raced \in BOOLEAN
    BY <1>3
  <2>1. LocalsTyped(world, r)
    BY <1>3, <1>5, <2>0 DEF LocalsTyped, QueryPcs, Rcodes
  <2>2. IndicesTyped(r)
    BY <1>3, <1>4, <1>7 DEF IndicesTyped, HasCandidates
  <2>3. Stands(r)
    BY <1>3 DEF Stands
  <2> QED BY <2>1, <2>2, <2>3 DEF QueryTyped
<1>8. UNCHANGED <<localVars, world, bundle, now, rs, activeKeys>>
  BY DEF ServeDNS
<1>9. ASSUME NEW l \in {Idle, m}, NEW rcode \in Rcodes, NEW answers,
             Reply(q, l, rcode, answers)
      PROVE  \E n : query' = [query EXCEPT ![q] = n] /\ Begun(n)
  <2>1. /\ DOMAIN l = QueryFields /\ QueryTyped(world, l) /\ l.at = 1
        /\ l.viable = {} /\ l.up = {} /\ l.down = {}
    BY <1>1, <1>2, <1>6
  <2>2. PICK n : query' = [query EXCEPT ![q] = n] /\ Answered(l, n) /\ n.rcode = rcode
    BY <1>9, <2>1, ReplyFacts
  <2>3. n.at = 1 /\ n.rcode \in Rcodes
    BY <2>1, <2>2 DEF Answered
  <2>4. ~(n.at > 1)
    BY <2>3
  <2>5. QueryTyped(world, n)
    BY <2>1, <2>2, <2>3, <2>4, AnsweredTyped
  <2> QED BY <2>1, <2>2, <2>5 DEF Begun, Answered, SameQuery
<1>10. ASSUME NEW served, ReplyA(q, m, served)
       PROVE  \E n : query' = [query EXCEPT ![q] = n] /\ Begun(n)
  BY <1>9, <1>10 DEF ReplyA, Rcodes
<1>11. \/ kind = "refused" /\ Reply(q, Idle, "REFUSED", <<>>)
       \/ Reply(q, m, "NXDOMAIN", <<>>)
       \/ Reply(q, m, "NOERROR", <<>>)
       \/ ReplyLegacy(q, m)
       \/ /\ bundle # NoRecord /\ bundle.candidates # Absent
          /\ query' = [query EXCEPT ![q] = r]
  BY DEF ServeDNS, m, r, down
<1>12. CASE ReplyLegacy(q, m)
  BY <1>0, <1>8, <1>9, <1>10, <1>12 DEF ReplyLegacy, Rcodes
<1>13. CASE /\ bundle # NoRecord /\ bundle.candidates # Absent
            /\ query' = [query EXCEPT ![q] = r]
  <2>1. Begun(r)
    BY <1>3, <1>7, <1>13 DEF Begun, HasCandidates, down
  <2> QED BY <1>0, <1>8, <1>13, <2>1
<1> QED BY <1>0, <1>8, <1>9, <1>11, <1>12, <1>13 DEF Rcodes

LEMMA ReadActiveFacts ==
    ASSUME Typed, NEW q \in Queries, ReadActive(q)
    PROVE  \E n : /\ query' = [query EXCEPT ![q] = n] /\ QueryTyped(world, n)
                  /\ SameQuery(query[q], n) /\ Proceeds(n) /\ n.viable = {} /\ n.at = 1
                  /\ IF n.pc = "done"
                       THEN n.answers = <<>> /\ n.raced = FALSE
                       ELSE n.prev = activeKeys /\ n.raced = query[q].raced
<1> DEFINE m == query[q]
           l == [m EXCEPT !.prev = activeKeys]
<1>1. QueryTyped(world, m) /\ m.pc = "resolve" /\ Continue(q, l)
  BY DEF Typed, ReadActive
<1>2. /\ DOMAIN l = QueryFields /\ SameQuery(m, l) /\ l.prev = activeKeys
      /\ l.at = m.at /\ l.viable = m.viable /\ l.raced = m.raced /\ l.rcode = m.rcode
      /\ l.forced = m.forced
  BY <1>1 DEF QueryTyped, LocalsTyped, SameQuery, QueryFields
<1> HIDE DEF l, m
<1>3. m.at = 1 /\ m.viable = {}
  BY <1>1 DEF QueryTyped, Stands
<1>4. PICK n : /\ query' = [query EXCEPT ![q] = n]
               /\ SameQuery(l, n) /\ Proceeds(n) /\ n.at = l.at /\ n.viable = l.viable
               /\ IF n.pc = "done"
                    THEN /\ n.prev = {} /\ n.forced = FALSE /\ n.raced = FALSE
                         /\ n.answers = <<>>
                    ELSE Goes(l, n) /\ n.forced = l.forced
  BY <1>1, <1>2, ContinueFacts
<1>5. SameQuery(m, n)
  BY <1>2, <1>4 DEF SameQuery
<1>6. LocalsTyped(world, n)
  BY <1>1, <1>2, <1>3, <1>4, <1>5
  DEF Typed, QueryTyped, LocalsTyped, SameQuery, Goes, Proceeds, QueryPcs, Rcodes
<1>7. IndicesTyped(n)
  BY <1>1, <1>2, <1>3, <1>4, <1>5
  DEF QueryTyped, IndicesTyped, SameQuery, HasCandidates, Busy
<1>8. Stands(n)
  BY <1>4 DEF Stands, Proceeds
<1> QED BY <1>2, <1>3, <1>4, <1>5, <1>6, <1>7, <1>8 DEF QueryTyped, Goes, m

\* The health a turn of the walk judges by, as read from the machine.
HealthRead(m, h) ==
    LET k == KeyAt(m, m.at)
    IN  \/ /\ m.pc = "walk" /\ ~(k \in m.rec.localChecks /\ state[k] = Unknown)
           /\ h = Effective(m.rec, m.at, state[k], TRUE)
        \/ /\ m.pc = "ready"
           /\ h = Effective(m.rec, m.at, Unknown, ready[k])

\* The state was read as Unknown, Ready is read next.
Asks(m, n) ==
    /\ m.pc = "walk" /\ KeyAt(m, m.at) \in m.rec.localChecks
    /\ state[KeyAt(m, m.at)] = Unknown
    /\ n = [m EXCEPT !.pc = "ready"]

LEMMA AsksTyped ==
    ASSUME NEW w, NEW m, QueryTyped(w, m), NEW n, Asks(m, n)
    PROVE  QueryTyped(w, n)
<1>1. /\ SameQuery(m, n) /\ Goes(m, n) /\ n.at = m.at /\ n.viable = m.viable
      /\ n.forced = m.forced /\ n.pc = "ready"
  BY DEF Asks, QueryTyped, LocalsTyped, SameQuery, Goes, QueryFields
<1>2. m.pc = "walk"
  BY DEF Asks
<1>3. LocalsTyped(w, n)
  BY <1>1 DEF QueryTyped, LocalsTyped, SameQuery, Goes, QueryPcs
<1>4. IndicesTyped(n)
  BY <1>1, <1>2 DEF QueryTyped, IndicesTyped, SameQuery, Busy, HasCandidates
<1>5. Stands(n)
  BY <1>1, <1>2 DEF QueryTyped, Stands, SameQuery, IsOver
<1> QED BY <1>3, <1>4, <1>5 DEF QueryTyped

LEMMA TurnFacts ==
    ASSUME Typed, NEW q \in Queries, ReadState(q) \/ ReadReady(q)
    PROVE  /\ query[q].pc \in {"walk", "ready"}
           /\ UNCHANGED <<localVars, world, bundle, now, rs, activeKeys>>
           /\ \E n : /\ query' = [query EXCEPT ![q] = n] /\ QueryTyped(world, n)
                     /\ \/ Asks(query[q], n)
                        \/ \E h : HealthRead(query[q], h) /\ Judged(query[q], h, n)
<1> DEFINE m == query[q]
<1>1. world \in Worlds /\ QueryTyped(world, m) /\ DOMAIN m = QueryFields
  BY DEF Typed, QueryTyped, LocalsTyped
<1>2. UNCHANGED <<localVars, world, bundle, now, rs, activeKeys>>
  BY DEF ReadState, ReadReady
<1>3. m.pc \in {"walk", "ready"}
  BY DEF ReadState, ReadReady
<1>4. ASSUME NEW h, HealthRead(m, h), Decide(q, h)
      PROVE  \E n : /\ query' = [query EXCEPT ![q] = n] /\ QueryTyped(world, n)
                    /\ HealthRead(m, h) /\ Judged(m, h, n)
  <2>1. PICK n : query' = [query EXCEPT ![q] = n] /\ Judged(m, h, n)
    BY <1>1, <1>4, DecideFacts
  <2>2. QueryTyped(world, n)
    BY <1>1, <1>3, <2>1, JudgedTyped
  <2> QED BY <1>4, <2>1, <2>2
<1>5. \/ query' = [query EXCEPT ![q] = [m EXCEPT !.pc = "ready"]]
         /\ Asks(m, [m EXCEPT !.pc = "ready"])
      \/ \E h : HealthRead(m, h) /\ Decide(q, h)
  <2>1. CASE ReadReady(q)
    BY <2>1 DEF ReadReady, HealthRead, KeyAt
  <2>2. CASE ReadState(q)
    <3>1. CASE KeyAt(m, m.at) \in m.rec.localChecks /\ state[KeyAt(m, m.at)] = Unknown
      <4>1. query' = [query EXCEPT ![q].pc = "ready"] /\ m.pc = "walk"
        BY <2>2, <3>1 DEF ReadState, KeyAt
      <4>2. query' = [query EXCEPT ![q] = [m EXCEPT !.pc = "ready"]]
        BY <4>1
      <4> QED BY <3>1, <4>1, <4>2 DEF Asks
    <3>2. CASE ~(KeyAt(m, m.at) \in m.rec.localChecks /\ state[KeyAt(m, m.at)] = Unknown)
      BY <2>2, <3>2 DEF ReadState, KeyAt, HealthRead
    <3> QED BY <3>1, <3>2
  <2> QED BY <2>1, <2>2
<1>6. CASE query' = [query EXCEPT ![q] = [m EXCEPT !.pc = "ready"]]
           /\ Asks(m, [m EXCEPT !.pc = "ready"])
  <2> DEFINE n == [m EXCEPT !.pc = "ready"]
  <2>1. query' = [query EXCEPT ![q] = n] /\ Asks(m, n)
    BY <1>6
  <2> HIDE DEF n
  <2>2. QueryTyped(world, n)
    BY <1>1, <2>1, AsksTyped
  <2> QED BY <1>2, <1>3, <2>1, <2>2
<1>7. CASE \E h : HealthRead(m, h) /\ Decide(q, h)
  <2>1. PICK h : HealthRead(m, h) /\ Decide(q, h)
    BY <1>7
  <2>2. PICK n : /\ query' = [query EXCEPT ![q] = n] /\ QueryTyped(world, n)
                 /\ HealthRead(m, h) /\ Judged(m, h, n)
    BY <1>4, <2>1
  <2> QED BY <1>2, <1>3, <2>2
<1> QED BY <1>5, <1>6, <1>7

\* What a query that was in nobody's way gets, the answers of its viable
\* candidates, is not empty.
LEMMA UnionFacts ==
    ASSUME Typed, NEW q \in Queries, query[q].pc \in {"damp", "damping", "record"}
    PROVE  DOMAIN Union(q) # {}
<1>1. query[q].viable # {} /\
      \A i \in query[q].viable : query[q].rec.candidates[i].answers # {}
  BY DEF Typed, QueryTyped, Stands, IndicesTyped
<1> QED BY <1>1 DEF Union, AnswerBag

LEMMA RaceFacts ==
    ASSUME Typed
    PROVE  /\ \A v \in RaceValues : DOMAIN v # {}
           /\ \A r \in RaceRecords : RecordOK(r, now)
<1>1. \A v \in RaceValues : DOMAIN v # {}
  BY DEF RaceValues, Torn
<1>2. ASSUME NEW r \in RaceRecords
      PROVE  RecordOK(r, now)
  <2>1. now \in Nat
    BY EvaluatorAssumption DEF Typed
  <2> DEFINE log == IF rs = NoRecord THEN {} ELSE rs.changeLog
  <2>2. log \subseteq Change /\ IsFiniteSet(log)
    BY FS_EmptySet DEF Typed, RecordOK
  <2>3. /\ DOMAIN r = RecordFields /\ r.served \in RaceValues /\ r.frozen \in BOOLEAN
        /\ r.changeLog \in RaceLogs /\ r.lastSuppressed \in 0..now
    BY DEF RaceRecords, RecordFields
  <2>4. \/ r.changeLog \in SUBSET log
        \/ \E l \in SUBSET log, t \in 0..now : r.changeLog = pruneWindow(Logged(l, t), t)
    BY <2>3 DEF RaceLogs
  <2> HIDE DEF log
  <2>5. \A l \in SUBSET log : l \in SUBSET Change /\ IsFiniteSet(l)
    BY <2>2, FS_Subset
  <2>6. r.changeLog \subseteq Change /\ IsFiniteSet(r.changeLog)
    <3>1. CASE r.changeLog \in SUBSET log
      BY <2>5, <3>1
    <3>2. CASE \E l \in SUBSET log, t \in 0..now :
                  r.changeLog = pruneWindow(Logged(l, t), t)
      <4>1. PICK l \in SUBSET log, t \in 0..now :
                  r.changeLog = pruneWindow(Logged(l, t), t)
        BY <3>2
      <4>2. t \in Nat
        BY <2>1
      <4> QED BY <2>5, <4>1, <4>2, LoggedFacts
    <3> QED BY <2>4, <3>1, <3>2
  <2> QED BY <1>1, <2>3, <2>6 DEF RecordOK
<1> QED BY <1>1, <1>2

LEMMA EnterDamperFacts ==
    ASSUME Typed, NEW q \in Queries, EnterDamper(q)
    PROVE  /\ DOMAIN query' = Queries
           /\ \A p \in Queries \ {q} :
                 /\ query'[p] \in {query[p], [query[p] EXCEPT !.raced = TRUE]}
                 /\ query[p].pc # "damping" => query'[p] = query[p]
           /\ query[q].pc = "damp"
           /\ \E b \in BOOLEAN :
                 /\ query'[q] = [query[q] EXCEPT !.pc = "damping", !.raced = b]
                 /\ b = (InDamper # {})
           /\ UNCHANGED <<localVars, world, bundle, now, rs, activeKeys>>
<1> DEFINE b == InDamper # {}
           f(p) == IF p = q THEN [query[q] EXCEPT !.pc = "damping", !.raced = b]
                   ELSE IF p \in InDamper THEN [query[p] EXCEPT !.raced = TRUE]
                   ELSE query[p]
<1>1. query' = [p \in Queries |-> f(p)] /\ b \in BOOLEAN
  BY DEF EnterDamper
<1>2. DOMAIN query' = Queries /\ \A p \in Queries : query'[p] = f(p)
  BY <1>1
<1>3. f(q) = [query[q] EXCEPT !.pc = "damping", !.raced = b]
  OBVIOUS
<1> HIDE DEF f
<1>4. query'[q] = [query[q] EXCEPT !.pc = "damping", !.raced = b]
  BY <1>2, <1>3
<1>5. \A p \in Queries \ {q} :
         /\ query'[p] \in {query[p], [query[p] EXCEPT !.raced = TRUE]}
         /\ query[p].pc # "damping" => query'[p] = query[p]
  <2> TAKE p \in Queries \ {q}
  <2>1. query'[p] = f(p)
    BY <1>2
  <2>2. /\ f(p) \in {query[p], [query[p] EXCEPT !.raced = TRUE]}
        /\ query[p].pc # "damping" => f(p) = query[p]
    BY DEF f, InDamper
  <2> QED BY <2>1, <2>2
<1>6. /\ query[q].pc = "damp"
      /\ UNCHANGED <<localVars, world, bundle, now, rs, activeKeys>>
  BY DEF EnterDamper
<1> QED BY <1>1, <1>2, <1>4, <1>5, <1>6

\* The locals that only the damper and the machine change are free.
LEMMA RacedTyped ==
    ASSUME NEW w, NEW m, QueryTyped(w, m), NEW b \in BOOLEAN
    PROVE  /\ QueryTyped(w, [m EXCEPT !.raced = b])
           /\ m.pc = "damp" => QueryTyped(w, [m EXCEPT !.pc = "damping", !.raced = b])
<1>1. ASSUME NEW n, SameQuery(m, n), n.at = m.at, n.viable = m.viable, n.forced = m.forced,
             n.prev = m.prev, n.rcode = m.rcode, n.served = m.served, n.raced \in BOOLEAN,
             n.pc = m.pc \/ (m.pc = "damp" /\ n.pc = "damping")
      PROVE  QueryTyped(w, n)
  <2>1. LocalsTyped(w, n)
    BY <1>1 DEF QueryTyped, LocalsTyped, SameQuery, QueryPcs
  <2>2. IndicesTyped(n)
    BY <1>1 DEF QueryTyped, IndicesTyped, SameQuery, Busy, HasCandidates
  <2>3. Stands(n)
    BY <1>1 DEF QueryTyped, Stands, SameQuery, IsOver
  <2> QED BY <2>1, <2>2, <2>3 DEF QueryTyped
<1>2. DOMAIN m = QueryFields
  BY DEF QueryTyped, LocalsTyped
<1>3. QueryTyped(w, [m EXCEPT !.raced = b])
  <2> DEFINE n == [m EXCEPT !.raced = b]
  <2>1. /\ SameQuery(m, n) /\ n.at = m.at /\ n.viable = m.viable /\ n.forced = m.forced
        /\ n.prev = m.prev /\ n.rcode = m.rcode /\ n.served = m.served
        /\ n.raced = b /\ n.pc = m.pc
    BY <1>2 DEF SameQuery, QueryFields
  <2> HIDE DEF n
  <2>2. QueryTyped(w, n)
    BY <1>1, <2>1
  <2> QED BY <2>2 DEF n
<1>4. ASSUME m.pc = "damp"
      PROVE  QueryTyped(w, [m EXCEPT !.pc = "damping", !.raced = b])
  <2> DEFINE n == [m EXCEPT !.pc = "damping", !.raced = b]
  <2>1. /\ SameQuery(m, n) /\ n.at = m.at /\ n.viable = m.viable /\ n.forced = m.forced
        /\ n.prev = m.prev /\ n.rcode = m.rcode /\ n.served = m.served
        /\ n.raced = b /\ n.pc = "damping"
    BY <1>2 DEF SameQuery, QueryFields
  <2> HIDE DEF n
  <2>2. QueryTyped(w, n)
    BY <1>1, <1>4, <2>1
  <2> QED BY <2>2 DEF n
<1> QED BY <1>3, <1>4

\* What a query gets from the damper.
LEMMA LeaveDamperFacts ==
    ASSUME Typed, NEW q \in Queries, LeaveDamper(q)
    PROVE  /\ query[q].pc = "damping"
           /\ UNCHANGED <<localVars, world, bundle, now, activeKeys>>
           /\ RecordOK(rs', now)
           /\ \E v, n :
                 /\ query' = [query EXCEPT ![q] = n] /\ QueryTyped(world, n)
                 /\ n = [query[q] EXCEPT !.pc = "record", !.served = v]
                 /\ ~query[q].raced =>
                       /\ v = rs'.served
                       /\ v # Union(q) => rs # NoRecord /\ v = rs.served
                                          /\ ~query[q].forced /\ rs'.frozen
<1> DEFINE m == query[q]
<1>1. m.pc = "damping" /\ UNCHANGED <<localVars, world, bundle, now, activeKeys>>
  BY DEF LeaveDamper
<1>2. QueryTyped(world, m) /\ DOMAIN m = QueryFields /\ m.forced \in BOOLEAN /\ now \in Nat
  BY EvaluatorAssumption DEF Typed, QueryTyped, LocalsTyped
<1>3. DOMAIN Union(q) # {}
  BY <1>1, UnionFacts
<1>4. ASSUME NEW v, DOMAIN v # {},
             query' = [query EXCEPT ![q].pc = "record", ![q].served = v]
      PROVE  \E n : /\ query' = [query EXCEPT ![q] = n] /\ QueryTyped(world, n)
                    /\ n = [m EXCEPT !.pc = "record", !.served = v]
  <2> DEFINE n == [m EXCEPT !.pc = "record", !.served = v]
  <2>1. query' = [query EXCEPT ![q] = n]
    BY <1>4
  <2>2. /\ SameQuery(m, n) /\ n.at = m.at /\ n.viable = m.viable /\ n.forced = m.forced
        /\ n.prev = m.prev /\ n.rcode = m.rcode /\ n.served = v
        /\ n.raced = m.raced /\ n.pc = "record"
    BY <1>2 DEF SameQuery, QueryFields
  <2>3. n = [m EXCEPT !.pc = "record", !.served = v]
    OBVIOUS
  <2> HIDE DEF n
  <2>4. LocalsTyped(world, n)
    BY <1>2, <2>2 DEF QueryTyped, LocalsTyped, SameQuery, QueryPcs
  <2>5. IndicesTyped(n)
    BY <1>1, <1>2, <2>2 DEF QueryTyped, IndicesTyped, SameQuery, Busy, HasCandidates
  <2>6. Stands(n)
    BY <1>1, <1>2, <1>4, <2>2 DEF QueryTyped, Stands, SameQuery, IsOver
  <2> QED BY <2>1, <2>3, <2>4, <2>5, <2>6 DEF QueryTyped
<1>5. CASE m.raced
  <2>1. PICK v \in RaceValues :
               query' = [query EXCEPT ![q].pc = "record", ![q].served = v]
    BY <1>5 DEF LeaveDamper
  <2>2. RecordOK(rs', now)
    BY <1>5, RaceFacts DEF LeaveDamper
  <2>3. DOMAIN v # {}
    BY RaceFacts
  <2>4. PICK n : /\ query' = [query EXCEPT ![q] = n] /\ QueryTyped(world, n)
                 /\ n = [m EXCEPT !.pc = "record", !.served = v]
    BY <1>4, <2>1, <2>3
  <2> QED BY <1>1, <1>5, <2>2, <2>4
<1>6. CASE ~m.raced
  <2>1. /\ rs' = Evaluated(q)
        /\ query' = [query EXCEPT ![q].pc = "record", ![q].served = rs'.served]
    BY <1>6 DEF LeaveDamper
  <2>2. /\ RecordOK(rs', now)
        /\ rs'.served # Union(q) => rs # NoRecord /\ rs'.served = rs.served
                                    /\ ~m.forced /\ rs'.frozen
    <3>1. CASE rs = NoRecord
      <4>1. rs' = NewRecord(Union(q))
        BY <2>1, <3>1 DEF Evaluated
      <4> QED BY <1>2, <1>3, <4>1, NewRecordFacts
    <3>2. CASE rs # NoRecord
      <4>1. rs' = Evaluate(rs, Union(q), m.forced, now) /\ RecordOK(rs, now)
        BY <2>1, <3>2 DEF Evaluated, Typed
      <4> QED BY <1>2, <1>3, <3>2, <4>1, EvaluateFacts
    <3> QED BY <3>1, <3>2
  <2>3. DOMAIN rs'.served # {}
    BY <2>2 DEF RecordOK
  <2>4. PICK n : /\ query' = [query EXCEPT ![q] = n] /\ QueryTyped(world, n)
                 /\ n = [m EXCEPT !.pc = "record", !.served = rs'.served]
    BY <1>4, <2>1, <2>3
  <2> QED BY <1>1, <1>6, <2>2, <2>4
<1> QED BY <1>5, <1>6

LEMMA RecordActiveFacts ==
    ASSUME Typed, NEW q \in Queries, RecordActive(q)
    PROVE  /\ query[q].pc = "record"
           /\ UNCHANGED <<localVars, world, bundle, now, rs>>
           /\ activeKeys' \subseteq Keys
           /\ activeKeys' = IF query[q].served = Union(q)
                              THEN TargetKeys(query[q].rec, query[q].viable)
                              ELSE activeKeys
           /\ \E n : /\ query' = [query EXCEPT ![q] = n] /\ QueryTyped(world, n)
                     /\ Answered(query[q], n)
                     /\ DOMAIN n.answers \subseteq DOMAIN query[q].served
<1> DEFINE m == query[q]
<1>1. /\ m.pc = "record" /\ UNCHANGED <<localVars, world, bundle, now, rs>>
      /\ activeKeys' = IF m.served = Union(q) THEN TargetKeys(m.rec, m.viable)
                                              ELSE activeKeys
      /\ ReplyA(q, m, m.served)
  BY DEF RecordActive
<1>2. QueryTyped(world, m) /\ DOMAIN m = QueryFields /\ world \in Worlds
  BY DEF Typed, QueryTyped, LocalsTyped
<1>3. activeKeys' \subseteq Keys
  <2>1. HasCandidates(m) /\ \A i \in m.viable : i \in Indices(m.rec)
    BY <1>1, <1>2 DEF QueryTyped, IndicesTyped, Busy
  <2>2. TargetKeys(m.rec, m.viable) \subseteq Keys
    BY <1>2, <2>1, CandidatesTyped DEF TargetKeys, KeyAt
  <2> QED BY <1>1, <2>2 DEF Typed
<1>4. PICK n : /\ query' = [query EXCEPT ![q] = n]
               /\ Answered(m, n) /\ n.rcode \in {"SERVFAIL", "NOERROR"}
               /\ DOMAIN n.answers \subseteq DOMAIN m.served
  BY <1>1, <1>2, ReplyAFacts
<1>5. n.viable # {} /\ n.rcode \in Rcodes
  BY <1>1, <1>2, <1>4 DEF QueryTyped, Stands, Answered, Rcodes
<1>6. QueryTyped(world, n)
  BY <1>2, <1>4, <1>5, AnsweredTyped
<1> QED BY <1>1, <1>3, <1>4, <1>6

\* What a check result does to a query under way: d are the candidates that
\* are now effectively unhealthy, K the keys that had no result before.
Observed(m, n, d, K) ==
    /\ DOMAIN n = QueryFields
    /\ n.pc = m.pc /\ n.rec = m.rec /\ n.prev = m.prev /\ n.at = m.at
    /\ n.viable = m.viable /\ n.forced = m.forced /\ n.raced = m.raced
    /\ n.served = m.served /\ n.rcode = m.rcode /\ n.answers = m.answers
    /\ n.down = m.down \cap d /\ n.up = m.up \ d /\ n.first = m.first \cup K

Firsts(k) == IF ready[k] THEN {} ELSE {k}

LEMMA ObservedFacts ==
    ASSUME NEW m, DOMAIN m = QueryFields, NEW d, NEW k, NEW first,
           first = IF ready[k] THEN m.first ELSE m.first \cup {k}
    PROVE  Observed(m, [m EXCEPT !.down = @ \cap d, !.up = @ \ d, !.first = first],
                    d, Firsts(k))
<1>1. first = m.first \cup Firsts(k)
  BY DEF Firsts
<1> QED BY <1>1 DEF Observed, QueryFields

LEMMA CheckResultFacts ==
    ASSUME Typed, NEW k \in Keys, NEW h \in HealthValues, CheckResult(k, h)
    PROVE  /\ UNCHANGED <<world, bundle, now, rs, activeKeys>> /\ LocalTypeOK'
           /\ state' = [state EXCEPT ![k] = h] /\ ready' = [ready EXCEPT ![k] = TRUE]
           /\ h # Unknown \/ h = state[k]
           /\ DOMAIN query' = Queries
           /\ \A q \in Queries :
                 IF Busy(query[q])
                   THEN Observed(query[q], query'[q],
                                 Down(query[q].rec, state', ready'), Firsts(k))
                   ELSE query'[q] = query[q]
<1>1. /\ UNCHANGED <<world, bundle, now, rs, activeKeys>>
      /\ state' = [state EXCEPT ![k] = h] /\ ready' = [ready EXCEPT ![k] = TRUE]
      /\ h \in {Healthy, Unhealthy, state[k]}
  BY DEF CheckResult, Observe
<1>2. LocalTypeOK'
  BY <1>1 DEF Typed, LocalTypeOK
<1>3. h # Unknown \/ h = state[k]
  BY <1>1, Vocabulary
<1> DEFINE d(q) == Down(query[q].rec, state', ready')
           first(q) == IF ready[k] THEN query[q].first ELSE query[q].first \cup {k}
           n(q) == [query[q] EXCEPT !.down = @ \cap d(q), !.up = @ \ d(q),
                                    !.first = first(q)]
           f(q) == IF ~Active(q) THEN query[q] ELSE n(q)
<1>4. query' = [q \in Queries |-> f(q)]
  BY DEF CheckResult
<1>5. ASSUME NEW q \in Queries
      PROVE  Observed(query[q], n(q), d(q), Firsts(k))
  <2>1. DOMAIN query[q] = QueryFields
    BY DEF Typed, QueryTyped, LocalsTyped
  <2> HIDE DEF d
  <2> QED BY <2>1, ObservedFacts
<1> HIDE DEF d, n
<1>6. \A q \in Queries : IF Busy(query[q]) THEN Observed(query[q], f(q), d(q), Firsts(k))
                                           ELSE f(q) = query[q]
  BY <1>5 DEF Active, Busy
<1> HIDE DEF f
<1>7. DOMAIN query' = Queries /\ \A q \in Queries : query'[q] = f(q)
  BY <1>4
<1>8. \A q \in Queries :
         IF Busy(query[q]) THEN Observed(query[q], query'[q], d(q), Firsts(k))
                           ELSE query'[q] = query[q]
  BY <1>6, <1>7
<1> QED BY <1>1, <1>2, <1>3, <1>7, <1>8 DEF d

LEMMA ObservedTyped ==
    ASSUME NEW w, NEW m, QueryTyped(w, m), NEW n, NEW d, NEW K \in SUBSET Keys,
           Observed(m, n, d, K)
    PROVE  QueryTyped(w, n)
<1>1. LocalsTyped(w, n)
  BY DEF QueryTyped, LocalsTyped, Observed
<1>2. IndicesTyped(n)
  BY DEF QueryTyped, IndicesTyped, Busy, HasCandidates, Observed
<1>3. Stands(n)
  BY DEF QueryTyped, Stands, IsOver, Observed
<1> QED BY <1>1, <1>2, <1>3 DEF QueryTyped

LEMMA RaceFaultFacts ==
    ASSUME Typed, RaceFault
    PROVE  /\ \E q \in Queries : query[q].raced
           /\ state' = [k \in Keys |-> Unknown] /\ ready' = [k \in Keys |-> FALSE]
           /\ LocalTypeOK' /\ rs' = NoRecord /\ activeKeys' = {}
           /\ DOMAIN query' = Queries /\ \A q \in Queries : query'[q] = Idle
           /\ UNCHANGED <<world, bundle, now>>
<1>1. /\ \E q \in Queries : query[q].raced
      /\ state' = [k \in Keys |-> Unknown] /\ ready' = [k \in Keys |-> FALSE]
      /\ rs' = NoRecord /\ activeKeys' = {} /\ query' = [q \in Queries |-> Idle]
      /\ UNCHANGED <<world, bundle, now>>
  BY DEF RaceFault, InDamper
<1>2. LocalTypeOK'
  BY <1>1, Vocabulary DEF LocalTypeOK
<1>3. DOMAIN query' = Queries /\ \A q \in Queries : query'[q] = Idle
  BY <1>1
<1> QED BY <1>1, <1>2, <1>3

LEMMA TypedStep == Typed /\ [Next]_vars => Typed'
<1> SUFFICES ASSUME Typed, [Next]_vars
             PROVE  Typed'
  OBVIOUS
<1>0. now \in Nat /\ world \in Worlds /\ world.last \in Nat
  BY EvaluatorAssumption DEF Typed
<1>1. ASSUME NEW q \in Queries, QueryStep(q)
      PROVE  Typed'
  <2>1. ASSUME NEW kind \in QueryKinds, ServeDNS(q, kind)
        PROVE  Typed'
    <3>1. PICK n : query' = [query EXCEPT ![q] = n] /\ Begun(n)
      BY <2>1, ServeDNSFacts
    <3>2. UNCHANGED <<localVars, world, bundle, now, rs, activeKeys>>
      BY <2>1, ServeDNSFacts
    <3> QED BY <3>1, <3>2, PutTyped DEF Typed, Begun
  <2>2. CASE ReadActive(q)
    <3>1. UNCHANGED <<localVars, world, bundle, now, rs, activeKeys>>
      BY <2>2 DEF ReadActive
    <3> QED BY <2>2, <3>1, ReadActiveFacts, PutTyped DEF Typed
  <2>3. CASE ReadState(q) \/ ReadReady(q)
    BY <2>3, TurnFacts, PutTyped DEF Typed
  <2>4. CASE EnterDamper(q)
    <3>1. ASSUME NEW p \in Queries \ {q}
          PROVE  QueryTyped(world, query'[p])
      <4>1. query'[p] \in {query[p], [query[p] EXCEPT !.raced = TRUE]}
        BY <2>4, EnterDamperFacts
      <4>2. QueryTyped(world, query[p])
        BY DEF Typed
      <4>3. QueryTyped(world, [query[p] EXCEPT !.raced = TRUE])
        BY <4>2, RacedTyped
      <4> QED BY <4>1, <4>2, <4>3
    <3>2. QueryTyped(world, query'[q])
      <4>1. PICK b \in BOOLEAN :
                   query'[q] = [query[q] EXCEPT !.pc = "damping", !.raced = b]
        BY <2>4, EnterDamperFacts
      <4>2. QueryTyped(world, query[q]) /\ query[q].pc = "damp"
        BY <2>4, EnterDamperFacts DEF Typed
      <4>3. QueryTyped(world, [query[q] EXCEPT !.pc = "damping", !.raced = b])
        BY <4>2, RacedTyped
      <4> QED BY <4>1, <4>3
    <3>3. DOMAIN query' = Queries
          /\ UNCHANGED <<localVars, world, bundle, now, rs, activeKeys>>
      BY <2>4, EnterDamperFacts
    <3> QED BY <3>1, <3>2, <3>3 DEF Typed, LocalTypeOK, localVars
  <2>5. CASE LeaveDamper(q)
    <3>1. RecordOK(rs', now) /\ UNCHANGED <<localVars, world, bundle, now, activeKeys>>
      BY <2>5, LeaveDamperFacts
    <3>2. PICK n : query' = [query EXCEPT ![q] = n] /\ QueryTyped(world, n)
      BY <2>5, LeaveDamperFacts
    <3> QED BY <3>1, <3>2, PutTyped DEF Typed
  <2>6. CASE RecordActive(q)
    BY <2>6, RecordActiveFacts, PutTyped DEF Typed
  <2> QED BY <1>1, <2>1, <2>2, <2>3, <2>4, <2>5, <2>6 DEF QueryStep
<1>2. ASSUME NEW k \in Keys, NEW h \in HealthValues, CheckResult(k, h)
      PROVE  Typed'
  <2>1. Firsts(k) \subseteq Keys
    BY DEF Firsts
  <2>2. ASSUME NEW q \in Queries
        PROVE  QueryTyped(world, query'[q])
    <3>1. QueryTyped(world, query[q])
      BY DEF Typed
    <3>2. \/ query'[q] = query[q]
          \/ Observed(query[q], query'[q], Down(query[q].rec, state', ready'), Firsts(k))
      BY <1>2, CheckResultFacts
    <3> QED BY <2>1, <3>1, <3>2, ObservedTyped
  <2> QED BY <1>2, <2>2, CheckResultFacts DEF Typed
<1>3. ASSUME NEW b \in world.bundles, Swap(b)
      PROVE  Typed'
  BY <1>3 DEF Swap, Typed, LocalTypeOK, localVars
<1>4. CASE Tick
  <2>1. now' \in 0..world.last /\ 0..now \subseteq 0..now'
    BY <1>0, <1>4 DEF Tick
  <2>2. rs' = NoRecord \/ RecordOK(rs', now')
    BY <1>4, <2>1 DEF Tick, Typed, RecordOK
  <2> QED BY <1>4, <2>1, <2>2 DEF Tick, Typed, LocalTypeOK, localVars
<1>5. CASE RaceFault
  BY <1>5, RaceFaultFacts, IdleTyped DEF Typed
<1>6. CASE UNCHANGED vars
  BY <1>6 DEF vars, Typed, LocalTypeOK
<1> QED BY <1>1, <1>2, <1>3, <1>4, <1>5, <1>6 DEF Next

LEMMA TypedInit == Init => Typed
<1> SUFFICES ASSUME Init
             PROVE  Typed
  OBVIOUS
<1>1. world \in Worlds /\ world.last \in Nat /\ now = 0
  BY EvaluatorAssumption DEF Init
<1>2. LocalTypeOK
  BY Vocabulary DEF Init, LocalInit, LocalTypeOK
<1>3. DOMAIN query = Queries /\ \A q \in Queries : QueryTyped(world, query[q])
  BY IdleTyped DEF Init
<1> QED BY <1>1, <1>2, <1>3 DEF Init, Typed

LEMMA TypedHolds == Spec => []Typed
BY TypedInit, TypedStep, PTL DEF Spec

LEMMA TypedImplies == Typed => TypeOK
<1> SUFFICES ASSUME Typed
             PROVE  TypeOK
  OBVIOUS
<1>1. rs = NoRecord \/ /\ rs.changeLog \subseteq Change /\ rs.frozen \in BOOLEAN
                       /\ rs.lastSuppressed \in 0..now /\ DOMAIN rs.served # {}
  BY DEF Typed, RecordOK
<1>2. ASSUME NEW q \in Queries
      PROVE  /\ query[q].pc \in QueryPcs /\ query[q].rcode \in Rcodes
             /\ query[q].rec \in world.bundles \cup {NoRecord}
             /\ query[q].forced \in BOOLEAN /\ query[q].raced \in BOOLEAN
             /\ query[q].prev \cup query[q].first \subseteq Keys
  <2>1. LocalsTyped(world, query[q])
    BY DEF Typed, QueryTyped
  <2> QED BY <2>1 DEF LocalsTyped
<1> QED BY <1>1, <1>2 DEF Typed, TypeOK

\* The type of the responder's state, whatever the queries, bundles and
\* check results: ServeDNS, Resolve and Damper.Evaluate keep it, torn
\* damper records included.
THEOREM TypeCorrect == Spec => []TypeOK
BY TypedHolds, TypedImplies, PTL

-----------------------------------------------------------------------------
(* What a walk finds out about its candidates while their health changes.  *)

\* A health is known only of a key that has had a result.
HealthNeedsResult == \A k \in Keys : state[k] # Unknown => ready[k]

\* down and up are what they are said to be (at least for this instant).
Tracks(st, rd, m) ==
    Busy(m) => /\ \A i \in m.down : i \in Down(m.rec, st, rd)
               /\ \A i \in m.up : i \notin Down(m.rec, st, rd)

\* Between State and Ready: a candidate that was down all along has no result
\* yet, or has had its first since the query began.
BetweenReads(rd, m) ==
    m.pc = "ready" =>
        /\ KeyAt(m, m.at) \in m.rec.localChecks
        /\ m.at \in m.down => ~rd[KeyAt(m, m.at)] \/ KeyAt(m, m.at) \in m.first

\* The candidates behind the walk.
Walked(m) ==
    /\ \A i \in m.viable : i \in m.down => KeyAt(m, i) \in m.first
    /\ HasCandidates(m) =>
          \A j \in Indices(m.rec) : j < m.at /\ j \notin m.viable /\ j \in m.up =>
              m.rec.candidates[j].answers = {}
    /\ Busy(m) =>
          \A j \in Indices(m.rec) :
              (j < m.at /\ j \in m.down /\ KeyAt(m, j) \notin m.first
                     /\ KeyAt(m, j) \in m.prev) => m.forced

Sound(st, rd, m) == Tracks(st, rd, m) /\ BetweenReads(rd, m) /\ Walked(m)

WalksSound ==
    /\ HealthNeedsResult
    /\ \A q \in Queries : Sound(state, ready, query[q])

LEMMA IdleSound == \A st, rd : Sound(st, rd, Idle)
<1>1. /\ Idle.pc = "idle" /\ Idle.viable = {} /\ Idle.up = {} /\ Idle.down = {}
  BY DEF Idle
<1> HIDE DEF Idle
<1> QED BY <1>1 DEF Sound, Tracks, BetweenReads, Walked, Busy

\* The first candidate is index one.
LEMMA NoneBefore ==
    ASSUME NEW w \in Worlds, NEW m, QueryTyped(w, m), HasCandidates(m),
           NEW j \in Indices(m.rec)
    PROVE  j \in Nat /\ ~(j < 1)
BY CandidatesTyped DEF IsCandidates, Indices

LEMMA BegunSound ==
    ASSUME Typed, NEW n, Begun(n)
    PROVE  Sound(state, ready, n)
<1>1. world \in Worlds
  BY DEF Typed
<1>2. Tracks(state, ready, n) /\ BetweenReads(ready, n)
  BY DEF Begun, Tracks, BetweenReads, Busy
<1>3. HasCandidates(n) => \A j \in Indices(n.rec) : ~(j < n.at)
  BY <1>1, NoneBefore DEF Begun
<1>4. Busy(n) => HasCandidates(n)
  BY DEF Begun, Busy
<1>5. Walked(n)
  <2>1. \A i \in n.viable : i \in n.down => KeyAt(n, i) \in n.first
    BY DEF Begun
  <2>2. HasCandidates(n) =>
          \A j \in Indices(n.rec) : j < n.at /\ j \notin n.viable /\ j \in n.up =>
              n.rec.candidates[j].answers = {}
    BY <1>3
  <2>3. Busy(n) =>
          \A j \in Indices(n.rec) :
              (j < n.at /\ j \in n.down /\ KeyAt(n, j) \notin n.first
                     /\ KeyAt(n, j) \in n.prev) => n.forced
    BY <1>3, <1>4
  <2> QED BY <2>1, <2>2, <2>3 DEF Walked
<1> QED BY <1>2, <1>5 DEF Sound

LEMMA AnsweredSound ==
    ASSUME NEW st, NEW rd, NEW m, Sound(st, rd, m), NEW n, Answered(m, n)
    PROVE  Sound(st, rd, n)
BY DEF Sound, Tracks, BetweenReads, Walked, Busy, HasCandidates, KeyAt, Answered, SameQuery

\* A health read of the machine is the one of that instant.
LEMMA ReadIsSound ==
    ASSUME Typed, HealthNeedsResult, NEW m, QueryTyped(world, m),
           Sound(state, ready, m), m.pc \in {"walk", "ready"}, NEW h, HealthRead(m, h)
    PROVE  /\ h # Unhealthy /\ m.at \in m.down => KeyAt(m, m.at) \in m.first
           /\ h = Unhealthy => m.at \notin m.up
<1> DEFINE k == KeyAt(m, m.at)
           current == Effective(m.rec, m.at, state[k], ready[k])
<1>1. k \in Keys /\ m.at \in Indices(m.rec)
  BY TurnTyped DEF Typed
<1>2. m.at \in Down(m.rec, state, ready) <=> current = Unhealthy
  BY <1>1 DEF Down, KeyAt
<1>3. /\ m.at \in m.down => current = Unhealthy
      /\ m.at \in m.up => current # Unhealthy
  BY <1>2 DEF Sound, Tracks, Busy
<1>4. CASE m.pc = "walk"
  <2>1. h = current
    BY <1>4 DEF HealthRead, Effective, KeyAt
  <2> QED BY <1>3, <2>1
<1>5. CASE m.pc = "ready"
  <2>1. /\ k \in m.rec.localChecks
        /\ m.at \in m.down => ~ready[k] \/ k \in m.first
    BY <1>5 DEF Sound, BetweenReads
  <2>2. h = Effective(m.rec, m.at, Unknown, ready[k])
    BY <1>5 DEF HealthRead
  <2>3. CASE ready[k]
    <3>1. h = Unknown
      BY <2>1, <2>2, <2>3 DEF Effective, KeyAt
    <3> QED BY <2>1, <2>3, <3>1, Vocabulary
  <2>4. CASE ~ready[k]
    <3>1. state[k] = Unknown
      BY <1>1, <2>4 DEF HealthNeedsResult
    <3>2. h = current
      BY <2>2, <2>4, <3>1
    <3> QED BY <1>3, <3>2
  <2> QED BY <2>3, <2>4
<1> QED BY <1>4, <1>5

LEMMA JudgedSound ==
    ASSUME Typed, HealthNeedsResult, NEW m, QueryTyped(world, m),
           Sound(state, ready, m), m.pc \in {"walk", "ready"},
           NEW h, HealthRead(m, h), NEW n, Judged(m, h, n)
    PROVE  Sound(state, ready, n)
<1> DEFINE k == KeyAt(m, m.at)
           ok == h # Unhealthy /\ m.rec.candidates[m.at].answers # {}
<1>1. /\ h # Unhealthy /\ m.at \in m.down => k \in m.first
      /\ h = Unhealthy => m.at \notin m.up
  BY ReadIsSound
<1>2. /\ n.rec = m.rec /\ n.down = m.down /\ n.up = m.up /\ n.first = m.first
      /\ n.at = m.at + 1
      /\ n.viable = IF ok THEN m.viable \cup {m.at} ELSE m.viable
  BY DEF Judged, SameQuery
<1>3. Busy(n) => /\ n.prev = m.prev
                 /\ n.forced = (m.forced \/ (k \in m.prev /\ h = Unhealthy))
  BY DEF Judged, Goes, Busy, KeyAt
<1>4. Busy(m) /\ HasCandidates(m) /\ HasCandidates(n) /\ m.at \in Nat
  BY <1>2 DEF Busy, HasCandidates, QueryTyped, IndicesTyped, LocalsTyped
<1>5. \A j \in Indices(m.rec) : j < m.at + 1 => j < m.at \/ j = m.at
  <2> TAKE j \in Indices(m.rec)
  <2>1. j \in Nat
    BY <1>4, NoneBefore DEF Typed
  <2> QED BY <1>4, <2>1
<1>6. n.pc # "ready"
  BY DEF Judged, Proceeds
<1>7. Tracks(state, ready, n) /\ BetweenReads(ready, n)
  BY <1>2, <1>4, <1>6 DEF Sound, Tracks, BetweenReads
<1>8. \A i \in n.viable : i \in n.down => KeyAt(n, i) \in n.first
  BY <1>1, <1>2 DEF Sound, Walked, KeyAt
<1>9. \A j \in Indices(n.rec) : j < n.at /\ j \notin n.viable /\ j \in n.up =>
          n.rec.candidates[j].answers = {}
  BY <1>1, <1>2, <1>4, <1>5 DEF Sound, Walked
<1>10. ASSUME Busy(n), NEW j \in Indices(n.rec), j < n.at, j \in n.down,
              KeyAt(n, j) \notin n.first, KeyAt(n, j) \in n.prev
       PROVE  n.forced
  <2>1. KeyAt(m, j) = KeyAt(n, j)
    BY <1>2 DEF KeyAt
  <2>2. CASE j < m.at
    <3>1. m.forced
      BY <1>2, <1>3, <1>4, <1>10, <2>1, <2>2 DEF Sound, Walked
    <3> QED BY <1>3, <1>10, <3>1
  <2>3. CASE j = m.at
    <3>1. h = Unhealthy /\ k \in m.prev
      BY <1>1, <1>2, <1>3, <1>10, <2>1, <2>3
    <3> QED BY <1>3, <1>10, <3>1
  <2> QED BY <1>2, <1>5, <1>10, <2>2, <2>3
<1>11. Walked(n)
  BY <1>8, <1>9, <1>10 DEF Walked
<1> QED BY <1>7, <1>11 DEF Sound

LEMMA AsksSound ==
    ASSUME Typed, HealthNeedsResult, NEW m, QueryTyped(world, m),
           Sound(state, ready, m), NEW n, Asks(m, n)
    PROVE  Sound(state, ready, n)
<1> DEFINE k == KeyAt(m, m.at)
<1>1. m.pc = "walk" /\ k \in m.rec.localChecks /\ state[k] = Unknown
  BY DEF Asks
<1>2. /\ n.rec = m.rec /\ n.down = m.down /\ n.up = m.up /\ n.first = m.first
      /\ n.at = m.at /\ n.viable = m.viable /\ n.prev = m.prev /\ n.forced = m.forced
      /\ n.pc = "ready"
  BY DEF Asks, QueryTyped, LocalsTyped, QueryFields
<1>3. Busy(m) /\ Busy(n)
  BY <1>1, <1>2 DEF Busy
<1>4. Tracks(state, ready, n)
  BY <1>2, <1>3 DEF Sound, Tracks
<1>5. Walked(n)
  BY <1>2, <1>3 DEF Sound, Walked, KeyAt, HasCandidates
<1>6. m.at \in m.down => ~ready[k]
  <2> SUFFICES ASSUME m.at \in m.down, ready[k]
               PROVE  FALSE
    OBVIOUS
  <2>1. m.at \in Down(m.rec, state, ready)
    BY <1>3 DEF Sound, Tracks
  <2>2. Effective(m.rec, m.at, state[k], ready[k]) = Unhealthy
    BY <2>1 DEF Down, KeyAt
  <2>3. Effective(m.rec, m.at, state[k], ready[k]) = Unknown
    BY <1>1 DEF Effective, KeyAt
  <2> QED BY <2>2, <2>3, Vocabulary
<1>7. BetweenReads(ready, n)
  BY <1>1, <1>2, <1>6 DEF BetweenReads, KeyAt
<1> QED BY <1>4, <1>5, <1>7 DEF Sound

\* A check result keeps it: down and up shrink with what is down now, and a
\* key's first result is noted.
LEMMA ObservedSound ==
    ASSUME Typed, NEW m, QueryTyped(world, m), Sound(state, ready, m), NEW k \in Keys,
           ready' = [ready EXCEPT ![k] = TRUE],
           NEW n, Observed(m, n, Down(m.rec, state', ready'), Firsts(k))
    PROVE  Sound(state', ready', n)
<1> DEFINE d == Down(m.rec, state', ready')
<1>1. /\ n.rec = m.rec /\ n.at = m.at /\ n.viable = m.viable /\ n.prev = m.prev
      /\ n.forced = m.forced /\ n.pc = m.pc
      /\ n.down = m.down \cap d /\ n.up = m.up \ d /\ n.first = m.first \cup Firsts(k)
  BY DEF Observed
<1> HIDE DEF d
<1>2. Tracks(state', ready', n)
  <2>1. d = Down(n.rec, state', ready')
    BY <1>1 DEF d
  <2> QED BY <1>1, <2>1 DEF Tracks
<1>3. Walked(n)
  <2>1. Busy(n) => Busy(m)
    BY <1>1 DEF Busy
  <2> QED BY <1>1, <2>1 DEF Sound, Walked, KeyAt, HasCandidates
<1>4. BetweenReads(ready', n)
  <2> SUFFICES ASSUME m.pc = "ready"
               PROVE  /\ KeyAt(n, n.at) \in n.rec.localChecks
                      /\ n.at \in n.down =>
                            ~ready'[KeyAt(n, n.at)] \/ KeyAt(n, n.at) \in n.first
    BY <1>1 DEF BetweenReads
  <2> DEFINE l == KeyAt(m, m.at)
  <2>1. l = KeyAt(n, n.at) /\ l \in Keys
    BY <1>1, TurnTyped DEF KeyAt, Typed
  <2>2. /\ l \in m.rec.localChecks
        /\ m.at \in m.down => ~ready[l] \/ l \in m.first
    BY DEF Sound, BetweenReads
  <2>3. ~ready[l] => ~ready'[l] \/ l \in Firsts(k)
    BY <2>1 DEF Firsts, Typed, LocalTypeOK
  <2> QED BY <1>1, <2>1, <2>2, <2>3
<1> QED BY <1>2, <1>3, <1>4 DEF Sound

\* Steps that leave the walk alone: into the damper and out of it.
LEMMA BesidesSound ==
    ASSUME NEW st, NEW rd, NEW m, Sound(st, rd, m), Busy(m), NEW n,
           n.rec = m.rec, n.down = m.down, n.up = m.up, n.first = m.first, n.at = m.at,
           n.viable = m.viable, n.prev = m.prev, n.forced = m.forced,
           n.pc # "ready"
    PROVE  Sound(st, rd, n)
BY DEF Sound, Tracks, BetweenReads, Walked, KeyAt, HasCandidates

LEMMA RestingSound ==
    ASSUME NEW st, NEW rd, NEW st2, NEW rd2, NEW m, Sound(st, rd, m), ~Busy(m)
    PROVE  Sound(st2, rd2, m)
BY DEF Sound, Tracks, BetweenReads, Busy

LEMMA PutSound ==
    ASSUME Typed, WalksSound, NEW q \in Queries, NEW n, Sound(state, ready, n),
           query' = [query EXCEPT ![q] = n], UNCHANGED localVars
    PROVE  WalksSound'
<1>1. HealthNeedsResult'
  BY DEF WalksSound, HealthNeedsResult, localVars
<1>2. ASSUME NEW p \in Queries
      PROVE  Sound(state', ready', query'[p])
  <2>1. query'[p] = n \/ query'[p] = query[p]
    BY DEF Typed
  <2> QED BY <2>1 DEF WalksSound, localVars
<1> QED BY <1>1, <1>2 DEF WalksSound

LEMMA SoundStep == Typed /\ WalksSound /\ [Next]_vars => WalksSound'
<1> SUFFICES ASSUME Typed, WalksSound, [Next]_vars
             PROVE  WalksSound'
  OBVIOUS
<1>0. /\ HealthNeedsResult
      /\ \A q \in Queries : QueryTyped(world, query[q]) /\ Sound(state, ready, query[q])
      /\ \A q \in Queries : DOMAIN query[q] = QueryFields
  BY DEF Typed, WalksSound, QueryTyped, LocalsTyped
<1>1. ASSUME NEW q \in Queries, QueryStep(q)
      PROVE  WalksSound'
  <2>1. ASSUME NEW kind \in QueryKinds, ServeDNS(q, kind)
        PROVE  WalksSound'
    <3>1. PICK n : query' = [query EXCEPT ![q] = n] /\ Begun(n)
      BY <2>1, ServeDNSFacts
    <3>2. UNCHANGED localVars
      BY <2>1, ServeDNSFacts
    <3>3. Sound(state, ready, n)
      BY <3>1, BegunSound
    <3> QED BY <3>1, <3>2, <3>3, PutSound
  <2>2. CASE ReadActive(q)
    <3>1. PICK n : /\ query' = [query EXCEPT ![q] = n] /\ QueryTyped(world, n)
                   /\ SameQuery(query[q], n) /\ Proceeds(n) /\ n.viable = {} /\ n.at = 1
      BY <2>2, ReadActiveFacts
    <3>2. UNCHANGED localVars /\ Busy(query[q])
      BY <2>2 DEF ReadActive, Busy
    <3>3. Tracks(state, ready, n)
      BY <1>0, <3>1, <3>2 DEF Sound, Tracks, SameQuery
    <3>4. BetweenReads(ready, n)
      BY <3>1 DEF BetweenReads, Proceeds
    <3>5. HasCandidates(n) /\ \A j \in Indices(n.rec) : ~(j < n.at)
      <4>1. HasCandidates(n)
        BY <1>0, <3>1, <3>2 DEF QueryTyped, IndicesTyped, SameQuery, HasCandidates
      <4> QED BY <3>1, <4>1, NoneBefore DEF Typed
    <3>6. Walked(n)
      BY <3>1, <3>5 DEF Walked
    <3> QED BY <3>1, <3>2, <3>3, <3>4, <3>6, PutSound DEF Sound
  <2>3. CASE ReadState(q) \/ ReadReady(q)
    <3>1. /\ query[q].pc \in {"walk", "ready"} /\ UNCHANGED localVars
      BY <2>3, TurnFacts
    <3>2. PICK n : /\ query' = [query EXCEPT ![q] = n] /\ QueryTyped(world, n)
                   /\ \/ Asks(query[q], n)
                      \/ \E h : HealthRead(query[q], h) /\ Judged(query[q], h, n)
      BY <2>3, TurnFacts
    <3>3. Sound(state, ready, n)
      BY <1>0, <3>1, <3>2, AsksSound, JudgedSound
    <3> QED BY <3>1, <3>2, <3>3, PutSound
  <2>4. CASE EnterDamper(q)
    <3>1. query[q].pc = "damp" /\ UNCHANGED localVars
      BY <2>4, EnterDamperFacts
    <3>2. ASSUME NEW p \in Queries
          PROVE  Sound(state, ready, query'[p])
      <4>1. CASE p = q
        <5>1. PICK b \in BOOLEAN :
                     query'[q] = [query[q] EXCEPT !.pc = "damping", !.raced = b]
          BY <2>4, EnterDamperFacts
        <5> DEFINE m == query[q]
                   n == [m EXCEPT !.pc = "damping", !.raced = b]
        <5>2. /\ n.rec = m.rec /\ n.down = m.down /\ n.up = m.up /\ n.first = m.first
              /\ n.at = m.at /\ n.viable = m.viable /\ n.prev = m.prev
              /\ n.forced = m.forced /\ n.pc = "damping"
          BY <1>0 DEF QueryFields
        <5>3. Sound(state, ready, m) /\ Busy(m)
          BY <1>0, <3>1 DEF Busy
        <5>4. n = query'[p]
          BY <4>1, <5>1
        <5> HIDE DEF m, n
        <5>5. n.pc # "ready"
          BY <5>2
        <5>6. Sound(state, ready, n)
          BY <5>2, <5>3, <5>5, BesidesSound
        <5> QED BY <5>4, <5>6
      <4>2. CASE p # q
        <5> DEFINE m == query[p]
                   n == [m EXCEPT !.raced = TRUE]
        <5>1. query'[p] \in {m, n}
          BY <2>4, <4>2, EnterDamperFacts
        <5>2. /\ n.rec = m.rec /\ n.down = m.down /\ n.up = m.up /\ n.first = m.first
              /\ n.at = m.at /\ n.viable = m.viable /\ n.prev = m.prev
              /\ n.forced = m.forced /\ n.pc = m.pc
          BY <1>0 DEF QueryFields
        <5>3. Sound(state, ready, m)
          BY <1>0
        <5> HIDE DEF m, n
        <5>4. Sound(state, ready, n)
          BY <5>2, <5>3
          DEF Sound, Tracks, BetweenReads, Walked, KeyAt, HasCandidates, Busy
        <5> QED BY <5>1, <5>3, <5>4
      <4> QED BY <4>1, <4>2
    <3> QED BY <1>0, <3>1, <3>2 DEF WalksSound, HealthNeedsResult, localVars
  <2>5. CASE LeaveDamper(q)
    <3>1. query[q].pc = "damping" /\ UNCHANGED localVars
      BY <2>5, LeaveDamperFacts
    <3>2. PICK v, n : /\ query' = [query EXCEPT ![q] = n]
                      /\ n = [query[q] EXCEPT !.pc = "record", !.served = v]
      BY <2>5, LeaveDamperFacts
    <3> DEFINE m == query[q]
    <3>3. /\ n.rec = m.rec /\ n.down = m.down /\ n.up = m.up /\ n.first = m.first
          /\ n.at = m.at /\ n.viable = m.viable /\ n.prev = m.prev
          /\ n.forced = m.forced /\ n.pc = "record"
      BY <1>0, <3>2 DEF QueryFields
    <3>4. Sound(state, ready, m) /\ Busy(m) /\ n.pc # "ready"
      BY <1>0, <3>1, <3>3 DEF Busy
    <3> HIDE DEF m
    <3>5. Sound(state, ready, n)
      BY <3>3, <3>4, BesidesSound
    <3> QED BY <3>1, <3>2, <3>5, PutSound
  <2>6. CASE RecordActive(q)
    <3>1. UNCHANGED localVars
      BY <2>6, RecordActiveFacts
    <3>2. PICK n : query' = [query EXCEPT ![q] = n] /\ Answered(query[q], n)
      BY <2>6, RecordActiveFacts
    <3>3. Sound(state, ready, n)
      BY <1>0, <3>2, AnsweredSound
    <3> QED BY <3>1, <3>2, <3>3, PutSound
  <2> QED BY <1>1, <2>1, <2>2, <2>3, <2>4, <2>5, <2>6 DEF QueryStep
<1>2. ASSUME NEW k \in Keys, NEW h \in HealthValues, CheckResult(k, h)
      PROVE  WalksSound'
  <2>1. /\ state' = [state EXCEPT ![k] = h] /\ ready' = [ready EXCEPT ![k] = TRUE]
    BY <1>2, CheckResultFacts
  <2>2. HealthNeedsResult'
    BY <1>0, <2>1 DEF HealthNeedsResult, Typed, LocalTypeOK
  <2>3. ASSUME NEW q \in Queries
        PROVE  Sound(state', ready', query'[q])
    <3>1. CASE Busy(query[q])
      <4>1. Observed(query[q], query'[q], Down(query[q].rec, state', ready'), Firsts(k))
        BY <1>2, <3>1, CheckResultFacts
      <4> QED BY <1>0, <2>1, <4>1, ObservedSound
    <3>2. CASE ~Busy(query[q])
      <4>1. query'[q] = query[q]
        BY <1>2, <3>2, CheckResultFacts
      <4> QED BY <1>0, <3>2, <4>1, RestingSound
    <3> QED BY <3>1, <3>2
  <2> QED BY <2>2, <2>3 DEF WalksSound
<1>3. CASE UNCHANGED <<localVars, query>>
  BY <1>3 DEF WalksSound, HealthNeedsResult, localVars
<1>4. CASE RaceFault
  <2>1. /\ state' = [k \in Keys |-> Unknown] /\ ready' = [k \in Keys |-> FALSE]
        /\ \A q \in Queries : query'[q] = Idle
    BY <1>4, RaceFaultFacts
  <2>2. HealthNeedsResult'
    BY <2>1 DEF HealthNeedsResult
  <2> QED BY <2>1, <2>2, IdleSound DEF WalksSound
<1> QED BY <1>1, <1>2, <1>3, <1>4 DEF Next, Swap, Tick, vars, localVars

LEMMA SoundInit == Init => WalksSound
<1> SUFFICES ASSUME Init
             PROVE  WalksSound
  OBVIOUS
<1>1. HealthNeedsResult
  BY DEF Init, LocalInit, HealthNeedsResult
<1>2. \A q \in Queries : Sound(state, ready, query[q])
  BY IdleSound DEF Init
<1> QED BY <1>1, <1>2 DEF WalksSound

LEMMA SoundHolds == Spec => []WalksSound
<1>1. Init => WalksSound
  BY SoundInit
<1>2. Typed /\ WalksSound /\ [Next]_vars => WalksSound'
  BY SoundStep
<1> QED BY <1>1, <1>2, TypedHolds, PTL DEF Spec

\* Deferral to the pushed health (Evaluator.viable): whatever the order of
\* the two reads and of the check results between them, a candidate that was
\* unhealthy all through the query is chosen only at its first result.
THEOREM DeferralSlipsOnlyAtFirst == Spec => []DownViableOnlyAtFirst
<1>1. WalksSound => DownViableOnlyAtFirst
  BY DEF WalksSound, Sound, Walked, KeyAt, DownViableOnlyAtFirst
<1> QED BY <1>1, SoundHolds, PTL

\* Resolve fails only a walk that left no candidate it could have served:
\* each has no addresses or was unhealthy at some instant of the query.
THEOREM FailsOnlyWithoutViable == Spec => []ServfailJustified
<1>1. ASSUME Typed, WalksSound
      PROVE  ServfailJustified
  <2> SUFFICES ASSUME NEW q \in Queries, Resolved(q), query[q].rcode = "SERVFAIL",
                      query[q].viable = {}, NEW i \in query[q].up
               PROVE  query[q].rec.candidates[i].answers = {}
    BY DEF ServfailJustified
  <2> DEFINE m == query[q]
  <2>1. QueryTyped(world, m) /\ Walked(m) /\ world \in Worlds
    BY <1>1 DEF Typed, WalksSound, Sound
  <2>2. IsOver(m) /\ HasCandidates(m) /\ i \in Indices(m.rec) /\ m.at \in Nat
    BY <2>1 DEF QueryTyped, LocalsTyped, IndicesTyped, Stands, Resolved, HasCandidates
  <2>3. IsCandidates(m.rec.candidates)
    BY <2>1, <2>2, CandidatesTyped
  <2>4. i < m.at
    BY <2>2, <2>3 DEF IsOver, IsCandidates, Indices
  <2> QED BY <2>1, <2>2, <2>4 DEF Walked
<1>2. Typed /\ WalksSound => ServfailJustified
  BY <1>1
<1> QED BY <1>2, TypedHolds, SoundHolds, PTL

-----------------------------------------------------------------------------
(* Queries one at a time.                                                  *)

BagOf(m) == AnswerBag(m.rec, m.viable)

\* Each address of the bag B is offered by a key of K and conversely.
Explains(S, K, B) ==
    /\ \A a \in DOMAIN B : \E k \in K : OffersIn(S, k, a)
    /\ \A k \in K : \E a \in DOMAIN B : OffersIn(S, k, a)

\* Of the only query, m, and the damper's record r: the active keys K, read
\* when the walk began, are still the ones, and explain what is served but
\* between the damper and Resolve's last step.
Settled(S, K, r, m) ==
    /\ ~m.raced
    /\ m.pc \in {"walk", "ready", "damp", "damping", "record"} => m.prev = K
    /\ m.pc = "record" =>
          /\ m.served = r.served
          /\ m.served # BagOf(m) => r.frozen /\ ~m.forced /\ Explains(S, K, r.served)
    /\ r # NoRecord /\ m.pc # "record" => Explains(S, K, r.served)

\* What the reply holds is listed, or the record is frozen.
Listed(r, m) ==
    m.pc = "done" /\ m.at > 1 =>
        \A a \in DOMAIN m.answers :
            r.frozen \/ \E i \in Indices(m.rec) : a \in m.rec.candidates[i].answers

Alone ==
    /\ \A p \in Queries \ world.queries : query[p] = Idle
    /\ \A q \in Queries : world.queries = {q} =>
          Settled(world.bundles, activeKeys, rs, query[q]) /\ Listed(rs, query[q])

LEMMA OnlyOne ==
    ASSUME Typed, Sequential
    PROVE  \E q \in Queries : world.queries = {q}
<1>1. IsFiniteSet(world.queries) /\ world.queries \subseteq Queries
  BY EvaluatorAssumption DEF Typed
<1>2. \E q : world.queries = {q}
  BY <1>1, FS_Singleton DEF Sequential
<1> QED BY <1>1, <1>2

\* A query that takes a step is one of the world's.
LEMMA StepsInWorld ==
    ASSUME Alone, NEW q \in Queries, QueryStep(q)
    PROVE  q \in world.queries
<1>1. ASSUME query[q].pc # "idle"
      PROVE  q \in world.queries
  BY <1>1 DEF Alone, Idle
<1> QED BY <1>1 DEF QueryStep, ServeDNS, ReadActive, ReadState, ReadReady, EnterDamper,
                    LeaveDamper, RecordActive

\* The answers of viable candidates are explained by their keys and listed.
LEMMA UnionExplained ==
    ASSUME Typed, NEW q \in Queries, Busy(query[q])
    PROVE  LET m == query[q]
           IN  /\ Explains(world.bundles, TargetKeys(m.rec, m.viable), BagOf(m))
               /\ \A a \in DOMAIN BagOf(m) : \E i \in m.viable :
                     i \in Indices(m.rec) /\ a \in m.rec.candidates[i].answers
<1> DEFINE m == query[q]
           K == TargetKeys(m.rec, m.viable)
<1>1. QueryTyped(world, m)
  BY DEF Typed
<1>2. m.rec \in Walkable(world.bundles)
  BY <1>1 DEF QueryTyped, LocalsTyped, IndicesTyped, HasCandidates, Walkable
<1>3. \A i \in m.viable : i \in Indices(m.rec) /\ m.rec.candidates[i].answers # {}
  BY <1>1 DEF QueryTyped, IndicesTyped
<1>4. \A i \in m.viable : \A a \in m.rec.candidates[i].answers :
         OffersIn(world.bundles, KeyAt(m, i), a)
  BY <1>2, <1>3 DEF OffersIn, KeyAt
<1>5. DOMAIN BagOf(m) = UNION {m.rec.candidates[i].answers : i \in m.viable}
  BY DEF BagOf, AnswerBag
<1>6. K = {KeyAt(m, i) : i \in m.viable}
  BY DEF TargetKeys, KeyAt
<1>7. \A a \in DOMAIN BagOf(m) : \E i \in m.viable :
         i \in Indices(m.rec) /\ a \in m.rec.candidates[i].answers
  BY <1>3, <1>5
<1> HIDE DEF m, K
<1>8. \A a \in DOMAIN BagOf(m) : \E k \in K : OffersIn(world.bundles, k, a)
  <2> TAKE a \in DOMAIN BagOf(m)
  <2>1. PICK i \in m.viable : a \in m.rec.candidates[i].answers
    BY <1>7
  <2> QED BY <1>4, <1>6, <2>1
<1>9. \A k \in K : \E a \in DOMAIN BagOf(m) : OffersIn(world.bundles, k, a)
  <2> TAKE k \in K
  <2>1. PICK i \in m.viable : k = KeyAt(m, i)
    BY <1>6
  <2>2. PICK a : a \in m.rec.candidates[i].answers
    BY <1>3
  <2> QED BY <1>4, <1>5, <2>1, <2>2
<1> QED BY <1>7, <1>8, <1>9 DEF Explains, m, K

\* Each step of the only query keeps it.
LEMMA SettledStep ==
    ASSUME Typed, Alone, NEW q \in Queries, world.queries = {q}, QueryStep(q)
    PROVE  /\ Settled(world.bundles, activeKeys', rs', query'[q])
           /\ Listed(rs', query'[q])
           /\ \A p \in Queries \ {q} : query'[p] = query[p]
<1> DEFINE S == world.bundles
           m == query[q]
<1>0. /\ Settled(S, activeKeys, rs, m) /\ Listed(rs, m) /\ QueryTyped(world, m)
      /\ DOMAIN m = QueryFields /\ DOMAIN query = Queries
  BY DEF Alone, Typed, QueryTyped, LocalsTyped
<1>1. ASSUME NEW n, query' = [query EXCEPT ![q] = n]
      PROVE  query'[q] = n /\ \A p \in Queries \ {q} : query'[p] = query[p]
  BY <1>0, <1>1
<1>2. ASSUME NEW kind \in QueryKinds, ServeDNS(q, kind)
      PROVE  /\ Settled(S, activeKeys', rs', query'[q]) /\ Listed(rs', query'[q])
             /\ \A p \in Queries \ {q} : query'[p] = query[p]
  <2>1. /\ ~Busy(m) /\ UNCHANGED <<rs, activeKeys>>
        /\ \E n : query' = [query EXCEPT ![q] = n] /\ Begun(n)
    BY <1>2, ServeDNSFacts
  <2>2. PICK n : query' = [query EXCEPT ![q] = n] /\ Begun(n)
    BY <2>1
  <2>3. /\ n.pc \in {"done", "resolve"} /\ n.at = 1 /\ n.raced = FALSE
    BY <2>2 DEF Begun
  <2>4. Settled(S, activeKeys, rs, n)
    BY <1>0, <2>1, <2>3 DEF Settled, Busy
  <2>5. Listed(rs, n)
    BY <2>3 DEF Listed
  <2> QED BY <1>1, <2>1, <2>2, <2>4, <2>5
<1>3. CASE ReadActive(q)
  <2>1. PICK n : /\ query' = [query EXCEPT ![q] = n] /\ QueryTyped(world, n)
                 /\ SameQuery(m, n) /\ Proceeds(n) /\ n.viable = {} /\ n.at = 1
                 /\ IF n.pc = "done"
                      THEN n.answers = <<>> /\ n.raced = FALSE
                      ELSE n.prev = activeKeys /\ n.raced = m.raced
    BY <1>3, ReadActiveFacts
  <2>2. m.pc = "resolve" /\ UNCHANGED <<rs, activeKeys>>
    BY <1>3 DEF ReadActive
  <2>3. n.pc \in {"walk", "damp", "done"}
    BY <2>1 DEF Proceeds
  <2>4. Settled(S, activeKeys, rs, n)
    BY <1>0, <2>1, <2>2, <2>3 DEF Settled
  <2>5. Listed(rs, n)
    BY <2>1 DEF Listed
  <2> QED BY <1>1, <2>1, <2>2, <2>4, <2>5
<1>4. CASE ReadState(q) \/ ReadReady(q)
  <2>1. m.pc \in {"walk", "ready"} /\ UNCHANGED <<rs, activeKeys>>
    BY <1>4, TurnFacts
  <2>2. PICK n : /\ query' = [query EXCEPT ![q] = n] /\ QueryTyped(world, n)
                 /\ \/ Asks(m, n)
                    \/ \E h : HealthRead(m, h) /\ Judged(m, h, n)
    BY <1>4, TurnFacts
  <2>3. CASE Asks(m, n)
    <3>1. n.pc = "ready" /\ n.prev = m.prev /\ n.raced = m.raced
      BY <1>0, <2>3 DEF Asks, QueryFields
    <3>2. Settled(S, activeKeys, rs, n) /\ Listed(rs, n)
      BY <1>0, <2>1, <3>1 DEF Settled, Listed
    <3> QED BY <1>1, <2>1, <2>2, <3>2
  <2>4. CASE \E h : HealthRead(m, h) /\ Judged(m, h, n)
    <3>1. /\ n.pc \in {"walk", "damp", "done"}
          /\ n.pc = "done" => n.answers = <<>> /\ n.raced = FALSE
          /\ n.pc # "done" => n.prev = m.prev /\ n.raced = m.raced
      BY <2>4 DEF Judged, Proceeds, Goes
    <3>2. Settled(S, activeKeys, rs, n)
      BY <1>0, <2>1, <3>1 DEF Settled
    <3>3. Listed(rs, n)
      BY <3>1 DEF Listed
    <3> QED BY <1>1, <2>1, <2>2, <3>2, <3>3
  <2> QED BY <2>2, <2>3, <2>4
<1>5. CASE EnterDamper(q)
  <2>1. m.pc = "damp" /\ UNCHANGED <<rs, activeKeys>>
    BY <1>5, EnterDamperFacts
  <2>2. \A p \in Queries \ {q} : query[p].pc = "idle"
    BY DEF Alone, Idle
  <2>3. InDamper = {}
    BY <2>1, <2>2 DEF InDamper
  <2>4. query'[q] = [m EXCEPT !.pc = "damping", !.raced = FALSE]
    BY <1>5, <2>3, EnterDamperFacts
  <2> DEFINE n == [m EXCEPT !.pc = "damping", !.raced = FALSE]
  <2>5. n.pc = "damping" /\ n.raced = FALSE /\ n.prev = m.prev
    BY <1>0 DEF QueryFields
  <2>6. query'[q] = n
    BY <2>4
  <2>7. \A p \in Queries \ {q} : query'[p] = query[p]
    BY <1>5, <2>2, EnterDamperFacts
  <2> HIDE DEF n
  <2>8. Settled(S, activeKeys, rs, n) /\ Listed(rs, n)
    BY <1>0, <2>1, <2>5 DEF Settled, Listed
  <2> QED BY <2>1, <2>6, <2>7, <2>8
<1>6. CASE LeaveDamper(q)
  <2>1. m.pc = "damping" /\ UNCHANGED <<activeKeys>>
    BY <1>6, LeaveDamperFacts
  <2>2. PICK v, n : /\ query' = [query EXCEPT ![q] = n]
                    /\ n = [m EXCEPT !.pc = "record", !.served = v]
                    /\ ~m.raced =>
                          /\ v = rs'.served
                          /\ v # Union(q) => rs # NoRecord /\ v = rs.served
                                             /\ ~m.forced /\ rs'.frozen
    BY <1>6, LeaveDamperFacts
  <2>3. /\ n.pc = "record" /\ n.served = v /\ n.prev = m.prev /\ n.raced = m.raced
        /\ n.forced = m.forced /\ n.rec = m.rec /\ n.viable = m.viable
    BY <1>0, <2>2 DEF QueryFields
  <2>4. ~m.raced /\ m.prev = activeKeys /\ (rs # NoRecord => Explains(S, activeKeys, rs.served))
    BY <1>0, <2>1 DEF Settled
  <2>5. BagOf(n) = Union(q)
    BY <2>3 DEF BagOf, Union
  <2>6. n.served = rs'.served
    BY <2>2, <2>3, <2>4
  <2>7. n.served # BagOf(n) =>
            rs'.frozen /\ ~n.forced /\ Explains(S, activeKeys, rs'.served)
    BY <2>2, <2>3, <2>4, <2>5
  <2>8. Settled(S, activeKeys, rs', n) /\ Listed(rs', n)
    BY <2>3, <2>4, <2>6, <2>7 DEF Settled, Listed
  <2> QED BY <1>1, <2>1, <2>2, <2>8
<1>7. CASE RecordActive(q)
  <2>1. /\ m.pc = "record" /\ UNCHANGED rs
        /\ activeKeys' = IF m.served = Union(q) THEN TargetKeys(m.rec, m.viable)
                                                ELSE activeKeys
    BY <1>7, RecordActiveFacts
  <2>2. PICK n : /\ query' = [query EXCEPT ![q] = n] /\ Answered(m, n)
                 /\ DOMAIN n.answers \subseteq DOMAIN m.served
    BY <1>7, RecordActiveFacts
  <2>3. Union(q) = BagOf(m) /\ Busy(m)
    BY <2>1 DEF Union, BagOf, Busy
  <2>4. /\ m.served = rs.served
        /\ m.served # BagOf(m) => rs.frozen /\ Explains(S, activeKeys, rs.served)
    BY <1>0, <2>1 DEF Settled
  <2>5. /\ Explains(S, TargetKeys(m.rec, m.viable), BagOf(m))
        /\ \A a \in DOMAIN BagOf(m) : \E i \in Indices(m.rec) :
              a \in m.rec.candidates[i].answers
    BY <2>3, UnionExplained
  <2>6. Explains(S, activeKeys', rs.served)
    BY <2>1, <2>3, <2>4, <2>5
  <2>7. Settled(S, activeKeys', rs', n)
    BY <2>1, <2>2, <2>6 DEF Settled, Answered
  <2>8. n.rec = m.rec
    BY <2>2 DEF Answered, SameQuery
  <2>9. Listed(rs', n)
    BY <2>1, <2>2, <2>4, <2>5, <2>8 DEF Listed
  <2> QED BY <1>1, <2>2, <2>7, <2>9
<1> QED BY <1>2, <1>3, <1>4, <1>5, <1>6, <1>7 DEF QueryStep

LEMMA AloneStep == Typed /\ Alone /\ [Next]_vars => Alone'
<1> SUFFICES ASSUME Typed, Alone, [Next]_vars
             PROVE  Alone'
  OBVIOUS
<1>0. DOMAIN query = Queries /\ \A q \in Queries : DOMAIN query[q] = QueryFields
  BY DEF Typed, QueryTyped, LocalsTyped
<1>1. ASSUME NEW q \in Queries, QueryStep(q)
      PROVE  Alone'
  <2>1. q \in world.queries
    BY <1>1, StepsInWorld
  <2>2. UNCHANGED world
    BY <1>1, LeaveDamperFacts DEF QueryStep, ServeDNS, ReadActive, ReadState, ReadReady,
                                  EnterDamper, LeaveDamper, RecordActive
  <2>3. ASSUME NEW p \in Queries \ world.queries
        PROVE  query'[p] = Idle
    <3>0. Idle.pc = "idle"
      BY DEF Idle
    <3>1. query[p] = Idle /\ p # q /\ query[p].pc = "idle"
      BY <2>1, <3>0 DEF Alone
    <3>2. CASE EnterDamper(q)
      BY <3>1, <3>2, EnterDamperFacts
    <3>3. CASE ~EnterDamper(q)
      <4>1. \E n : query' = [query EXCEPT ![q] = n]
        <5>1. ASSUME NEW kind \in QueryKinds, ServeDNS(q, kind)
              PROVE  \E n : query' = [query EXCEPT ![q] = n]
          BY <5>1, ServeDNSFacts
        <5>2. CASE ReadActive(q)
          BY <5>2, ReadActiveFacts
        <5>3. CASE ReadState(q) \/ ReadReady(q)
          BY <5>3, TurnFacts
        <5>4. CASE LeaveDamper(q)
          BY <5>4, LeaveDamperFacts
        <5>5. CASE RecordActive(q)
          BY <5>5, RecordActiveFacts
        <5> QED BY <1>1, <3>3, <5>1, <5>2, <5>3, <5>4, <5>5 DEF QueryStep
      <4> QED BY <1>0, <3>1, <4>1
    <3> QED BY <3>2, <3>3
  <2>4. ASSUME NEW p \in Queries, world.queries = {p}
        PROVE  Settled(world.bundles, activeKeys', rs', query'[p]) /\ Listed(rs', query'[p])
    <3>1. p = q
      BY <2>1, <2>4
    <3> QED BY <1>1, <2>4, <3>1, SettledStep
  <2> QED BY <2>2, <2>3, <2>4 DEF Alone
<1>2. ASSUME NEW k \in Keys, NEW h \in HealthValues, CheckResult(k, h)
      PROVE  Alone'
  <2>1. UNCHANGED <<world, rs, activeKeys>>
    BY <1>2, CheckResultFacts
  <2>2. ASSUME NEW q \in Queries
        PROVE  \/ query'[q] = query[q]
               \/ Busy(query[q]) /\ Observed(query[q], query'[q],
                                             Down(query[q].rec, state', ready'), Firsts(k))
    BY <1>2, CheckResultFacts
  <2>3. ASSUME NEW p \in Queries \ world.queries
        PROVE  query'[p] = Idle
    <3>0. ~Busy(Idle)
      BY DEF Idle, Busy
    <3>1. query[p] = Idle /\ ~Busy(query[p])
      BY <3>0 DEF Alone
    <3> QED BY <2>2, <3>1
  <2>4. ASSUME NEW q \in Queries, world.queries = {q}
        PROVE  Settled(world.bundles, activeKeys, rs, query'[q]) /\ Listed(rs, query'[q])
    <3> DEFINE m == query[q]
               n == query'[q]
    <3>1. Settled(world.bundles, activeKeys, rs, m) /\ Listed(rs, m)
      BY <2>4 DEF Alone
    <3>2. /\ n.pc = m.pc /\ n.rec = m.rec /\ n.prev = m.prev /\ n.at = m.at
          /\ n.viable = m.viable /\ n.forced = m.forced /\ n.raced = m.raced
          /\ n.served = m.served /\ n.answers = m.answers
      BY <2>2 DEF Observed
    <3> HIDE DEF m, n
    <3>3. Settled(world.bundles, activeKeys, rs, n) /\ Listed(rs, n)
      BY <3>1, <3>2 DEF Settled, Listed, BagOf
    <3> QED BY <3>3 DEF n
  <2> QED BY <2>1, <2>3, <2>4 DEF Alone
<1>3. CASE UNCHANGED <<world, rs, activeKeys, query>>
  BY <1>3 DEF Alone
<1>4. CASE RaceFault
  <2>1. /\ \E q \in Queries : query[q].raced
        /\ UNCHANGED world /\ \A q \in Queries : query'[q] = Idle
    BY <1>4, RaceFaultFacts
  <2>2. \A q \in Queries : world.queries # {q}
    <3>1. ~Idle.raced
      BY DEF Idle
    <3>2. ASSUME NEW q \in Queries, world.queries = {q}
          PROVE  \A p \in Queries : ~query[p].raced
      BY <3>1, <3>2 DEF Alone, Settled
    <3> QED BY <2>1, <3>2
  <2> QED BY <2>1, <2>2 DEF Alone
<1> QED BY <1>1, <1>2, <1>3, <1>4 DEF Next, Swap, Tick, vars

LEMMA AloneInit == Init => Alone
<1> SUFFICES ASSUME Init
             PROVE  Alone
  OBVIOUS
<1>1. rs = NoRecord /\ \A q \in Queries : query[q] = Idle
  BY DEF Init
<1>2. Idle.pc = "idle" /\ ~Idle.raced
  BY DEF Idle
<1> QED BY <1>1, <1>2 DEF Alone, Settled, Listed

LEMMA AloneHolds == Spec => []Alone
<1>1. Typed /\ Alone /\ [Next]_vars => Alone'
  BY AloneStep
<1> QED BY <1>1, AloneInit, TypedHolds, PTL DEF Spec

\* The damper's bookkeeping and Resolve's: between queries activeKeys and the
\* served answer explain each other, frozen or not, over any bundle swaps.
THEOREM ActiveKeysExplain == Spec => []ActiveExplainsServed
<1>1. ASSUME Typed, Alone
      PROVE  ActiveExplainsServed
  <2> SUFFICES ASSUME Sequential, rs # NoRecord, \A q \in Queries : ~Active(q)
               PROVE  /\ \A a \in DOMAIN rs.served : \E k \in activeKeys : Offers(k, a)
                      /\ \A k \in activeKeys : \E a \in DOMAIN rs.served : Offers(k, a)
    BY DEF ActiveExplainsServed
  <2>1. PICK q \in Queries : world.queries = {q}
    BY <1>1, OnlyOne
  <2>2. Explains(world.bundles, activeKeys, rs.served)
    BY <1>1, <2>1 DEF Alone, Settled, Active
  <2> QED BY <2>2 DEF Explains, Offers
<1>2. Typed /\ Alone => ActiveExplainsServed
  BY <1>1
<1> QED BY <1>2, TypedHolds, AloneHolds, PTL

\* Damper.Evaluate and Resolve: only a frozen record answers with an address
\* the bundle has withdrawn.
THEOREM WithdrawnNeedsFreeze == Spec => []WithdrawnOnlyWhileFrozen
<1>1. ASSUME Typed, Alone
      PROVE  WithdrawnOnlyWhileFrozen
  <2> SUFFICES ASSUME NEW q \in Queries, Sequential, Resolved(q),
                      NEW a \in DOMAIN query[q].answers
               PROVE  \/ rs.frozen
                      \/ \E i \in Indices(query[q].rec) :
                             a \in query[q].rec.candidates[i].answers
    BY DEF WithdrawnOnlyWhileFrozen
  <2>1. query[q].pc = "done" /\ query[q].at > 1
    BY DEF Resolved
  <2>2. world.queries = {q}
    <3>1. PICK p \in Queries : world.queries = {p}
      BY <1>1, OnlyOne
    <3>2. query[q] # Idle
      BY <2>1 DEF Idle
    <3> QED BY <1>1, <3>1, <3>2 DEF Alone
  <2> QED BY <1>1, <2>1, <2>2 DEF Alone, Listed
<1>2. Typed /\ Alone => WithdrawnOnlyWhileFrozen
  BY <1>1
<1> QED BY <1>2, TypedHolds, AloneHolds, PTL

-----------------------------------------------------------------------------
(* A dead candidate is always moved away from.                             *)

DeadOf(m) == {i \in m.down : KeyAt(m, i) \notin m.first}

AwayFromDead(m) ==
    m.pc = "done" /\ m.at > 1 /\ HasCandidates(m) =>
        \A i \in DeadOf(m) : \A a \in m.rec.candidates[i].answers :
            a \in DOMAIN m.answers =>
                \E j \in Indices(m.rec) \ DeadOf(m) : a \in m.rec.candidates[j].answers

DeadAvoided == \A q \in Queries : world.queries = {q} => AwayFromDead(query[q])

\* The reply.  What the damper let through comes from viable candidates; what
\* it held back is explained by keys that were active when the walk began,
\* and had one of them been dead the move would have been forced.
LEMMA ReplyAvoidsDead ==
    ASSUME ForcedWherever, Typed, WalksSound, Alone,
           NEW q \in Queries, world.queries = {q}, RecordActive(q)
    PROVE  AwayFromDead(query'[q])
<1> DEFINE m == query[q]
           S == world.bundles
<1>1. m.pc = "record" /\ Busy(m)
  BY RecordActiveFacts DEF Busy
<1>2. PICK n : /\ query' = [query EXCEPT ![q] = n] /\ Answered(m, n)
               /\ DOMAIN n.answers \subseteq DOMAIN m.served
  BY RecordActiveFacts
<1>3. query'[q] = n
  BY <1>2 DEF Typed
<1>4. /\ QueryTyped(world, m) /\ Walked(m) /\ Settled(S, activeKeys, rs, m)
      /\ world \in Worlds
  BY DEF Typed, WalksSound, Sound, Alone
<1>5. n.rec = m.rec /\ n.down = m.down /\ n.first = m.first
  BY <1>2 DEF Answered, SameQuery
<1>6. DeadOf(n) = DeadOf(m)
  BY <1>5 DEF DeadOf, KeyAt
<1>7. HasCandidates(m) /\ m.rec \in Walkable(S)
  BY <1>1, <1>4 DEF QueryTyped, LocalsTyped, IndicesTyped, HasCandidates, Walkable
<1>8. /\ m.served = rs.served /\ m.prev = activeKeys
      /\ m.served # BagOf(m) => ~m.forced /\ Explains(S, activeKeys, rs.served)
  BY <1>1, <1>4 DEF Settled
<1>9. Cardinality(world.queries) = 1
  BY FS_Singleton
<1> SUFFICES ASSUME NEW i \in DeadOf(m), NEW a \in m.rec.candidates[i].answers,
                    a \in DOMAIN n.answers
             PROVE  \E j \in Indices(m.rec) \ DeadOf(m) : a \in m.rec.candidates[j].answers
  BY <1>3, <1>5, <1>6 DEF AwayFromDead
<1>10. /\ i \in m.down /\ i \in Indices(m.rec) /\ KeyAt(m, i) \notin m.first
       /\ a \in DOMAIN m.served
  BY <1>2, <1>4 DEF DeadOf, QueryTyped, IndicesTyped
<1>11. CASE m.served = BagOf(m)
  <2>1. PICK j \in m.viable : j \in Indices(m.rec) /\ a \in m.rec.candidates[j].answers
    BY <1>1, <1>10, <1>11, UnionExplained
  <2>2. j \notin DeadOf(m)
    BY <1>4 DEF Walked, DeadOf
  <2> QED BY <2>1, <2>2
<1>12. CASE m.served # BagOf(m)
  <2>1. PICK k \in activeKeys : OffersIn(S, k, a)
    BY <1>8, <1>10, <1>12 DEF Explains
  <2>2. PICK r \in Walkable(S) : \E l \in Indices(r) :
               r.candidates[l].targetKey = k /\ a \in r.candidates[l].answers
    BY <2>1 DEF OffersIn
  <2>3. PICK l \in Indices(r) :
               r.candidates[l].targetKey = k /\ a \in r.candidates[l].answers
    BY <2>2
  <2>4. KeyAt(m, i) = k
    <3>1. m.rec.candidates[i].answers \cap r.candidates[l].answers # {}
      BY <2>3
    <3>2. OneKeyEach(S)
      BY <1>4, <1>9 DEF ForcedWherever
    <3> HIDE DEF m, S
    <3>3. m.rec.candidates[i].targetKey = r.candidates[l].targetKey
      BY <1>7, <1>10, <3>1, <3>2 DEF OneKeyEach
    <3> QED BY <2>3, <3>3 DEF KeyAt
  <2>5. i < m.at
    <3>1. m.rec.mode = "all"
      BY <1>4, <1>7, <1>9, <1>10 DEF ForcedWherever
    <3>2. IsOver(m) /\ m.at \in Nat
      BY <1>1, <1>4, <3>1 DEF QueryTyped, Stands, LocalsTyped
    <3>3. IsCandidates(m.rec.candidates)
      BY <1>4, <1>7, CandidatesTyped
    <3> QED BY <1>10, <3>2, <3>3 DEF IsOver, IsCandidates, Indices
  <2>6. m.forced
    BY <1>1, <1>4, <1>8, <1>10, <2>4, <2>5 DEF Walked
  <2> QED BY <1>8, <1>12, <2>6
<1> QED BY <1>11, <1>12

LEMMA DeadStep ==
    ASSUME ForcedWherever, Typed, WalksSound, Alone, DeadAvoided, [Next]_vars
    PROVE  DeadAvoided'
<1>0. DOMAIN query = Queries /\ \A q \in Queries : DOMAIN query[q] = QueryFields
  BY DEF Typed, QueryTyped, LocalsTyped
<1>1. ASSUME NEW q \in Queries, QueryStep(q)
      PROVE  DeadAvoided'
  <2>1. q \in world.queries
    BY <1>1, StepsInWorld
  <2>2. UNCHANGED world
    BY <1>1 DEF QueryStep, ServeDNS, ReadActive, ReadState, ReadReady,
                EnterDamper, LeaveDamper, RecordActive
  <2> SUFFICES ASSUME world.queries = {q}
               PROVE  AwayFromDead(query'[q])
    BY <2>1, <2>2 DEF DeadAvoided
  <2>3. ASSUME NEW kind \in QueryKinds, ServeDNS(q, kind)
        PROVE  AwayFromDead(query'[q])
    <3>1. PICK n : query' = [query EXCEPT ![q] = n] /\ Begun(n)
      BY <2>3, ServeDNSFacts
    <3>2. query'[q] = n /\ n.at = 1
      BY <1>0, <3>1 DEF Begun
    <3> QED BY <3>2 DEF AwayFromDead
  <2>4. CASE ReadActive(q)
    <3>1. PICK n : query' = [query EXCEPT ![q] = n] /\ n.at = 1
      BY <2>4, ReadActiveFacts
    <3>2. query'[q] = n
      BY <1>0, <3>1
    <3> QED BY <3>1, <3>2 DEF AwayFromDead
  <2>5. CASE ReadState(q) \/ ReadReady(q)
    <3>1. PICK n : /\ query' = [query EXCEPT ![q] = n]
                   /\ \/ Asks(query[q], n)
                      \/ \E h : HealthRead(query[q], h) /\ Judged(query[q], h, n)
      BY <2>5, TurnFacts
    <3>2. query'[q] = n
      BY <1>0, <3>1
    <3>3. n.pc = "done" => n.answers = <<>>
      <4>1. CASE Asks(query[q], n)
        BY <1>0, <4>1 DEF Asks, QueryFields
      <4>2. CASE \E h : HealthRead(query[q], h) /\ Judged(query[q], h, n)
        BY <4>2 DEF Judged
      <4> QED BY <3>1, <4>1, <4>2
    <3> QED BY <3>2, <3>3 DEF AwayFromDead
  <2>6. CASE EnterDamper(q) \/ LeaveDamper(q)
    <3>1. query'[q].pc \in {"damping", "record"}
      <4>1. CASE EnterDamper(q)
        <5>1. PICK b \in BOOLEAN :
                     query'[q] = [query[q] EXCEPT !.pc = "damping", !.raced = b]
          BY <4>1, EnterDamperFacts
        <5> QED BY <1>0, <5>1 DEF QueryFields
      <4>2. CASE LeaveDamper(q)
        <5>1. PICK v, n : /\ query' = [query EXCEPT ![q] = n]
                          /\ n = [query[q] EXCEPT !.pc = "record", !.served = v]
          BY <4>2, LeaveDamperFacts
        <5>2. query'[q] = n /\ n.pc = "record"
          BY <1>0, <5>1 DEF QueryFields
        <5> QED BY <5>2
      <4> QED BY <2>6, <4>1, <4>2
    <3> QED BY <3>1 DEF AwayFromDead
  <2>7. CASE RecordActive(q)
    BY <2>7, ReplyAvoidsDead
  <2> QED BY <1>1, <2>3, <2>4, <2>5, <2>6, <2>7 DEF QueryStep
<1>2. ASSUME NEW k \in Keys, NEW h \in HealthValues, CheckResult(k, h)
      PROVE  DeadAvoided'
  <2>1. UNCHANGED world
    BY <1>2, CheckResultFacts
  <2>2. ASSUME NEW q \in Queries
        PROVE  query'[q] = query[q] \/ query'[q].pc # "done"
    BY <1>2, CheckResultFacts DEF Observed, Busy
  <2> QED BY <2>1, <2>2 DEF DeadAvoided, AwayFromDead
<1>3. CASE UNCHANGED <<world, query>>
  BY <1>3 DEF DeadAvoided
<1>4. CASE RaceFault
  <2>1. \A q \in Queries : query'[q].pc = "idle"
    BY <1>4, RaceFaultFacts DEF Idle
  <2> QED BY <2>1 DEF DeadAvoided, AwayFromDead
<1> QED BY <1>1, <1>2, <1>3, <1>4 DEF Next, Swap, Tick, vars

\* Damper.Evaluate's promise that a forced move is always allowed
\* (damper.go:49-51), end to end: no reply of mode "all" holds an address of
\* a candidate that was unhealthy all through the query, frozen or not, as
\* long as an address belongs to one target key.
THEOREM DeadIsNeverServed ==
    ASSUME ForcedWherever
    PROVE  Spec => []DeadNeverServed
<1>1. Init => DeadAvoided
  <2>1. Idle.pc # "done"
    BY DEF Idle
  <2> QED BY <2>1 DEF Init, DeadAvoided, AwayFromDead
<1>2. Typed /\ WalksSound /\ Alone /\ DeadAvoided /\ [Next]_vars => DeadAvoided'
  BY DeadStep
<1>3. ASSUME Typed, Alone, DeadAvoided
      PROVE  DeadNeverServed
  <2> SUFFICES ASSUME NEW q \in Queries, Sequential, Resolved(q)
               PROVE  \A i \in Dead(q) : \A a \in query[q].rec.candidates[i].answers :
                         a \in DOMAIN query[q].answers =>
                             \E j \in Indices(query[q].rec) \ Dead(q) :
                                 a \in query[q].rec.candidates[j].answers
    BY DEF DeadNeverServed
  <2>1. query[q].pc = "done" /\ query[q].at > 1 /\ HasCandidates(query[q])
    BY DEF Resolved, HasCandidates
  <2>2. world.queries = {q}
    <3>1. PICK p \in Queries : world.queries = {p}
      BY <1>3, OnlyOne
    <3>2. query[q] # Idle
      BY <2>1 DEF Idle
    <3> QED BY <1>3, <3>1, <3>2 DEF Alone
  <2>3. Dead(q) = DeadOf(query[q])
    BY DEF Dead, DeadOf, KeyAt
  <2> QED BY <1>3, <2>1, <2>2, <2>3 DEF DeadAvoided, AwayFromDead
<1>4. Typed /\ Alone /\ DeadAvoided => DeadNeverServed
  BY <1>3
<1> QED BY <1>1, <1>2, <1>4, TypedHolds, SoundHolds, AloneHolds, PTL DEF Spec

=============================================================================
