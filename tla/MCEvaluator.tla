---------------------------- MODULE MCEvaluator -----------------------------
(* Small instances of Evaluator: two candidates, their addresses, and the  *)
(* worlds: the bundles the store swaps between and the queries that come.  *)
EXTENDS Evaluator, TLC

CONSTANTS k1, k2,        \* target keys
          a1, a2, bad,   \* addresses
          q0, q1, q2     \* queries

Cand(k, health, answers) ==
    [targetKey |-> k, health |-> health, answers |-> answers]

Rec(mode, candidates, localChecks) ==
    [mode |-> mode, candidates |-> candidates, localChecks |-> localChecks,
     state |-> "ok", answers |-> {}]

Legacy(st) ==
    [mode |-> "single", candidates |-> Absent, localChecks |-> {},
     state |-> st, answers |-> {a1}]

Pair(mode, h1, h2, localChecks) ==
    Rec(mode, <<Cand(k1, h1, {a1}), Cand(k2, h2, {a2})>>, localChecks)

\* Mode "all": k1 is local, k2 remote and pushed up and down.
AllBundles ==
    {Pair("all", Healthy, h, {k1}) : h \in {Healthy, Unhealthy}}
    \cup {NoRecord, Rec("single", <<>>, {}), Legacy("ok"), Legacy("failed-closed")}

\* Mode "single": k1 is preferred, both are local.
SingleBundles == {Pair("single", Healthy, Healthy, {k1, k2})}

\* A candidate loses its addresses, or leaves the record.
WithdrawBundles ==
    {Pair("all", Healthy, Healthy, {}),
     Rec("all", <<Cand(k1, Healthy, {a1}), Cand(k2, Healthy, {})>>, {}),
     Rec("all", <<Cand(k2, Healthy, {a2})>>, {})}

\* What can make a walk fail: candidates without addresses, with one that
\* cannot be parsed, and unhealthy ones, in both modes, local and remote.
WalkBundles ==
    {Rec("single", <<Cand(k1, Unhealthy, {a1}), Cand(k2, Healthy, {bad})>>, {k1}),
     Rec("all", <<Cand(k2, Healthy, {}), Cand(k1, Unhealthy, {a1})>>, {k1})}

\* A local candidate that is pushed unhealthy: its first result overtakes it.
FirstBundles == {Pair("all", Unhealthy, h, {k1}) : h \in {Healthy, Unhealthy}}

World(bundles, queries, last) ==
    [bundles |-> bundles, queries |-> queries, last |-> last]

\* Queries one at a time with time passing; two queries that race.
MCWorlds == {World(AllBundles, {q0}, 3), World(WithdrawBundles, {q0}, 3),
             World(FirstBundles, {q0}, 0), World(WalkBundles, {q1, q2}, 0)}

\* The worlds of the first run are among those DeadNeverServed is proved for.
ASSUME MCForced == Worlds = MCWorlds => ForcedWherever

\* The queries that race run the same code and no property tells them apart.
QuerySymmetry == Permutations({q1, q2})

SingleWorlds == {World(SingleBundles, {q0}, 0)}
=============================================================================
