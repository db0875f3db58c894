------------------------------ MODULE LastGood ------------------------------
(***************************************************************************)
(* What the bundle store promises (plan "boot, persist, survive" of        *)
(* internal/bundle): it serves a valid bundle or nothing, what it persists *)
(* is what it is serving at that moment, and after a stop it comes back    *)
(* with a newly accepted bundle or with the persisted one.                 *)
(***************************************************************************)
CONSTANTS Bundles,       \* valid bundles
          None           \* nothing served, nothing persisted

VARIABLES serving,       \* the bundle the process answers from
          persisted      \* the bundle on disk

goodVars == <<serving, persisted>>

GoodInit == serving = None /\ persisted = None

Accept(b) == serving' = b /\ UNCHANGED persisted
Persist   == serving # None /\ persisted' = serving /\ UNCHANGED serving
Stop      == serving' = None /\ UNCHANGED persisted
Recover   == /\ serving = None /\ persisted # None
             /\ serving' = persisted /\ UNCHANGED persisted

GoodNext == (\E b \in Bundles : Accept(b)) \/ Persist \/ Stop \/ Recover

GoodSpec == GoodInit /\ [][GoodNext]_goodVars
=============================================================================
