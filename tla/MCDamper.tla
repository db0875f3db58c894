------------------------------ MODULE MCDamper ------------------------------
(* Small instance of Damper: see MCDamper.cfg.                             *)
EXTENDS Damper
=============================================================================
