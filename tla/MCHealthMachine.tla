-------------------------- MODULE MCHealthMachine ---------------------------
(* Small instance of HealthMachine: see MCHealthMachine.cfg.               *)
EXTENDS HealthMachine
=============================================================================
