---------------------------- MODULE MCStressLoad ----------------------------
(* StressLoad for TLC: its constants are given in the configuration.       *)
EXTENDS StressLoad
=============================================================================
