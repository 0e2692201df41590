------------------------------ MODULE MCStatus ------------------------------
(* Status for TLC: its constants are given in the configuration.           *)
EXTENDS Status
=============================================================================
