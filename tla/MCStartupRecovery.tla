-------------------------- MODULE MCStartupRecovery --------------------------
(* Small instances of StartupRecovery. *)
EXTENDS StartupRecovery

CONSTANTS e1, e2, e3

Three == <<e1, e2, e3>>
Two   == <<e1, e2>>
=============================================================================
