---------------------------- MODULE MCRegistrySync ----------------------------
(* Small instances of RegistrySync. *)
EXTENDS RegistrySync

CONSTANTS b1, b2, e1, e2

MCBrowsers   == {b1, b2}
MCWorkspaces == {e1, e2}
=============================================================================
