------------------------ MODULE MCRepositoryCreation ------------------------
(* Small instances of RepositoryCreation. *)
EXTENDS RepositoryCreation

MCOperations == 1..2
=============================================================================
