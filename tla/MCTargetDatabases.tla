-------------------------- MODULE MCTargetDatabases --------------------------
(* A first run of one database item and a retry of it.                     *)
EXTENDS TargetDatabases

CONSTANTS run, retry

=============================================================================
