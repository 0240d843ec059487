--------------------------- MODULE MCValidationRuns ---------------------------
(* Two validations of one migration.                                       *)
EXTENDS ValidationRuns

CONSTANTS r1, r2

=============================================================================
