-------------------------- MODULE MCMigrationRuns --------------------------
(* Finite instances of MigrationRuns.                                      *)
EXTENDS MigrationRuns, TLC

\* One entry of each kind; every entry carries the path "a".
MixedPlan == <<[kind |-> "fs", items |-> <<"a", "b">>],
               [kind |-> "os", items |-> <<"a", "b">>],
               [kind |-> "db", items |-> <<"a">>]>>

\* One source fanned out to two destinations, one entry each.
SharedPathPlan == <<[kind |-> "fs", items |-> <<"a">>],
                    [kind |-> "db", items |-> <<"a">>]>>

FoldersPlan == <<[kind |-> "fs", items |-> <<"a">>]>>

\* Migration IDs are interchangeable.
Symmetry == Permutations(Migrations)

=============================================================================
