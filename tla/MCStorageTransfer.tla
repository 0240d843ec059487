--------------------------- MODULE MCStorageTransfer ---------------------------
(* Three files, and two rsync processes when the transfer is sharded.      *)
EXTENDS StorageTransfer

CONSTANTS f1, f2, f3, s1, s2

=============================================================================
