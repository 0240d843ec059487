----------------------------- MODULE MCObjectCopies -----------------------------
(***************************************************************************)
(* Two objects above what a PUT carries, of one and of two parts, one      *)
(* below it, and one that is not under the location, in a listing that is  *)
(* not by size; each executor meets each kind of destination it treats     *)
(* differently.                                                            *)
(***************************************************************************)
EXTENDS ObjectCopies

MCListing == <<"small", "alien", "big", "large">>
MCSize == [o \in Objects |-> CASE o = "large" -> 3 [] o = "big" -> 2 [] OTHER -> 1]
MCModes ==
  {[way |-> "stream", dst |-> "minio", placed |-> TRUE],
   [way |-> "upload", dst |-> "azure", placed |-> TRUE],
   [way |-> "stream", dst |-> "put", placed |-> TRUE],
   [way |-> "download", dst |-> "folder", placed |-> TRUE],
   [way |-> "download", dst |-> "folder", placed |-> FALSE]}

=============================================================================
