---------------------------- MODULE MCRefinement ----------------------------
(***************************************************************************)
(* The instance of StorageRefinement for TLC; its constants are in         *)
(* serial_nodedup.cfg.  Names and contents are only compared for equality. *)
(***************************************************************************)
EXTENDS StorageRefinement, TLC

\* Keys with different stems have temporary names of their own.
PrivateTempName == [k \in Keys |-> <<k, "tmp">>]

Symmetry == Permutations(Buckets) \union Permutations(Keys) \union Permutations(Contents)
=============================================================================
