---------------------------- MODULE MCS3Objects ----------------------------
(***************************************************************************)
(* The instance of S3Objects for TLC; its constants are in s3_objects.cfg. *)
(* Clients, keys and contents are only compared for equality.              *)
(***************************************************************************)
EXTENDS S3Objects, TLC

Symmetry ==
    Permutations(Clients) \union Permutations(Keys) \union Permutations(Contents)
=============================================================================
