----------------------------- MODULE MCStorage -----------------------------
(***************************************************************************)
(* Instances of StorageManager for TLC.  The values of the constants are   *)
(* in the .cfg files; this module adds the symmetries: clients, buckets,   *)
(* keys and contents are only compared for equality, so any permutation of *)
(* each is an automorphism of the specification (of the contents: as long  *)
(* as all of them are cacheable).                                          *)
(***************************************************************************)
EXTENDS StorageManager, TLC

\* Keys with different stems: no temporary name meets another key or its
\* temporary name.
PrivateTempName == [k \in Keys |-> <<k, "tmp">>]

NameSymmetry ==
    Permutations(Clients) \union Permutations(Buckets) \union Permutations(Keys)
Symmetry == NameSymmetry \union Permutations(Contents)
=============================================================================
