---------------------------- MODULE MCPopularity ---------------------------
(***************************************************************************)
(* The instance of Popularity for TLC; its constants are in                *)
(* popularity.cfg.  No symmetry: the run checks liveness.                  *)
(***************************************************************************)
EXTENDS Popularity
=============================================================================
