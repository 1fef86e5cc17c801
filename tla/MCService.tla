----------------------------- MODULE MCService -----------------------------
(***************************************************************************)
(* The instance of Service for TLC; its constants are in service.cfg.  No  *)
(* symmetry: the run checks liveness.                                      *)
(***************************************************************************)
EXTENDS Service
=============================================================================
