------------------------- MODULE MCCommandPipeline -------------------------
(***************************************************************************)
(* Small instances of CommandPipeline for TLC.  Goroutine identities are   *)
(* interchangeable; commands are not, since only some are cancelled.  The  *)
(* runs with liveness properties use no symmetry.                          *)
(***************************************************************************)
EXTENDS CommandPipeline, TLC

Interchangeable == Permutations(Workers)
=============================================================================
