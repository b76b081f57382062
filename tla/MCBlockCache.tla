---------------------------- MODULE MCBlockCache ----------------------------
(***************************************************************************)
(* The instance of BlockCache for TLC; the values are in MCBlockCache.cfg. *)
(***************************************************************************)
EXTENDS BlockCache
=============================================================================
