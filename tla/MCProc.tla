------------------------------- MODULE MCProc -------------------------------
(***************************************************************************)
(* Instances of Proc for TLC; the other values are in the .cfg files.      *)
(***************************************************************************)
EXTENDS Proc
=============================================================================
