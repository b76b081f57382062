------------------------------ MODULE MCSerial ------------------------------
(***************************************************************************)
(* Instances of Serial for TLC; the values are in the .cfg files.          *)
(***************************************************************************)
EXTENDS Serial
=============================================================================
