----------------------------- MODULE MCProcSem -----------------------------
(***************************************************************************)
(* The instance of ProcSem for TLC; the values are in MCProcSem.cfg.       *)
(***************************************************************************)
EXTENDS ProcSem
=============================================================================
