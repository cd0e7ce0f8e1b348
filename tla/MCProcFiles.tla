---------------------------- MODULE MCProcFiles ----------------------------
(***************************************************************************)
(* ProcFiles with three user processes that follow each other, and no more *)
(* entries above the standard ones than one of them has descriptors.       *)
(***************************************************************************)
EXTENDS ProcFiles
=============================================================================
