------------------------------- MODULE MCDisk -------------------------------
(***************************************************************************)
(* Disk with one bit per address byte.  The requested sectors differ in    *)
(* one byte or in two, so that one that is lost or swapped selects another *)
(* sector.  Three calls: a write, one that may come while its sector is    *)
(* stored, and one that sees the result.                                   *)
(***************************************************************************)
EXTENDS Disk
=============================================================================
