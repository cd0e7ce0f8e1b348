---------------------------- MODULE MCOpenFiles ----------------------------
(***************************************************************************)
(* OpenFiles with the first process and two others, two descriptors        *)
(* above the standard ones and two such entries, so that two processes     *)
(* together can fill the table.                                            *)
(***************************************************************************)
EXTENDS OpenFiles
=============================================================================
