------------------------------ MODULE Sectors ------------------------------
(***************************************************************************)
(* What the disk driver of NBOS1 promises to the file system: a request    *)
(* reads or writes the sector it names, as a whole, and no other.  While a *)
(* read is served the caller's buffer holds anything.  Nothing is promised *)
(* once the disk is spoiled.                                               *)
(***************************************************************************)
CONSTANTS Sector,   \* the sectors of the disk
          Content,  \* what a sector can hold
          None
VARIABLES stored,   \* the content of each sector
          request,  \* the request that is served, or None
          memory,   \* the caller's buffer
          spoiled   \* requests no longer do what they say

vars == <<stored, request, memory, spoiled>>

Init ==
    /\ stored \in [Sector -> Content]
    /\ request = None
    /\ memory \in Content
    /\ spoiled = FALSE

Ask ==
    /\ ~spoiled /\ request = None
    /\ \E op \in {"read", "write"}, s \in Sector :
         request' = [op |-> op, sector |-> s]
    /\ memory' \in Content
    /\ UNCHANGED <<stored, spoiled>>

Fill ==
    /\ ~spoiled /\ request # None
    /\ request.op = "read"
    /\ memory' \in Content
    /\ UNCHANGED <<stored, request, spoiled>>

Put ==
    /\ ~spoiled /\ request # None
    /\ request.op = "write"
    /\ stored' = [stored EXCEPT ![request.sector] = memory]
    /\ UNCHANGED <<request, memory, spoiled>>

Return ==
    /\ ~spoiled /\ request # None
    /\ memory = stored[request.sector]
    /\ request' = None
    /\ UNCHANGED <<stored, memory, spoiled>>

(* Spoiled or being spoiled, the rest of the state is whatever it is.      *)
Spoil == spoiled'

Next == Ask \/ Fill \/ Put \/ Return \/ Spoil

Spec == Init /\ [][Next]_vars
=============================================================================
