---------------------------- MODULE PageOwners ----------------------------
(***************************************************************************)
(* What the memory code of NBOS1 promises until the first execve, without  *)
(* directories, tables or free list: every physical page belongs to one    *)
(* process or is free, a new process is made of free pages, and a process  *)
(* that exits gives one page back and loses the others for ever.  Nothing  *)
(* is promised once the memory is spoiled.                                 *)
(***************************************************************************)
CONSTANTS Pages,    \* the physical pages
          Procs     \* the process slots
VARIABLES owned,    \* the pages of each process
          free,     \* the pages that can be allocated
          spoiled   \* free list and page tables no longer mean anything

vars == <<owned, free, spoiled>>

Init ==
    /\ owned \in [Procs -> SUBSET Pages]
    /\ \A p, q \in Procs : p # q => owned[p] \cap owned[q] = {}
    /\ free \in SUBSET Pages
    /\ \A p \in Procs : owned[p] \cap free = {}
    /\ spoiled = FALSE

(***************************************************************************)
(* A slot without pages gets some free ones, which are no longer free.     *)
(***************************************************************************)
Create(p) ==
    /\ ~spoiled /\ owned[p] = {}
    /\ owned'[p] # {} /\ owned'[p] \subseteq free
    /\ owned' = [owned EXCEPT ![p] = owned'[p]]
    /\ free' = free \ owned'[p]
    /\ UNCHANGED spoiled

(***************************************************************************)
(* A process gives up its pages; one of them becomes free.                 *)
(***************************************************************************)
Finish(p) ==
    /\ ~spoiled /\ owned[p] # {}
    /\ owned' = [owned EXCEPT ![p] = {}]
    /\ \E d \in owned[p] : free' = free \cup {d}
    /\ UNCHANGED spoiled

Spoil ==
    /\ ~spoiled /\ spoiled'
    /\ owned' = [p \in Procs |-> {}] /\ free' = {}

Next ==
    \/ \E p \in Procs : Create(p) \/ Finish(p)
    \/ Spoil

Spec == Init /\ [][Next]_vars
=============================================================================
