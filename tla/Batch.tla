------------------------------- MODULE Batch -------------------------------
(***************************************************************************)
(* What the scheduling code of NBOS1 promises, without pids, contexts or   *)
(* process states: a batch monitor.  Jobs are numbered in the order they   *)
(* are created, they are finished in that order, and at any time the CPU   *)
(* belongs to the idle process (0) or to the first unfinished job.         *)
(***************************************************************************)
EXTENDS Integers

CONSTANT Jobs        \* the numbers a job can have, all positive
VARIABLES created,   \* the jobs there are or have been
          finished,  \* the jobs that have exited
          onCpu,     \* the job that has the CPU, or 0
          stopped    \* the machine no longer runs user code

vars == <<created, finished, onCpu, stopped>>

First(j, S) == j \in S /\ \A i \in S : j <= i

Init ==
    /\ created = {}
    /\ finished = {}
    /\ onCpu = 0
    /\ stopped = FALSE

(***************************************************************************)
(* The running job creates another; the idle process only the first one.   *)
(***************************************************************************)
Create ==
    /\ ~stopped
    /\ onCpu = 0 => created = {}
    /\ \E j \in Jobs :
         /\ First(j, Jobs \ created)
         /\ created' = created \cup {j}
    /\ UNCHANGED <<finished, onCpu, stopped>>

(***************************************************************************)
(* The idle process gives way to the first unfinished job.                 *)
(***************************************************************************)
Dispatch ==
    /\ ~stopped
    /\ onCpu = 0
    /\ \E j \in Jobs :
         /\ First(j, created \ finished)
         /\ onCpu' = j
    /\ UNCHANGED <<created, finished, stopped>>

(***************************************************************************)
(* The job gives way to the idle process, or finishes; the machine may     *)
(* stop doing so.                                                          *)
(***************************************************************************)
Preempt ==
    /\ ~stopped
    /\ onCpu # 0
    /\ onCpu' = 0
    /\ stopped' \in BOOLEAN
    /\ UNCHANGED <<created, finished>>

Finish ==
    /\ ~stopped
    /\ onCpu # 0
    /\ finished' = finished \cup {onCpu}
    /\ onCpu' = 0
    /\ stopped' \in BOOLEAN
    /\ UNCHANGED created

Stop ==
    /\ ~stopped
    /\ onCpu # 0
    /\ stopped' = TRUE
    /\ UNCHANGED <<created, finished, onCpu>>

Next == Create \/ Dispatch \/ Preempt \/ Finish \/ Stop

Spec == Init /\ [][Next]_vars
=============================================================================
