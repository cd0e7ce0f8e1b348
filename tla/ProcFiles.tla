----------------------------- MODULE ProcFiles -----------------------------
(***************************************************************************)
(* Open files under the scheduler the system really has: OpenFiles         *)
(* composed with Batch, which the process layer is proved to implement     *)
(* (ProcessProofs).  sys_fork and sys_exit are one handler each, so the    *)
(* descriptors are copied and closed in the step that creates or finishes  *)
(* the job.                                                                *)
(***************************************************************************)
EXTENDS OpenFiles

(***************************************************************************)
(* Processes are numbered in the order in which they are created, as the   *)
(* jobs of Batch are; number 0 is the one that forks first (main.c:110).   *)
(***************************************************************************)
ASSUME ProcFilesAssumption == Procs \subseteq Nat

VARIABLES created, finished, onCpu, stopped

schedVars == <<created, finished, onCpu, stopped>>
sysVars   == <<vars, schedVars>>

Sched == INSTANCE Batch WITH Jobs <- Procs \ {0}

SysInit == Init /\ Sched!Init

SysFork ==
    /\ Sched!Create
    /\ \E child \in created' \ created : Fork(onCpu, child)

SysExit == Sched!Finish /\ Exit(onCpu)

SysCall ==
    /\ ~stopped
    /\ onCpu # 0
    /\ Call(onCpu)
    /\ UNCHANGED schedVars

Switch ==
    /\ Sched!Dispatch \/ Sched!Preempt \/ Sched!Stop
    /\ UNCHANGED vars

SysNext == SysFork \/ SysExit \/ SysCall \/ Switch

SysSpec == SysInit /\ [][SysNext]_sysVars

-----------------------------------------------------------------------------
(***************************************************************************)
(* No entry outlives its process: all entries in use belong to descriptors *)
(* of the process that can run, the first unfinished one.  Descriptors a   *)
(* waiting child has inherited keep nothing open.                          *)
(***************************************************************************)
EntriesBelongToFront ==
    \A e \in Entries \ StdFds :
        fileList[e].isopen =>
            \E p \in created \ finished, fd \in Fds :
                /\ Sched!First(p, created \ finished)
                /\ IsOpen(p, fd) /\ EntryOf(p, fd) = e

(***************************************************************************)
(* unistd.h:48: open returns a descriptor, or -1.  sys_open returns one    *)
(* even if the table was full; under this scheduler it never is, because   *)
(* the entries in use are those of one process.                            *)
(***************************************************************************)
OpenReturnsOpenFd ==
    opened.fd # -1 => IsOpen(opened.proc, opened.fd)

-----------------------------------------------------------------------------
(* Properties stated by comments of the code that its behaviour contradicts. *)

(***************************************************************************)
(* file.c:430: every file that is open in the system is in the file table, *)
(* so an open descriptor points to an entry in use.                        *)
(***************************************************************************)
OpenFdsAreInTable ==
    \A p \in live, fd \in Fds : IsOpen(p, fd) => fileList[EntryOf(p, fd)].isopen
=============================================================================
