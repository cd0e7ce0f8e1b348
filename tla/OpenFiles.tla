----------------------------- MODULE OpenFiles -----------------------------
(***************************************************************************)
(* The system's table of open files and the file descriptors of the        *)
(* processes (file.c:382-399, 774-840; syscall.c:24-249 and the parts of   *)
(* sys_fork and sys_exit about descriptors).                               *)
(*                                                                         *)
(* The actions take the calling process as a parameter; here any live      *)
(* process may call at any time, ProcFiles adds the scheduler.  What is    *)
(* read and written is left out: of an offset only whether it has moved    *)
(* from the start is kept, and any path leads to some file, because        *)
(* seekFileInode never fails.                                              *)
(***************************************************************************)
EXTENDS Integers

CONSTANTS Procs,               \* slots of the process table; 0 is the first
          Files,               \* inodes
          FILE_MAX_InPROCESS,  \* descriptors of a process
          FILE_MAX_INSYS,      \* entries of fileList
          None                 \* no inode (f_inode_block_no = 0)

ASSUME OpenFilesAssumption ==
    /\ 0 \in Procs
    /\ FILE_MAX_InPROCESS \in Nat /\ FILE_MAX_INSYS \in Nat
    /\ 3 < FILE_MAX_InPROCESS
    /\ FILE_MAX_InPROCESS <= FILE_MAX_INSYS
    /\ None \notin Files

Fds      == 0 .. FILE_MAX_InPROCESS - 1
Entries  == 0 .. FILE_MAX_INSYS - 1
StdFds   == 0 .. 2
OFlags   == {"RDONLY", "WRONLY", "RDWR"}
NULL     == -1
Fd       == [open_flag : BOOLEAN, ofptr : Entries \cup {NULL}]
OpenFile == [isopen : BOOLEAN, oflags : OFlags, inode : Files \cup {None},
             moved : BOOLEAN]

VARIABLES
    live,      \* the processes that exist and have not exited
    fdlist,    \* pcb.fdlist of every slot
    fileList,  \* the system's table; "moved" stands for offset # 0
    opened     \* history: who called sys_open last and what it returned

vars == <<live, fdlist, fileList, opened>>

ClosedFd  == [open_flag |-> FALSE, ofptr |-> NULL]
NotOpened == [proc |-> 0, fd |-> -1]

IsOpen(p, fd) == fdlist[p][fd].open_flag
EntryOf(p, fd) == fdlist[p][fd].ofptr
EntriesOf(p) == {EntryOf(p, fd) : fd \in {d \in Fds : IsOpen(p, d)}}

-----------------------------------------------------------------------------
(***************************************************************************)
(* init_openFileList opens entries 0 to 2 for the standard streams and     *)
(* init_pcb closes every descriptor.  The oflags of the other entries are  *)
(* not initialised.                                                        *)
(***************************************************************************)
Init ==
    /\ live = {0}
    /\ fdlist = [p \in Procs |-> [fd \in Fds |-> ClosedFd]]
    /\ \E junk \in OFlags :
         fileList = [e \in Entries |->
             [isopen |-> e \in StdFds,
              oflags |-> IF e = 0 THEN "RDONLY"
                         ELSE IF e \in StdFds THEN "RDWR" ELSE junk,
              inode  |-> None,
              moved  |-> FALSE]]
    /\ opened = NotOpened

(***************************************************************************)
(* getMinfd: the least closed descriptor above the standard ones.          *)
(***************************************************************************)
FreeFds(p) == {fd \in Fds \ StdFds : ~IsOpen(p, fd)}

MinFdPastEnd(p, fd) ==                              \* mutant: wrong end test
    \/ FreeFds(p) = {} /\ fd = FILE_MAX_InPROCESS
    \/ fd \in FreeFds(p) /\ \A d \in FreeFds(p) : fd <= d
MinFd(p, fd) ==
    \/ FreeFds(p) = {} /\ fd = -1
    \/ fd \in FreeFds(p) /\ \A d \in FreeFds(p) : fd <= d

(***************************************************************************)
(* setOpenFileList takes the last closed entry and keeps its offset.       *)
(***************************************************************************)
ClosedEntries == {e \in Entries : ~fileList[e].isopen}

FirstEntry(e) == e = 0                               \* mutant: isopen not tested
LastClosed(e) == e \in ClosedEntries /\ \A i \in ClosedEntries : i <= e

SetOpenFileList(e, flag, f) ==
    [fileList EXCEPT ![e].isopen = TRUE, ![e].oflags = flag, ![e].inode = f]

(***************************************************************************)
(* delFile on every entry of a set.                                        *)
(***************************************************************************)
KeepOffset(S) ==                                    \* mutant: offset not reset
    [e \in Entries |->
        IF e \in S
        THEN [isopen |-> FALSE, oflags |-> "RDONLY", inode |-> None,
              moved |-> fileList[e].moved]
        ELSE fileList[e]]
DelFiles(S) ==
    [e \in Entries |->
        IF e \in S
        THEN [isopen |-> FALSE, oflags |-> "RDONLY", inode |-> None,
              moved |-> FALSE]
        ELSE fileList[e]]

(***************************************************************************)
(* sys_open: the descriptor is entered in the pcb only if the table had a  *)
(* closed entry, but it is returned in any case.                           *)
(***************************************************************************)
OpenUnchecked(p, flag) ==                           \* mutant: NULL not tested
    /\ \E fd \in Fds :
         /\ MinFd(p, fd)
         /\ opened' = [proc |-> p, fd |-> fd]
         /\ \E e \in Entries \cup {NULL} :
              /\ IF ClosedEntries = {} THEN e = NULL ELSE LastClosed(e)
              /\ fdlist' = [fdlist EXCEPT ![p][fd] =
                               [open_flag |-> TRUE, ofptr |-> e]]
              /\ \E f \in Files :
                   fileList' = IF e = NULL THEN fileList
                               ELSE SetOpenFileList(e, flag, f)
    /\ UNCHANGED live

OpenAs(p, flag) ==
    /\ \E fd \in -1 .. FILE_MAX_InPROCESS :
         /\ MinFd(p, fd)
         /\ opened' = [proc |-> p, fd |-> fd]
         /\ IF fd = -1 \/ ClosedEntries = {}
            THEN UNCHANGED <<fdlist, fileList>>
            ELSE \E e \in Entries, f \in Files :
                 /\ LastClosed(e)
                 /\ fileList' = SetOpenFileList(e, flag, f)
                 /\ fdlist' = [fdlist EXCEPT ![p][fd] =
                                  [open_flag |-> TRUE, ofptr |-> e]]
    /\ UNCHANGED live

Open(p) == \E flag \in OFlags : OpenAs(p, flag)

(***************************************************************************)
(* sys_creat returns -1 when the file cannot be made, and otherwise opens  *)
(* the path it has just entered for reading and writing.                   *)
(***************************************************************************)
Creat(p) ==
    \/ OpenAs(p, "RDWR")
    \/ opened' = [proc |-> p, fd |-> -1] /\ UNCHANGED <<live, fdlist, fileList>>

(***************************************************************************)
(* sys_close deletes the entry, whoever else has a descriptor for it.      *)
(***************************************************************************)
CloseForgets(p, fd) ==                              \* mutant: no delFile
    /\ IsOpen(p, fd)
    /\ fdlist' = [fdlist EXCEPT ![p][fd] = ClosedFd]
    /\ opened' = NotOpened
    /\ UNCHANGED <<live, fileList>>

Close(p, fd) ==
    /\ IsOpen(p, fd)
    /\ fileList' = DelFiles({EntryOf(p, fd)})
    /\ fdlist' = [fdlist EXCEPT ![p][fd] = ClosedFd]
    /\ opened' = NotOpened
    /\ UNCHANGED live

(***************************************************************************)
(* sys_read and sys_write on a descriptor with the right to do so (tested  *)
(* for equality) whose entry has an inode; every other call returns -1 and *)
(* changes nothing.  A transfer may move the offset.                       *)
(***************************************************************************)
Transfers(p, fd, flags) ==
    /\ IsOpen(p, fd)
    /\ fileList[EntryOf(p, fd)].oflags \in flags
    /\ fileList[EntryOf(p, fd)].inode # None

TransfersBlindly(p, fd, flags) ==                   \* mutant: inode not tested
    IsOpen(p, fd) /\ fileList[EntryOf(p, fd)].oflags \in flags

MoveOffset(p, fd) ==
    /\ fileList' = [fileList EXCEPT ![EntryOf(p, fd)].moved = TRUE]
    /\ opened' = NotOpened
    /\ UNCHANGED <<live, fdlist>>

Read(p, fd)  == Transfers(p, fd, {"RDONLY", "RDWR"}) /\ MoveOffset(p, fd)
Write(p, fd) == Transfers(p, fd, {"WRONLY", "RDWR"}) /\ MoveOffset(p, fd)

(***************************************************************************)
(* sys_fork gives the child the father's descriptors; sys_exit deletes the *)
(* entries of the open ones and closes them.                               *)
(***************************************************************************)
Fork(p, child) ==
    /\ child \notin live
    /\ live' = live \cup {child}
    /\ fdlist' = [fdlist EXCEPT ![child] = fdlist[p]]
    /\ opened' = NotOpened
    /\ UNCHANGED fileList

ExitForgets(p) ==                                   \* mutant: no delFile
    /\ live' = live \ {p}
    /\ fdlist' = [fdlist EXCEPT ![p] = [fd \in Fds |-> ClosedFd]]
    /\ opened' = NotOpened
    /\ UNCHANGED fileList

Exit(p) ==
    /\ live' = live \ {p}
    /\ fileList' = DelFiles(EntriesOf(p))
    /\ fdlist' = [fdlist EXCEPT ![p] =
                     [fd \in Fds |-> IF IsOpen(p, fd) THEN ClosedFd
                                     ELSE fdlist[p][fd]]]
    /\ opened' = NotOpened

Call(p) ==
    \/ Open(p)
    \/ Creat(p)
    \/ \E fd \in Fds : Close(p, fd) \/ Read(p, fd) \/ Write(p, fd)

(***************************************************************************)
(* The first process only forks (main.c:110-119).                          *)
(***************************************************************************)
Next ==
    \/ \E p \in live \ {0} : Call(p) \/ Exit(p)
    \/ \E p \in live, child \in Procs \ {0} : Fork(p, child)

Spec == Init /\ [][Next]_vars

-----------------------------------------------------------------------------
(***************************************************************************)
(* The type invariant.                                                     *)
(***************************************************************************)
TypeOK ==
    /\ live \subseteq Procs
    /\ fdlist \in [Procs -> [Fds -> Fd]]
    /\ fileList \in [Entries -> OpenFile]
    /\ opened \in [proc : Procs, fd : Fds \cup {-1}]

(***************************************************************************)
(* No entry leaks: however descriptors are copied and closed, an entry in  *)
(* use above the standard ones belongs to an open descriptor of a live     *)
(* process.                                                                *)
(***************************************************************************)
NoEntryLeaks ==
    \A e \in Entries \ StdFds :
        fileList[e].isopen =>
            \E p \in live, fd \in Fds : IsOpen(p, fd) /\ EntryOf(p, fd) = e

(***************************************************************************)
(* sys_read, sys_write, sys_close and sys_exit follow the pointer of an    *)
(* open descriptor without testing it: it is never NULL, and never one of  *)
(* the standard entries, so that no call can close those.                  *)
(***************************************************************************)
OpenFdsHaveAnEntry ==
    \A p \in Procs, fd \in Fds :
        IsOpen(p, fd) => EntryOf(p, fd) \in Entries \ StdFds

(***************************************************************************)
(* setOpenFileList relies on delFile for the offset of the entry it takes: *)
(* a closed entry is at offset 0 and has no inode, even while descriptors  *)
(* of other processes still point to it.                                   *)
(***************************************************************************)
ClosedEntriesAreClean ==
    \A e \in Entries :
        ~fileList[e].isopen => ~fileList[e].moved /\ fileList[e].inode = None

(***************************************************************************)
(* The standard entries stay as init_openFileList made them.               *)
(***************************************************************************)
StdEntriesStay ==
    \A e \in StdFds : fileList[e].isopen /\ fileList[e].inode = None

(***************************************************************************)
(* The inductive invariant behind these.                                   *)
(***************************************************************************)
IInv ==
    /\ TypeOK
    /\ NoEntryLeaks
    /\ OpenFdsHaveAnEntry
    /\ ClosedEntriesAreClean
    /\ StdEntriesStay
=============================================================================
