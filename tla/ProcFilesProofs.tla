-------------------------- MODULE ProcFilesProofs --------------------------
(***************************************************************************)
(* Proofs about ProcFiles, for every set of processes and every size of    *)
(* the two tables: under this scheduler the entries in use are those of    *)
(* one process, so that open never finds the table full. OpenFilesProofs   *)
(* has the invariant of the tables alone; what is added here is who runs.  *)
(***************************************************************************)
EXTENDS ProcFiles, OpenFilesProofs, FiniteSetTheorems

(***************************************************************************)
(* The processes that fork has created and exit has not finished.          *)
(***************************************************************************)
Waiting == created \ finished

(***************************************************************************)
(* The scheduler and the tables agree on who is there, only the first      *)
(* unfinished process runs, and fork hands out the numbers in order: a new *)
(* child is behind every process there is, so it takes the processor from  *)
(* none.                                                                   *)
(***************************************************************************)
SchedInv ==
    /\ created \subseteq Procs \ {0} /\ finished \subseteq created
    /\ live = {0} \cup Waiting
    /\ onCpu # 0 => Sched!First(onCpu, Waiting)
    /\ \A i \in created, k \in Procs \ {0} : k < i => k \in created

(***************************************************************************)
(* The descriptors of process 0 and the standard ones are closed in the    *)
(* table (sys_open never picks them), so the room above the standard ones  *)
(* is what counts; and the two properties.                                 *)
(***************************************************************************)
FilesInv ==
    /\ \A fd \in Fds : ~IsOpen(0, fd)
    /\ \A p \in Procs, fd \in StdFds : ~IsOpen(p, fd)
    /\ EntriesBelongToFront
    /\ OpenReturnsOpenFd

(***************************************************************************)
(* The invariant: that of the tables, that of the scheduler, and what they *)
(* give together.                                                          *)
(***************************************************************************)
SysInv == IInv /\ SchedInv /\ FilesInv

-----------------------------------------------------------------------------
(***************************************************************************)
(* The invariant holds at first.                                           *)
(***************************************************************************)
LEMMA SysInitInv == SysInit => SysInv
<1> SUFFICES ASSUME SysInit PROVE SysInv
  OBVIOUS
<1>1. IInv
  BY InitIInv DEF SysInit
<1>2. SchedInv
  BY DEF SysInit, Init, Sched!Init, SchedInv, Waiting
<1>3. /\ \A p \in Procs, fd \in Fds : ~IsOpen(p, fd)
      /\ \A e \in Entries \ StdFds : ~fileList[e].isopen
  <2>1. \A p \in Procs, fd \in Fds : ~IsOpen(p, fd)
    BY DEF SysInit, Init, ClosedFd, IsOpen
  <2>2. ASSUME NEW e \in Entries \ StdFds PROVE ~fileList[e].isopen
    <3>1. fileList[e].isopen = (e \in StdFds)
      <4>1. PICK junk \in OFlags :
              fileList[e] = [isopen |-> e \in StdFds,
                             oflags |->
                                IF e = 0 THEN "RDONLY"
                                ELSE IF e \in StdFds THEN "RDWR" ELSE junk,
                             inode  |-> None,
                             moved  |-> FALSE]
        BY <2>2 DEF SysInit, Init
      <4> QED
        BY <4>1
    <3> QED
      BY <2>2, <3>1
  <2> QED
    BY <2>1, <2>2
<1>4. opened.fd = -1
  BY DEF SysInit, Init, NotOpened
<1>5. FilesInv
  BY <1>3, <1>4, OpenFilesAssumption
  DEF FilesInv, EntriesBelongToFront, OpenReturnsOpenFd, Fds, StdFds
<1> QED
  BY <1>1, <1>2, <1>5 DEF SysInv

(***************************************************************************)
(* Only one process is the first.                                          *)
(***************************************************************************)
LEMMA FirstIsUnique ==
    ASSUME NEW S \in SUBSET Nat, NEW p, NEW q,
           Sched!First(p, S), Sched!First(q, S)
    PROVE  p = q
BY DEF Sched!First

-----------------------------------------------------------------------------
(***************************************************************************)
(* sys_fork: the child gets the descriptors of its parent and not its      *)
(* entries, and since it is behind the front process, the entries in use   *)
(* still belong to that one.                                               *)
(***************************************************************************)
LEMMA ForkInv ==
    ASSUME SysInv, SysFork
    PROVE  SysInv' /\ Next
<1> USE DEF SysInv
<1>1. PICK child \in Procs \ {0} :
        /\ Sched!First(child, (Procs \ {0}) \ created)
        /\ created' = created \cup {child}
  BY DEF SysFork, Sched!Create
<1>2. /\ child \notin created
      /\ \A k \in (Procs \ {0}) \ created : child <= k
  BY <1>1 DEF Sched!First
<1>3. Fork(onCpu, child) /\ UNCHANGED <<finished, onCpu, stopped>>
  BY <1>1, <1>2 DEF SysFork, Sched!Create
<1>4. onCpu \in live
  BY DEF SchedInv, Sched!First
<1>5. Next /\ IInv'
  BY <1>3, <1>4, ForkIInv DEF Next
<1>6. /\ live' = live \cup {child} /\ fileList' = fileList
      /\ opened' = NotOpened
      /\ fdlist' = [fdlist EXCEPT ![child] = fdlist[onCpu]]
  BY <1>3 DEF Fork
<1>7. /\ fdlist'[child] = fdlist[onCpu]
      /\ \A q \in Procs \ {child} : fdlist'[q] = fdlist[q]
  BY <1>6 DEF IInv, TypeOK
<1>8. Waiting' = Waiting \cup {child}
  BY <1>1, <1>2, <1>3 DEF Waiting, SchedInv
<1>9. ASSUME NEW p, Sched!First(p, Waiting) PROVE Sched!First(p, Waiting')
  <2>1. p \in created /\ p \in Nat /\ child \in Nat /\ child # p
    BY <1>1, <1>2, <1>9, ProcFilesAssumption DEF Sched!First, Waiting, SchedInv
  <2>2. ~(child < p)
    BY <1>1, <1>2, <2>1 DEF SchedInv
  <2>3. p <= child
    BY <2>1, <2>2
  <2> QED
    BY <1>8, <1>9, <2>3 DEF Sched!First
<1>10. SchedInv'
  <2>1. onCpu' # 0 => Sched!First(onCpu', Waiting')
    BY <1>3, <1>9 DEF SchedInv
  <2>2. live' = {0} \cup Waiting'
    BY <1>6, <1>8 DEF SchedInv
  <2>3. /\ created' \subseteq Procs \ {0} /\ finished' \subseteq created'
    BY <1>1, <1>3 DEF SchedInv
  <2>4. ASSUME NEW i \in created', NEW k \in Procs \ {0}, k < i
        PROVE  k \in created'
    <3>1. i \in created \/ i = child
      BY <1>1
    <3>2. CASE i = child
      BY <1>1, <1>2, <2>4, <3>2, ProcFilesAssumption
    <3> QED
      BY <1>1, <2>4, <3>1, <3>2 DEF SchedInv
  <2> QED
    BY <2>1, <2>2, <2>3, <2>4 DEF SchedInv
<1>11. FilesInv'
  <2>1. onCpu \in Procs /\ 0 \in Procs /\ child # 0
    BY <1>1, <1>4, OpenFilesAssumption DEF IInv, TypeOK
  <2>2. \A fd \in Fds : ~IsOpen(0, fd)'
    BY <1>7, <2>1 DEF FilesInv, IsOpen
  <2>3. \A p \in Procs, fd \in StdFds : ~IsOpen(p, fd)'
    BY <1>7, <2>1 DEF FilesInv, IsOpen
  <2>4. ASSUME NEW e \in Entries \ StdFds, fileList'[e].isopen
        PROVE  \E p \in Waiting', fd \in Fds :
                  /\ Sched!First(p, Waiting')
                  /\ fdlist'[p][fd].open_flag /\ fdlist'[p][fd].ofptr = e
    <3>1. PICK p \in Waiting, fd \in Fds :
             /\ Sched!First(p, Waiting)
             /\ fdlist[p][fd].open_flag /\ fdlist[p][fd].ofptr = e
      BY <1>6, <2>4
      DEF FilesInv, EntriesBelongToFront, Waiting, IsOpen, EntryOf
    <3>2. p \in Procs \ {child}
      BY <1>2 DEF Waiting, SchedInv
    <3> QED
      BY <1>7, <1>8, <1>9, <3>1, <3>2
  <2>5. EntriesBelongToFront'
    BY <2>4 DEF EntriesBelongToFront, Waiting, IsOpen, EntryOf
  <2>6. OpenReturnsOpenFd'
    BY <1>6 DEF OpenReturnsOpenFd, NotOpened
  <2> QED
    BY <2>2, <2>3, <2>5, <2>6 DEF FilesInv
<1> QED
  BY <1>5, <1>10, <1>11

(***************************************************************************)
(* sys_exit: it runs in the front process, so the entries it closes are    *)
(* all there are; the next process finds the table empty, whatever it has  *)
(* inherited.                                                              *)
(***************************************************************************)
LEMMA ExitInv ==
    ASSUME SysInv, SysExit
    PROVE  SysInv' /\ Next
<1> USE DEF SysInv
<1>1. /\ onCpu # 0 /\ finished' = finished \cup {onCpu} /\ onCpu' = 0
      /\ created' = created /\ Exit(onCpu)
  BY DEF SysExit, Sched!Finish
<1>2. onCpu \in live \ {0} /\ onCpu \in Waiting /\ onCpu \in Procs
      /\ Sched!First(onCpu, Waiting)
  BY <1>1 DEF SchedInv, Sched!First, IInv, TypeOK
<1>3. Next /\ IInv'
  BY <1>1, <1>2, ExitIInv DEF Next
<1>4. /\ live' = live \ {onCpu} /\ opened' = NotOpened
      /\ fileList' = DelFiles(EntriesOf(onCpu))
      /\ fdlist' = [fdlist EXCEPT ![onCpu] =
                     [fd \in Fds |-> IF IsOpen(onCpu, fd) THEN ClosedFd
                                     ELSE fdlist[onCpu][fd]]]
  BY <1>1 DEF Exit
<1>5. SchedInv'
  <2>1. Waiting' = Waiting \ {onCpu}
    BY <1>1 DEF Waiting
  <2> QED
    BY <1>1, <1>2, <1>4, <2>1 DEF SchedInv, Waiting
<1>6. \A p \in Procs, fd \in Fds : IsOpen(p, fd)' => IsOpen(p, fd)
  <2>1. \A q \in Procs \ {onCpu} : fdlist'[q] = fdlist[q]
    BY <1>4 DEF IInv, TypeOK
  <2>2. \A fd \in Fds : fdlist'[onCpu][fd] = IF fdlist[onCpu][fd].open_flag
                                            THEN ClosedFd
                                            ELSE fdlist[onCpu][fd]
    BY <1>2, <1>4 DEF IInv, TypeOK, IsOpen
  <2> QED
    BY <2>1, <2>2 DEF IsOpen, ClosedFd
<1>7. ASSUME NEW e \in Entries \ StdFds PROVE ~fileList'[e].isopen
  <2>1. CASE e \in EntriesOf(onCpu)
    BY <1>4, <2>1, DelFilesEffect DEF IInv
  <2>2. CASE e \notin EntriesOf(onCpu)
    <3>1. fileList'[e] = fileList[e]
      BY <1>4, <2>2, DelFilesEffect DEF IInv
    <3>2. ASSUME fileList[e].isopen PROVE FALSE
      <4>1. PICK p \in Waiting, fd \in Fds :
               Sched!First(p, Waiting) /\ IsOpen(p, fd) /\ EntryOf(p, fd) = e
        BY <3>2 DEF FilesInv, EntriesBelongToFront, Waiting
      <4>2. Waiting \in SUBSET Nat
        BY ProcFilesAssumption DEF SchedInv, Waiting
      <4>3. p = onCpu
        BY <1>2, <4>1, <4>2, FirstIsUnique
      <4> QED
        BY <2>2, <4>1, <4>3 DEF EntriesOf
    <3> QED
      BY <3>1, <3>2
  <2> QED
    BY <2>1, <2>2
<1>8. FilesInv'
  <2>1. /\ \A fd \in Fds : ~IsOpen(0, fd)'
        /\ \A p \in Procs, fd \in StdFds : ~IsOpen(p, fd)'
    BY <1>6, OpenFilesAssumption DEF FilesInv, Fds, StdFds
  <2>2. EntriesBelongToFront'
    BY <1>7 DEF EntriesBelongToFront
  <2>3. OpenReturnsOpenFd'
    BY <1>4 DEF OpenReturnsOpenFd, NotOpened
  <2> QED
    BY <2>1, <2>2, <2>3 DEF FilesInv
<1> QED
  BY <1>3, <1>5, <1>8

(***************************************************************************)
(* A step that opens and closes nothing keeps the files' part.             *)
(***************************************************************************)
LEMMA TablesKept ==
    ASSUME FilesInv, UNCHANGED <<created, finished, fdlist>>,
           \A e \in Entries : fileList'[e].isopen = fileList[e].isopen,
           opened' = opened \/ opened'.fd = -1
    PROVE  FilesInv'
<1>1. ASSUME NEW e \in Entries \ StdFds, fileList'[e].isopen
      PROVE  \E p \in created' \ finished', fd \in Fds :
                /\ Sched!First(p, created' \ finished')
                /\ fdlist'[p][fd].open_flag /\ fdlist'[p][fd].ofptr = e
  <2>1. fileList[e].isopen
    BY <1>1
  <2>2. PICK p \in created \ finished, fd \in Fds :
           /\ Sched!First(p, created \ finished)
           /\ fdlist[p][fd].open_flag /\ fdlist[p][fd].ofptr = e
    BY <2>1 DEF FilesInv, EntriesBelongToFront, IsOpen, EntryOf
  <2> QED
    BY <2>2
<1>2. EntriesBelongToFront'
  BY <1>1 DEF EntriesBelongToFront, IsOpen, EntryOf
<1>3. OpenReturnsOpenFd'
  BY DEF FilesInv, OpenReturnsOpenFd, IsOpen
<1> QED
  BY <1>2, <1>3 DEF FilesInv, IsOpen

-----------------------------------------------------------------------------
(***************************************************************************)
(* A switch touches neither descriptors nor entries, and dispatches the    *)
(* front process only.                                                     *)
(***************************************************************************)
LEMMA SwitchInv ==
    ASSUME SysInv, Switch
    PROVE  SysInv' /\ UNCHANGED vars
<1> USE DEF SysInv
<1>1. /\ created' = created /\ finished' = finished
      /\ onCpu' # 0 => onCpu' = onCpu \/ Sched!First(onCpu', Waiting)
      /\ UNCHANGED vars
  BY DEF Switch, Sched!Dispatch, Sched!Preempt, Sched!Stop, Waiting
<1>2. UNCHANGED <<live, fdlist, fileList, opened>>
  BY <1>1 DEF vars
<1>3. Waiting' = Waiting
  BY <1>1 DEF Waiting
<1>4. IInv'
  BY <1>1, NextIInv
<1>5. SchedInv'
  BY <1>1, <1>2, <1>3 DEF SchedInv
<1>6. FilesInv'
  BY <1>1, <1>2, TablesKept
<1> QED
  BY <1>1, <1>4, <1>5, <1>6

(***************************************************************************)
(* The process on the processor is the front one, and every entry in use   *)
(* is behind one of its descriptors.                                       *)
(***************************************************************************)
LEMMA RunningIsFront ==
    ASSUME SysInv, onCpu # 0
    PROVE  /\ onCpu \in live \ {0} /\ onCpu \in Procs
           /\ onCpu \in Waiting /\ Sched!First(onCpu, Waiting)
           /\ \A e \in Entries \ StdFds :
                 fileList[e].isopen =>
                    \E fd \in Fds : IsOpen(onCpu, fd) /\ EntryOf(onCpu, fd) = e
<1> USE DEF SysInv
<1>1. /\ onCpu \in live \ {0} /\ onCpu \in Waiting /\ onCpu \in Procs
      /\ Sched!First(onCpu, Waiting)
  BY DEF SchedInv, Sched!First, IInv, TypeOK
<1>2. ASSUME NEW e \in Entries \ StdFds, fileList[e].isopen
      PROVE  \E fd \in Fds : IsOpen(onCpu, fd) /\ EntryOf(onCpu, fd) = e
  <2>1. PICK p \in Waiting, fd \in Fds :
           Sched!First(p, Waiting) /\ IsOpen(p, fd) /\ EntryOf(p, fd) = e
    BY <1>2 DEF FilesInv, EntriesBelongToFront, Waiting
  <2>2. Waiting \in SUBSET Nat
    BY ProcFilesAssumption DEF SchedInv, Waiting
  <2>3. p = onCpu
    BY <1>1, <2>1, <2>2, FirstIsUnique
  <2> QED
    BY <2>1, <2>3
<1> QED
  BY <1>1, <1>2

(***************************************************************************)
(* The argument for sys_open: with a free descriptor left, the running     *)
(* process has fewer open ones than there are entries above the standard   *)
(* ones (kernel.h:204-205: a process may not have more than the system),   *)
(* and every entry in use is behind one of them; so one is closed.         *)
(***************************************************************************)
LEMMA TableHasRoom ==
    ASSUME SysInv, onCpu # 0, NEW fd \in FreeFds(onCpu)
    PROVE  ClosedEntries # {}
<1> USE OpenFilesAssumption
<1> DEFINE S == Entries \ StdFds
           T == (Fds \ StdFds) \ {fd}
<1>1. SUFFICES ASSUME ClosedEntries = {} PROVE FALSE
  OBVIOUS
<1>2. fd \in Fds \ StdFds /\ ~IsOpen(onCpu, fd)
  BY DEF FreeFds
<1>3. /\ S = 3 .. FILE_MAX_INSYS - 1
      /\ Fds \ StdFds = 3 .. FILE_MAX_InPROCESS - 1
  BY DEF Entries, StdFds, Fds
<1>4. /\ IsFiniteSet(S) /\ Cardinality(S) = FILE_MAX_INSYS - 3
      /\ IsFiniteSet(Fds \ StdFds)
      /\ Cardinality(Fds \ StdFds) = FILE_MAX_InPROCESS - 3
  <2>1. /\ 3 \in Int
        /\ FILE_MAX_INSYS - 1 \in Int /\ FILE_MAX_InPROCESS - 1 \in Int
    OBVIOUS
  <2> DEFINE U == Fds \ StdFds
  <2>2. U = 3 .. FILE_MAX_InPROCESS - 1
    BY <1>3
  <2> HIDE DEF S, U
  <2>3. IsFiniteSet(S) /\ Cardinality(S) = FILE_MAX_INSYS - 3
    BY <1>3, <2>1, FS_Interval
  <2>4. IsFiniteSet(U) /\ Cardinality(U) = FILE_MAX_InPROCESS - 3
    BY <2>1, <2>2, FS_Interval
  <2> QED
    BY <2>3, <2>4 DEF U
<1>5. /\ IsFiniteSet(T) /\ Cardinality(T) = FILE_MAX_InPROCESS - 4
  BY <1>2, <1>4, FS_RemoveElement
<1>6. ASSUME NEW e \in S
      PROVE  \E d \in T : IsOpen(onCpu, d) /\ EntryOf(onCpu, d) = e
  <2>1. fileList[e].isopen
    BY <1>1 DEF ClosedEntries
  <2>2. PICK d \in Fds : IsOpen(onCpu, d) /\ EntryOf(onCpu, d) = e
    BY <2>1, RunningIsFront
  <2>3. d \notin StdFds /\ d # fd
    BY <1>2, <2>2, RunningIsFront DEF SysInv, FilesInv
  <2> QED
    BY <2>2, <2>3
<1> DEFINE f == [e \in S |-> CHOOSE d \in T :
                              IsOpen(onCpu, d) /\ EntryOf(onCpu, d) = e]
<1>7. f \in [S -> T] /\ \A e \in S : EntryOf(onCpu, f[e]) = e
  BY <1>6
<1>8. Cardinality(T) < Cardinality(S)
  BY <1>4, <1>5
<1> HIDE DEF f, S, T
<1>9. \E x, y \in S : x # y /\ f[x] = f[y]
  BY <1>4, <1>5, <1>7, <1>8, FS_PigeonHole
<1> QED
  BY <1>7, <1>9

-----------------------------------------------------------------------------
(***************************************************************************)
(* sys_open and sys_creat: the entry they take and the descriptor they     *)
(* return are the caller's, the front process's.                           *)
(***************************************************************************)
LEMMA OpenCallInv ==
    ASSUME SysInv, onCpu # 0, NEW flag \in OFlags, OpenAs(onCpu, flag),
           UNCHANGED schedVars
    PROVE  FilesInv'
<1> USE OpenFilesAssumption DEF SysInv
<1> DEFINE p == onCpu
<1>1. PICK fd \in -1 .. FILE_MAX_InPROCESS :
         /\ MinFd(p, fd)
         /\ opened' = [proc |-> p, fd |-> fd]
         /\ IF fd = -1 \/ ClosedEntries = {}
            THEN UNCHANGED <<fdlist, fileList>>
            ELSE \E e \in Entries, f \in Files :
                 /\ LastClosed(e)
                 /\ fileList' = SetOpenFileList(e, flag, f)
                 /\ fdlist' = [fdlist EXCEPT ![p][fd] =
                                  [open_flag |-> TRUE, ofptr |-> e]]
  BY DEF OpenAs
<1>2. UNCHANGED <<created, finished, onCpu, stopped>>
  BY DEF schedVars
<1>3. CASE fd = -1
  <2>1. fdlist' = fdlist /\ fileList' = fileList /\ opened'.fd = -1
    BY <1>1, <1>3
  <2> QED
    BY <1>2, <2>1, TablesKept
<1>4. CASE fd # -1
  <2>1. fd \in FreeFds(p)
    BY <1>1, <1>4 DEF MinFd
  <2>2. ClosedEntries # {}
    BY <2>1, TableHasRoom
  <2>3. PICK e0 \in Entries, f \in Files :
           /\ fileList' = SetOpenFileList(e0, flag, f)
           /\ fdlist' = [fdlist EXCEPT ![p][fd] =
                            [open_flag |-> TRUE, ofptr |-> e0]]
    BY <1>1, <1>4, <2>2
  <2>4. /\ p \in Procs \ {0} /\ fd \in Fds \ StdFds /\ ~IsOpen(p, fd)
        /\ Sched!First(p, Waiting) /\ p \in Waiting
    BY <2>1, RunningIsFront DEF FreeFds
  <2>5. /\ \A e \in Entries \ {e0} : fileList'[e] = fileList[e]
        /\ fdlist'[p][fd].open_flag /\ fdlist'[p][fd].ofptr = e0
        /\ \A q \in Procs, d \in Fds :
              q # p \/ d # fd => fdlist'[q][d] = fdlist[q][d]
    <3>1. \A e \in Entries \ {e0} : fileList'[e] = fileList[e]
      BY <2>3 DEF SetOpenFileList, IInv, TypeOK
    <3>2. fdlist \in [Procs -> [Fds -> Fd]]
      BY DEF IInv, TypeOK
    <3>3. fdlist'[p] = [fdlist[p] EXCEPT ![fd] =
                           [open_flag |-> TRUE, ofptr |-> e0]]
      BY <2>3, <2>4, <3>2
    <3>4. \A q \in Procs \ {p} : fdlist'[q] = fdlist[q]
      BY <2>3, <3>2
    <3> QED
      BY <2>4, <3>1, <3>2, <3>3, <3>4
  <2>6. /\ \A d \in Fds : ~IsOpen(0, d)'
        /\ \A q \in Procs, d \in StdFds : ~IsOpen(q, d)'
    BY <2>4, <2>5 DEF FilesInv, IsOpen, Fds, StdFds
  <2>7. ASSUME NEW e \in Entries \ StdFds, fileList'[e].isopen
        PROVE  \E d \in Fds :
                  fdlist'[p][d].open_flag /\ fdlist'[p][d].ofptr = e
    <3>1. CASE e = e0
      BY <2>4, <2>5, <3>1
    <3>2. CASE e # e0
      <4>1. PICK d \in Fds : fdlist[p][d].open_flag /\ fdlist[p][d].ofptr = e
        BY <2>5, <2>7, <3>2, RunningIsFront DEF IsOpen, EntryOf
      <4>2. d # fd
        BY <2>4, <4>1 DEF IsOpen
      <4> QED
        BY <2>4, <2>5, <4>1, <4>2
    <3> QED
      BY <3>1, <3>2
  <2>8. EntriesBelongToFront'
    BY <1>2, <2>4, <2>7 DEF EntriesBelongToFront, Waiting, IsOpen, EntryOf
  <2>9. OpenReturnsOpenFd'
    BY <1>1, <2>5 DEF OpenReturnsOpenFd, IsOpen
  <2> QED
    BY <2>6, <2>8, <2>9 DEF FilesInv
<1> QED
  BY <1>3, <1>4

(***************************************************************************)
(* sys_close: every entry that stays in use is behind a descriptor that    *)
(* stays open.                                                             *)
(***************************************************************************)
LEMMA CloseCallInv ==
    ASSUME SysInv, onCpu # 0, NEW fd \in Fds, Close(onCpu, fd),
           UNCHANGED schedVars
    PROVE  FilesInv'
<1> USE OpenFilesAssumption DEF SysInv
<1> DEFINE p  == onCpu
           e0 == EntryOf(p, fd)
<1>1. /\ UNCHANGED <<created, finished, onCpu, stopped>>
      /\ p \in Procs \ {0} /\ p \in Waiting /\ Sched!First(p, Waiting)
  BY RunningIsFront DEF schedVars
<1>2. /\ IsOpen(p, fd) /\ opened' = NotOpened
      /\ fileList' = DelFiles({e0})
      /\ fdlist' = [fdlist EXCEPT ![p][fd] = ClosedFd]
  BY DEF Close
<1> HIDE DEF e0
<1>3. \A e \in Entries : fileList'[e].isopen => e # e0 /\ fileList[e].isopen
  BY <1>2, DelFilesEffect DEF IInv
<1>4. /\ fdlist'[p][fd] = ClosedFd
      /\ \A q \in Procs, d \in Fds :
            q # p \/ d # fd => fdlist'[q][d] = fdlist[q][d]
  BY <1>1, <1>2 DEF IInv, TypeOK
<1>5. \A q \in Procs, d \in Fds : IsOpen(q, d)' => IsOpen(q, d)
  BY <1>4 DEF IsOpen, ClosedFd
<1>6. ASSUME NEW e \in Entries \ StdFds, fileList'[e].isopen
      PROVE  \E d \in Fds : fdlist'[p][d].open_flag /\ fdlist'[p][d].ofptr = e
  <2>1. e # e0 /\ fileList[e].isopen
    BY <1>3, <1>6
  <2>2. PICK d \in Fds : fdlist[p][d].open_flag /\ fdlist[p][d].ofptr = e
    BY <2>1, RunningIsFront DEF IsOpen, EntryOf
  <2>3. d # fd
    BY <2>1, <2>2 DEF e0, EntryOf
  <2> QED
    BY <1>1, <1>4, <2>2, <2>3
<1>7. EntriesBelongToFront'
  BY <1>1, <1>6 DEF EntriesBelongToFront, Waiting, IsOpen, EntryOf
<1>8. OpenReturnsOpenFd'
  BY <1>2 DEF OpenReturnsOpenFd, NotOpened
<1>9. /\ \A d \in Fds : ~IsOpen(0, d)'
      /\ \A q \in Procs, d \in StdFds : ~IsOpen(q, d)'
  BY <1>5 DEF FilesInv, Fds, StdFds
<1> QED
  BY <1>7, <1>8, <1>9 DEF FilesInv

(***************************************************************************)
(* sys_read and sys_write move the offset of an entry and nothing else.    *)
(***************************************************************************)
LEMMA TransferCallInv ==
    ASSUME SysInv, onCpu # 0, NEW fd \in Fds,
           Read(onCpu, fd) \/ Write(onCpu, fd), UNCHANGED schedVars
    PROVE  FilesInv'
<1> USE OpenFilesAssumption DEF SysInv
<1>1. UNCHANGED <<created, finished, onCpu, stopped>>
  BY DEF schedVars
<1>2. /\ fileList' = [fileList EXCEPT ![EntryOf(onCpu, fd)].moved = TRUE]
      /\ fdlist' = fdlist /\ opened' = NotOpened
  BY DEF Read, Write, MoveOffset
<1>3. \A e \in Entries : fileList'[e].isopen = fileList[e].isopen
  BY <1>2 DEF IInv, TypeOK, OpenFile
<1> QED
  BY <1>1, <1>2, <1>3, TablesKept DEF NotOpened

(***************************************************************************)
(* The system calls on files together.                                     *)
(***************************************************************************)
LEMMA CallInv ==
    ASSUME SysInv, SysCall
    PROVE  SysInv' /\ Next
<1> USE DEF SysInv
<1>1. onCpu # 0 /\ Call(onCpu) /\ UNCHANGED schedVars
  BY DEF SysCall
<1>2. onCpu \in live \ {0}
  BY <1>1, RunningIsFront
<1>3. Next
  BY <1>1, <1>2 DEF Next
<1>4. IInv'
  BY <1>3, NextIInv
<1>5. live' = live
  BY <1>1 DEF Call, Open, Creat, OpenAs, Close, Read, Write, MoveOffset
<1>6. SchedInv'
  BY <1>1, <1>5 DEF SchedInv, Waiting, schedVars
<1>7. FilesInv'
  <2>1. CASE Open(onCpu)
    BY <1>1, <2>1, OpenCallInv DEF Open
  <2>2. CASE Creat(onCpu)
    <3>1. CASE OpenAs(onCpu, "RDWR")
      BY <1>1, <3>1, OpenCallInv DEF OFlags
    <3>2. CASE /\ opened' = [proc |-> onCpu, fd |-> -1]
               /\ UNCHANGED <<live, fdlist, fileList>>
      BY <1>1, <3>2, TablesKept DEF schedVars
    <3> QED
      BY <2>2, <3>1, <3>2 DEF Creat
  <2>3. ASSUME NEW fd \in Fds, Close(onCpu, fd) PROVE FilesInv'
    BY <1>1, <2>3, CloseCallInv
  <2>4. ASSUME NEW fd \in Fds, Read(onCpu, fd) \/ Write(onCpu, fd)
        PROVE  FilesInv'
    BY <1>1, <2>4, TransferCallInv
  <2> QED
    BY <1>1, <2>1, <2>2, <2>3, <2>4 DEF Call
<1> QED
  BY <1>3, <1>4, <1>6, <1>7

-----------------------------------------------------------------------------
(***************************************************************************)
(* Every step keeps the invariant, and is a step of OpenFiles or leaves    *)
(* the tables alone.                                                       *)
(***************************************************************************)
LEMMA SysInductive == SysInv /\ [SysNext]_sysVars => SysInv' /\ [Next]_vars
<1> SUFFICES ASSUME SysInv, [SysNext]_sysVars PROVE SysInv' /\ [Next]_vars
  OBVIOUS
<1>1. CASE SysNext
  BY <1>1, ForkInv, ExitInv, CallInv, SwitchInv DEF SysNext
<1>2. CASE UNCHANGED sysVars
  <2>1. UNCHANGED vars /\ UNCHANGED schedVars
    BY <1>2 DEF sysVars
  <2>2. IInv'
    BY <2>1, NextIInv DEF SysInv
  <2>3. SchedInv'
    BY <2>1 DEF SysInv, SchedInv, Waiting, vars, schedVars
  <2>4. FilesInv'
    BY <2>1, TablesKept DEF SysInv, vars, schedVars
  <2> QED
    BY <2>1, <2>2, <2>3, <2>4 DEF SysInv
<1> QED
  BY <1>1, <1>2

(***************************************************************************)
(* The invariant holds in every reachable state.                           *)
(***************************************************************************)
LEMMA SysInvariant == SysSpec => []SysInv
<1>1. SysInv /\ [SysNext]_sysVars => SysInv'
  BY SysInductive
<1> QED
  BY <1>1, SysInitInv, PTL DEF SysSpec

-----------------------------------------------------------------------------
(***************************************************************************)
(* Every entry in use above the standard ones belongs to a descriptor of   *)
(* the first unfinished process: what a waiting child got from fork        *)
(* (sys_fork copies fdlist, not the table: syscall.c:335-338) keeps no     *)
(* entry open.                                                             *)
(***************************************************************************)
THEOREM ProcFilesEntriesBelongToFront == SysSpec => []EntriesBelongToFront
<1>1. SysInv => EntriesBelongToFront
  BY DEF SysInv, FilesInv
<1> QED
  BY <1>1, SysInvariant, PTL

(***************************************************************************)
(* A descriptor that sys_open or sys_creat returns is open: unistd.h:48    *)
(* holds although sys_open does not look whether the table was full.       *)
(***************************************************************************)
THEOREM ProcFilesOpenReturnsOpenFd == SysSpec => []OpenReturnsOpenFd
<1>1. SysInv => OpenReturnsOpenFd
  BY DEF SysInv, FilesInv
<1> QED
  BY <1>1, SysInvariant, PTL

(***************************************************************************)
(* The composition is one: every behaviour of it is a behaviour of the     *)
(* open files and of the scheduler, so that the theorems about OpenFiles   *)
(* and about Batch hold of it.                                             *)
(***************************************************************************)
THEOREM ProcFilesComposes == SysSpec => Spec /\ Sched!Spec
<1>1. SysInit => Init /\ Sched!Init
  BY DEF SysInit
<1>2. SysInv /\ [SysNext]_sysVars => [Next]_vars
  BY SysInductive
<1>3. [SysNext]_sysVars => [Sched!Next]_(Sched!vars)
  BY DEF SysNext, SysFork, SysExit, SysCall, Switch, sysVars, schedVars,
         Sched!Next, Sched!vars
<1> QED
  BY <1>1, <1>2, <1>3, SysInvariant, PTL DEF SysSpec, Spec, Sched!Spec
=============================================================================
