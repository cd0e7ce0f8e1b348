-------------------------- MODULE OpenFilesProofs --------------------------
(***************************************************************************)
(* Proofs about OpenFiles, for any number of processes, files, descriptors *)
(* and entries.                                                            *)
(***************************************************************************)
EXTENDS OpenFiles, TLAPS

USE DEF Fds, Entries, StdFds, NULL

LEMMA InitIInv == Init => IInv
<1> SUFFICES ASSUME Init PROVE IInv
  OBVIOUS
<1> USE OpenFilesAssumption DEF Init, ClosedFd, NotOpened, IsOpen, EntryOf
<1>1. fdlist \in [Procs -> [Fds -> Fd]]
  BY DEF Fd
<1>2. fileList \in [Entries -> OpenFile]
  BY DEF OpenFile, OFlags
<1>3. TypeOK
  BY <1>1, <1>2 DEF TypeOK
<1>10. \A e \in Entries : /\ fileList[e].isopen = (e \in StdFds)
                         /\ fileList[e].inode = None
                         /\ fileList[e].moved = FALSE
  <2> TAKE e \in Entries
  <2>1. PICK junk \in OFlags :
          fileList[e] = [isopen |-> e \in StdFds,
                         oflags |-> IF e = 0 THEN "RDONLY"
                                    ELSE IF e \in StdFds THEN "RDWR" ELSE junk,
                         inode  |-> None,
                         moved  |-> FALSE]
    OBVIOUS
  <2>2. (e \in StdFds) \in BOOLEAN
    OBVIOUS
  <2> QED
    BY <2>1, <2>2
<1>11. \A p \in Procs, fd \in Fds : ~fdlist[p][fd].open_flag
  OBVIOUS
<1>4. NoEntryLeaks /\ OpenFdsHaveAnEntry
  BY <1>10, <1>11 DEF NoEntryLeaks, OpenFdsHaveAnEntry
<1>5. ClosedEntriesAreClean /\ StdEntriesStay
  <2>1. StdFds \subseteq Entries
    OBVIOUS
  <2> QED
    BY <1>10, <2>1 DEF ClosedEntriesAreClean, StdEntriesStay
<1> QED
  BY <1>3, <1>4, <1>5 DEF IInv

(***************************************************************************)
(* Deleting a set of entries: they are closed and clean, the others as     *)
(* before.                                                                 *)
(***************************************************************************)
LEMMA DelFilesEffect ==
    ASSUME TypeOK, NEW S
    PROVE  /\ DelFiles(S) \in [Entries -> OpenFile]
           /\ \A e \in Entries \ S : DelFiles(S)[e] = fileList[e]
           /\ \A e \in Entries : e \in S =>
                /\ ~DelFiles(S)[e].isopen
                /\ ~DelFiles(S)[e].moved
                /\ DelFiles(S)[e].inode = None
<1> DEFINE D == DelFiles(S)
<1>1. \A e \in Entries \ S : D[e] = fileList[e]
  BY DEF DelFiles
<1>2. \A e \in Entries : e \in S =>
        D[e] = [isopen |-> FALSE, oflags |-> "RDONLY", inode |-> None,
                moved |-> FALSE]
  BY DEF DelFiles
<1>3. \A e \in Entries : D[e] \in OpenFile
  <2> TAKE e \in Entries
  <2>1. CASE e \in S
    <3>1. [isopen |-> FALSE, oflags |-> "RDONLY", inode |-> None,
           moved |-> FALSE] \in OpenFile
      BY DEF OpenFile, OFlags
    <3> QED
      BY <1>2, <2>1, <3>1
  <2>2. CASE e \notin S
    BY <1>1, <2>2 DEF TypeOK
  <2> QED
    BY <2>1, <2>2
<1>4. D \in [Entries -> OpenFile]
  BY <1>3 DEF DelFiles
<1> QED
  BY <1>1, <1>2, <1>4

LEMMA CloseIInv ==
    ASSUME IInv, NEW p \in live, NEW fd \in Fds, Close(p, fd)
    PROVE  IInv'
<1> USE OpenFilesAssumption DEF IsOpen, EntryOf
<1>1. p \in Procs /\ EntryOf(p, fd) \in Entries \ StdFds
  BY DEF IInv, TypeOK, OpenFdsHaveAnEntry, Close
<1> DEFINE e0 == EntryOf(p, fd)
<1>2. /\ fileList' \in [Entries -> OpenFile]
      /\ \A e \in Entries \ {e0} : fileList'[e] = fileList[e]
      /\ ~fileList'[e0].isopen /\ ~fileList'[e0].moved
      /\ fileList'[e0].inode = None
  BY <1>1, DelFilesEffect DEF Close, IInv
<1>3. /\ fdlist' \in [Procs -> [Fds -> Fd]]
      /\ fdlist'[p][fd] = ClosedFd
      /\ \A q \in Procs, d \in Fds :
            q # p \/ d # fd => fdlist'[q][d] = fdlist[q][d]
  <2>1. ClosedFd \in Fd
    BY DEF ClosedFd, Fd
  <2> QED
    BY <1>1, <2>1 DEF Close, IInv, TypeOK
<1>4. live' = live /\ opened' = NotOpened
  BY DEF Close
<1>5. TypeOK'
  BY <1>2, <1>3, <1>4 DEF TypeOK, IInv, NotOpened
<1>6. NoEntryLeaks'
  <2> SUFFICES ASSUME NEW e \in Entries \ StdFds, fileList'[e].isopen
               PROVE  \E q \in live', d \in Fds :
                         fdlist'[q][d].open_flag /\ fdlist'[q][d].ofptr = e
    BY DEF NoEntryLeaks
  <2>1. e # e0 /\ fileList[e].isopen
    BY <1>2
  <2>2. PICK q \in live, d \in Fds :
           fdlist[q][d].open_flag /\ fdlist[q][d].ofptr = e
    BY <2>1 DEF IInv, NoEntryLeaks
  <2>3. q # p \/ d # fd
    BY <2>1, <2>2
  <2> QED
    BY <1>3, <1>4, <2>2, <2>3 DEF IInv, TypeOK
<1>7. OpenFdsHaveAnEntry'
  BY <1>3 DEF IInv, OpenFdsHaveAnEntry, ClosedFd
<1>8. ClosedEntriesAreClean' /\ StdEntriesStay'
  BY <1>1, <1>2 DEF IInv, ClosedEntriesAreClean, StdEntriesStay
<1> QED
  BY <1>5, <1>6, <1>7, <1>8 DEF IInv

LEMMA OpenIInv ==
    ASSUME IInv, NEW p \in live, NEW flag \in OFlags, OpenAs(p, flag)
    PROVE  IInv'
<1> USE OpenFilesAssumption DEF IsOpen, EntryOf
<1>1. PICK fd \in -1 .. FILE_MAX_InPROCESS :
         /\ MinFd(p, fd)
         /\ opened' = [proc |-> p, fd |-> fd]
         /\ IF fd = -1 \/ ClosedEntries = {}
            THEN UNCHANGED <<fdlist, fileList>>
            ELSE \E e \in Entries, f \in Files :
                 /\ LastClosed(e)
                 /\ fileList' = SetOpenFileList(e, flag, f)
                 /\ fdlist' = [fdlist EXCEPT ![p][fd] =
                                  [open_flag |-> TRUE, ofptr |-> e]]
  BY DEF OpenAs
<1>2. p \in Procs /\ live' = live
  BY DEF OpenAs, IInv, TypeOK
<1>3. fd = -1 \/ (fd \in Fds \ StdFds /\ ~fdlist[p][fd].open_flag)
  BY <1>1 DEF MinFd, FreeFds
<1>4. opened' \in [proc : Procs, fd : Fds \cup {-1}]
  BY <1>1, <1>2, <1>3
<1>5. CASE UNCHANGED <<fdlist, fileList>>
  BY <1>2, <1>4, <1>5
  DEF IInv, TypeOK, NoEntryLeaks, OpenFdsHaveAnEntry, ClosedEntriesAreClean,
      StdEntriesStay
<1>6. CASE ~(UNCHANGED <<fdlist, fileList>>)
  <2>1. PICK e0 \in Entries, f \in Files :
           /\ LastClosed(e0)
           /\ fileList' = SetOpenFileList(e0, flag, f)
           /\ fdlist' = [fdlist EXCEPT ![p][fd] =
                            [open_flag |-> TRUE, ofptr |-> e0]]
    BY <1>1, <1>6
  <2>2. fd \in Fds /\ ~fdlist[p][fd].open_flag
    BY <1>1, <1>3, <1>6
  <2>3. ~fileList[e0].isopen /\ e0 \notin StdFds
    BY <2>1 DEF LastClosed, ClosedEntries, IInv, StdEntriesStay
  <2>4. /\ fileList' \in [Entries -> OpenFile]
        /\ fileList'[e0].isopen
        /\ \A e \in Entries \ {e0} : fileList'[e] = fileList[e]
    <3>1. fileList \in [Entries -> OpenFile] /\ fileList[e0] \in OpenFile
      BY DEF IInv, TypeOK
    <3>2. \A e \in Entries \ {e0} : fileList'[e] = fileList[e]
      BY <2>1, <3>1 DEF SetOpenFileList
    <3>3. fileList'[e0] = [isopen |-> TRUE, oflags |-> flag, inode |-> f,
                           moved |-> fileList[e0].moved]
      BY <2>1, <3>1 DEF SetOpenFileList, OpenFile
    <3>4. fileList'[e0] \in OpenFile
      BY <3>1, <3>3 DEF OpenFile
    <3>5. fileList' = [e \in Entries |-> fileList'[e]]
      BY <2>1, <3>1 DEF SetOpenFileList
    <3>6. \A e \in Entries : fileList'[e] \in OpenFile
      BY <3>1, <3>2, <3>4
    <3>7. fileList' \in [Entries -> OpenFile]
      BY <3>5, <3>6
    <3>8. fileList'[e0].isopen
      BY <3>3
    <3> QED
      BY <3>2, <3>7, <3>8
  <2>5. /\ fdlist' \in [Procs -> [Fds -> Fd]]
        /\ fdlist'[p][fd].open_flag /\ fdlist'[p][fd].ofptr = e0
        /\ \A q \in Procs, d \in Fds :
              q # p \/ d # fd => fdlist'[q][d] = fdlist[q][d]
    <3>1. [open_flag |-> TRUE, ofptr |-> e0] \in Fd
      BY DEF Fd
    <3> QED
      BY <1>2, <2>1, <2>2, <3>1 DEF IInv, TypeOK
  <2>6. TypeOK'
    BY <1>2, <1>4, <2>4, <2>5 DEF IInv, TypeOK
  <2>7. NoEntryLeaks'
    <3> SUFFICES ASSUME NEW e \in Entries \ StdFds, fileList'[e].isopen
                 PROVE  \E q \in live', d \in Fds :
                           fdlist'[q][d].open_flag /\ fdlist'[q][d].ofptr = e
      BY DEF NoEntryLeaks
    <3>1. CASE e = e0
      BY <1>2, <2>2, <2>5, <3>1
    <3>2. CASE e # e0
      <4>1. PICK q \in live, d \in Fds :
               fdlist[q][d].open_flag /\ fdlist[q][d].ofptr = e
        BY <2>4, <3>2 DEF IInv, NoEntryLeaks
      <4>2. q # p \/ d # fd
        BY <2>2, <4>1
      <4> QED
        BY <1>2, <2>5, <4>1, <4>2 DEF IInv, TypeOK
    <3> QED
      BY <3>1, <3>2
  <2>8. OpenFdsHaveAnEntry'
    BY <2>3, <2>5 DEF IInv, OpenFdsHaveAnEntry
  <2>9. ClosedEntriesAreClean' /\ StdEntriesStay'
    BY <2>3, <2>4 DEF IInv, ClosedEntriesAreClean, StdEntriesStay
  <2> QED
    BY <2>6, <2>7, <2>8, <2>9 DEF IInv
<1> QED
  BY <1>5, <1>6

LEMMA TransferIInv ==
    ASSUME IInv, NEW p \in live, NEW fd \in Fds, Read(p, fd) \/ Write(p, fd)
    PROVE  IInv'
<1> USE OpenFilesAssumption DEF IsOpen, EntryOf
<1> DEFINE e0 == EntryOf(p, fd)
<1>1. /\ p \in Procs
      /\ e0 \in Entries \ StdFds /\ fileList[e0].inode # None
      /\ fileList' = [fileList EXCEPT ![e0].moved = TRUE]
      /\ UNCHANGED <<live, fdlist>> /\ opened' = NotOpened
  BY DEF Read, Write, Transfers, MoveOffset, IInv, TypeOK, OpenFdsHaveAnEntry
<1>2. fileList[e0].isopen
  BY <1>1 DEF IInv, ClosedEntriesAreClean
<1>3. /\ fileList' \in [Entries -> OpenFile]
      /\ \A e \in Entries \ {e0} : fileList'[e] = fileList[e]
      /\ fileList'[e0].isopen = fileList[e0].isopen
      /\ fileList'[e0].inode = fileList[e0].inode
  BY <1>1 DEF IInv, TypeOK, OpenFile
<1>4. UNCHANGED <<live, fdlist>> /\ opened' = NotOpened
  BY <1>1
<1> HIDE DEF e0
<1>5. TypeOK'
  BY <1>3, <1>4 DEF IInv, TypeOK, NotOpened
<1>6. \A e \in Entries : fileList'[e].isopen = fileList[e].isopen
  BY <1>3
<1>7. NoEntryLeaks'
  BY <1>4, <1>6 DEF IInv, NoEntryLeaks
<1>8. OpenFdsHaveAnEntry'
  BY <1>4 DEF IInv, OpenFdsHaveAnEntry
<1>9. ClosedEntriesAreClean' /\ StdEntriesStay'
  BY <1>1, <1>2, <1>3 DEF IInv, ClosedEntriesAreClean, StdEntriesStay
<1> QED
  BY <1>5, <1>7, <1>8, <1>9 DEF IInv

LEMMA ForkIInv ==
    ASSUME IInv, NEW p \in live, NEW child \in Procs, Fork(p, child)
    PROVE  IInv'
<1> USE OpenFilesAssumption DEF IsOpen, EntryOf
<1>1. /\ p \in Procs /\ child \notin live
      /\ live' = live \cup {child}
      /\ fileList' = fileList /\ opened' = NotOpened
      /\ fdlist' = [fdlist EXCEPT ![child] = fdlist[p]]
  BY DEF Fork, IInv, TypeOK
<1>2. /\ fdlist' \in [Procs -> [Fds -> Fd]]
      /\ fdlist'[child] = fdlist[p]
      /\ \A q \in Procs \ {child} : fdlist'[q] = fdlist[q]
  BY <1>1 DEF IInv, TypeOK
<1>3. TypeOK'
  BY <1>1, <1>2 DEF IInv, TypeOK, NotOpened
<1>4. NoEntryLeaks'
  BY <1>1, <1>2 DEF IInv, TypeOK, NoEntryLeaks
<1>5. OpenFdsHaveAnEntry'
  BY <1>1, <1>2 DEF IInv, OpenFdsHaveAnEntry
<1>6. ClosedEntriesAreClean' /\ StdEntriesStay'
  BY <1>1 DEF IInv, ClosedEntriesAreClean, StdEntriesStay
<1> QED
  BY <1>3, <1>4, <1>5, <1>6 DEF IInv

LEMMA ExitIInv ==
    ASSUME IInv, NEW p \in live, Exit(p)
    PROVE  IInv'
<1> USE OpenFilesAssumption DEF IsOpen, EntryOf
<1> DEFINE S == EntriesOf(p)
<1>1. /\ p \in Procs /\ live' = live \ {p} /\ opened' = NotOpened
      /\ fileList' = DelFiles(S)
      /\ fdlist' = [fdlist EXCEPT ![p] =
                       [fd \in Fds |-> IF fdlist[p][fd].open_flag THEN ClosedFd
                                       ELSE fdlist[p][fd]]]
  BY DEF Exit, IInv, TypeOK
<1>2. \A fd \in Fds : fdlist[p][fd].open_flag => fdlist[p][fd].ofptr \in S
  BY DEF EntriesOf
<1>3. \A e \in S : e \in Entries \ StdFds
  BY <1>1 DEF EntriesOf, IInv, OpenFdsHaveAnEntry
<1>4. /\ fileList' \in [Entries -> OpenFile]
      /\ \A e \in Entries \ S : fileList'[e] = fileList[e]
      /\ \A e \in Entries : e \in S =>
            /\ ~fileList'[e].isopen /\ ~fileList'[e].moved
            /\ fileList'[e].inode = None
  BY <1>1, DelFilesEffect DEF IInv
<1>5. /\ \A q \in Procs \ {p} : fdlist'[q] = fdlist[q]
      /\ \A d \in Fds : fdlist'[p][d] \in Fd /\ ~fdlist'[p][d].open_flag
      /\ fdlist' \in [Procs -> [Fds -> Fd]]
  <2>1. fdlist'[p] = [fd \in Fds |-> IF fdlist[p][fd].open_flag THEN ClosedFd
                                     ELSE fdlist[p][fd]]
    BY <1>1 DEF IInv, TypeOK
  <2>2. ClosedFd \in Fd /\ ~ClosedFd.open_flag
    BY DEF ClosedFd, Fd
  <2>3. \A d \in Fds : fdlist'[p][d] \in Fd /\ ~fdlist'[p][d].open_flag
    BY <1>1, <2>1, <2>2 DEF IInv, TypeOK
  <2>4. fdlist'[p] \in [Fds -> Fd]
    BY <2>1, <2>3
  <2> QED
    BY <1>1, <2>3, <2>4 DEF IInv, TypeOK
<1>6. TypeOK'
  BY <1>1, <1>4, <1>5 DEF IInv, TypeOK, NotOpened
<1>7. NoEntryLeaks'
  <2> SUFFICES ASSUME NEW e \in Entries \ StdFds, fileList'[e].isopen
               PROVE  \E q \in live', d \in Fds :
                         fdlist'[q][d].open_flag /\ fdlist'[q][d].ofptr = e
    BY DEF NoEntryLeaks
  <2>1. e \notin S /\ fileList[e].isopen
    BY <1>4
  <2>2. PICK q \in live, d \in Fds :
           fdlist[q][d].open_flag /\ fdlist[q][d].ofptr = e
    BY <2>1 DEF IInv, NoEntryLeaks
  <2>3. q # p
    BY <1>2, <2>1, <2>2
  <2> QED
    BY <1>1, <1>5, <2>2, <2>3 DEF IInv, TypeOK
<1>8. OpenFdsHaveAnEntry'
  BY <1>5 DEF IInv, OpenFdsHaveAnEntry
<1>9. ClosedEntriesAreClean' /\ StdEntriesStay'
  BY <1>3, <1>4 DEF IInv, ClosedEntriesAreClean, StdEntriesStay
<1> QED
  BY <1>6, <1>7, <1>8, <1>9 DEF IInv

-----------------------------------------------------------------------------
LEMMA NextIInv == IInv /\ [Next]_vars => IInv'
<1> SUFFICES ASSUME IInv, [Next]_vars PROVE IInv'
  OBVIOUS
<1>1. CASE \E p \in live, child \in Procs \ {0} : Fork(p, child)
  BY <1>1, ForkIInv
<1>2. ASSUME NEW p \in live, Exit(p) PROVE IInv'
  BY <1>2, ExitIInv
<1>3. ASSUME NEW p \in live, Call(p) PROVE IInv'
  <2>1. CASE Open(p)
    BY <2>1, OpenIInv DEF Open
  <2>2. CASE Creat(p)
    <3>1. CASE OpenAs(p, "RDWR")
      BY <3>1, OpenIInv DEF OFlags
    <3>2. CASE /\ opened' = [proc |-> p, fd |-> -1]
               /\ UNCHANGED <<live, fdlist, fileList>>
      BY <3>2
      DEF IInv, TypeOK, NoEntryLeaks, OpenFdsHaveAnEntry,
          ClosedEntriesAreClean, StdEntriesStay, IsOpen, EntryOf
    <3> QED
      BY <2>2, <3>1, <3>2 DEF Creat
  <2>3. ASSUME NEW fd \in Fds, Close(p, fd) PROVE IInv'
    BY <2>3, CloseIInv
  <2>4. ASSUME NEW fd \in Fds, Read(p, fd) \/ Write(p, fd) PROVE IInv'
    BY <2>4, TransferIInv
  <2> QED
    BY <1>3, <2>1, <2>2, <2>3, <2>4 DEF Call
<1>4. CASE UNCHANGED vars
  BY <1>4
  DEF vars, IInv, TypeOK, NoEntryLeaks, OpenFdsHaveAnEntry,
      ClosedEntriesAreClean, StdEntriesStay, IsOpen, EntryOf
<1> QED
  BY <1>1, <1>2, <1>3, <1>4 DEF Next

LEMMA Inductive == Spec => []IInv
  BY InitIInv, NextIInv, PTL DEF Spec

(***************************************************************************)
(* The descriptor and file tables keep their types (file.c:774-840).       *)
(***************************************************************************)
THEOREM OpenFilesTypes == Spec => []TypeOK
<1>1. IInv => TypeOK
  BY DEF IInv
<1> QED
  BY <1>1, Inductive, PTL

(***************************************************************************)
(* Entries do not leak, whoever copies and closes descriptors in whatever  *)
(* order (syscall.c:172-200, 335-338, 516-527).                            *)
(***************************************************************************)
THEOREM OpenFilesNoLeaks == Spec => []NoEntryLeaks
<1>1. IInv => NoEntryLeaks
  BY DEF IInv
<1> QED
  BY <1>1, Inductive, PTL

(***************************************************************************)
(* The pointer of an open descriptor can be followed (syscall.c:45, 101,   *)
(* 191, 520).                                                              *)
(***************************************************************************)
THEOREM OpenFilesPointers == Spec => []OpenFdsHaveAnEntry
<1>1. IInv => OpenFdsHaveAnEntry
  BY DEF IInv
<1> QED
  BY <1>1, Inductive, PTL

(***************************************************************************)
(* An entry is taken at offset 0 although setOpenFileList does not set the *)
(* offset (file.c:806-840).                                                *)
(***************************************************************************)
THEOREM OpenFilesClean == Spec => []ClosedEntriesAreClean
<1>1. IInv => ClosedEntriesAreClean
  BY DEF IInv
<1> QED
  BY <1>1, Inductive, PTL

(***************************************************************************)
(* No close, of whatever descriptor by whatever process, hits a standard   *)
(* entry (syscall.c:191-193, 516-527).                                     *)
(***************************************************************************)
THEOREM OpenFilesStdEntries == Spec => []StdEntriesStay
<1>1. IInv => StdEntriesStay
  BY DEF IInv
<1> QED
  BY <1>1, Inductive, PTL
=============================================================================
