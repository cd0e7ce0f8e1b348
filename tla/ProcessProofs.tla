--------------------------- MODULE ProcessProofs ---------------------------
(***************************************************************************)
(* Proofs about Process, for every table size, every number of pids and    *)
(* whatever the uncleared RAM holds.                                       *)
(***************************************************************************)
EXTENDS Process, TLAPS

USE DEF Slots, Used

(***************************************************************************)
(* Registers are built and taken apart.                                    *)
(***************************************************************************)
LEMMA MakeRegisters ==
    \A e \in {0, 1}, a \in -1 .. PID_MAX : [eip |-> e, eax |-> a] \in Registers
  BY DEF Registers

LEMMA RegisterFields ==
    \A r \in Registers : r.eip \in {0, 1} /\ 1 - r.eip \in {0, 1}
<1> TAKE r \in Registers
<1>1. r.eip \in {0, 1}
  BY DEF Registers
<1> QED
  BY <1>1

LEMMA InitIInv == Init => IInv
<1> SUFFICES ASSUME Init PROVE IInv
  OBVIOUS
<1> USE ProcessAssumption DEF Init
<1>0. /\ pid \in [Slots -> Nat] /\ pid[0] = 0
      /\ father_pid \in [Slots -> Nat]
  <2>1. PICK ram \in RamPids : pid = [ram EXCEPT ![0] = 0]
    OBVIOUS
  <2>2. ram \in [Slots -> Nat] /\ father_pid \in [Slots -> Nat]
    OBVIOUS
  <2> QED
    BY <2>1, <2>2
<1>1. TypeOK
  BY <1>0 DEF TypeOK, RunState, Registers
<1>2. FirstProcess /\ OneRunning /\ PidsIdentifySlots /\ OccupiedIsPrefix
  BY <1>0 DEF FirstProcess, Live, OneRunning, PidsIdentifySlots,
              OccupiedIsPrefix
<1>3. ZombiesComeFirst /\ FathersAreLower /\ RunsInSlotOrder
  BY DEF ZombiesComeFirst, FathersAreLower, RunsInSlotOrder
<1>4. /\ ContextsAreSaved /\ ResumesWhereItStopped /\ MainForksOnce
      /\ SegsAreValid /\ ScribblesOnlyWhenFull
  BY DEF ContextsAreSaved, ResumesWhereItStopped, MainForksOnce,
         SegsAreValid, ScribblesOnlyWhenFull
<1> QED
  BY <1>1, <1>2, <1>3, <1>4 DEF IInv

LEMMA UserStepIInv == IInv /\ UserStep => IInv'
<1> SUFFICES ASSUME IInv, UserStep PROVE IInv'
  OBVIOUS
<1> USE ProcessAssumption DEF UserStep, UserCode, IInv
<1>1. TypeOK'
  <2>1. [eip |-> 1 - cpu.eip, eax |-> 0] \in Registers
    BY MakeRegisters, RegisterFields DEF TypeOK
  <2>2. [eip |-> 1 - at[current_process].eip, eax |-> 0] \in Registers
    BY MakeRegisters, RegisterFields DEF TypeOK
  <2> QED
    BY <2>1, <2>2 DEF TypeOK
<1>2. (FirstProcess /\ OneRunning /\ PidsIdentifySlots /\ OccupiedIsPrefix)'
  BY DEF FirstProcess, Live, OneRunning, PidsIdentifySlots, OccupiedIsPrefix
<1>3. (ZombiesComeFirst /\ FathersAreLower /\ RunsInSlotOrder)'
  BY DEF ZombiesComeFirst, FathersAreLower, RunsInSlotOrder
<1>4. (ContextsAreSaved /\ ResumesWhereItStopped)'
  BY DEF ContextsAreSaved, ResumesWhereItStopped, TypeOK, Registers
<1>5. (MainForksOnce /\ SegsAreValid /\ ScribblesOnlyWhenFull)'
  BY DEF MainForksOnce, SegsAreValid, ScribblesOnlyWhenFull, InState,
         TypeOK
<1> QED
  BY <1>1, <1>2, <1>3, <1>4, <1>5

LEMMA ForkChildIInv == IInv /\ ForkChild => IInv'
<1> SUFFICES ASSUME IInv, ForkChild PROVE IInv'
  OBVIOUS
<1> USE ProcessAssumption
<1>1. PICK k \in 1 .. PID_MAX, next \in 1 .. PID_MAX + 1, s \in Slots :
         /\ GetPid(k, next)
         /\ k < PID_MAX
         /\ IsLeast(s, FreeSlots)
         /\ pid' = [pid EXCEPT ![s] = k]
         /\ father_pid' = [father_pid EXCEPT ![s] = pid[current_process]]
         /\ pstate' = [pstate EXCEPT ![s] = "RUNNABLE"]
         /\ ctx' = [ctx EXCEPT ![s] = AfterFork(0)]
         /\ segs' = [segs EXCEPT ![s] = TRUE]
         /\ nextpid' = next
         /\ cpu' = AfterFork(k)
         /\ at' = [at EXCEPT ![s] = AfterFork(0),
                             ![current_process] = AfterFork(k)]
  BY DEF ForkChild, CopiedSegs
<1>2. UNCHANGED <<current_process, mode, scribbled>> /\ mode = "user"
  BY DEF ForkChild, MayFork
<1>3. /\ pstate[s] = "FREE"
      /\ \A t \in Slots : pstate[t] = "FREE" => s <= t
  BY <1>1 DEF IsLeast, FreeSlots, InState
<1>4. \A t \in Slots : pid[t] # k
  BY <1>1 DEF GetPid, IsLeast, UnusedPids, UnusedFromNext, WithPid
<1>5. /\ s # 0 /\ s # current_process
      /\ pstate[current_process] \in {"RUNNING", "RUNNABLE"}
      /\ current_process \in Slots
  BY <1>3 DEF IInv, TypeOK, FirstProcess, OneRunning, Live
<1>6. current_process < s
  BY <1>3, <1>5 DEF IInv, OccupiedIsPrefix
<1>7. AfterFork(0) \in Registers /\ AfterFork(k) \in Registers
  BY MakeRegisters, RegisterFields DEF IInv, TypeOK, AfterFork
<1>8. TypeOK'
  <2>1. /\ pid' \in [Slots -> Nat]
        /\ \A t \in Slots : Used(t)' => pid'[t] < PID_MAX
    BY <1>1 DEF IInv, TypeOK
  <2>2. /\ father_pid' \in [Slots -> Nat]
        /\ \A t \in Slots \ {0} : Used(t)' => father_pid'[t] < PID_MAX
    BY <1>1, <1>5 DEF IInv, TypeOK
  <2>3. pstate' \in [Slots -> RunState] /\ segs' \in [Slots -> BOOLEAN]
    BY <1>1 DEF IInv, TypeOK, RunState
  <2>4. /\ ctx' \in [Slots -> Registers] /\ at' \in [Slots -> Registers]
        /\ cpu' \in Registers
    BY <1>1, <1>5, <1>7 DEF IInv, TypeOK
  <2> QED
    BY <2>1, <2>2, <2>3, <2>4, <1>1, <1>2 DEF IInv, TypeOK
<1>9. FirstProcess' /\ OneRunning'
  BY <1>1, <1>2, <1>5 DEF IInv, TypeOK, FirstProcess, OneRunning, Live
<1>10. PidsIdentifySlots'
  <2>1. /\ pid'[s] = k /\ k # 0
        /\ \A t \in Slots \ {s} : pid'[t] = pid[t] /\ pstate'[t] = pstate[t]
    BY <1>1 DEF IInv, TypeOK
  <2>2. \A t \in Slots \ {0} : Used(t)' => pid'[t] # 0
    BY <2>1, <1>5 DEF IInv, PidsIdentifySlots
  <2>3. ASSUME NEW t \in Slots, NEW u \in Slots,
               Used(t)', pid'[t] = pid'[u], pid'[t] # 0
        PROVE  t = u
    <3>1. CASE t = s \/ u = s
      BY <2>1, <2>3, <3>1, <1>4
    <3>2. CASE t # s /\ u # s
      BY <2>1, <2>3, <3>2 DEF IInv, PidsIdentifySlots
    <3> QED
      BY <3>1, <3>2
  <2> QED
    BY <2>2, <2>3 DEF PidsIdentifySlots
<1>11. OccupiedIsPrefix'
  BY <1>1, <1>3, <1>5 DEF IInv, TypeOK, OccupiedIsPrefix
<1>12. ZombiesComeFirst'
  BY <1>1, <1>3, <1>5, <1>6 DEF IInv, TypeOK, ZombiesComeFirst, OccupiedIsPrefix
<1>13. FathersAreLower'
  <2> SUFFICES ASSUME NEW t \in Slots \ {0}
               PROVE  Used(t)' =>
                        \E f \in Slots : f < t /\ pid'[f] = father_pid'[t]
    BY DEF FathersAreLower
  <2>1. CASE t = s
    <3>1. /\ pid'[current_process] = pid[current_process]
          /\ father_pid'[s] = pid[current_process]
          /\ pstate'[s] # "FREE"
      BY <1>1, <1>5 DEF IInv, TypeOK
    <3> QED
      BY <2>1, <3>1, <1>5, <1>6
  <2>2. CASE t # s /\ pstate[t] = "FREE"
    BY <2>2, <1>1 DEF IInv, TypeOK, FathersAreLower
  <2>3. CASE t # s /\ pstate[t] # "FREE"
    <3>1. PICK f \in Slots : f < t /\ pid[f] = father_pid[t]
      BY <2>3 DEF IInv, FathersAreLower
    <3>2. f # s
      BY <2>3, <3>1, <1>3 DEF IInv, OccupiedIsPrefix
    <3> QED
      BY <2>3, <3>1, <3>2, <1>1 DEF IInv, TypeOK
  <2> QED
    BY <2>1, <2>2, <2>3
<1>14. RunsInSlotOrder'
  BY <1>1, <1>2, <1>6 DEF IInv, TypeOK, RunsInSlotOrder
<1>15. ContextsAreSaved' /\ ResumesWhereItStopped'
  BY <1>1, <1>2, <1>5
  DEF IInv, TypeOK, ContextsAreSaved, ResumesWhereItStopped
<1>16. MainForksOnce'
  <2>1. AfterFork(k).eip = IF current_process = 0 THEN 1 ELSE cpu.eip
    BY DEF AfterFork
  <2>2. CASE current_process = 0
    BY <2>1, <2>2, <1>1, <1>5 DEF IInv, TypeOK, MainForksOnce
  <2>3. CASE current_process # 0
    <3>1. pstate[current_process] # "FREE"
      BY <1>5
    <3>2. at[0].eip = 1
      BY <2>3, <3>1, <1>5 DEF IInv, MainForksOnce
    <3>3. at'[0] = at[0]
      BY <2>3, <1>1, <1>5 DEF IInv, TypeOK
    <3> QED
      BY <3>2, <3>3 DEF MainForksOnce
  <2> QED
    BY <2>2, <2>3
<1>17. SegsAreValid'
  BY <1>1, <1>2, <1>3, <1>5 DEF IInv, TypeOK, SegsAreValid
<1>18. ScribblesOnlyWhenFull'
  BY <1>1, <1>2, <1>3 DEF IInv, TypeOK, ScribblesOnlyWhenFull, InState
<1> QED
  BY <1>8, <1>9, <1>10, <1>11, <1>12, <1>13, <1>14, <1>15, <1>16, <1>17, <1>18
  DEF IInv

(***************************************************************************)
(* Calls that return to their caller with the tables as they were; the     *)
(* registers the caller sees are the registers it is expected to see.      *)
(***************************************************************************)
LEMMA ReturnIInv ==
    ASSUME IInv, NEW r \in Registers, Return(r),
           current_process = 0 /\ at[0].eip = 1 => r.eip = 1,
           UNCHANGED <<pid, father_pid, pstate, ctx, segs, current_process,
                       mode>>,
           nextpid' \in 1 .. PID_MAX + 1,
           \/ scribbled' = scribbled
           \/ /\ scribbled' = scribbled \cup {current_process}
              /\ InState("FREE") = {}
    PROVE  IInv'
<1> USE ProcessAssumption DEF IInv, Return
<1>1. TypeOK'
  BY DEF TypeOK
<1>2. (FirstProcess /\ OneRunning /\ PidsIdentifySlots /\ OccupiedIsPrefix)'
  BY DEF FirstProcess, Live, OneRunning, PidsIdentifySlots, OccupiedIsPrefix
<1>3. (ZombiesComeFirst /\ FathersAreLower /\ RunsInSlotOrder)'
  BY DEF ZombiesComeFirst, FathersAreLower, RunsInSlotOrder
<1>4. (ContextsAreSaved /\ ResumesWhereItStopped)'
  BY DEF ContextsAreSaved, ResumesWhereItStopped, TypeOK
<1>5. (MainForksOnce /\ SegsAreValid /\ ScribblesOnlyWhenFull)'
  BY DEF MainForksOnce, SegsAreValid, ScribblesOnlyWhenFull, InState,
         TypeOK
<1> QED
  BY <1>1, <1>2, <1>3, <1>4, <1>5

LEMMA ForkFailsIInv == IInv /\ (ForkTableFull \/ ForkNoPid) => IInv'
<1> SUFFICES ASSUME IInv, ForkTableFull \/ ForkNoPid PROVE IInv'
  OBVIOUS
<1>1. AfterFork(-1) \in Registers
  BY MakeRegisters, RegisterFields, ProcessAssumption
  DEF IInv, TypeOK, AfterFork
<1>2. current_process = 0 => AfterFork(-1).eip = 1
  BY DEF AfterFork
<1>3. CASE ForkTableFull
  BY <1>1, <1>2, <1>3, ReturnIInv DEF ForkTableFull, FreeSlots
<1>4. CASE ForkNoPid
  BY <1>1, <1>2, <1>4, ReturnIInv DEF ForkNoPid
<1> QED
  BY <1>3, <1>4

LEMMA ErrorResult == TypeOK => WithResult(-1) \in Registers
<1> SUFFICES ASSUME TypeOK PROVE WithResult(-1) \in Registers
  OBVIOUS
<1>1. cpu \in Registers
  BY DEF TypeOK
<1>2. cpu.eip \in {0, 1}
  BY <1>1, RegisterFields
<1>3. -1 \in -1 .. PID_MAX
  BY ProcessAssumption
<1> QED
  BY <1>2, <1>3, MakeRegisters DEF WithResult

LEMMA WaitRefusedIInv == IInv /\ WaitRefused => IInv'
<1> SUFFICES ASSUME IInv, WaitRefused PROVE IInv'
  OBVIOUS
<1>1. WithResult(-1) \in Registers
  BY ErrorResult DEF IInv
<1> QED
  BY <1>1, ReturnIInv DEF WaitRefused, UserCode, IInv, TypeOK

LEMMA ExecveIInv == IInv /\ Execve => IInv'
<1> SUFFICES ASSUME IInv, Execve PROVE IInv'
  OBVIOUS
<1>1. WithResult(-1) \in Registers /\ [eip |-> 0, eax |-> 0] \in Registers
  BY ErrorResult, MakeRegisters, ProcessAssumption DEF IInv
<1>2. PICK r \in Registers : Return(r)
  BY <1>1 DEF Execve
<1> QED
  BY <1>2, ReturnIInv DEF Execve, UserCode, IInv, TypeOK

LEMMA UserExceptionIInv == IInv /\ UserException => IInv'
<1> SUFFICES ASSUME IInv, UserException PROVE IInv'
  OBVIOUS
<1> USE ProcessAssumption DEF IInv, UserException
<1>1. TypeOK'
  BY DEF TypeOK
<1>2. (FirstProcess /\ OneRunning /\ PidsIdentifySlots /\ OccupiedIsPrefix)'
  BY DEF FirstProcess, Live, OneRunning, PidsIdentifySlots, OccupiedIsPrefix
<1>3. (ZombiesComeFirst /\ FathersAreLower /\ RunsInSlotOrder)'
  BY DEF ZombiesComeFirst, FathersAreLower, RunsInSlotOrder
<1>4. (ContextsAreSaved /\ ResumesWhereItStopped /\ MainForksOnce)'
  BY DEF ContextsAreSaved, ResumesWhereItStopped, MainForksOnce
<1>5. (SegsAreValid /\ ScribblesOnlyWhenFull)'
  BY DEF SegsAreValid, ScribblesOnlyWhenFull, InState
<1> QED
  BY <1>1, <1>2, <1>3, <1>4, <1>5

(***************************************************************************)
(* A father that looks for a ZOMBIE child finds none.                      *)
(***************************************************************************)
LEMMA NoZombieChild == IInv /\ UserCode => ZombieChildren = {}
<1> SUFFICES ASSUME IInv, UserCode, NEW c \in ZombieChildren PROVE FALSE
  OBVIOUS
<1>1. /\ c \in Slots /\ father_pid[c] = pid[current_process]
      /\ pstate[c] = "ZOMBIE"
  BY DEF ZombieChildren, Children, InState
<1>2. /\ current_process \in Slots \ {0}
      /\ pstate[current_process] = "RUNNING"
      /\ pid[current_process] # 0
  BY DEF IInv, TypeOK, UserCode, OneRunning, PidsIdentifySlots
<1>3. c # 0
  BY <1>1 DEF IInv, FirstProcess, Live
<1>4. PICK f \in Slots : f < c /\ pid[f] = father_pid[c]
  BY <1>1, <1>3 DEF IInv, FathersAreLower
<1>5. f = current_process
  BY <1>1, <1>2, <1>4 DEF IInv, PidsIdentifySlots
<1> QED
  BY <1>1, <1>2, <1>4, <1>5, ProcessAssumption DEF IInv, ZombiesComeFirst

LEMMA WaitScanIInv == IInv /\ WaitScan => IInv'
<1> SUFFICES ASSUME IInv, WaitScan PROVE IInv'
  OBVIOUS
<1>1. /\ mode' = "spin"
      /\ UNCHANGED <<pid, father_pid, pstate, ctx, segs, nextpid,
                     current_process, cpu, at, scribbled>>
  BY NoZombieChild DEF WaitScan
<1> USE ProcessAssumption DEF IInv
<1>2. TypeOK'
  BY <1>1 DEF TypeOK
<1>3. (FirstProcess /\ OneRunning /\ PidsIdentifySlots /\ OccupiedIsPrefix)'
  BY <1>1
  DEF FirstProcess, Live, OneRunning, PidsIdentifySlots, OccupiedIsPrefix
<1>4. (ZombiesComeFirst /\ FathersAreLower /\ RunsInSlotOrder)'
  BY <1>1 DEF ZombiesComeFirst, FathersAreLower, RunsInSlotOrder
<1>5. (ContextsAreSaved /\ ResumesWhereItStopped /\ MainForksOnce)'
  BY <1>1 DEF ContextsAreSaved, ResumesWhereItStopped, MainForksOnce
<1>6. (SegsAreValid /\ ScribblesOnlyWhenFull)'
  BY <1>1 DEF SegsAreValid, ScribblesOnlyWhenFull, InState
<1> QED
  BY <1>2, <1>3, <1>4, <1>5, <1>6

(***************************************************************************)
(* sys_exit: the pcb it finds is the caller's, and the slot it resumes is  *)
(* slot 0.                                                                 *)
(***************************************************************************)
LEMMA ExitStep ==
    IInv /\ Exit =>
        /\ current_process # 0 /\ pstate[current_process] = "RUNNING"
        /\ pstate' = [pstate EXCEPT ![current_process] = "ZOMBIE"]
        /\ current_process' = 0 /\ cpu' = ctx[0]
        /\ mode' = (IF segs[0] THEN "user" ELSE "halt")
        /\ UNCHANGED <<pid, father_pid, ctx, segs, nextpid, at, scribbled>>
<1> SUFFICES ASSUME IInv, Exit
             PROVE  /\ current_process # 0
                    /\ pstate[current_process] = "RUNNING"
                    /\ pstate' = [pstate EXCEPT ![current_process] = "ZOMBIE"]
                    /\ current_process' = 0 /\ cpu' = ctx[0]
                    /\ mode' = (IF segs[0] THEN "user" ELSE "halt")
                    /\ UNCHANGED <<pid, father_pid, ctx, segs, nextpid, at,
                                   scribbled>>
  OBVIOUS
<1>1. /\ current_process \in Slots \ {0} /\ 0 \in Slots
      /\ pstate[current_process] = "RUNNING"
      /\ pstate[0] = "RUNNABLE"
      /\ pid[current_process] # 0
  BY ProcessAssumption
  DEF Exit, UserCode, IInv, TypeOK, FirstProcess, OneRunning,
      PidsIdentifySlots
<1>2. PICK me \in Slots, next \in Slots :
         /\ GetPCB(me, pid[current_process])
         /\ pstate' = [pstate EXCEPT ![me] = "ZOMBIE"]
         /\ IsLeast(next, InState("RUNNABLE") \ {me})
         /\ ctx' = ctx
         /\ SwitchCtx(next)
  BY DEF Exit
<1>3. me = current_process
  BY <1>1, <1>2 DEF GetPCB, IsGreatest, WithPid, IInv, PidsIdentifySlots
<1>4. next = 0
  BY <1>1, <1>2, <1>3 DEF IsLeast, InState
<1> QED
  BY <1>1, <1>2, <1>3, <1>4 DEF SwitchCtx, Exit

LEMMA ExitIInv == IInv /\ Exit => IInv'
<1> SUFFICES ASSUME IInv, Exit PROVE IInv'
  OBVIOUS
<1> USE ProcessAssumption DEF IInv
<1>1. /\ current_process # 0 /\ pstate[current_process] = "RUNNING"
      /\ pstate' = [pstate EXCEPT ![current_process] = "ZOMBIE"]
      /\ current_process' = 0 /\ cpu' = ctx[0]
      /\ mode' = (IF segs[0] THEN "user" ELSE "halt")
      /\ UNCHANGED <<pid, father_pid, ctx, segs, nextpid, at, scribbled>>
  BY ExitStep
<1>2. pstate[0] = "RUNNABLE" /\ pstate'[0] = "RUNNABLE" /\ 0 \in Slots
  BY <1>1 DEF FirstProcess, TypeOK
<1>3. TypeOK'
  BY <1>1 DEF TypeOK, RunState
<1>4. (FirstProcess /\ OneRunning)'
  BY <1>1, <1>2 DEF FirstProcess, Live, OneRunning, TypeOK
<1>5. (PidsIdentifySlots /\ OccupiedIsPrefix)'
  BY <1>1, <1>2 DEF PidsIdentifySlots, OccupiedIsPrefix, TypeOK
<1>6. ZombiesComeFirst'
  BY <1>1 DEF ZombiesComeFirst, RunsInSlotOrder, TypeOK
<1>7. (FathersAreLower /\ RunsInSlotOrder)'
  BY <1>1 DEF FathersAreLower, RunsInSlotOrder, TypeOK
<1>8. (ContextsAreSaved /\ ResumesWhereItStopped)'
  BY <1>1, <1>2 DEF ContextsAreSaved, ResumesWhereItStopped, TypeOK
<1>9. (MainForksOnce /\ SegsAreValid /\ ScribblesOnlyWhenFull)'
  BY <1>1
  DEF MainForksOnce, SegsAreValid, ScribblesOnlyWhenFull, InState, TypeOK
<1> QED
  BY <1>3, <1>4, <1>5, <1>6, <1>7, <1>8, <1>9

(***************************************************************************)
(* The timer: slot 0 gives way to the first live user slot, or to itself   *)
(* when sys_exit left it RUNNABLE; a user slot gives way to slot 0.        *)
(***************************************************************************)
LEMMA TickIInv == IInv /\ Tick => IInv'
<1> SUFFICES ASSUME IInv, Tick PROVE IInv'
  OBVIOUS
<1> USE ProcessAssumption DEF IInv
<1>1. PICK p \in Slots :
         /\ pstate[p] = "RUNNABLE"
         /\ \A t \in Slots : pstate[t] = "RUNNABLE" => p <= t
         /\ pstate' = [pstate EXCEPT ![current_process] = "RUNNABLE",
                                     ![p] = "RUNNING"]
         /\ ctx' = [ctx EXCEPT ![current_process] = cpu]
         /\ current_process' = p /\ cpu' = ctx'[p]
         /\ mode' \in {"user", "halt"}
  BY DEF Tick, FirstRunnable, IsLeast, InState, SwitchStates, SavedContexts,
         SwitchCtx
<1>2. /\ UNCHANGED <<pid, father_pid, segs, nextpid, at, scribbled>>
      /\ mode = "user" /\ cpu = at[current_process]
      /\ current_process \in Slots /\ 0 \in Slots
      /\ pstate[current_process] \in {"RUNNING", "RUNNABLE"}
  BY DEF Tick, TypeOK, ResumesWhereItStopped, OneRunning
<1>3. current_process # 0 => p = 0
  BY <1>1, <1>2 DEF FirstProcess
<1>4. TypeOK'
  BY <1>1, <1>2 DEF TypeOK, RunState
<1>5. FirstProcess'
  BY <1>1, <1>2, <1>3 DEF FirstProcess, Live, TypeOK
<1>6. OneRunning'
  BY <1>1, <1>2 DEF OneRunning, TypeOK
<1>7. (PidsIdentifySlots /\ OccupiedIsPrefix)'
  BY <1>1, <1>2 DEF PidsIdentifySlots, OccupiedIsPrefix, TypeOK
<1>8. ZombiesComeFirst'
  BY <1>1, <1>2 DEF ZombiesComeFirst, TypeOK
<1>9. FathersAreLower'
  BY <1>1, <1>2 DEF FathersAreLower, TypeOK
<1>10. RunsInSlotOrder'
  <2> SUFFICES ASSUME NEW s \in Slots, 0 < s, s < p
               PROVE  pstate'[s] = "ZOMBIE"
    BY <1>1 DEF RunsInSlotOrder
  <2>1. current_process = 0
    BY <1>3
  <2>2. pstate[s] # "FREE"
    BY <1>1 DEF OccupiedIsPrefix
  <2>3. pstate[s] \notin {"RUNNABLE", "RUNNING"}
    BY <2>1, <1>1 DEF OneRunning
  <2> QED
    BY <2>1, <2>2, <2>3, <1>1 DEF TypeOK, RunState
<1>11. ContextsAreSaved'
  BY <1>1, <1>2 DEF ContextsAreSaved, TypeOK
<1>12. ResumesWhereItStopped'
  BY <1>1, <1>2 DEF ContextsAreSaved, ResumesWhereItStopped, TypeOK
<1>13. (MainForksOnce /\ SegsAreValid)'
  BY <1>1, <1>2 DEF MainForksOnce, SegsAreValid, TypeOK
<1>14. ScribblesOnlyWhenFull'
  BY <1>1, <1>2 DEF ScribblesOnlyWhenFull, InState, TypeOK
<1> QED
  BY <1>4, <1>5, <1>6, <1>7, <1>8, <1>9, <1>10, <1>11, <1>12, <1>13, <1>14

-----------------------------------------------------------------------------
(***************************************************************************)
(* IInv holds in every reachable state.                                    *)
(***************************************************************************)
LEMMA Inductive == Spec => []IInv
<1>1. Init => IInv
  BY InitIInv
<1>2. IInv /\ [Next]_vars => IInv'
  <2> SUFFICES ASSUME IInv, [Next]_vars PROVE IInv'
    OBVIOUS
  <2>1. CASE UserStep
    BY <2>1, UserStepIInv
  <2>2. CASE ForkChild
    BY <2>2, ForkChildIInv
  <2>3. CASE ForkTableFull \/ ForkNoPid
    BY <2>3, ForkFailsIInv
  <2>4. CASE WaitRefused
    BY <2>4, WaitRefusedIInv
  <2>5. CASE WaitScan
    BY <2>5, WaitScanIInv
  <2>6. CASE Exit
    BY <2>6, ExitIInv
  <2>7. CASE Execve
    BY <2>7, ExecveIInv
  <2>8. CASE Tick
    BY <2>8, TickIInv
  <2>9. CASE UserException
    BY <2>9, UserExceptionIInv
  <2>10. CASE UNCHANGED vars
    BY <2>10
    DEF vars, IInv, TypeOK, FirstProcess, Live, OneRunning, PidsIdentifySlots,
        OccupiedIsPrefix, ZombiesComeFirst, FathersAreLower, RunsInSlotOrder,
        ContextsAreSaved, ResumesWhereItStopped, MainForksOnce,
        SegsAreValid, ScribblesOnlyWhenFull, InState
  <2> QED
    BY <2>1, <2>2, <2>3, <2>4, <2>5, <2>6, <2>7, <2>8, <2>9, <2>10 DEF Next
<1> QED
  BY <1>1, <1>2, PTL DEF Spec

(***************************************************************************)
(* The process table keeps its types, whatever the programs call           *)
(* (process.c:16-42, 157-206; syscall.c:326-550).                          *)
(***************************************************************************)
THEOREM ProcessTypes == Spec => []TypeOK
<1>1. IInv => TypeOK
  BY DEF IInv
<1> QED
  BY <1>1, Inductive, PTL

(***************************************************************************)
(* Only the current slot is RUNNING (interrupt.c:261-262).                 *)
(***************************************************************************)
THEOREM ProcessOneRunning == Spec => []OneRunning
<1>1. IInv => OneRunning
  BY DEF IInv
<1> QED
  BY <1>1, Inductive, PTL

(***************************************************************************)
(* getPCB in sys_exit finds the caller (syscall.c:508-509).                *)
(***************************************************************************)
THEOREM ProcessExitHitsCaller == Spec => []ExitHitsCaller
<1>1. IInv => ExitHitsCaller
  <2> SUFFICES ASSUME IInv, NEW s \in Slots, current_process # 0,
                      GetPCB(s, pid[current_process])
               PROVE  s = current_process
    BY DEF ExitHitsCaller
  <2>1. /\ current_process \in Slots \ {0} /\ pid[current_process] # 0
        /\ Used(current_process)
    BY DEF IInv, TypeOK, OneRunning, PidsIdentifySlots
  <2>2. pid[s] = pid[current_process]
    BY DEF GetPCB, IsGreatest, WithPid
  <2> QED
    BY <2>1, <2>2 DEF IInv, PidsIdentifySlots
<1> QED
  BY <1>1, Inductive, PTL

(***************************************************************************)
(* The scan of sys_exit for a RUNNABLE slot succeeds (syscall.c:533-539).  *)
(***************************************************************************)
THEOREM ProcessExitHasSuccessor == Spec => []ExitHasSuccessor
<1>1. IInv => ExitHasSuccessor
  BY ProcessAssumption DEF IInv, FirstProcess, ExitHasSuccessor, InState
<1> QED
  BY <1>1, Inductive, PTL

(***************************************************************************)
(* Processes resume where they were interrupted (interrupt.c:266-278,      *)
(* process.c:212-246).                                                     *)
(***************************************************************************)
THEOREM ProcessResumes == Spec => []ResumesWhereItStopped
<1>1. IInv => ResumesWhereItStopped
  BY DEF IInv
<1> QED
  BY <1>1, Inductive, PTL

(***************************************************************************)
(* A user process runs only when all earlier ones have exited              *)
(* (interrupt.c:237-244).                                                  *)
(***************************************************************************)
THEOREM ProcessRunsInSlotOrder == Spec => []RunsInSlotOrder
<1>1. IInv => RunsInSlotOrder
  BY DEF IInv
<1> QED
  BY <1>1, Inductive, PTL

(***************************************************************************)
(* allocProcess writes through NULL only once the table is full for good   *)
(* (process.c:190-202).                                                    *)
(***************************************************************************)
THEOREM ProcessScribbles == Spec => []ScribblesOnlyWhenFull
<1>1. IInv => ScribblesOnlyWhenFull
  BY DEF IInv
<1> QED
  BY <1>1, Inductive, PTL

(***************************************************************************)
(* The reaping branch of sys_wait is never taken: slots are not freed      *)
(* (syscall.c:471-492).                                                    *)
(***************************************************************************)
THEOREM ProcessSlotsNeverFreed == Spec => SlotsAreNeverFreed
<1>1. IInv /\ [Next]_vars =>
        [\A s \in Slots : pstate[s] # "FREE" => pstate'[s] # "FREE"]_vars
  <2> SUFFICES ASSUME IInv, Next, NEW s \in Slots, pstate[s] # "FREE"
               PROVE  pstate'[s] # "FREE"
    BY DEF vars
  <2>1. CASE ForkChild
    BY <2>1 DEF ForkChild, IInv, TypeOK
  <2>2. CASE Exit
    BY <2>2, ExitStep DEF IInv, TypeOK
  <2>3. CASE Tick
    BY <2>3 DEF Tick, SwitchStates, IInv, TypeOK
  <2>4. CASE WaitScan
    BY <2>4, NoZombieChild DEF WaitScan
  <2>5. CASE \/ UserStep \/ ForkTableFull \/ ForkNoPid \/ WaitRefused
             \/ Execve \/ UserException
    BY <2>5
    DEF UserStep, ForkTableFull, ForkNoPid, WaitRefused, Execve, UserException
  <2> QED
    BY <2>1, <2>2, <2>3, <2>4, <2>5 DEF Next
<1> QED
  BY <1>1, Inductive, PTL DEF Spec, SlotsAreNeverFreed

(***************************************************************************)
(* Only the resume of slot 0 can fault on segment registers that nothing   *)
(* has written (interrupt.c:264-278, process.c:227-235).                   *)
(***************************************************************************)
THEOREM ProcessFirstResumeFaults == Spec => OnlyFirstResumeFaults
<1>1. IInv /\ [Next]_vars =>
        [mode' = "halt" /\ current_process' # current_process
            => current_process' = 0]_vars
  <2> SUFFICES ASSUME IInv, Next, mode' = "halt",
                      current_process' # current_process
               PROVE  current_process' = 0
    BY DEF vars
  <2>1. CASE Exit
    BY <2>1, ExitStep
  <2>2. CASE Tick
    <3>1. PICK p \in Slots : /\ pstate[p] = "RUNNABLE"
                             /\ current_process' = p
                             /\ mode' = (IF segs[p] THEN "user" ELSE "halt")
      BY <2>2 DEF Tick, FirstRunnable, IsLeast, InState, SwitchCtx
    <3>2. ~segs[p]
      BY <3>1
    <3> QED
      BY <3>1, <3>2 DEF IInv, SegsAreValid
  <2>3. CASE \/ UserStep \/ ForkChild \/ ForkTableFull \/ ForkNoPid
             \/ WaitRefused \/ WaitScan \/ Execve \/ UserException
    BY <2>3
    DEF UserStep, ForkChild, ForkTableFull, ForkNoPid, WaitRefused, WaitScan,
        Execve, UserException
  <2> QED
    BY <2>1, <2>2, <2>3 DEF Next
<1> QED
  BY <1>1, Inductive, PTL DEF Spec, OnlyFirstResumeFaults

-----------------------------------------------------------------------------
(***************************************************************************)
(* The refinement: every handler is a step of the batch monitor, or leaves *)
(* its jobs alone.                                                         *)
(***************************************************************************)
Created  == Slots \ ({0} \cup InState("FREE"))
Finished == InState("ZOMBIE")

LEMMA InitRefines == Init => Monitor!Init
<1> SUFFICES ASSUME Init PROVE Monitor!Init
  OBVIOUS
<1>1. InState("FREE") = Slots \ {0} /\ InState("ZOMBIE") = {}
  BY ProcessAssumption DEF Init, InState
<1> QED
  BY <1>1 DEF Init, Monitor!Init

(***************************************************************************)
(* Steps that leave the process states alone change no job.                *)
(***************************************************************************)
LEMMA QuietRefines ==
    ASSUME UNCHANGED <<pstate, current_process, mode>>
    PROVE  UNCHANGED Monitor!vars
BY DEF Monitor!vars, InState

LEMMA ForkRefines == IInv /\ ForkChild => Monitor!Create
<1> SUFFICES ASSUME IInv, ForkChild PROVE Monitor!Create
  OBVIOUS
<1>1. PICK s \in Slots :
         /\ pstate[s] = "FREE"
         /\ \A t \in Slots : pstate[t] = "FREE" => s <= t
         /\ pstate' = [pstate EXCEPT ![s] = "RUNNABLE"]
  BY DEF ForkChild, IsLeast, FreeSlots, InState
<1>2. /\ UNCHANGED <<current_process, mode>> /\ mode = "user"
      /\ current_process = 0 => cpu.eip = 0
  BY DEF ForkChild, MayFork
<1>3. s # 0 /\ pstate \in [Slots -> RunState]
  BY <1>1 DEF IInv, FirstProcess, Live, TypeOK
<1>4. InState("FREE")' = InState("FREE") \ {s}
  BY <1>1, <1>3 DEF InState
<1>5. InState("ZOMBIE")' = InState("ZOMBIE")
  BY <1>1, <1>3 DEF InState
<1>6. Created' = Created \cup {s}
  BY <1>1, <1>3, <1>4 DEF Created
<1>7. s \in (Slots \ {0}) \ Created
  BY <1>1, <1>3 DEF Created, InState
<1>8. \A t \in (Slots \ {0}) \ Created : s <= t
  BY <1>1 DEF Created, InState
<1>9. current_process = 0 => Created = {}
  <2>1. SUFFICES ASSUME current_process = 0, NEW t \in Created PROVE FALSE
    OBVIOUS
  <2>2. t \in Slots \ {0} /\ pstate[t] # "FREE"
    BY DEF Created, InState
  <2>3. cpu = at[0] /\ at[0].eip = 1
    BY <1>2, <2>1, <2>2 DEF IInv, MainForksOnce, ResumesWhereItStopped
  <2> QED
    BY <1>2, <2>1, <2>3
<1> QED
  BY <1>2, <1>5, <1>6, <1>7, <1>8, <1>9
  DEF Monitor!Create, Monitor!First, Created

LEMMA ExitRefines == IInv /\ Exit => Monitor!Finish
<1> SUFFICES ASSUME IInv, Exit PROVE Monitor!Finish
  OBVIOUS
<1>1. /\ current_process # 0 /\ pstate[current_process] = "RUNNING"
      /\ pstate' = [pstate EXCEPT ![current_process] = "ZOMBIE"]
      /\ current_process' = 0
      /\ mode' \in {"user", "halt"} /\ mode = "user"
  BY ExitStep DEF Exit, UserCode
<1>2. pstate \in [Slots -> RunState] /\ current_process \in Slots
  BY DEF IInv, TypeOK
<1>3. InState("FREE")' = InState("FREE")
  BY <1>1, <1>2 DEF InState
<1>4. InState("ZOMBIE")' = InState("ZOMBIE") \cup {current_process}
  BY <1>1, <1>2 DEF InState
<1> QED
  BY <1>1, <1>3, <1>4 DEF Monitor!Finish

LEMMA TickRefines == IInv /\ Tick => [Monitor!Next]_(Monitor!vars)
<1> SUFFICES ASSUME IInv, Tick PROVE [Monitor!Next]_(Monitor!vars)
  OBVIOUS
<1> USE ProcessAssumption
<1>1. PICK p \in Slots :
         /\ pstate[p] = "RUNNABLE"
         /\ \A t \in Slots : pstate[t] = "RUNNABLE" => p <= t
         /\ pstate' = [pstate EXCEPT ![current_process] = "RUNNABLE",
                                     ![p] = "RUNNING"]
         /\ current_process' = p
         /\ mode' = (IF segs[p] THEN "user" ELSE "halt")
         /\ mode = "user"
  BY DEF Tick, FirstRunnable, IsLeast, InState, SwitchStates, SwitchCtx
<1>2. /\ pstate \in [Slots -> RunState] /\ current_process \in Slots
      /\ pstate[current_process] \in {"RUNNING", "RUNNABLE"}
  BY DEF IInv, TypeOK, OneRunning
<1>3. InState("FREE")' = InState("FREE")
  BY <1>1, <1>2 DEF InState
<1>4. InState("ZOMBIE")' = InState("ZOMBIE")
  BY <1>1, <1>2 DEF InState
<1>5. CASE current_process # 0
  <2>1. p = 0
    BY <1>1, <1>5 DEF IInv, FirstProcess
  <2>2. Monitor!Preempt
    BY <1>1, <1>3, <1>4, <1>5, <2>1 DEF Monitor!Preempt
  <2> QED
    BY <2>2 DEF Monitor!Next
<1>6. CASE current_process = 0 /\ p # 0
  <2>1. segs[p] = TRUE
    BY <1>1, <1>6 DEF IInv, SegsAreValid, TypeOK
  <2>2. p \in Created \ Finished
    BY <1>1, <1>6 DEF Created, Finished, InState
  <2>3. \A t \in Created \ Finished : p <= t
    BY <1>1, <1>2, <1>6
    DEF Created, Finished, InState, RunState, IInv, OneRunning
  <2>4. Monitor!Dispatch
    BY <1>1, <1>3, <1>4, <1>6, <2>1, <2>2, <2>3
    DEF Monitor!Dispatch, Monitor!First, Created, Finished
  <2> QED
    BY <2>4 DEF Monitor!Next
<1>7. CASE current_process = 0 /\ p = 0
  <2>1. CASE segs[0]
    BY <1>1, <1>3, <1>4, <1>7, <2>1 DEF Monitor!vars
  <2>2. CASE ~segs[0]
    BY <1>1, <1>7, <2>2 DEF IInv, SegsAreValid
  <2> QED
    BY <2>1, <2>2
<1> QED
  BY <1>5, <1>6, <1>7

(***************************************************************************)
(* The process layer implements the batch monitor: jobs start and finish   *)
(* in the order of their creation, one at a time (interrupt.c:232-281,     *)
(* syscall.c:326-550).                                                     *)
(***************************************************************************)
THEOREM ProcessImplementsBatch == Spec => ImplementsBatch
<1>1. Init => Monitor!Init
  BY InitRefines
<1>2. IInv /\ [Next]_vars => [Monitor!Next]_(Monitor!vars)
  <2> SUFFICES ASSUME IInv, [Next]_vars PROVE [Monitor!Next]_(Monitor!vars)
    OBVIOUS
  <2>1. CASE ForkChild
    BY <2>1, ForkRefines DEF Monitor!Next
  <2>2. CASE Exit
    BY <2>2, ExitRefines DEF Monitor!Next
  <2>3. CASE Tick
    BY <2>3, TickRefines
  <2>4. CASE WaitScan
    <3>1. /\ UNCHANGED <<pstate, current_process>>
          /\ mode = "user" /\ mode' = "spin" /\ current_process # 0
      BY <2>4, NoZombieChild DEF WaitScan, UserCode
    <3>2. Monitor!Stop
      BY <3>1 DEF Monitor!Stop, InState
    <3> QED
      BY <3>2 DEF Monitor!Next
  <2>5. CASE UserException
    <3>1. Monitor!Stop
      BY <2>5 DEF UserException, UserCode, Monitor!Stop, InState
    <3> QED
      BY <3>1 DEF Monitor!Next
  <2>6. CASE \/ UserStep \/ ForkTableFull \/ ForkNoPid \/ WaitRefused
             \/ Execve \/ UNCHANGED vars
    <3>1. UNCHANGED <<pstate, current_process, mode>>
      BY <2>6
      DEF UserStep, ForkTableFull, ForkNoPid, WaitRefused, Execve, vars
    <3> QED
      BY <3>1, QuietRefines
  <2> QED
    BY <2>1, <2>2, <2>3, <2>4, <2>5, <2>6 DEF Next
<1> QED
  BY <1>1, <1>2, Inductive, PTL DEF Spec, ImplementsBatch, Monitor!Spec
=============================================================================
