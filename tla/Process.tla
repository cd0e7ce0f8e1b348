------------------------------ MODULE Process ------------------------------
(***************************************************************************)
(* The process table of NBOS1 and everything that changes it: fork, wait,  *)
(* exit, execve, the timer interrupt and the exceptions that stop the CPU  *)
(* (process.c, syscall.c, interrupt.c, switchktou.s and the first process  *)
(* in main.c).                                                             *)
(*                                                                         *)
(* Every gate of the IDT is an interrupt gate, so a handler runs from      *)
(* beginning to end with interrupts off: one action here is one whole      *)
(* handler.  Interrupts are taken only while user code runs (mode "user"). *)
(*                                                                         *)
(* A CPU context is abstracted to two registers: eip, which of two places  *)
(* of its program the process is at, and eax, the result of a system call. *)
(* User programs are arbitrary: any process but the first may make any     *)
(* call at any time.                                                       *)
(***************************************************************************)
EXTENDS Integers

CONSTANTS PCB_MAX,  \* slots of pcblist
          PID_MAX,  \* largest pid getPid considers
          RamSegs,  \* what the segment fields of an unwritten context may
                    \* hold: TRUE for selectors that iret accepts
          RamPids   \* what the pid or father_pid fields of all the slots
                    \* may hold before anything is written to them

(***************************************************************************)
(* pcblist lies in the BSS, which the loader does not clear: {FALSE} and   *)
(* a table of zeros are a machine with zeroed RAM, BOOLEAN and all tables  *)
(* of naturals any machine.                                                *)
(***************************************************************************)

ASSUME ProcessAssumption ==
    /\ PCB_MAX \in Nat /\ PID_MAX \in Nat
    /\ 2 <= PCB_MAX /\ PCB_MAX <= PID_MAX
    /\ RamSegs \subseteq BOOLEAN
    /\ RamPids \subseteq [0 .. PCB_MAX - 1 -> Nat]

Slots     == 0 .. PCB_MAX - 1
RunState  == {"FREE", "RUNNABLE", "RUNNING", "ZOMBIE"}
Registers == [eip : {0, 1}, eax : -1 .. PID_MAX]

VARIABLES
    pid,              \* pcb.pid of each slot; anything in a slot never used
    father_pid,       \* pcb.father_pid
    pstate,           \* pcb.pstate
    ctx,              \* pcb.ctx, without its segment registers
    segs,             \* do the segment registers of pcb.ctx survive an iret?
    nextpid,          \* process.c:nextpid
    current_process,  \* the slot mycpu.current_process points to
    cpu,              \* the registers of the CPU
    mode,             \* "user": user code runs, interrupts are on
                      \* "spin": in sys_wait's for(;;), interrupts off
                      \* "halt": stopped by hlt with interrupts off
    at,               \* history: the registers each program expects to have
    scribbled         \* slots into whose page 0 allocProcess has written

vars == <<pid, father_pid, pstate, ctx, segs, nextpid, current_process,
          cpu, mode, at, scribbled>>

-----------------------------------------------------------------------------
IsLeast(x, S)    == x \in S /\ \A y \in S : x <= y
IsGreatest(x, S) == x \in S /\ \A y \in S : y <= x

InState(st)   == {s \in Slots : pstate[s] = st}
Children(p)   == {s \in Slots : father_pid[s] = p}
WithPid(p)    == {s \in Slots : pid[s] = p}
UnusedPids    == {k \in 1 .. PID_MAX : WithPid(k) = {}}
UnusedFromNext == {k \in UnusedPids : nextpid <= k}

(***************************************************************************)
(* The pid getPid settles on and the value it leaves in nextpid.  Passing  *)
(* PID_MAX restarts at 1 without counting the 1.                           *)
(***************************************************************************)
GetPidStuck(k, next) == k = nextpid /\ next = nextpid  \* mutant: no ++, no check

GetPid(k, next) ==
    \/ /\ IsLeast(k, UnusedFromNext)
       /\ next = k + 1
    \/ /\ UnusedFromNext = {}
       /\ IsLeast(k, UnusedPids)
       /\ next = IF k = 1 THEN 1 ELSE k + 1

(***************************************************************************)
(* getPCB returns the last slot with the pid; the schedulers take the      *)
(* first RUNNABLE one, allocProcess the first FREE one.                    *)
(***************************************************************************)
GetPCB(s, p) == IsGreatest(s, WithPid(p))

LastRunnable(s)  == IsGreatest(s, InState("RUNNABLE"))  \* mutant: no break
FirstRunnable(s) == IsLeast(s, InState("RUNNABLE"))

FreeSlotsButLast == InState("FREE") \ {PCB_MAX - 1}  \* mutant: off by one
FreeSlots        == InState("FREE")

(***************************************************************************)
(* The process tree at boot: slot 0 is main() in user mode, about to fork. *)
(* init_pcb sets every pstate, but of the pids only that of slot 0.        *)
(***************************************************************************)
Init ==
    /\ \E ram \in RamPids : pid = [ram EXCEPT ![0] = 0]
    /\ father_pid \in RamPids
    /\ pstate = [s \in Slots |-> IF s = 0 THEN "RUNNING" ELSE "FREE"]
    /\ ctx = [s \in Slots |-> [eip |-> 0, eax |-> 0]]
    /\ \E valid \in RamSegs : segs = [s \in Slots |-> valid]
    /\ nextpid = 1
    /\ current_process = 0
    /\ cpu = [eip |-> 0, eax |-> 0]
    /\ mode = "user"
    /\ at = [s \in Slots |-> [eip |-> 0, eax |-> 0]]
    /\ scribbled = {}

(***************************************************************************)
(* Returning from a system call, with a result in eax.                     *)
(***************************************************************************)
WithResult(v) == [eip |-> cpu.eip, eax |-> v]

Return(regs) ==
    /\ cpu' = regs
    /\ at' = [at EXCEPT ![current_process] = regs]

(***************************************************************************)
(* switchCtx: load the context of slot s and iret.  With the segment       *)
(* selectors of an unwritten context it faults, and the exception handler  *)
(* stops the machine.                                                      *)
(***************************************************************************)
SwitchCtx(s) ==
    /\ current_process' = s
    /\ cpu' = ctx'[s]
    /\ mode' = IF segs[s] THEN "user" ELSE "halt"

UserCode == mode = "user" /\ current_process # 0

-----------------------------------------------------------------------------
(***************************************************************************)
(* User code advances.  The first process only forks and then loops.       *)
(***************************************************************************)
UserStep ==
    /\ UserCode
    /\ cpu' = [eip |-> 1 - cpu.eip, eax |-> 0]
    /\ at' = [at EXCEPT ![current_process] =
                 [eip |-> 1 - at[current_process].eip, eax |-> 0]]
    /\ UNCHANGED <<pid, father_pid, pstate, ctx, segs, nextpid,
                   current_process, mode, scribbled>>

(***************************************************************************)
(* Where the caller of fork is after the call: main() is in its idle loop. *)
(***************************************************************************)
AfterFork(res) ==
    [eip |-> IF current_process = 0 THEN 1 ELSE cpu.eip, eax |-> res]

MayFork == mode = "user" /\ (current_process = 0 => cpu.eip = 0)

(* copyContext gives the child's context the caller's segment registers.   *)
CopiedSegsNot(s) == segs                            \* mutant: not copied
CopiedSegs(s) == [segs EXCEPT ![s] = TRUE]

(***************************************************************************)
(* sys_fork with a pid and a FREE slot: the child becomes RUNNABLE with a  *)
(* copy of the caller's context whose eax is 0.                            *)
(***************************************************************************)
ForkChild ==
    /\ MayFork
    /\ \E k \in 1 .. PID_MAX, next \in 1 .. PID_MAX + 1, s \in Slots :
         /\ GetPid(k, next)
         /\ k < PID_MAX
         /\ IsLeast(s, FreeSlots)
         /\ pid' = [pid EXCEPT ![s] = k]
         /\ father_pid' = [father_pid EXCEPT ![s] = pid[current_process]]
         /\ pstate' = [pstate EXCEPT ![s] = "RUNNABLE"]
         /\ ctx' = [ctx EXCEPT ![s] = AfterFork(0)]
         /\ segs' = CopiedSegs(s)
         /\ nextpid' = next
         /\ cpu' = AfterFork(k)
         /\ at' = [at EXCEPT ![s] = AfterFork(0),
                             ![current_process] = AfterFork(k)]
    /\ UNCHANGED <<current_process, mode, scribbled>>

(***************************************************************************)
(* sys_fork with a pid and no FREE slot: allocProcess fills in the fields  *)
(* of the pcb at address 0, inside the first page of the caller's program, *)
(* and returns NULL.  The pid is used up.                                  *)
(***************************************************************************)
ForkTableFull ==
    /\ MayFork
    /\ FreeSlots = {}
    /\ \E k \in 1 .. PID_MAX, next \in 1 .. PID_MAX + 1 :
         /\ GetPid(k, next)
         /\ k < PID_MAX
         /\ nextpid' = next
    /\ scribbled' = scribbled \cup {current_process}
    /\ Return(AfterFork(-1))
    /\ UNCHANGED <<pid, father_pid, pstate, ctx, segs, current_process, mode>>

(***************************************************************************)
(* sys_fork when getPid lands on PID_MAX itself, which it refuses.         *)
(***************************************************************************)
ForkNoPid ==
    /\ MayFork
    /\ \E next \in 1 .. PID_MAX + 1 :
         /\ GetPid(PID_MAX, next)
         /\ nextpid' = next
    /\ Return(AfterFork(-1))
    /\ UNCHANGED <<pid, father_pid, pstate, ctx, segs, current_process, mode,
                   scribbled>>

(***************************************************************************)
(* sys_wait.  haveChildren counts from -1, so its result is 0, which the   *)
(* caller takes for "no children", when there is exactly one child; with   *)
(* none or several the loop looks for a ZOMBIE child, and it looks with    *)
(* interrupts off.                                                         *)
(***************************************************************************)
HaveChildrenIsZero == \E s \in Slots : Children(pid[current_process]) = {s}

ZombieChildren == Children(pid[current_process]) \cap InState("ZOMBIE")

WaitRefused ==
    /\ UserCode
    /\ HaveChildrenIsZero
    /\ Return(WithResult(-1))
    /\ UNCHANGED <<pid, father_pid, pstate, ctx, segs, nextpid,
                   current_process, mode, scribbled>>

WaitScan ==
    /\ UserCode
    /\ ~HaveChildrenIsZero
    /\ IF ZombieChildren = {}
       THEN /\ mode' = "spin"
            /\ UNCHANGED <<pid, father_pid, pstate, cpu, at>>
       ELSE \E s \in Slots :
            /\ IsLeast(s, ZombieChildren)
            /\ pstate' = [pstate EXCEPT ![s] = "FREE"]
            /\ father_pid' = [father_pid EXCEPT ![s] = 0]
            /\ pid' = [pid EXCEPT ![s] = 0]
            /\ Return(WithResult(pid[s]))
            /\ mode' = mode
    /\ UNCHANGED <<ctx, segs, nextpid, current_process, scribbled>>

(***************************************************************************)
(* sys_exit: the slot getPCB finds becomes a ZOMBIE and the first RUNNABLE *)
(* slot is resumed, without being marked RUNNING.                          *)
(***************************************************************************)
Exit ==
    /\ UserCode
    /\ \E me \in Slots, next \in Slots :
         /\ GetPCB(me, pid[current_process])
         /\ pstate' = [pstate EXCEPT ![me] = "ZOMBIE"]
         /\ IsLeast(next, InState("RUNNABLE") \ {me})
         /\ ctx' = ctx
         /\ SwitchCtx(next)
    /\ UNCHANGED <<pid, father_pid, segs, nextpid, at, scribbled>>

(***************************************************************************)
(* sys_execve: refused for pid 0 and for what is no regular executable;    *)
(* otherwise the program starts at its entry.  What the page tables go     *)
(* through is the subject of AddressSpace.                                 *)
(***************************************************************************)
Execve ==
    /\ UserCode
    /\ \E loaded \in BOOLEAN :
         IF pid[current_process] = 0 \/ ~loaded
         THEN Return(WithResult(-1))
         ELSE Return([eip |-> 0, eax |-> 0])
    /\ UNCHANGED <<pid, father_pid, pstate, ctx, segs, nextpid,
                   current_process, mode, scribbled>>

(***************************************************************************)
(* The states and the saved contexts after the timer handler has picked p. *)
(* (With p the current slot, the state written last is RUNNING.)           *)
(***************************************************************************)
SwitchStatesLastKept(p) == [pstate EXCEPT ![p] = "RUNNING"]  \* mutant
SwitchStatesLastBorn(p) ==                                   \* mutant
    [pstate EXCEPT ![current_process] = "BORN", ![p] = "RUNNING"]
SwitchStates(p) ==
    [pstate EXCEPT ![current_process] = "RUNNABLE", ![p] = "RUNNING"]

SavedContextsSwapped(p) == [ctx EXCEPT ![p] = cpu]  \* mutant: current set first
SavedContexts(p) == [ctx EXCEPT ![current_process] = cpu]

(***************************************************************************)
(* do_timer_handler: preempt in favour of the first RUNNABLE slot.  With   *)
(* none it returns at once, which changes nothing.                         *)
(***************************************************************************)
Tick ==
    /\ mode = "user"
    /\ \E p \in Slots :
         /\ FirstRunnable(p)
         /\ pstate' = SwitchStates(p)
         /\ ctx' = SavedContexts(p)
         /\ SwitchCtx(p)
    /\ UNCHANGED <<pid, father_pid, segs, nextpid, at, scribbled>>

(***************************************************************************)
(* An exception other than a page fault stops the machine.  (A page fault  *)
(* prints a message and returns to the faulting instruction: no change.)   *)
(***************************************************************************)
UserException ==
    /\ UserCode
    /\ mode' = "halt"
    /\ UNCHANGED <<pid, father_pid, pstate, ctx, segs, nextpid,
                   current_process, cpu, at, scribbled>>

Next ==
    \/ UserStep
    \/ ForkChild
    \/ ForkTableFull
    \/ ForkNoPid
    \/ WaitRefused
    \/ WaitScan
    \/ Exit
    \/ Execve
    \/ Tick
    \/ UserException

Spec == Init /\ [][Next]_vars

(***************************************************************************)
(* The timer chip keeps interrupting; nothing is assumed of user programs. *)
(***************************************************************************)
FairSpec == Spec /\ WF_vars(Tick)

-----------------------------------------------------------------------------
Used(s) == pstate[s] # "FREE"

(***************************************************************************)
(* The type invariant.  The pids are those getPid hands out in every slot  *)
(* that is in use, whatever the others hold.                               *)
(***************************************************************************)
TypeOK ==
    /\ pid \in [Slots -> Nat] /\ father_pid \in [Slots -> Nat]
    /\ \A s \in Slots : Used(s) => pid[s] < PID_MAX
    /\ \A s \in Slots \ {0} : Used(s) => father_pid[s] < PID_MAX
    /\ pstate \in [Slots -> RunState]
    /\ ctx \in [Slots -> Registers]
    /\ segs \in [Slots -> BOOLEAN]
    /\ nextpid \in 1 .. PID_MAX + 1
    /\ current_process \in Slots
    /\ cpu \in Registers
    /\ mode \in {"user", "spin", "halt"}
    /\ at \in [Slots -> Registers]
    /\ scribbled \subseteq Slots

Live(s) == pstate[s] \in {"RUNNABLE", "RUNNING"}

(***************************************************************************)
(* One CPU, one running process: only the current slot is RUNNING, and the *)
(* current slot is RUNNING except that the first process may run while     *)
(* still marked RUNNABLE (after sys_exit switched to it).                  *)
(***************************************************************************)
OneRunning ==
    /\ \A s \in Slots : pstate[s] = "RUNNING" => s = current_process
    /\ \/ pstate[current_process] = "RUNNING"
       \/ current_process = 0 /\ pstate[0] = "RUNNABLE"

(***************************************************************************)
(* sys_exit looks its own pcb up by pid, and getPCB returns the last slot  *)
(* that matches: however pids wrap around, that is the caller.             *)
(***************************************************************************)
ExitHitsCaller ==
    \A s \in Slots :
        current_process # 0 /\ GetPCB(s, pid[current_process])
            => s = current_process

(***************************************************************************)
(* sys_exit reads "next" without checking that its scan found a RUNNABLE   *)
(* slot: while a user process runs there is always one.                    *)
(***************************************************************************)
ExitHasSuccessor ==
    current_process # 0 => InState("RUNNABLE") \ {current_process} # {}

(***************************************************************************)
(* Across any number of preemptions, forks and exits a process continues   *)
(* with the registers it was interrupted with, a forked child with those   *)
(* of its father and a result of 0.                                        *)
(***************************************************************************)
ResumesWhereItStopped == mode = "user" => cpu = at[current_process]

(***************************************************************************)
(* The scheduler takes the first RUNNABLE slot, so a process runs only     *)
(* when every process in a lower slot, but the first, has exited.          *)
(***************************************************************************)
RunsInSlotOrder ==
    \A s \in Slots : 0 < s /\ s < current_process => pstate[s] = "ZOMBIE"

(***************************************************************************)
(* fork writes through a NULL pcb only when the table is full, and a table *)
(* that was full once never has a FREE slot again.                         *)
(***************************************************************************)
ScribblesOnlyWhenFull == scribbled # {} => InState("FREE") = {}

(***************************************************************************)
(* No slot is ever given back: the reaping branch of sys_wait is there,    *)
(* but a father that waits has no ZOMBIE child, because a child sits in a  *)
(* higher slot and does not run before its father has exited.              *)
(***************************************************************************)
SlotsAreNeverFreed ==
    [][\A s \in Slots : pstate[s] # "FREE" => pstate'[s] # "FREE"]_vars

(***************************************************************************)
(* A resume stops the machine only where main() is resumed for the first   *)
(* time, with the segment registers of a context that nothing ever wrote   *)
(* (interrupt.c:264-278 saves all registers but these); every other        *)
(* process has had them copied when it was forked.                         *)
(***************************************************************************)
OnlyFirstResumeFaults ==
    [][mode' = "halt" /\ current_process' # current_process
          => current_process' = 0]_vars

(***************************************************************************)
(* Under timer interrupts the process in the lowest live user slot gets    *)
(* the CPU again and again, whatever the others do, unless the machine     *)
(* stops.  (That process exits only while it runs.)                        *)
(***************************************************************************)
Front(s) ==
    /\ s # 0 /\ Live(s)
    /\ \A t \in Slots : 0 < t /\ t < s => ~Live(t)

FrontKeepsRunning ==
    []<>(mode # "user" \/ \A s \in Slots : Front(s) => current_process = s)

-----------------------------------------------------------------------------
(* Properties stated by comments of the code that its behaviour contradicts. *)

(***************************************************************************)
(* unistd.h:42: a child returns from fork.  So every process that is       *)
(* created gets the CPU at some time, or exits, unless the machine stops.  *)
(***************************************************************************)
EveryChildRuns ==
    \A s \in Slots :
        pstate[s] = "RUNNABLE" ~> (current_process = s \/ mode # "user")

(***************************************************************************)
(* syscall.c:449: wait blocks its caller until a child terminates, so a    *)
(* caller that waits gets out of the loop again.                           *)
(***************************************************************************)
WaitReturns == mode = "spin" ~> mode # "spin"

-----------------------------------------------------------------------------
(***************************************************************************)
(* What the scheduler amounts to: Batch, with the occupied slots as the    *)
(* jobs and the ZOMBIE ones as the finished jobs.                          *)
(***************************************************************************)
Monitor == INSTANCE Batch WITH
    Jobs     <- Slots \ {0},
    created  <- Slots \ ({0} \cup InState("FREE")),
    finished <- InState("ZOMBIE"),
    onCpu    <- current_process,
    stopped  <- mode # "user"

(***************************************************************************)
(* The process layer, preemptive as it looks, implements a batch monitor.  *)
(***************************************************************************)
ImplementsBatch == Monitor!Spec

-----------------------------------------------------------------------------
(***************************************************************************)
(* The inductive invariant behind the safety properties.                   *)
(***************************************************************************)
FirstProcess ==
    /\ pid[0] = 0
    /\ Live(0)
    /\ current_process # 0 => pstate[0] = "RUNNABLE"

PidsIdentifySlots ==
    /\ \A s \in Slots \ {0} : Used(s) => pid[s] # 0
    /\ \A s, t \in Slots :
          Used(s) /\ pid[s] = pid[t] /\ pid[s] # 0 => s = t

OccupiedIsPrefix ==
    \A s, t \in Slots : s < t /\ pstate[t] # "FREE" => pstate[s] # "FREE"

ZombiesComeFirst ==
    \A s, t \in Slots : 0 < s /\ s < t /\ pstate[t] = "ZOMBIE"
                            => pstate[s] = "ZOMBIE"

FathersAreLower ==
    \A s \in Slots \ {0} :
        Used(s) => \E f \in Slots : f < s /\ pid[f] = father_pid[s]

ContextsAreSaved ==
    \A s \in Slots :
        pstate[s] = "RUNNABLE" /\ s # current_process => ctx[s] = at[s]

MainForksOnce ==
    \A s \in Slots \ {0} : pstate[s] # "FREE" => at[0].eip = 1

SegsAreValid ==
    /\ \A s \in Slots \ {0} : pstate[s] # "FREE" => segs[s]
    /\ mode = "user" /\ current_process = 0 /\ pstate[0] = "RUNNABLE" => segs[0]

IInv ==
    /\ TypeOK
    /\ FirstProcess
    /\ OneRunning
    /\ PidsIdentifySlots
    /\ OccupiedIsPrefix
    /\ ZombiesComeFirst
    /\ FathersAreLower
    /\ RunsInSlotOrder
    /\ ContextsAreSaved
    /\ ResumesWhereItStopped
    /\ MainForksOnce
    /\ SegsAreValid
    /\ ScribblesOnlyWhenFull
=============================================================================
