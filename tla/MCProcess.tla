----------------------------- MODULE MCProcess -----------------------------
(***************************************************************************)
(* Process on a table of five slots.  PID_MAX leaves pid numbers beyond    *)
(* those the slots can hold, so that forks on a full table use them up,    *)
(* reach PID_MAX and start again at 1.  States that differ only in the     *)
(* contexts of ZOMBIE slots are one: nothing resumes those, and a fork     *)
(* that gets such a slot writes its context anew.                          *)
(*                                                                         *)
(* The unwritten pids and fathers are zeros, pids in use later on (those   *)
(* of the first two forks, a father that seems to have children in slots   *)
(* that are FREE), or no pids at all.                                      *)
(***************************************************************************)
EXTENDS Process

MCRamPids ==
    {[s \in Slots |-> 0], [s \in Slots |-> s], [s \in Slots |-> 2],
     [s \in Slots |-> 100 + s]}

ZeroedRam == {[s \in Slots |-> 0]}

NoDeadContexts ==
    <<[s \in Slots |-> IF pstate[s] = "ZOMBIE" THEN <<>>
                       ELSE <<ctx[s], at[s]>>],
      pid, father_pid, pstate, segs, nextpid, current_process, cpu, mode,
      scribbled>>
=============================================================================
