---------------------------- MODULE ExclusiveTask ----------------------------
(***************************************************************************)
(* What the operation ledger promises about each accepted key, with no     *)
(* clock, lease, fence or attempt in sight: a task is open until it is     *)
(* done or closed; at most one process may act on it, and loses that right *)
(* without notice; only the process that has it makes the task done, once  *)
(* and for ever; a closed task may be opened again, a done one never.      *)
(* Every step may move several tasks (a clock tick ends several leases, a  *)
(* queue pass closes expired tasks and hands out another).                 *)
(***************************************************************************)
CONSTANTS Tasks, Procs, Nobody

VARIABLES phase, holder

Open(o) == phase[o] = "absent" /\ phase'[o] = "open" /\ holder'[o] = Nobody

Grant(o) ==
  /\ phase[o] = "open" /\ phase'[o] = "open"
  /\ holder[o] = Nobody /\ holder'[o] \in Procs

Keep(o) == phase'[o] = phase[o] /\ holder'[o] \in {holder[o], Nobody}

Finish(o) ==
  /\ phase[o] = "open" /\ phase'[o] = "done"
  /\ holder[o] \in Procs /\ holder'[o] = Nobody

Close(o) == phase[o] = "open" /\ phase'[o] = "closed" /\ holder'[o] = Nobody

Reopen(o) == phase[o] = "closed" /\ phase'[o] = "open" /\ holder'[o] = Nobody

Init ==
  /\ phase = [o \in Tasks |-> "absent"]
  /\ holder = [o \in Tasks |-> Nobody]

Next ==
  \A o \in Tasks :
    Open(o) \/ Grant(o) \/ Keep(o) \/ Finish(o) \/ Close(o) \/ Reopen(o)

Spec == Init /\ [][Next]_<<phase, holder>>

=============================================================================
