------------------------------- MODULE Dispatch -------------------------------
(***************************************************************************)
(* The processes that run operations against the ledger: the broker        *)
(* workers of jobs.Service (RunOnce), the fresh-caller attempts of         *)
(* jobs.RequestRunner, and the nested child attempts a report parent runs  *)
(* inside its own handler.  A process keeps the lease it was handed in its *)
(* own memory: whatever happens to the row meanwhile, it goes on using     *)
(* those coordinates until the database refuses them, it gives up, or it   *)
(* crashes.                                                                *)
(***************************************************************************)
EXTENDS OperationLedger

CONSTANTS
  Workers,         \* goroutines of jobs.Service, which run queued work
  Callers,         \* callers of jobs.RequestRunner, which run requests
  MaxTime,         \* bound on the clock
  MaxPolicy        \* bound on policy revisions

Actors == Workers \cup Callers

VARIABLES
  run,             \* the root attempt an actor is executing, or Idle
  sub              \* the nested attempt inside it, or Idle

vars == <<now, rows, attempt, policy, effects, run, sub>>

Idle == [op |-> NoOp, fence |-> 0, pc |-> "idle"]
Working(o, f) == [op |-> o, fence |-> f, pc |-> "working"]
Runs == {Idle} \cup [op : Ops, fence : Fences, pc : {"working", "failing"}]

Busy(a) == run[a].pc = "working" /\ sub[a] = Idle

Init ==
  /\ LedgerInit
  /\ run = [a \in Actors |-> Idle]
  /\ sub = [a \in Actors |-> Idle]

-----------------------------------------------------------------------------
(* Callers *)

Submit(o) ==
  /\ now + Retention <= MaxTime
  /\ AdmitJob(o) \/ AdmitRequest(o)
  /\ UNCHANGED <<run, sub>>

Cancel(o) == CancelOperation(o) /\ UNCHANGED <<run, sub>>

Resume(o) == ResumeRequest(o) /\ UNCHANGED <<run, sub>>

\* DeleteDocument: the runs it finds, of one tenant, whatever processes hold them.
DeleteDocument(roots) ==
  /\ roots # {}
  /\ \A o, p \in roots : Composed(o) /\ TenantOf[o] = TenantOf[p]
  /\ \E missed \in SUBSET {c \in Ops : ParentOf[c] \in roots /\ JustAdmitted(c)} :
       EraseOwnedRuns(roots, missed)
  /\ UNCHANGED <<run, sub>>

ChangePolicy(t) ==
  /\ policy[t] < MaxPolicy
  /\ SetPolicy(t)
  /\ UNCHANGED <<run, sub>>

Tick ==
  /\ now < MaxTime
  /\ now' = now + 1
  /\ UNCHANGED <<rows, attempt, policy, effects, run, sub>>

-----------------------------------------------------------------------------
(* Root attempts: RunOnce and RequestRunner.run *)

\* A worker polls: it leaves with a new lease, or with ErrEmpty.
Poll(a) ==
  /\ a \in Workers
  /\ run[a] = Idle
  /\ \/ ClaimNothing /\ run' = run
     \/ \E o \in Ops : ClaimJob(o) /\ run' = [run EXCEPT ![a] = Working(o, NextFence(o))]
  /\ UNCHANGED sub

\* A caller holding an admitted task asks for its one attempt.
StartRequest(a, o) ==
  /\ a \in Callers
  /\ run[a] = Idle
  /\ ClaimRequest(o)
  /\ run' = [run EXCEPT ![a] = Working(o, NextFence(o))]
  /\ UNCHANGED sub

\* The heartbeat and pulse goroutines renew while the handler runs.
Heartbeat(a) ==
  /\ run[a].pc = "working"
  /\ RenewOperationLease(run[a].op, run[a].fence)
  /\ UNCHANGED <<run, sub>>

\* The domain handler commits its effect; a child in progress is joined first.
Complete(a) ==
  /\ Busy(a)
  /\ CompleteJob(run[a].op, run[a].fence) \/ CompleteRequest(run[a].op, run[a].fence)
  /\ run' = [run EXCEPT ![a] = Idle]
  /\ UNCHANGED sub

\* A commit whose reply is lost: the handler sees an error and will report it.
CompleteUnheard(a) ==
  /\ Busy(a)
  /\ CompleteJob(run[a].op, run[a].fence) \/ CompleteRequest(run[a].op, run[a].fence)
  /\ run' = [run EXCEPT ![a].pc = "failing"]
  /\ UNCHANGED sub

\* Handler error, refused authority, attempt timeout, or a refused heartbeat.
GiveUp(a) ==
  /\ Busy(a)
  /\ run' = [run EXCEPT ![a].pc = "failing"]
  /\ UNCHANGED <<now, rows, attempt, policy, effects, sub>>

\* RunOnce doubles the delay with every attempt, five times; a request waits Backoff.
\* The fence of an open queued row is the number of its attempt: only an erasure, which
\* ends such a row for good, parts the two.
RetryDelay(o, f) ==
  IF Mode[o] = "queued"
  THEN Earlier(Backoff * <<1, 2, 4, 8, 16, 32>>[Earlier(f, 6)], DelayCap)
  ELSE Backoff

\* FinishAttempt / FailRequest: ErrConflict when the fence was lost meanwhile.
ReportFailure(a) ==
  /\ run[a].pc = "failing"
  /\ LET o == run[a].op
         f == run[a].fence
     IN \/ \E permanent \in BOOLEAN :
             /\ permanent => Mode[o] = "queued"
             /\ FailOperationLease(o, f, permanent, RetryDelay(o, f))
        \/ ~HoldsFence(o, f) /\ UNCHANGED <<now, rows, attempt, policy, effects>>
  /\ run' = [run EXCEPT ![a] = Idle]
  /\ UNCHANGED sub

\* Process shutdown or crash leaves the leases to run out.
Crash(a) ==
  /\ run[a] # Idle
  /\ run' = [run EXCEPT ![a] = Idle]
  /\ sub' = [sub EXCEPT ![a] = Idle]
  /\ UNCHANGED <<now, rows, attempt, policy, effects>>

-----------------------------------------------------------------------------
(* Nested attempts: AdmitNested, RunNested inside the parent's handler *)

AdmitChild(a, o) ==
  /\ Busy(a)
  /\ ParentOf[o] = run[a].op
  /\ AdmitNestedRequest(o, run[a].fence)
  /\ UNCHANGED <<run, sub>>

StartChild(a, o) ==
  /\ Busy(a)
  /\ ParentOf[o] = run[a].op
  /\ ClaimNestedRequest(o, run[a].fence)
  /\ sub' = [sub EXCEPT ![a] = Working(o, NextFence(o))]
  /\ UNCHANGED run

\* PulseRequest of a child first requires the parent's fence.
PulseChild(a) ==
  /\ sub[a].pc = "working"
  /\ HoldsFence(run[a].op, run[a].fence)
  /\ nestedFence[sub[a].op] = run[a].fence
  /\ RenewOperationLease(sub[a].op, sub[a].fence)
  /\ UNCHANGED <<run, sub>>

CompleteChild(a) ==
  /\ sub[a].pc = "working"
  /\ CompleteNestedRequest(sub[a].op, sub[a].fence, run[a].fence)
  /\ sub' = [sub EXCEPT ![a] = Idle]
  /\ UNCHANGED run

GiveUpChild(a) ==
  /\ sub[a].pc = "working"
  /\ sub' = [sub EXCEPT ![a].pc = "failing"]
  /\ UNCHANGED <<now, rows, attempt, policy, effects, run>>

\* FailRequest asks only for the child's own fence.
ReportChildFailure(a) ==
  /\ sub[a].pc = "failing"
  /\ LET o == sub[a].op
         f == sub[a].fence
     IN \/ FailOperationLease(o, f, FALSE, RetryDelay(o, f))
        \/ ~HoldsFence(o, f) /\ UNCHANGED <<now, rows, attempt, policy, effects>>
  /\ sub' = [sub EXCEPT ![a] = Idle]
  /\ UNCHANGED run

-----------------------------------------------------------------------------
ActorStep(a) ==
  \/ Poll(a)
  \/ Heartbeat(a)
  \/ Complete(a)
  \/ CompleteUnheard(a)
  \/ GiveUp(a)
  \/ ReportFailure(a)
  \/ Crash(a)
  \/ PulseChild(a)
  \/ CompleteChild(a)
  \/ GiveUpChild(a)
  \/ ReportChildFailure(a)

ActorOpStep(a, o) == StartRequest(a, o) \/ AdmitChild(a, o) \/ StartChild(a, o)

CallerStep(o) == Submit(o) \/ Cancel(o) \/ Resume(o)

Next ==
  \/ Tick
  \/ \E t \in DOMAIN policy : ChangePolicy(t)
  \/ \E o \in Ops : CallerStep(o)
  \/ \E roots \in SUBSET Ops : DeleteDocument(roots)
  \/ \E a \in Actors : ActorStep(a)
  \/ \E a \in Actors, o \in Ops : ActorOpStep(a, o)

Spec == Init /\ [][Next]_vars

-----------------------------------------------------------------------------
(* Properties *)

\* Every row has the type of its column and a process remembers either nothing or an
\* operation and a fence it was granted.
TypeOK ==
  /\ LedgerTypeOK
  /\ run \in [Actors -> Runs]
  /\ sub \in [Actors -> Runs]

\* Two processes never both hold the live fence of one operation, although a process
\* that lost its lease goes on working with the coordinates it remembers.
SingleHolder ==
  \A a, b \in Actors : a # b =>
    /\ run[a].op = run[b].op /\ run[a].op # NoOp =>
         ~(HoldsFence(run[a].op, run[a].fence) /\ HoldsFence(run[b].op, run[b].fence))
    /\ sub[a].op = sub[b].op /\ sub[a].op # NoOp =>
         ~(HoldsFence(sub[a].op, sub[a].fence) /\ HoldsFence(sub[b].op, sub[b].fence))

\* The processes really executing never exceed the global or a tenant's concurrency
\* limit, although a nested child is claimed without a capacity check and goes on
\* holding its own lease when its parent is cancelled, fails, expires or is reclaimed
\* (the views active_execution_roots and the counts in ClaimJob and ClaimRequest).
Executing(T) ==
  {a \in Actors : \/ run[a].op \in T /\ HoldsFence(run[a].op, run[a].fence)
                  \/ sub[a].op \in T /\ HoldsFence(sub[a].op, sub[a].fence)}
ExecutionBound ==
  /\ Cardinality(Executing(Ops)) <= GlobalConcurrency
  /\ \A o \in Ops :
       Cardinality(Executing(InTenant(Ops, TenantOf[o]))) <= TenantConcurrency

\* Unfinished roots never exceed the pending limits, whether they entered through
\* admission or through the resumption of a cancelled request.
RootsUnfinished == {o \in Ops : ParentOf[o] = NoOp /\ status[o] \in Unfinished}
AdmissionBound ==
  /\ Cardinality(RootsUnfinished) <= MaxPending
  /\ \A o \in Ops :
       Cardinality(InTenant(RootsUnfinished, TenantOf[o])) <= MaxPendingPerTenant

\* At most one operation of a schedule is live at a time, also with overlap "queue"
\* and after a crashed attempt of another occurrence becomes reclaimable.
OneLivePerSchedule ==
  \A o, p \in Ops :
    o # p /\ ScheduleOf[o] = ScheduleOf[p] /\ ScheduleOf[o] # NoSchedule =>
      ~(Live(o) /\ Live(p))

\* A schedule with overlap "skip" never has two unfinished operations, not even while
\* one of them waits for its retry or for a worker (admitJob's overlap check).
NoSkippedOverlap ==
  \A o, p \in Ops :
    o # p /\ ScheduleOf[o] = ScheduleOf[p] /\ ScheduleOf[o] \in SkipOverlap =>
      ~(status[o] \in Unfinished /\ status[p] \in Unfinished)

\* A report never has two unfinished children, so its slot covers one execution.
OneChildPerParent ==
  \A c, d \in Ops :
    c # d /\ ParentOf[c] = ParentOf[d] /\ ParentOf[c] # NoOp =>
      ~(status[c] \in Unfinished /\ status[d] \in Unfinished)

\* A child publishes only while its parent runs live under the very claim that started
\* the child: never after the parent published, was cancelled, failed, expired or was
\* reclaimed by another process.
ChildPublishesUnderParent ==
  [][\A c \in Ops :
       effects'[c] # effects[c] /\ ParentOf[c] # NoOp =>
         /\ effects[ParentOf[c]] = <<>>
         /\ \E a \in Actors :
              /\ run[a].op = ParentOf[c]
              /\ sub[a].op = c
              /\ HoldsFence(ParentOf[c], run[a].fence)]_vars

\* A finished row stays as it is, except that a cancelled request may be resumed and
\* the retention sweep expires an old success: no late failure report, cancellation or
\* reclaim overturns an outcome.
FinishedIsFinal ==
  [][\A o \in Ops : status[o] \in Finished /\ status'[o] # status[o] =>
       \/ status[o] = "cancelled" /\ status'[o] = "pending" /\ Mode[o] = "request"
       \/ status[o] = "succeeded" /\ status'[o] = "expired"]_vars

\* A lease that ran out is never extended: the row keeps it until a claim advances the
\* fence or the row leaves running.
LapsedLeaseStaysLapsed ==
  [][\A o \in Ops :
       status[o] = "running" /\ ~Live(o) /\ status'[o] = "running" =>
         lease'[o] = lease[o] \/ fence'[o] = fence[o] + 1]_vars

-----------------------------------------------------------------------------
(* The abstract promise, and progress *)

\* The process, if any, whose remembered coordinates are the live claim of o.
HolderOf(o) ==
  LET holders == {a \in Actors : \/ run[a].op = o /\ HoldsFence(o, run[a].fence)
                                 \/ sub[a].op = o /\ HoldsFence(o, sub[a].fence)}
  IN IF holders = {} THEN NoOp ELSE CHOOSE a \in holders : TRUE

PhaseOf(o) ==
  CASE effects[o] # <<>> -> "done"
    [] effects[o] = <<>> /\ status[o] = "none" -> "absent"
    [] effects[o] = <<>> /\ status[o] \in Unfinished -> "open"
    [] OTHER -> "closed"

Task == INSTANCE ExclusiveTask WITH
          Tasks <- Ops, Procs <- Actors, Nobody <- NoOp,
          phase <- [o \in Ops |-> PhaseOf(o)],
          holder <- [o \in Ops |-> HolderOf(o)]

\* The ledger with its processes implements the exclusive task: leases, fences,
\* retries and sweeps never let two processes act, never finish a task from outside
\* and never reopen a finished one.
ImplementsExclusiveTask == Task!Spec

\* What the code schedules by itself: the clock runs, workers poll on a ticker, and
\* every attempt ends because it runs under AttemptTimeout.
EndAttempt(a) == Complete(a) \/ CompleteUnheard(a) \/ GiveUp(a)
EndChild(a) == CompleteChild(a) \/ GiveUpChild(a)
Fairness ==
  /\ WF_vars(Tick)
  /\ \A a \in Actors :
       /\ WF_vars(Poll(a))
       /\ WF_vars(EndAttempt(a))
       /\ WF_vars(ReportFailure(a))
       /\ WF_vars(EndChild(a))
       /\ WF_vars(ReportChildFailure(a))

FairSpec == Spec /\ Fairness

\* Accepted queued work always reaches a finished state, whatever crashes: a worker
\* pass retries it, or terminalizes it once its attempts or its lifetime ran out.
QueuedWorkFinishes ==
  \A o \in Ops : (Mode[o] = "queued" /\ status[o] = "pending") ~> status[o] \in Finished

=============================================================================
