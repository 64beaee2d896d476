--------------------------- MODULE OperationLedger ---------------------------
(***************************************************************************)
(* The durable operation ledger: the rows of chartworks.operations and     *)
(* chartworks.operation_attempts, the two capacity views computed from     *)
(* them, and the row transitions every dispatcher shares.                  *)
(*                                                                         *)
(* Every admission and claim runs under one transaction-wide advisory lock *)
(* (queueLock) and every other transition locks its row, so a transaction  *)
(* is one step (Locked says what the locking of a deletion lets through).  *)
(* `now' is the database clock: every guard in the code reads              *)
(* clock_timestamp().  The owner column is left out: an owner is a fresh   *)
(* random identifier drawn for each claim, so owner and fence name the     *)
(* same claim.                                                             *)
(***************************************************************************)
EXTENDS Integers, FiniteSets, Sequences

CONSTANTS
  Ops,                  \* accepted idempotency keys, one operation row each
  Mode,                 \* Ops -> {"queued", "request"}: dispatch_mode
  Sweeps,               \* the queued operations of kind retention.sweep
  Reports,              \* the root operations that run a report or a dashboard
  TenantOf,             \* Ops -> tenants
  ParentOf,             \* Ops -> Ops \cup {NoOp}: nested_parent
  ScheduleOf,           \* Ops -> schedules \cup {NoSchedule}
  SkipOverlap,          \* the schedules whose overlap policy is "skip"
  NoOp, NoSchedule,
  MaxAttempts, GlobalConcurrency, TenantConcurrency,
  MaxErasures,          \* bound on the document deletions that reach one open row
  MaxPending, MaxPendingPerTenant, MaxChildren,
  LeaseTTL,             \* Limits.Lease
  Backoff,              \* Limits.Backoff
  DelayCap,             \* the one minute cap on a retry delay
  Retention             \* policy_revisions.operation_hours

ASSUME LedgerAssumption ==
  /\ Mode \in [Ops -> {"queued", "request"}]
  /\ Sweeps \subseteq {o \in Ops : Mode[o] = "queued"}
  /\ ParentOf \in [Ops -> Ops \cup {NoOp}]
  /\ NoOp \notin Ops
  /\ \A o \in Ops : ParentOf[o] # NoOp =>
        /\ Mode[o] = "request"
        /\ ParentOf[o] \notin Sweeps
        /\ ParentOf[ParentOf[o]] = NoOp
        /\ TenantOf[o] = TenantOf[ParentOf[o]]
  /\ MaxAttempts \in Nat \ {0}
  /\ MaxErasures \in Nat
  /\ LeaseTTL \in Nat \ {0}
  /\ Backoff \in Nat
  /\ DelayCap \in Nat
  /\ Retention \in Nat \ {0}

\* Only a report or a dashboard has nested children.
ASSUME ReportAssumption ==
  /\ Reports \subseteq {o \in Ops \ Sweeps : ParentOf[o] = NoOp}
  /\ \A o \in Ops : ParentOf[o] # NoOp => ParentOf[o] \in Reports

\* Only the scheduler's jobs name a schedule.
ASSUME ScheduleAssumption ==
  /\ \A o \in Ops : ScheduleOf[o] # NoSchedule => Mode[o] = "queued"
  /\ NoSchedule \notin SkipOverlap

\* The table is finite and the limits are numbers.
ASSUME LimitAssumption ==
  /\ IsFiniteSet(Ops)
  /\ GlobalConcurrency \in Nat /\ TenantConcurrency \in Nat
  /\ MaxPending \in Nat /\ MaxPendingPerTenant \in Nat

VARIABLES
  now,          \* the database clock
  status,       \* operations.status, "none" before admission
  fence,        \* operations.fence
  attempts,     \* operations.attempt_count
  lease,        \* operations.lease_until, NoLease when NULL
  expires,      \* operations.expires_at
  nextAt,       \* operations.next_attempt_at
  due,          \* operations.due_at
  nestedFence,  \* operations.nested_fence
  pinned,       \* operations.policy_revision
  attempt,      \* operation_attempts.state, by operation and fence
  policy,       \* policies.current_revision, by tenant
  effects       \* the fences whose domain effect was committed, in order

rows == <<status, fence, attempts, lease, expires, nextAt, due, nestedFence, pinned>>
ledgerVars == <<now, rows, attempt, policy, effects>>

NoLease == 0
MaxFence == MaxAttempts + MaxErasures
Fences == 1..MaxFence
Unfinished == {"pending", "retry", "running"}
Finished == {"succeeded", "expired", "failed", "blocked", "cancelled"}
AttemptStates == {"none", "acquiring", "succeeded", "retry", "failed",
                  "blocked", "cancelled", "abandoned"}

LedgerInit ==
  /\ now = 1
  /\ status = [o \in Ops |-> "none"]
  /\ fence = [o \in Ops |-> 0]
  /\ attempts = [o \in Ops |-> 0]
  /\ lease = [o \in Ops |-> NoLease]
  /\ expires = [o \in Ops |-> 0]
  /\ nextAt = [o \in Ops |-> 0]
  /\ due = [o \in Ops |-> 0]
  /\ nestedFence = [o \in Ops |-> 0]
  /\ pinned = [o \in Ops |-> 0]
  /\ attempt = [o \in Ops |-> [f \in Fences |-> "none"]]
  /\ policy = [t \in {TenantOf[o] : o \in Ops} |-> 1]
  /\ effects = [o \in Ops |-> <<>>]

-----------------------------------------------------------------------------
(* Row predicates and the two views *)

\* The guard every fenced statement repeats: running, unexpired lease and row.
Live(o) ==
  /\ status[o] = "running"
  /\ lease[o] > now
  /\ expires[o] > now

Unleased(o) == lease[o] = NoLease \/ lease[o] <= now

\* Some caller's coordinates still name the live claim.
HoldsFence(o, f) == Live(o) /\ fence[o] = f

ParentLive(o) ==
  /\ ParentOf[o] # NoOp
  /\ HoldsFence(ParentOf[o], nestedFence[o])

\* A view that counts roots only, so an orphaned child runs uncounted.
RootsOnlyActive == {o \in Ops : Live(o) /\ ParentOf[o] = NoOp}

\* View active_execution_roots: a child delegates to its live parent's slot.
ActiveRoots == {o \in Ops : Live(o) /\ ~ParentLive(o)}

\* View pending_execution_roots: roots, and live children without that parent.
PendingRoots ==
  {o \in Ops : /\ status[o] \in Unfinished
               /\ ParentOf[o] # NoOp => Live(o) /\ ~ParentLive(o)}

InTenant(S, t) == {o \in S : TenantOf[o] = t}

\* An off-by-one limit.
CapacityOffByOne(t) ==
  /\ Cardinality(PendingRoots) <= MaxPending
  /\ Cardinality(InTenant(PendingRoots, t)) <= MaxPendingPerTenant

\* queueCapacity answers ErrBusy at either limit.
QueueCapacity(t) ==
  /\ Cardinality(PendingRoots) < MaxPending
  /\ Cardinality(InTenant(PendingRoots, t)) < MaxPendingPerTenant

\* Both concurrency limits leave room for one more active root.
ExecutionCapacity(t) ==
  /\ Cardinality(ActiveRoots) < GlobalConcurrency
  /\ Cardinality(InTenant(ActiveRoots, t)) < TenantConcurrency

Earlier(x, y) == IF x <= y THEN x ELSE y

\* A transition that forgets the attempt table.
AttemptsLeftOpen(o, s) == attempt[o]

\* Every acquiring attempt row of one operation takes the state s.
CloseAttempts(o, s) ==
  [f \in Fences |-> IF attempt[o][f] = "acquiring" THEN s ELSE attempt[o][f]]

-----------------------------------------------------------------------------
(* The shared lease transitions *)

\* A claim that forgets the lease of another claimant.
ClaimableWhileLeased(o) ==
  /\ status[o] \in Unfinished
  /\ attempts[o] < MaxAttempts
  /\ expires[o] > now

\* A claim that forgets the attempt limit.
ClaimableUncapped(o) ==
  /\ status[o] \in Unfinished
  /\ Unleased(o)
  /\ expires[o] > now

Claimable(o) ==
  /\ status[o] \in Unfinished
  /\ Unleased(o)
  /\ attempts[o] < MaxAttempts
  /\ expires[o] > now

\* A lease that may outlive its row.
UncappedLease(o) == now + LeaseTTL

LeaseFrom(o) == Earlier(expires[o], now + LeaseTTL)

\* A renewal that revives a lease that ran out.
RenewLapsedLease(o, f) ==
  /\ status[o] = "running"
  /\ fence[o] = f
  /\ expires[o] > now
  /\ lease' = [lease EXCEPT ![o] = LeaseFrom(o)]
  /\ UNCHANGED <<now, status, fence, attempts, expires, nextAt, due, nestedFence,
                 pinned, attempt, policy, effects>>

RenewOperationLease(o, f) ==
  /\ HoldsFence(o, f)
  /\ lease' = [lease EXCEPT ![o] = LeaseFrom(o)]
  /\ UNCHANGED <<now, status, fence, attempts, expires, nextAt, due, nestedFence,
                 pinned, attempt, policy, effects>>

FailureState(o, permanent) ==
  IF permanent THEN "blocked"
  ELSE IF attempts[o] >= MaxAttempts THEN "failed" ELSE "retry"

FailOperationLease(o, f, permanent, delay) ==
  /\ HoldsFence(o, f)
  /\ status' = [status EXCEPT ![o] = FailureState(o, permanent)]
  /\ lease' = [lease EXCEPT ![o] = NoLease]
  /\ nextAt' = [nextAt EXCEPT ![o] = now + delay]
  /\ attempt' = [attempt EXCEPT ![o][f] =
                   IF @ = "acquiring" THEN FailureState(o, permanent) ELSE @]
  /\ UNCHANGED <<now, fence, attempts, expires, due, nestedFence, pinned, policy, effects>>

-----------------------------------------------------------------------------
(* Admission *)

\* Some operation of the schedule is still pending, retrying or running.
ActiveSchedule(s) == \E o \in Ops : ScheduleOf[o] = s /\ status[o] \in Unfinished

InsertRow(o, until, parentFence) ==
  /\ status' = [status EXCEPT ![o] = "pending"]
  /\ expires' = [expires EXCEPT ![o] = until]
  /\ nextAt' = [nextAt EXCEPT ![o] = now]
  /\ due' = [due EXCEPT ![o] = now]
  /\ nestedFence' = [nestedFence EXCEPT ![o] = parentFence]
  /\ pinned' = [pinned EXCEPT ![o] = policy[TenantOf[o]]]
  /\ UNCHANGED <<now, fence, attempts, lease, attempt, policy, effects>>

\* A replayed key returns the existing row and changes nothing.
AdmitJob(o) ==
  /\ Mode[o] = "queued"
  /\ status[o] = "none"
  /\ ScheduleOf[o] \in SkipOverlap => ~ActiveSchedule(ScheduleOf[o])
  /\ QueueCapacity(TenantOf[o])
  /\ InsertRow(o, now + Retention, 0)

AdmitRequest(o) ==
  /\ Mode[o] = "request"
  /\ ParentOf[o] = NoOp
  /\ status[o] = "none"
  /\ QueueCapacity(TenantOf[o])
  /\ InsertRow(o, now + Retention, 0)

Children(p) == {c \in Ops : ParentOf[c] = p /\ status[c] # "none"}

\* The unique index one_unfinished_report_child over the row o would enter.
NoUnfinishedSibling(o) ==
  \A c \in Children(ParentOf[o]) \ {o} : status[c] \notin Unfinished

\* A child is admitted under its parent's live fence pf, without a queue slot.
AdmitNestedRequest(o, pf) ==
  /\ ParentOf[o] # NoOp
  /\ status[o] = "none"
  /\ HoldsFence(ParentOf[o], pf)
  /\ Cardinality(Children(ParentOf[o])) < MaxChildren
  /\ NoUnfinishedSibling(o)
  /\ InsertRow(o, Earlier(now + Retention, expires[ParentOf[o]]), pf)

-----------------------------------------------------------------------------
(* Cancellation and explicit resumption *)

\* CancelJob and CancelRequest; on a finished row both leave it as it is.  An upload's
\* erasure cancels the task it supersedes, and its completion the builds of the profiles
\* it erases, with the same two statements: each such row is cancelled by a step of this.
CancelOperation(o) ==
  /\ status[o] \in Unfinished
  /\ status' = [status EXCEPT ![o] = "cancelled"]
  /\ lease' = [lease EXCEPT ![o] = NoLease]
  /\ attempt' = [attempt EXCEPT ![o] = CloseAttempts(o, "cancelled")]
  /\ UNCHANGED <<now, fence, attempts, expires, nextAt, due, nestedFence, pinned,
                 policy, effects>>

\* The runs that have a row in composition_runs, which deleting their document or one
\* of their pages reaches: a request's from its admission on, a scheduled report's from
\* its first attempt on.
Composed(o) ==
  /\ o \in Reports
  /\ status[o] # "none"
  /\ Mode[o] = "queued" => attempts[o] > 0

\* The rows the deletion locks: the runs and their children, except a child whose
\* admission committed while the deletion waited for the lock of its parent (the rows
\* of SELECT ... FOR UPDATE are those of the statement's snapshot).
JustAdmitted(c) == status[c] = "pending" /\ attempts[c] = 0 /\ due[c] = now
Locked(roots, missed) == {o \in Ops : o \in roots \/ ParentOf[o] \in roots} \ missed

\* An erasure that forgets that a run may have finished.
ErasedAnyway(roots, missed) == {o \in Locked(roots, missed) : status[o] # "none"}

Erased(roots, missed) == {o \in Locked(roots, missed) : status[o] \in Unfinished}

\* eraseDocumentOwnedRunMaterial on the two tables: the open rows among the locked ones
\* are cancelled together and their fence advances, without a new attempt.
EraseOwnedRuns(roots, missed) ==
  LET open == Erased(roots, missed) IN
  /\ \A o \in open : fence[o] < attempts[o] + MaxErasures
  /\ status' = [o \in Ops |-> IF o \in open THEN "cancelled" ELSE status[o]]
  /\ lease' = [o \in Ops |-> IF o \in open THEN NoLease ELSE lease[o]]
  /\ fence' = [o \in Ops |-> IF o \in open THEN fence[o] + 1 ELSE fence[o]]
  /\ attempt' = [o \in Ops |-> IF o \in Locked(roots, missed)
                               THEN CloseAttempts(o, "cancelled") ELSE attempt[o]]
  /\ UNCHANGED <<now, attempts, expires, nextAt, due, nestedFence, pinned, policy, effects>>

\* An expired running row is left to the next claim; only the audit is written.
ResumeRequest(o) ==
  /\ Mode[o] = "request"
  /\ status[o] \in {"cancelled", "retry", "pending"}
  /\ attempts[o] < MaxAttempts
  /\ expires[o] > now
  /\ status[o] = "cancelled" => QueueCapacity(TenantOf[o])
  /\ ParentOf[o] # NoOp => NoUnfinishedSibling(o)
  /\ status' = [status EXCEPT ![o] = "pending"]
  /\ nextAt' = [nextAt EXCEPT ![o] = now]
  /\ UNCHANGED <<now, fence, attempts, lease, expires, due, nestedFence, pinned, attempt,
                 policy, effects>>

-----------------------------------------------------------------------------
(* Claims *)

\* A sweep that forgets rows whose lifetime ran out.
SweptExhausted ==
  {o \in Ops : /\ Mode[o] = "queued"
               /\ status[o] \in Unfinished
               /\ Unleased(o)
               /\ attempts[o] >= MaxAttempts}

\* The rows ClaimJob's bounded maintenance sweep terminalizes before it claims.
Swept ==
  {o \in Ops : /\ Mode[o] = "queued"
               /\ status[o] \in Unfinished
               /\ Unleased(o)
               /\ expires[o] <= now \/ attempts[o] >= MaxAttempts}

SweptStatus(o) == IF expires[o] <= now THEN "expired" ELSE "failed"

\* Overlap "queue" without the execution-time check.
ScheduleAlwaysIdle(o) == TRUE

\* Two live operations of one schedule never run together.
ScheduleIdle(o) ==
  ScheduleOf[o] # NoSchedule =>
    \A p \in Ops \ {o} : ScheduleOf[p] = ScheduleOf[o] =>
                            ~(status[p] = "running" /\ lease[p] > now)

\* ClaimJob's SELECT ... FOR UPDATE SKIP LOCKED: any eligible row may be the one
\* returned, because a row another transaction has locked is passed over.
JobEligible(o) ==
  /\ Mode[o] = "queued"
  /\ Claimable(o)
  /\ nextAt[o] <= now
  /\ due[o] <= now
  /\ Cardinality(ActiveRoots) < GlobalConcurrency
  /\ Cardinality(InTenant(ActiveRoots, TenantOf[o])) < TenantConcurrency
  /\ ScheduleIdle(o)

\* A claim that leaves the fence of the claim before it in force.
SameFence(o) == IF fence[o] = 0 THEN 1 ELSE fence[o]

NextFence(o) == fence[o] + 1

\* claimOperationLease on the rows of picked (at most one), after the sweep, when
\* there is one, of the rows in swept: the fence and the attempt advance together.
ClaimOperationLease(swept, picked) ==
  /\ \A o \in picked : Claimable(o)
  /\ status' = [o \in Ops |-> IF o \in swept THEN SweptStatus(o)
                             ELSE IF o \in picked THEN "running" ELSE status[o]]
  /\ lease' = [o \in Ops |-> IF o \in swept THEN NoLease
                            ELSE IF o \in picked THEN LeaseFrom(o) ELSE lease[o]]
  /\ fence' = [o \in Ops |-> IF o \in picked THEN NextFence(o) ELSE fence[o]]
  /\ attempts' = [o \in Ops |-> IF o \in picked THEN attempts[o] + 1 ELSE attempts[o]]
  /\ attempt' = [o \in Ops |-> [f \in Fences |->
       IF o \in picked /\ f = NextFence(o) THEN "acquiring"
       ELSE IF o \in swept \cup picked /\ attempt[o][f] = "acquiring" THEN "abandoned"
       ELSE attempt[o][f]]]
  /\ UNCHANGED <<now, expires, nextAt, due, pinned, policy, effects>>

\* A pass that finds the queue full or empty still commits its sweep.
ClaimNothing ==
  /\ ~\E o \in Ops : JobEligible(o)
  /\ ClaimOperationLease(Swept, {})
  /\ UNCHANGED nestedFence

ClaimJob(o) ==
  /\ JobEligible(o)
  /\ ClaimOperationLease(Swept, {o})
  /\ UNCHANGED nestedFence

ClaimRequest(o) ==
  /\ Mode[o] = "request"
  /\ ParentOf[o] = NoOp
  /\ nextAt[o] <= now
  /\ ExecutionCapacity(TenantOf[o])
  /\ ClaimOperationLease({}, {o})
  /\ UNCHANGED nestedFence

\* The parent's slot already counts: a child claim asks for no capacity.
ClaimNestedRequest(o, pf) ==
  /\ ParentOf[o] # NoOp
  /\ HoldsFence(ParentOf[o], pf)
  /\ nextAt[o] <= now
  /\ ClaimOperationLease({}, {o})
  /\ nestedFence' = [nestedFence EXCEPT ![o] = pf]

-----------------------------------------------------------------------------
(* Completion *)

\* Rows an expired receipt sweep of o may turn from succeeded to expired; the
\* batch limit, locked rows and retained audit references may each spare one.
Sweepable(o) ==
  {x \in Ops \ {o} : /\ TenantOf[x] = TenantOf[o]
                     /\ status[x] = "succeeded"
                     /\ expires[x] < due[o]}

CommitEffect(o, f, outcome, expired) ==
  /\ status' = [x \in Ops |-> IF x = o THEN outcome
                             ELSE IF x \in expired THEN "expired" ELSE status[x]]
  /\ lease' = [lease EXCEPT ![o] = NoLease]
  /\ attempt' = [attempt EXCEPT ![o][f] = IF @ = "acquiring" THEN outcome ELSE @]
  /\ effects' = [effects EXCEPT ![o] = Append(@, f)]
  /\ UNCHANGED <<now, fence, attempts, expires, nextAt, due, nestedFence, pinned, policy>>

\* Retention effects, audit, row and attempt in one transaction, under the policy
\* revision that admission pinned.
CompleteJob(o, f) ==
  /\ o \in Sweeps
  /\ HoldsFence(o, f)
  /\ policy[TenantOf[o]] = pinned[o]
  /\ \E S \in SUBSET Sweepable(o) : CommitEffect(o, f, "succeeded", S)

\* A publication that asks only that somebody holds the row.
CompleteUnfenced(o, f) ==
  /\ o \notin Sweeps
  /\ ParentOf[o] = NoOp
  /\ Live(o)
  /\ CommitEffect(o, f, "succeeded", {})

\* Domain publication of a root request or scheduled target under its own fence; a
\* scheduled report whose artifact failed publishes it and ends blocked.
CompleteRequest(o, f) ==
  /\ o \notin Sweeps
  /\ ParentOf[o] = NoOp
  /\ HoldsFence(o, f)
  /\ \E outcome \in {"succeeded", "blocked"} :
       /\ outcome = "blocked" => Mode[o] = "queued"
       /\ CommitEffect(o, f, outcome, {})

\* A child publication that asks for the child's own fence only.
CompleteOrphan(o, f, pf) ==
  /\ ParentOf[o] # NoOp
  /\ HoldsFence(o, f)
  /\ CommitEffect(o, f, "succeeded", {})

\* A child publishes only while the parent claim it was made under is live.
CompleteNestedRequest(o, f, pf) ==
  /\ ParentOf[o] # NoOp
  /\ HoldsFence(ParentOf[o], pf)
  /\ nestedFence[o] = pf
  /\ HoldsFence(o, f)
  /\ CommitEffect(o, f, "succeeded", {})

\* SetPolicy: a new immutable revision becomes current.
SetPolicy(t) ==
  /\ policy' = [policy EXCEPT ![t] = @ + 1]
  /\ UNCHANGED <<now, rows, attempt, effects>>

-----------------------------------------------------------------------------
(* Invariants of the tables *)

LedgerTypeOK ==
  /\ now \in Nat \ {0}
  /\ status \in [Ops -> {"none"} \cup Unfinished \cup Finished]
  /\ fence \in [Ops -> 0..MaxFence]
  /\ attempts \in [Ops -> 0..MaxAttempts]
  /\ lease \in [Ops -> Nat]
  /\ expires \in [Ops -> Nat]
  /\ nextAt \in [Ops -> Nat]
  /\ due \in [Ops -> Nat]
  /\ nestedFence \in [Ops -> 0..MaxFence]
  /\ pinned \in [Ops -> Nat]
  /\ attempt \in [Ops -> [Fences -> AttemptStates]]
  /\ policy \in [{TenantOf[o] : o \in Ops} -> Nat]
  /\ effects \in [Ops -> Seq(Fences)]

\* The row constraints of the schema are never the ones to refuse a transition: a lease
\* is stored exactly while the row runs and is never longer than the row's lifetime; and
\* the fence never falls behind the attempts, which only a document deletion lets it
\* overtake.
RowConstraints ==
  \A o \in Ops :
    /\ status[o] = "running" <=> lease[o] # NoLease
    /\ lease[o] <= expires[o]
    /\ attempts[o] <= fence[o]

\* The fences of an operation that have an attempt row.
AttemptRows(o) == {f \in Fences : attempt[o][f] # "none"}

\* The attempt table and the operation row agree after every transaction: an attempt
\* is acquiring exactly while its operation runs under that fence, the operation counts
\* its attempt rows, and none lies beyond its fence, so the next claim's insert meets
\* neither key of the table (claim, sweep, cancel, erase, fail and complete each update
\* the two tables in separate statements, and an erasure uses up a fence).
AttemptLedger ==
  \A o \in Ops :
    /\ \A f \in Fences :
         /\ attempt[o][f] = "acquiring" <=> status[o] = "running" /\ fence[o] = f
         /\ attempt[o][f] # "none" => f <= fence[o]
    /\ Cardinality(AttemptRows(o)) = attempts[o]

\* Whatever crashes, reclaims, cancellations and late commits happen, an operation's
\* domain effect is committed at most once, by the attempt recorded as the one that
\* ended it, and never on a row that is or becomes open again; and a receipt that says
\* succeeded has its effect (CompleteJob, completeRequestTx,
\* completeReportingRequestTx).
EffectOnce ==
  \A o \in Ops :
    /\ status[o] = "succeeded" => effects[o] # <<>>
    /\ effects[o] # <<>> =>
         /\ effects[o] = <<fence[o]>>
         /\ status[o] \in {"succeeded", "blocked", "expired"}
         /\ attempt[o][fence[o]] \in {"succeeded", "blocked"}

=============================================================================
