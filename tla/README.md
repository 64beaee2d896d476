# Chartworks: durable work, verified

Chartworks answers governed analytical questions and produces retained reports.
Everything it promises to do later, or to do exactly once, goes through one
mechanism: a ledger of operations in Postgres, leased to processes that may crash,
stall or lose replies, and fed by schedules that may be paused, redefined, or handed
from one system to another. This directory models that mechanism in TLA+, checks it
with TLC on small instances and proves its central invariants with TLAPS.

## The system

| Part | State | Operations | Talks to |
|---|---|---|---|
| Operation ledger (`store/postgres/jobs.go`, `request_jobs.go`, `nested_requests.go`, `operation_leases.go`) | `operations`, `operation_attempts`, two capacity views | admit, claim, renew, fail, complete, cancel, resume, sweep, erase with a document | every durable feature |
| Dispatch (`jobs/service.go`, `jobs/requests.go`) | goroutines holding a lease in memory | poll, heartbeat, run handler, report failure | ledger |
| Schedules (`store/postgres/schedules.go`, `schedule_replace.go`, `schedule_lifecycle.go`) | `job_schedules` cursor, `job_occurrences` | create, pause/resume, replace, retire, fire, tick | ledger |
| Recurrence (`jobs/schedule.go`) | none | `Next`, `Previous` | schedules |
| Migration (`store/postgres/migration.go`) | import batches, `migration_cutovers`, `migration_schedule_routes`, `migration_occurrence_admissions` | begin, checkpoint, cutover, rollback, export, erase | schedules, claims |
| Read execution (`exec/execution.go`, `sources/read.go`, `store/postgres/read_executions.go`) | `read_attempts`, the warehouse | begin, dispatch, acknowledge, seal, cancel, reconcile, prune | warehouses |
| Reuse custody (`store/postgres/frozen_reuse_owners.go`) | `frozen_reuse_owners`, `frozen_run_attempts` | claim, reserve, settle, complete, release | read execution, ledger |
| Frozen artifacts (`reporting/runs_execution.go`, `store/postgres/frozen_runs_write.go`, `frozen_runs_lifecycle.go`) | `frozen_runs`, its outputs and payloads | seal, save result and outputs, reserve model calls, complete, copy, expire | ledger, custody, model gateway |
| Reporting delivery (`store/postgres/reporting_jobs.go`) | `reporting_occurrence_delivery` | reserve budget, publish receipt | ledger, artifacts |
| Policies (`store/postgres/postgres.go`) | revisions, current revision | set | ledger |
| Documents and compositions (`store/postgres/documents_delete.go`, `compositions_admission.go`) | their own tables; a deletion also writes `operations` and `operation_attempts` | edit, run, delete | ledger, artifacts, schedules |
| Uploads and profiles (`store/postgres/uploads.go`, `profile_erasure.go`) | their own tables; an erasure also cancels rows of `operations` | ingest, build, erase | ledger, sources |
| Blocks, topics, pipelines, sources, evaluation, NLQ, rendering, gateway, onboarding, authority, transports, clients | their own tables, or none | - | ledger, sources, model providers |

What makes it hard, and which modules face it:

- a process goes on with a lease it lost, while another already runs the operation
  (`Dispatch`);
- a commit whose reply is lost, then a late failure report (`Dispatch`);
- a child attempt that outlives its parent's lease and occupies capacity (`Dispatch`);
- a document deleted while its report and the report's children run (`Dispatch`);
- a tick that stops half way because the queue is full, or comes late, or meets a
  schedule redefined, paused or handed over in between (`Schedules`);
- two schedules serving one stream, with rollbacks (`Schedules`);
- a statement that still runs in the warehouse although its client is gone, or that
  ended although nobody heard (`ReadAttempts`);
- two runs that want the same values, of which only one may ask, and which lose their
  fences at any time (`ReuseCustody`);
- a narrative whose provider may or may not have been asked, bytes reserved before they are
  written, a receipt that outlives the artifact it names (`FrozenArtifacts`);
- a search over a calendar that only answers "what is next" (`PreviousSearch`).

`PROJECT.json` lists every part with what is and is not modelled, and the hazards
with the line at which each bites.

## Modules

**OperationLedger** has the rows as functions from operations to columns: `status`,
`fence`, `attempts`, `lease`, `expires`, `nextAt`, `due`, `nestedFence`, `pinned`, plus
`attempt` (the attempt table) and `policy`. `effects` is a history variable: the fences
whose domain effect was committed. Each operator is one transaction of the store,
named after the Go function; the shared lease transitions are separate operators, as in
`operation_leases.go`. A transaction is one step because admissions and claims hold one
advisory lock and the other transitions lock their row.
The owner column is left out: it is a fresh random identifier for each claim, so owner
and fence identify the same claim. Request hashes, manifests and payloads never
change after admission and are left out too: a replay with the same key is a
stutter, one with other content is refused.

Three erasures outside the job code also write these tables. An upload's erasure
(`uploads.go:244`) and the completion of one (`profile_erasure.go:16`) cancel open rows and
their attempts as `CancelJob` does, and leave the fence alone; they are steps of
`CancelOperation`. The deletion of a document (`documents_delete.go:147-203`) is
`EraseOwnedRuns`: it cancels the open runs of the document and their open children in one
transaction and advances their fence, while `attempt_count` stays and no attempt row is
written. So fences may run ahead of attempts, and the fences of the attempts of one
operation may have gaps, because a caller may resume an erased request like any
cancelled one. `Reports` are the operations that run a report or a dashboard, the only ones with
children; `Composed` are those of them that a deletion finds. The deletion locks what
its statement's snapshot shows, so a child whose admission commits while the deletion waits
for the parent's lock is not erased with it; the set `missed` has those.

**Dispatch** adds the processes. `run[a]` is the lease actor `a` remembers, `sub[a]`
the nested lease inside its handler. A process acts on what it remembers: every fenced
action passes the remembered fence to the ledger. Handler error, refused authority,
timeout and refused heartbeat are the one action `GiveUp`; `CompleteUnheard` is
a commit whose reply is lost; `Crash` forgets everything. `Workers` poll the queue and
`Callers` run their own requests; an instance without workers is a deployment whose queue
nobody serves. `DeleteDocument` picks any set of runs of one tenant, which is every set a
document can own.

**ExclusiveTask** is the abstract promise, without clock, lease, fence or attempt: a
task has at most one holder, only the holder finishes it, and a finished task is never
reopened. `Dispatch` refines it: `phase` comes from status and effects, `holder` is the
process whose remembered fence is the live one.

**Recurrence** is `Next` and `Previous` of an interval schedule, with the set of
occurrences as the reference. **Schedules** has the cursor (`previous`, `next`), the
occurrence rows and the operations they became. `TickSchedules` is one transaction: a
loop over the due schedules in due order, each a loop of `DecideOccurrence`, which is one
pass of the Go loop (missed, cutover-fenced, overlap-skipped, refused by a full queue, or
admitted). Both loops are recursive functions from the pass number to the tables it
leaves. Of an operation it keeps open, leased or closed. The fields `definition` of
rows and `generation` of operations are history. Tenants are left out of this module:
the pending limit is the global one. An import batch is reduced to the step that matters
to a cutover: its completed checkpoint names the paused target and its revision.
Definitions are interval recurrences; a schedule of type `manual` has no cursor, so of it
only `FireSchedule` would be left, and it is not instantiated.

**PreviousSearch** is the binary search of `Spec.Previous` for cron expressions over
any set of occurrence times; the cron library is external and modelled as "there is an
occurrence after t and by b, within the library's horizon".

**ReadAttempts** is one physical read: the journal row (`journal`), what the warehouse
does for it (`native`, external), the executing goroutine (`reader`) and controllers
between observing and writing (`control`). Time is what the code compares it with: a
deadline ahead, passed, passed by the cancel grace, or a day ago. **SourceAttempt** is
the executor's promise to its callers: numbered attempts one after another, each
statement issued at most once, settled only when it has ended for good. `ReadAttempts`
refines it.

**ReuseCustody** EXTENDS SourceAttempt, so it relies on that promise instead of
the executor's internals. It has the custody row of one reuse key, the runs that share it,
their copied receipts, and invocations that go through lookup, election, reservation,
read, receipt, values and outputs. `unpublished` is history.

**FrozenArtifacts** has the artifact rows with their byte counts, outputs, narratives and
model calls, the operation reduced to status, fence and lease, the occurrence's budget and
delivery receipt, and processes that work on what they read when they started. `queried`
and `called` count what was really sent and are history. Election and reads are
reduced to free choices there; the two modules above have them in full. The delivery
row's `expires_at` and `payload_expires_at` are one column, `expires`: they differ only for a
copy, and a scheduled block never copies, because `scheduledFrozenRequest` sets no reuse age.

**MCDispatch**, **MCSchedules**, **MCPreviousSearch**, **MCReads**, **MCCustody** and
**MCArtifacts** are the instances. **DispatchProof** and **TaskProof** (which EXTENDS it),
**ReadAttemptsProof**, **ReuseCustodyProof**, **ArtifactProof**, and **RecurrenceProof**,
**ScheduleStepsProof** and **SchedulesProof** (one on the other) hold the theorems.

Operators with a comment such as "a claim that forgets the lease" are deliberate
faults. No specification uses them; substituted for the operator that follows them, each
makes a named property fail, which shows that the property depends on that code.

## Runs

| Run | Question | Result |
|---|---|---|
| `queued` | Two workers, a sweep and a report of one schedule (whose definition was replaced between them), retries, crashes, cancellation, policy changes, deletion of the report | single holder, one live operation per schedule, refinement of `ExclusiveTask`, lapsed leases, final outcomes, and progress hold |
| `family` | A report run for its caller, its nested child and a queued job that takes the pending place; one execution slot; deletion of the report | each effect commits once, a child only under the claim that started it; rows and attempts agree; execution and pending limits hold |
| `redefine` | One schedule under every edit, three recurrences, late ticks, manual runs | the cursor stays on the grid, ahead of its decisions, with disjoint windows, and leaves a record |
| `cutover` | Two schedules of a stream: cutover, rollback, cutover again | one operation per due time; queued work of an earlier routing never starts |
| `ticking_live` | Two schedules, one queue place | every due schedule is decided |
| `previous` | Every calendar over nine seconds, every argument | exact, refuses only empty windows, terminates |
| `reads` | Two executors and controllers over two attempts of an operation; lost replies, late seals, cancellation, reconciliation, retention | a running statement is never settled; receipts are final; cancellation wins; refinement of `SourceAttempt` |
| `custody` | Two runs, sharing the key or not, two processes, two claims each | custody covers every doubtful query; values that were read are never fetched again; ended runs stay ended |
| `artifacts` | A scheduled run and a request that may copy it, a chart and a story, two processes | narratives asked once, budgets, bytes and quota right, copies keep their origin, receipts truthful |
| `regained` | May an elected owner go on? | violated, see below |
| `replaced` | Does a replacement leave due occurrences alone? | violated, see below |
| `refused` | Is an occurrence fenced only for a cutover reason? | violated, see below |

Bounds. Two attempts per operation are enough for a stale holder, its successor and
exhaustion; two actors for every race between a holder and a claimant; two operations of
a schedule for overlap. `MaxErasures` bounds how far deletions bring the fence of a row
ahead of its attempts: one gives an erased run, its resumption and the attempt after the gap
(in the code it is the number of documents a run shows: a dashboard's run is reached by the
deletion of the dashboard and of each report on its pages). `MaxFence` is the sum of both bounds. Lease length 2 lets a heartbeat extend a lease and a lease lapse
before expiry. The clock runs to the expiry of everything admitted. For
schedules, a period of two or three ticks with a grace of one gives on-time, late-within-
grace and missed ticks; catch-up limits 1 and 2 are both exceeded within `MaxTime`;
three route changes are cutover, rollback and cutover. For reads, two attempts are a
retry, and two executors a successor that meets a late one. For custody, two runs and two
claims of each give an owner, its successor and the owner again. For artifacts, two result
sizes fit or exceed the limit, and `MaxTime` exceeds retention and reuse age. That run has
one copying request, so no copy of a copy; that a chain of copies keeps its origin
rests on the theorem `OriginKept`, which is about any number of runs. Deadlock checking is off in all
runs: clock, revisions and manual keys are bounded, so every instance stops.
Symmetry is over actors, and in `custody` over runs, which no definition tells apart; no
run with liveness uses it.

Fairness. `queued` assumes that the clock runs, that idle workers poll (the ticker of
`worker`), that an attempt ends (`AttemptTimeout` cancels its context) and that a
failure is reported. Nothing is assumed of callers, heartbeats or crashes.
`ticking_live` assumes that each schedule is repeatedly covered by a tick (its row is
not locked for ever, `FOR UPDATE SKIP LOCKED`) and that unfinished operations keep
being closed, which is what `QueuedWorkFinishes` establishes. `previous` assumes the loop
runs.

## What the runs found

`replaced`: `ReplaceSchedule` recomputes the cursor from the current clock. Occurrences
that are due but not yet ticked, or were missed while paused, vanish without a row. The
phase plan asks for outcomes that are "explicit rather than lost or recalculated from
today's clock" (`docs/plans/phase-06-jobs-scheduler.md`), and the function's comment says
it "changes only future scheduling". `CursorLeavesARecord` is the part that holds: any
other movement of the cursor is recorded.

`refused`: on a routed schedule a tick inserts the occurrence admission, then finds the
queue full. The cursor stays, but the admission is committed. The next tick finds the due
time admitted and records `cutover_fenced`; the occurrence never runs.

`regained`: a run whose first attempt settled as retryable loses custody to a run that stops
before it reserves. Taking custody back resets the reservation number to 0, while the run's
own next attempt is number 2, so every later reservation conflicts and the run can
never execute.

One observation is in the model and not a property: a sealed scheduled run whose job ends
failed or cancelled leaves the receipt's catalog column at "pending" until expiry.

Two exceptions are written into properties rather than reported. A manual run at exactly
a clock due time owns the occurrence row of that instant, and the clock's row for it is
dropped by `ON CONFLICT DO NOTHING` (`CursorLeavesARecord`). For the same reason an
unrecorded operation of the prior schedule is invisible to the cutover boundary
(`StreamOnce`).

## Proofs

Every theorem holds for any sets of operations, processes, schedules or runs and any
limits, from the named assumptions only. The clock is unbounded, or in `Schedules` and
`FrozenArtifacts` runs to
an arbitrary `MaxTime`.

**Operation ledger** (`LedgerAssumption`: positive lease, retention and attempt limits;
children are requests of their parent's tenant; nesting is one deep; any bound on
deletions). The inductive
invariant is `LedgerInv`: the type invariant and, for each row, `RowInv`, which conjoins
`RowConstraints`, `AttemptLedger` and `EffectOnce`. None of the three is inductive
alone. That an effect commits once needs that an unfinished row has none, which needs
that resumption and claims start from rows whose attempts are closed, which is the
agreement of rows and attempts. That the row counts its attempt rows is carried as
`Counted`: a claim adds one row, at a fence beyond all others (`CountClaimed`), and every
other transition, a deletion included, keeps the set of attempt rows (`CountKept`). A bound
on the fence is part of `RowInv` too: it is at least the attempts and at most
`MaxErasures` ahead of them. Each ledger transition has a lemma (`ClaimLedger`,
`CommitLedger`, `CancelLedger`, `EraseLedger`, ...) that it preserves `LedgerInv` and treats every row as
`RowStep` allows; `Dispatch` only has to show that its actions are such transitions.

- `TypeCorrect`, `ConstraintsHold`, `LedgersAgree`, `EffectAtMostOnce` from the
  invariant; `OutcomesAreFinal`, `LapsedLeasesStayLapsed` from `RowStep`.
- `DispatchProof` then classifies what a step does to each row (`Still`, `Dropped`,
  `Committed`, `Claimed`). `ScheduleRunsOne`, `SkippedNeverOverlap` and
  `ChildrenTakeTurns` follow from `OverlapInv`, with `ScheduleAssumption`: only queued
  operations belong to schedules. `ChildrenPublishUnderParent` needs `NestInv`, which
  ties the fence a child remembers to a claim of its parent. Two of these, that a
  skipping schedule never overlaps and that siblings take turns, have no run of their own:
  the instances that would show them are covered by the theorem.
- `TaskProof`: `ClaimsAreExclusive` from `ClaimInv` (a remembered fence was granted, and
  none is remembered twice; inductive because a claim advances the fence past every
  remembered one), and the refinement `DispatchImplementsTask`, one step per action.
- The limits, in `TaskProof` too: `AdmissionIsBounded` and `ExecutionIsBounded`, with
  `LimitAssumption` (the table is finite). Executing processes are mapped injectively to the live rows and
  children that the claim's capacity query counts (`FenceInv`).

**Reads** (`ReadAssumption`). `ReadInv` says what each phase of a reader may rely on
(`Knows`), that attempts are executed by one reader, and that journal and warehouse
agree. From it: `ReadTypes`, `RunningUnsettled`, `ReceiptsStay`, `CancellationWins`, `RunsAlone` and
the refinement `ExecutorKeepsPromise`.

**Custody** (`CustodyAssumption`). `CustodyInv` relates a reservation in flight, the
custody row, the copied receipts and the attempts; lemmas per kind of step
(`RewrittenInv`, `BypassInv`, `SettledInv`, `ElectInv`, `ReserveInv`) show that it is
kept. From it: `CustodyTypes`, `CustodyCovers`, `KeysReadOnce`, `LostValuesStayLost`, `EndedRunsStay`.
That custody's number is the last one used needs the least unused attempt number, found
with the well-foundedness of the naturals (`LastReceipt`).

**Recurrence** (`RecurrenceProof`). For every interval recurrence and every instant,
`IntervalNeighbours`: `SpecNext` is the least occurrence strictly after it, and
`SpecPrevious` lies one period before that; `IntervalPrevious`: from the anchor on,
`SpecPrevious` is the greatest occurrence not after it. For cron (`SearchAssumption`: the
library's horizon is at least the window) `SearchInv` brackets the answer: some
occurrence lies between the lower bound and the argument, none between the upper bound and
the argument. From it `PreviousIsExact` and `RefusalIsExact`.

**Schedules** (`ScheduleAssumption`: finitely many schedules, positive periods longer
than the grace of a late tick, a positive catch-up limit where missed occurrences are
caught up, manual keys distinct from the clock's, a prior and a target schedule that
differ). The inductive invariant `SchedulesInv` has five parts.

- `CursorInv`: a cursor is on the grid of its definition and spans one period.
- `RowsInv`: a row of the clock ends before the cursor, and within the current definition
  before the cursor's window; windows are disjoint. `WindowsDisjoint` alone is not
  inductive: that a new window starts after every old one is a fact about the cursor.
- `OpsInv`: the clock's operations lie behind the cursor, and an operation carries a
  revision its schedule has reached. An operation of the current revision is of an
  enabled schedule, so pausing, which takes a new revision, leaves its operations behind.
- `StreamInv`: each routed operation has an admission of its due time; the prior
  schedule's recorded operations lie before the cutover boundary; operations of earlier
  routings carry a revision below the one the route binds. The last is what keeps them
  from being claimed after a cutover, whichever way the route goes later.
- `FixedInv`: the route names prior and target, and bindings never exceed the schedules'
  revisions.

The parts are stated of tables that are parameters, because a tick passes through tables
that no state shows. `ScheduleStepsProof` proves one lemma per action, and that one
decision of the loop keeps the tables in `Passing`: the invariant, and that everything the
cursor has passed since the tick began is accounted for (`Progress`). `SchedulesProof`
carries that through both loops. Their results are recursive functions, which are shown to
exist from the least pass for which they would not (`LoopExists`, `LoopStays`); the
induction scheme of the library needs an operator parameter and is not used. From
the invariant: `ScheduleTypes`, `CursorsStayOnGrid`, `CursorsStayAhead`,
`WindowsNeverOverlap`, `StreamRunsOnce`. The action properties `CursorsLeaveRecords`
(from `Progress`) and `StaleRoutesNeverStart` (from `StreamInv` and the claim's
conditions) hold for every number of schedules, every catch-up limit and every sequence of
edits and route changes, where the runs have two schedules and three route changes.

**Artifacts** (`ArtifactAssumption`: finitely many runs, numeric limits, a manifest no
larger than an artifact may be, results that are not empty). The inductive invariant
`ArtifactInv` has six parts.

- `StateTypeOK`: the types and, for each row, `RowInv`: its byte count is its payload, an
  open row reserves the whole limit, a closed one nothing, and only a settled row has an
  origin.
- `CopyInv`: what was copied succeeded, and has at most been erased since. `CopiesKeepOrigin`
  alone is not inductive, because a result sets the observation time of its row; it does so
  only in rows that nobody can have copied.
- `TenantQuota`: a seal adds one whole artifact to the charge, and no later write raises it,
  because the reservation covers all growth.
- `AskInv`: an output that is absent has never been asked for, and one that is being asked
  for is asked for by one process, whose own count bounds the calls. A process that lost
  its run may still be that one process: the saved `indeterminate` mark keeps every other
  process away.
- `SpendInv`: the numbered queries of an occurrence, and its calls together with the grants
  that some process has not used yet (`Credits`), are within what the delivery row charges.
- `ReceiptInv`: a published row belongs to a closed artifact and is available exactly when
  the operation succeeded.

From it: `ArtifactTypes`, `AskedOnce`, `BudgetKept`, `BytesCounted`, `QuotaKept`,
`OriginKept`, `ReceiptsTruthful`. `ReceiptsTruthful` needs no more than `ReceiptInv` and
`RowInv`, because the receipt is corrected by expiry when it is read. Charges, bytes and calls
are sums over finite sets, by the `SumFunction` of the community modules. That the sum
exists, and what it does when one summand changes (`SumChange`) or all grow
(`SumMonotone`), is proved from the smallest subset that would be a counterexample
(`BySubsets`), since the library's induction takes an operator parameter. Most actions then
only have to show that each row they touch is a `Write`, after which `Quiet` gives the whole
invariant; sealing, completion, reservation and model calls each have a lemma of their own.

Only model-checked: liveness under fairness (`QueuedWorkFinishes`, `DueIsDecided`,
`Terminates`), which the proof system cannot reach. Every other property of a passing run
has a theorem. The three properties the runs refute are, of course, not theorems.

## Not modelled

Isolation below a transaction: a renewal that commits between a claim's reading of the
active roots and its own commit is not visible to that claim under READ COMMITTED. The
model has claims and renewals in some order. Of a document's deletion the ledger is
modelled, and the schedules it retires are steps of `RetireSchedule`; what it erases of
compositions, queries, frozen artifacts and settled read attempts (which otherwise stay a
day) has no action in the modules of those tables. The inline sweep reservation of
`operations.go`, compositions of several frozen runs, migration batches before their last
checkpoint, export and erasure, row decoding and cost checks of reads, and the domain
tables behind topics and pipelines have no module. Authority, transports, rendering,
charts and clients are stateless or presentation code.
