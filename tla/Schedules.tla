------------------------------- MODULE Schedules -------------------------------
(***************************************************************************)
(* Durable schedules: the occurrence cursor kept in job_schedules, the     *)
(* occurrence rows it leaves behind, and the operations it admits.  Each   *)
(* action is one transaction.  Admission, ticking and route changes hold   *)
(* the queue's advisory lock; edits lock the schedule row.                 *)
(*                                                                         *)
(* One migration cohort may route a stream from schedule Prior to schedule *)
(* Target.  Of an operation only what schedules look at is kept: "open"    *)
(* (pending, retry, or running with a lapsed lease), "leased" or "closed"; *)
(* module OperationLedger has the rest.                                    *)
(***************************************************************************)
EXTENDS Recurrence, FiniteSets

CONSTANTS
  Ids,             \* schedule ids; Prior and Target are two of them, or NoRoute
  Prior, Target, NoRoute,
  Definitions,     \* the schedule requests in use: records of SpecType
  FirstDefinition, \* the one each schedule is created with
  Keys,            \* client keys of manual fires
  Grace,           \* how late an occurrence may be under missed = "skip" (5s)
  MaxPending,      \* Limits.MaxPending
  MaxTime,         \* bound on the clock
  MaxRevision,     \* bound on schedule edits
  MaxGeneration    \* bound on route changes

VARIABLES
  now,             \* the database clock
  sched,           \* job_schedules; definition counts its ReplaceSchedules
  occ,             \* job_occurrences: one row per schedule and due time
  ops,             \* the operations admitted for schedules
  route,           \* migration_cutovers: the cohort's active route
  bound,           \* migration_schedule_routes.schedule_revision, 0 when unrouted
  admitted,        \* migration_occurrence_admissions: one row per due time
  checkpoint       \* target revision recorded by the last completed import batch

vars == <<now, sched, occ, ops, route, bound, admitted, checkpoint>>

Clock == "clock"
Routed == {Prior, Target} \ {NoRoute}

SpecType ==
  [every : Nat \ {0}, anchor : Nat, missed : {"skip", "catch_up"},
   maxCatchUp : 0..32, overlap : {"skip", "queue"}]

ASSUME ScheduleAssumption ==
  /\ Definitions \subseteq SpecType
  /\ \A d \in Definitions : Grace < d.every
  /\ \A d \in Definitions : d.missed = "catch_up" => d.maxCatchUp > 0
  /\ FirstDefinition \in [Ids -> Definitions]
  /\ IsFiniteSet(Ids) /\ NoRoute \notin Ids
  /\ Routed = {} \/ ({Prior, Target} \subseteq Ids /\ Prior # Target)
  /\ Clock \notin Keys      \* idempotency keys "occurrence:..." and "manual:..."
  /\ MaxTime \in Nat /\ MaxRevision \in Nat \ {0} /\ MaxGeneration \in Nat

-----------------------------------------------------------------------------
(* Reading the tables *)

Exists(s) == sched[s].revision > 0
Usable(s) == Exists(s) /\ ~sched[s].retired
Unfinished(jobs) == {o \in jobs : o.state # "closed"}

\* activeSchedule: some operation of the schedule is not finished.
ActiveSchedule(jobs, s) == \E o \in Unfinished(jobs) : o.sched = s

\* Counting finished operations against the limit as well.
FullOfHistory(jobs) == Cardinality(jobs) >= MaxPending

\* queueCapacity over all tenants.
QueueFull(jobs) == Cardinality(Unfinished(jobs)) >= MaxPending

\* INSERT ... ON CONFLICT DO NOTHING on the row's (schedule, due) key.
InsertOccurrence(rows, r) ==
  IF \E x \in rows : x.sched = r.sched /\ x.due = r.due THEN rows ELSE rows \cup {r}

\* A decision of the clock, or with another key the row of a manual operation.
Occurrence(s, key, c, due, start, through, disposition) ==
  [sched |-> s, key |-> key, due |-> due, start |-> start, through |-> through,
   disposition |-> disposition, definition |-> c.definition]

Operation(s, key, c, due, start) ==
  [sched |-> s, key |-> key, due |-> due, start |-> start, revision |-> c.revision,
   definition |-> c.definition, generation |-> IF bound[s] = 0 THEN 0 ELSE route.generation,
   state |-> "open"]

\* The cutover checks an occurrence passes on a routed schedule.
OnActiveRoute(s, c, due) ==
  /\ route.active = s
  /\ bound[s] = c.revision
  /\ due > route.resumeAfter

\* Route checks without the one-row-per-due-time insert.
RouteCheckOnly(adm, s, c, due) == bound[s] = 0 \/ OnActiveRoute(s, c, due)

\* admitCutoverOccurrence: free when unrouted, else the first to claim the due time.
AdmitCutoverOccurrence(adm, s, c, due) ==
  \/ bound[s] = 0
  \/ OnActiveRoute(s, c, due) /\ \A a \in adm : a.due # due

Admission(adm, s, due) ==
  IF bound[s] = 0 THEN adm
  ELSE adm \cup {[due |-> due, generation |-> route.generation, sched |-> s]}

\* Restarting from the occurrence that is already under way.
RestartCurrent(c, d) ==
  LET current == SpecNext(d, now - d.every)
  IN [c EXCEPT !.spec = d, !.previous = SpecPrevious(d, current - 1), !.next = current,
               !.definition = @ + 1]

\* scheduleTimes: a new definition starts at the occurrences around now.
ScheduleTimes(c, d) ==
  [c EXCEPT !.spec = d, !.previous = SpecPrevious(d, now), !.next = SpecNext(d, now),
            !.definition = @ + 1]

Init ==
  /\ now = 0
  /\ sched = [s \in Ids |-> [revision |-> 0, enabled |-> FALSE, retired |-> FALSE,
                             spec |-> FirstDefinition[s], previous |-> 0, next |-> 0,
                             definition |-> 0]]
  /\ occ = {}
  /\ ops = {}
  /\ route = [active |-> NoRoute, other |-> NoRoute, state |-> "none", generation |-> 0,
              resumeAfter |-> 0]
  /\ bound = [s \in Ids |-> 0]
  /\ admitted = {}
  /\ checkpoint = 0

-----------------------------------------------------------------------------
(* Editing a schedule *)

\* CreateSchedule, and CreateImportedSchedule for the paused target of a migration.
CreateSchedule(s) ==
  /\ ~Exists(s)
  /\ sched' = [sched EXCEPT ![s] =
       ScheduleTimes([sched[s] EXCEPT !.revision = 1, !.enabled = (s # Target)], FirstDefinition[s])]
  /\ UNCHANGED <<now, occ, ops, route, bound, admitted, checkpoint>>

\* SetSchedule: pause or resume, keeping the cursor.
SetSchedule(s) ==
  /\ Usable(s)
  /\ sched[s].revision < MaxRevision
  /\ sched' = [sched EXCEPT ![s].revision = @ + 1, ![s].enabled = ~@]
  /\ UNCHANGED <<now, occ, ops, route, bound, admitted, checkpoint>>

\* ReplaceSchedule: a new definition, and a cursor computed afresh from now.
ReplaceSchedule(s, d) ==
  /\ Usable(s)
  /\ sched[s].revision < MaxRevision
  /\ sched' = [sched EXCEPT ![s] = ScheduleTimes([sched[s] EXCEPT !.revision = @ + 1], d)]
  /\ UNCHANGED <<now, occ, ops, route, bound, admitted, checkpoint>>

\* Retiring without disabling.
RetireOnly(s) ==
  /\ Usable(s)
  /\ sched[s].revision < MaxRevision
  /\ sched' = [sched EXCEPT ![s].revision = @ + 1, ![s].retired = TRUE]
  /\ UNCHANGED <<now, occ, ops, route, bound, admitted, checkpoint>>

\* RetireSchedule: final, and disabled with it.
RetireSchedule(s) ==
  /\ Usable(s)
  /\ sched[s].revision < MaxRevision
  /\ sched' = [sched EXCEPT ![s].revision = @ + 1, ![s].enabled = FALSE, ![s].retired = TRUE]
  /\ UNCHANGED <<now, occ, ops, route, bound, admitted, checkpoint>>

-----------------------------------------------------------------------------
(* Admitting occurrences *)

\* FireSchedule on a new key: the overlap policy and the queue limit refuse it whole.
FireSchedule(s, k) ==
  /\ Usable(s) /\ sched[s].enabled
  /\ AdmitCutoverOccurrence(admitted, s, sched[s], now)
  /\ \A o \in ops : ~(o.sched = s /\ o.key = k)
  /\ sched[s].spec.overlap = "skip" => ~ActiveSchedule(ops, s)
  /\ ~QueueFull(ops)
  /\ ops' = ops \cup {Operation(s, k, sched[s], now, now)}
  /\ occ' = InsertOccurrence(occ, Occurrence(s, k, sched[s], now, now, now, "queued"))
  /\ admitted' = Admission(admitted, s, now)
  /\ UNCHANGED <<now, sched, route, bound, checkpoint>>

\* FireSchedule on an accepted key at the same revision answers with its receipt.
ReplayFire(s, k) ==
  /\ Usable(s) /\ sched[s].enabled
  /\ AdmitCutoverOccurrence(admitted, s, sched[s], now)
  /\ \E o \in ops : o.sched = s /\ o.key = k /\ o.revision = sched[s].revision
  /\ admitted' = Admission(admitted, s, now)
  /\ UNCHANGED <<now, sched, occ, ops, route, bound, checkpoint>>

\* What a tick has done so far: the tables it writes, and the current schedule's
\* count of processed occurrences and whether the loop was left.
Tables == [sched |-> sched, occ |-> occ, ops |-> ops, admitted |-> admitted,
           processed |-> 0, stop |-> FALSE]

Maximum(d) == IF d.missed = "catch_up" THEN d.maxCatchUp ELSE 1

MoveCursor(rows, s, previous, next) ==
  [rows EXCEPT ![s].previous = previous, ![s].next = next]

\* The next occurrence starts where this one ends.
Advance(t, s) ==
  LET c == t.sched[s]
  IN [t EXCEPT !.sched = MoveCursor(@, s, c.next, SpecNext(c.spec, c.next)),
               !.processed = @ + 1]

\* A window that reaches back one interval too far.
RecordTwoIntervals(t, s, disposition) ==
  LET c == t.sched[s]
  IN [t EXCEPT !.occ = InsertOccurrence(@, Occurrence(s, Clock, c, c.next,
                                               c.previous - c.spec.every, c.next, disposition))]

\* The row of one decided due time and its window.
Record(t, s, disposition) ==
  LET c == t.sched[s]
  IN [t EXCEPT !.occ = InsertOccurrence(@, Occurrence(s, Clock, c, c.next, c.previous, c.next, disposition))]

\* Giving up the range without a row.
SkipSilently(t, s) ==
  LET c == t.sched[s]
  IN [t EXCEPT !.sched = MoveCursor(@, s, SpecPrevious(c.spec, now), SpecNext(c.spec, now)),
               !.stop = TRUE]

\* Everything up to now is given up as one explicit range.
SkipMissed(t, s) ==
  LET c == t.sched[s]
      last == SpecPrevious(c.spec, now)
  IN [t EXCEPT !.occ = InsertOccurrence(@, Occurrence(s, Clock, c, c.next, c.previous, last,
                                               "missed_skipped")),
               !.sched = MoveCursor(@, s, last, SpecNext(c.spec, now)), !.stop = TRUE]

\* The clock's occurrence becomes an operation over the window since the previous one.
AdmitOccurrence(t, s) ==
  LET c == t.sched[s]
  IN Record([t EXCEPT !.ops = @ \cup {Operation(s, Clock, c, c.next, c.previous)}], s, "queued")

\* One pass of TickSchedules' loop over a schedule's due times.
DecideOccurrence(t, s) ==
  LET c == t.sched[s]
      u == [t EXCEPT !.admitted = Admission(@, s, c.next)]
  IN IF t.stop \/ c.next > now
     THEN t
     ELSE IF (c.spec.missed = "skip" /\ now - c.next > Grace) \/ t.processed >= Maximum(c.spec)
     THEN SkipMissed(t, s)
     ELSE IF ~AdmitCutoverOccurrence(t.admitted, s, c, c.next)
     THEN Advance(Record(t, s, "cutover_fenced"), s)
     ELSE IF ActiveSchedule(t.ops, s) /\ c.spec.overlap = "skip"
     THEN Advance(Record(u, s, "overlap_skipped"), s)
     ELSE IF QueueFull(t.ops)
     THEN [u EXCEPT !.stop = TRUE]
     ELSE Advance(AdmitOccurrence(u, s), s)

\* The loop ends after Maximum decisions and the range that follows them.
TickSchedule(t, s) ==
  LET passes == Maximum(t.sched[s].spec) + 1
      after[n \in 0..passes] ==
        IF n = 0 THEN [t EXCEPT !.processed = 0, !.stop = FALSE]
        ELSE DecideOccurrence(after[n - 1], s)
  IN after[passes]

\* The schedules of a tick in turn, on the tables the ones before have left.
TickInOrder(order, count) ==
  LET after[n \in 0..count] ==
        IF n = 0 THEN Tables ELSE TickSchedule(after[n - 1], order[n])
  IN after[count]

Due == {s \in Ids : sched[s].enabled /\ sched[s].next <= now}

\* TickSchedules takes the due schedules whose rows nobody has locked, oldest due first.
TickSchedules(L) ==
  /\ L # {} /\ L \subseteq Due
  /\ \E order \in [1..Cardinality(L) -> L] :
       /\ \A i, j \in DOMAIN order :
            i < j => order[i] # order[j] /\ sched[order[i]].next <= sched[order[j]].next
       /\ \E t \in {TickInOrder(order, Cardinality(L))} :
            /\ sched' = t.sched
            /\ occ' = t.occ
            /\ ops' = t.ops
            /\ admitted' = t.admitted
  /\ UNCHANGED <<now, route, bound, checkpoint>>

-----------------------------------------------------------------------------
(* Running the admitted operations *)

\* Claiming without the cutover condition.
ClaimableAnyRoute(o) == o \in ops

\* The cutover condition of ClaimJob's SELECT, checked against the admission row.
Claimable(o) ==
  \/ bound[o.sched] = 0
  \/ /\ OnActiveRoute(o.sched, o, o.due)
     /\ [due |-> o.due, generation |-> route.generation, sched |-> o.sched] \in admitted

ClaimJob(o) ==
  /\ o.state = "open"
  /\ \A x \in ops : x.sched = o.sched => x.state # "leased"
  /\ Claimable(o)
  /\ ops' = (ops \ {o}) \cup {[o EXCEPT !.state = "leased"]}
  /\ UNCHANGED <<now, sched, occ, route, bound, admitted, checkpoint>>

\* The attempt failed or its lease lapsed with attempts left.
Release(o) ==
  /\ o.state = "leased"
  /\ ops' = (ops \ {o}) \cup {[o EXCEPT !.state = "open"]}
  /\ UNCHANGED <<now, sched, occ, route, bound, admitted, checkpoint>>

\* Completed, cancelled, out of attempts, or expired by the retention sweep.
Close(o) ==
  /\ o.state # "closed"
  /\ ops' = (ops \ {o}) \cup {[o EXCEPT !.state = "closed"]}
  /\ UNCHANGED <<now, sched, occ, route, bound, admitted, checkpoint>>

-----------------------------------------------------------------------------
(* Routing a stream *)

\* An import batch completes: its schedule checkpoint names the paused target.
CompleteImport ==
  /\ Target \in Ids
  /\ Usable(Target) /\ ~sched[Target].enabled /\ sched[Target].definition = 1
  /\ checkpoint' = sched[Target].revision
  /\ UNCHANGED <<now, sched, occ, ops, route, bound, admitted>>

LastQueued == {r \in occ : r.sched = Prior /\ r.disposition = "queued"}

\* Enable one schedule and disable the other, bumping the revisions that change.
SwitchTo(s) ==
  [x \in Ids |->
     IF x \in Routed /\ sched[x].enabled # (x = s)
     THEN [sched[x] EXCEPT !.revision = @ + 1, !.enabled = (x = s)]
     ELSE sched[x]]

\* The manifest's boundary must match the prior route's last accepted occurrence.
Cutover(resume) ==
  /\ route.generation < MaxGeneration
  /\ route.generation > 0 => route.active = Prior
  /\ checkpoint > 0 /\ checkpoint = sched[Target].revision
  /\ Usable(Target) /\ ~sched[Target].enabled
  /\ Usable(Prior) /\ sched[Prior].enabled
  /\ \E r \in LastQueued :
       /\ \A q \in LastQueued : q.due <= r.due
       /\ r.due <= resume
  /\ sched' = SwitchTo(Target)
  /\ bound' = [s \in Ids |-> IF s \in Routed THEN sched'[s].revision ELSE bound[s]]
  /\ route' = [active |-> Target, other |-> Prior, state |-> "active",
               generation |-> route.generation + 1, resumeAfter |-> resume]
  /\ UNCHANGED <<now, occ, ops, admitted, checkpoint>>

\* The schedule triggers refuse to touch a retired row, and the rollback with it.
Rollback ==
  /\ route.state = "active"
  /\ route.generation < MaxGeneration
  /\ sched' = SwitchTo(route.other)
  /\ \A s \in Ids : sched[s].retired => sched'[s] = sched[s]
  /\ bound' = [s \in Ids |-> IF s \in Routed THEN sched'[s].revision ELSE bound[s]]
  /\ route' = [route EXCEPT !.active = route.other, !.other = route.active,
                            !.state = "rolled_back", !.generation = @ + 1]
  /\ UNCHANGED <<now, occ, ops, admitted, checkpoint>>

Tick ==
  /\ now < MaxTime
  /\ now' = now + 1
  /\ UNCHANGED <<sched, occ, ops, route, bound, admitted, checkpoint>>

Next ==
  \/ Tick
  \/ \E s \in Ids :
       \/ CreateSchedule(s)
       \/ SetSchedule(s)
       \/ \E d \in Definitions : ReplaceSchedule(s, d)
       \/ RetireSchedule(s)
       \/ \E k \in Keys : FireSchedule(s, k) \/ ReplayFire(s, k)
  \/ \E L \in SUBSET Ids : TickSchedules(L)
  \/ \E o \in ops : ClaimJob(o) \/ Release(o) \/ Close(o)
  \/ CompleteImport
  \/ \E t \in 0..MaxTime : Cutover(t)
  \/ Rollback

Spec == Init /\ [][Next]_vars

-----------------------------------------------------------------------------
(* Properties *)

Revisions == 0..(MaxRevision + MaxGeneration)
ScheduleType ==
  [revision : Revisions, enabled : BOOLEAN, retired : BOOLEAN, spec : Definitions,
   previous : Int, next : Int, definition : Revisions]
Dispositions == {"queued", "overlap_skipped", "missed_skipped", "cutover_fenced"}
OccurrenceType ==
  [sched : Ids, key : Keys \cup {Clock}, due : Int, start : Int, through : Int,
   disposition : Dispositions, definition : Revisions]
OperationType ==
  [sched : Ids, key : Keys \cup {Clock}, due : Int, start : Int, revision : Revisions,
   definition : Revisions, generation : 0..MaxGeneration,
   state : {"open", "leased", "closed"}]

\* Every table row has its columns' types; a retired schedule is disabled and a cursor
\* runs forward (the CHECK constraints of job_schedules).
TypeOK ==
  /\ now \in 0..MaxTime
  /\ sched \in [Ids -> ScheduleType]
  /\ occ \subseteq OccurrenceType
  /\ ops \subseteq OperationType
  /\ bound \in [Ids -> Revisions]
  /\ \A s \in Ids : sched[s].retired => ~sched[s].enabled
  /\ \A s \in Ids : Exists(s) => sched[s].previous < sched[s].next

ClockOps == {o \in ops : o.key = Clock}
ClockRows == {r \in occ : r.key = Clock}

\* The cursor is ahead of every occurrence the clock has decided, through ticks that
\* stop half way, pauses, redefinitions and rollbacks: no occurrence is decided twice.
CursorAhead ==
  /\ \A o \in ClockOps : o.due < sched[o.sched].next
  /\ \A r \in ClockRows : r.through < sched[r.sched].next
  /\ \A o, p \in ClockOps : o.sched = p.sched /\ o.due = p.due => o = p

\* A cursor always spans two neighbouring occurrences of its own definition, whenever it
\* was created, caught up, skipped ahead or redefined: an interval never drifts.
CursorOnGrid ==
  \A s \in Ids :
    Exists(s) =>
      Occurrences(sched[s].spec, sched[s].previous + 1, sched[s].next) = {sched[s].next}

\* Within one definition the windows of the clock's decisions never overlap: however
\* ticks, skips and pauses fall, no interval of data is processed twice.
WindowsDisjoint ==
  \A r, q \in ClockRows :
    r.sched = q.sched /\ r.definition = q.definition /\ r # q
      => r.through <= q.start \/ q.through <= r.start

\* The operation's occurrence row was not lost to another one of the same instant.
HasRow(o) ==
  [sched |-> o.sched, key |-> o.key, due |-> o.due] \in
    {[sched |-> r.sched, key |-> r.key, due |-> r.due] : r \in occ}

\* An operation of a routed stream is the only one of its due time, across both routes,
\* cutovers and rollbacks, and the prior schedule's own recorded work.
StreamOnce ==
  \A o, p \in ops :
    o # p /\ o.generation > 0 /\ o.due = p.due /\ {o.sched, p.sched} \subseteq Routed
      => p.generation = 0 /\ (p.sched = Prior => ~HasRow(p))

Covered(s, d) == \E r \in occ : r.sched = s /\ r.due <= d /\ d <= r.through

\* Occurrences a step moves the cursor of s over.
PassedOver(s) ==
  {d \in Occurrences(sched[s].spec, sched[s].next, now) : sched'[s].next > d}

\* Unless a schedule is redefined, its cursor passes a due time only when a row accounts
\* for it; the one exception is a range whose first row a manual run already holds.
CursorLeavesARecord ==
  [][\A s \in Ids :
       Exists(s) /\ sched'[s].definition = sched[s].definition =>
         \A d \in PassedOver(s) :
           \/ Covered(s, d)'
           \/ \E r \in occ : r.sched = s /\ r.key # Clock /\ r.due \in PassedOver(s) /\ r.due < d]_vars

\* A cursor passes no due time without a row, whatever moves it: "changes only future
\* scheduling" (ReplaceSchedule).
EveryDueIsRecorded ==
  [][\A s \in Ids : Exists(s) => \A d \in PassedOver(s) : Covered(s, d)']_vars

\* Work admitted under one routing of a stream never starts under a later one.
StaleRouteNeverStarts ==
  [][\A o \in ops :
       o.state = "open" /\ [o EXCEPT !.state = "leased"] \in ops' \ ops /\ bound[o.sched] > 0
         => o.generation = route.generation]_vars

\* An occurrence is fenced by the cutover only when its route, revision or boundary
\* rules it out or another operation has its due time.
FencedHasAReason ==
  \A r \in occ :
    r.disposition = "cutover_fenced"
      /\ (\E a \in admitted : a.due = r.due /\ a.sched = r.sched)
        => \E o \in ops : o.sched = r.sched /\ o.due = r.due

-----------------------------------------------------------------------------
(* Liveness *)

\* The scheduler loop keeps ticking, reaching each schedule whose row is not locked for
\* ever; workers and the retention sweep keep closing operations.
FairSpec ==
  /\ Spec
  /\ \A s \in Ids : WF_vars(\E L \in SUBSET Ids : s \in L /\ TickSchedules(L))
  /\ WF_vars(\E o \in ops : Close(o))

\* Every due occurrence of an enabled schedule is decided, even when ticks meet a full
\* queue, unless the schedule is paused, retired or redefined first.
DueIsDecided ==
  \A s \in Ids : (s \in Due) ~> (s \notin Due)

=============================================================================
