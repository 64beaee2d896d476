--------------------------- MODULE FrozenArtifacts ---------------------------
(***************************************************************************)
(* The retained artifacts of frozen runs that share one reuse key: sealing *)
(* under the tenant's quota, the normalized result, outputs and narratives *)
(* with their reserved model calls, completion, copies of an earlier       *)
(* artifact, expiry, and for scheduled runs the occurrence's budget and    *)
(* delivery receipt.                                                       *)
(*                                                                         *)
(* A process (continueFrozen) works on what it read when it started and    *)
(* may lose its operation fence at any moment.  The operation ledger is    *)
(* reduced to status, fence and lease (see Dispatch), the election of the  *)
(* run that queries to a free choice (see ReuseCustody), and the read      *)
(* executor to numbered attempts that settle (see ReadAttempts).           *)
(***************************************************************************)
EXTENDS Integers, Sequences, FiniteSets, Functions

CONSTANTS
  Runs,             \* frozen runs of one tenant and one reuse key
  Schedulable,      \* those that may be occurrences of a schedule
  Reusing,          \* those whose request allows a copy (ReuseMaxAge)
  Actors,           \* processes that execute runs
  Outputs,          \* the selected outputs, in order
  Narratives,       \* those of them that a model writes
  NoRun,            \* not a run
  ResultBytes,      \* sizes a result may have
  MaxArtifactBytes, MaxTenantBytes, MaxRequests,
  NarrativeCalls,   \* model calls a run may reserve
  MaxCalls,         \* model calls one narrative may make
  QueryAttempts,    \* numbered queries of each run
  QueryLimit, CallLimit,  \* an occurrence's budget
  Retention,        \* how long an artifact is kept
  ReuseAge,         \* how old an observation may be copied
  MaxClaims,        \* bound on the claims of each run
  MaxTime           \* bound on the clock

VARIABLES
  now,
  scheduled,    \* the runs that are occurrences, fixed from the start
  op,           \* operations: status, fence, live lease, creation time
  art,          \* frozen_runs with its payload and outputs
  read,         \* the run's latest journalled read attempt
  delivery,     \* reporting_occurrence_delivery
  proc,         \* what a process knows
  queried,      \* history: queries sent to the source
  called        \* history: requests sent to the model, per output

vars == <<now, scheduled, op, art, read, delivery, proc, queried, called>>

OutputSet == {Outputs[i] : i \in 1 .. Len(Outputs)}
ManifestBytes == 1

\* Limits and sizes are numbers; a manifest larger than an artifact may be is refused
\* before it is sealed, and a result is never empty.
ASSUME ArtifactAssumption ==
  /\ IsFiniteSet(Runs) /\ Schedulable \subseteq Runs /\ NoRun \notin Runs
  /\ Outputs \in Seq(OutputSet) /\ Narratives \subseteq OutputSet
  /\ ResultBytes \subseteq Nat \ {0}
  /\ MaxArtifactBytes \in Nat /\ MaxTenantBytes \in Nat /\ ManifestBytes <= MaxArtifactBytes
  /\ MaxCalls \in Nat /\ QueryLimit \in Nat /\ CallLimit \in Nat
  /\ QueryAttempts \in [Runs -> Nat]
  /\ Retention \in Nat /\ MaxTime \in Nat \ {0}

Final == {"succeeded", "failed"}
OutputStates == {"absent", "indeterminate"} \cup Final
Terminal == {"succeeded", "partial", "failed"}
Steps == {"idle", "claimed", "reading", "reuse", "query", "reserved", "asked",
          "outputs", "model", "granted"}

NoOutputs == [o \in OutputSet |-> "absent"]
NoArtifact == [state |-> "absent", result |-> 0, outs |-> NoOutputs, retained |-> 0,
               reserved |-> 0, calls |-> 0, observed |-> 0, expires |-> 0, from |-> NoRun]
NoDelivery == [queries |-> 0, calls |-> 0, query |-> "pending", artifact |-> "pending",
               catalog |-> "pending"]
Idle == [run |-> NoRun, fence |-> 0, step |-> "idle", known |-> NoOutputs, number |-> 0,
         used |-> 0]

Init ==
  /\ now = 1
  /\ scheduled \in SUBSET Schedulable
  /\ op = [r \in Runs |-> [status |-> "none", fence |-> 0, live |-> FALSE, created |-> 0]]
  /\ art = [r \in Runs |-> NoArtifact]
  /\ read = [r \in Runs |-> [number |-> 0, state |-> "none", at |-> 0]]
  /\ delivery = [r \in Runs |-> NoDelivery]
  /\ proc = [a \in Actors |-> Idle]
  /\ queried = [r \in Runs |-> 0]
  /\ called = [r \in Runs |-> [o \in Narratives |-> 0]]

-----------------------------------------------------------------------------
(* Bytes *)

OutputBytes(s) == CASE s = "absent" -> 0 [] s = "succeeded" -> 2 [] OTHER -> 1
AllOutputBytes(outs) == SumFunction([o \in OutputSet |-> OutputBytes(outs[o])])

Greatest(x, y) == IF x >= y THEN x ELSE y
Least(x, y) == IF x <= y THEN x ELSE y

\* What a run counts for in the tenant's quota: at least what it may still grow to.
Charge(r) == Greatest(art[r].retained, art[r].reserved)
Charged == SumFunction([r \in Runs |-> Charge(r)])

\* A quota that looks at the bytes already written.
QuotaOfRetained ==
  SumFunction([r \in Runs |-> art[r].retained]) <= MaxTenantBytes - MaxArtifactBytes

\* Tombstones count as requests and not as bytes.
Quota ==
  /\ Cardinality({r \in Runs : art[r].state # "absent"}) < MaxRequests
  /\ Charged <= MaxTenantBytes - MaxArtifactBytes

\* A limit on each write instead of their sum.
FitsAlone(r, delta) == delta <= MaxArtifactBytes

Fits(r, delta) == art[r].retained + delta <= MaxArtifactBytes

-----------------------------------------------------------------------------
(* Fences *)

Held(a) ==
  LET r == proc[a].run IN
  r # NoRun /\ op[r].status = "running" /\ op[r].live /\ op[r].fence = proc[a].fence

Unexpired(r) == now < art[r].expires /\ art[r].state # "expired"

\* The common guard of CheckpointFrozenRun.
Checkpointable(a) ==
  /\ Held(a)
  /\ Unexpired(proc[a].run)
  /\ art[proc[a].run].state \in {"sealed", "normalized"}

Goto(a, step) == proc' = [proc EXCEPT ![a].step = step]
Leave(a) == proc' = [proc EXCEPT ![a] = Idle]

NoIO == UNCHANGED <<now, scheduled, read, queried, called>>

-----------------------------------------------------------------------------
(* Admission, sealing and claims *)

Admit(r) ==
  /\ op[r].status = "none"
  /\ op' = [op EXCEPT ![r].status = "pending", ![r].created = now]
  /\ UNCHANGED <<art, delivery, proc>>
  /\ NoIO

\* The whole artifact is reserved before any of it exists.
SealedRow(r) ==
  [NoArtifact EXCEPT !.state = "sealed", !.retained = ManifestBytes,
                     !.reserved = MaxArtifactBytes, !.expires = op[r].created + Retention]

\* A request is sealed by its admission, while nobody executes it.
SealFrozenRun(r) ==
  /\ r \notin scheduled
  /\ op[r].status = "pending"
  /\ art[r].state = "absent"
  /\ Quota
  /\ art' = [art EXCEPT ![r] = SealedRow(r)]
  /\ UNCHANGED <<op, delivery, proc>>
  /\ NoIO

\* An occurrence is sealed by the process that holds it; a retry finds the first seal.
SealScheduledFrozenRun(a) ==
  LET r == proc[a].run IN
  /\ proc[a].step = "claimed"
  /\ Held(a)
  /\ \/ art[r].state # "absent" /\ art' = art
     \/ art[r].state = "absent" /\ Quota /\ art' = [art EXCEPT ![r] = SealedRow(r)]
  /\ Goto(a, "reading")
  /\ UNCHANGED <<op, delivery>>
  /\ NoIO

\* The ledger hands out an operation that nobody holds; a request is only run when its
\* artifact is sealed and open.
Claim(a, r) ==
  /\ proc[a].step = "idle"
  /\ op[r].status = "pending" \/ (op[r].status = "running" /\ ~op[r].live)
  /\ op[r].fence < MaxClaims[r]
  /\ r \notin scheduled => art[r].state \in {"sealed", "normalized"} /\ Unexpired(r)
  /\ op' = [op EXCEPT ![r].status = "running", ![r].fence = @ + 1, ![r].live = TRUE]
  /\ proc' = [proc EXCEPT ![a] = [Idle EXCEPT !.run = r, !.fence = op[r].fence + 1,
                 !.step = IF r \in scheduled THEN "claimed" ELSE "reading"]]
  /\ UNCHANGED <<art, delivery>>
  /\ NoIO

\* The process reads the artifact and decides what is left to do.
Continue(a) ==
  LET r == proc[a].run IN
  /\ proc[a].step = "reading"
  /\ Unexpired(r)
  /\ proc' = [proc EXCEPT ![a].known = art[r].outs,
                ![a].step = IF art[r].result # 0 THEN "outputs"
                            ELSE IF r \in Reusing /\ read[r].number = 0 THEN "reuse"
                            ELSE "query"]
  /\ UNCHANGED <<op, art, delivery>>
  /\ NoIO

-----------------------------------------------------------------------------
(* The delivery row and completion *)

\* Completion finishes the operation and, for an occurrence, publishes its receipt.
JobState(r, outcome) ==
  IF r \in scheduled /\ outcome = "failed" THEN "blocked" ELSE "succeeded"

\* A completion that announces whatever was delivered.
PublishedAnyway(d, outcome) ==
  [d EXCEPT !.query = "succeeded", !.artifact = "retained", !.catalog = "available"]

Published(d, outcome) ==
  [d EXCEPT !.query = "succeeded", !.artifact = "retained",
            !.catalog = IF outcome = "failed" THEN "unavailable" ELSE "available"]

CompleteRequest(r, outcome) ==
  /\ op' = [op EXCEPT ![r].status = JobState(r, outcome), ![r].live = FALSE]
  /\ IF r \in scheduled
     THEN /\ delivery[r].catalog = "pending"
          /\ delivery' = [delivery EXCEPT ![r] = Published(@, outcome)]
     ELSE UNCHANGED delivery

\* Checked and charged in one transaction under the root's fence; never refunded.
\* A request has no delivery row and no such budget.
ReserveReportingUsage(a, queries, calls) ==
  LET r == proc[a].run IN
  IF r \notin scheduled THEN UNCHANGED delivery
  ELSE /\ Held(a)
       /\ delivery[r].catalog = "pending"
       /\ delivery[r].queries + queries <= QueryLimit
       /\ delivery[r].calls + calls <= CallLimit
       /\ delivery' = [delivery EXCEPT ![r].queries = @ + queries, ![r].calls = @ + calls]

-----------------------------------------------------------------------------
(* Copying an earlier artifact *)

Candidates(r) ==
  {c \in Runs \ {r} : art[c].state = "succeeded" /\ Unexpired(c)
                       /\ art[c].observed + ReuseAge >= now}

\* A copy that is kept as long as a fresh artifact.
CopyForLonger(r, c) ==
  [art[r] EXCEPT !.state = "succeeded", !.result = art[c].result, !.outs = art[c].outs,
     !.retained = @ + art[c].result + AllOutputBytes(art[c].outs), !.reserved = 0,
     !.observed = art[c].observed, !.from = c]

\* The copy keeps the observation of its origin and lives no longer than it.
Copy(r, c) ==
  [art[r] EXCEPT !.state = "succeeded", !.result = art[c].result, !.outs = art[c].outs,
     !.retained = @ + art[c].result + AllOutputBytes(art[c].outs), !.reserved = 0,
     !.observed = art[c].observed, !.from = c, !.expires = Least(@, art[c].expires)]

\* The most recent observation is copied and the run completed, all in one transaction.
ReuseFrozenRun(a) ==
  LET r == proc[a].run IN
  /\ proc[a].step = "reuse"
  /\ Held(a) /\ Unexpired(r)
  /\ art[r].state = "sealed"
  /\ \E c \in Candidates(r) :
       /\ \A d \in Candidates(r) : art[d].observed <= art[c].observed
       /\ Fits(r, art[c].result + AllOutputBytes(art[c].outs))
       /\ art' = [art EXCEPT ![r] = Copy(r, c)]
  /\ CompleteRequest(r, "succeeded")
  /\ Leave(a)
  /\ NoIO

\* Nothing to copy, and the election is won.
ClaimFrozenReuse(a) ==
  /\ proc[a].step = "reuse"
  /\ Held(a) /\ Unexpired(proc[a].run)
  /\ Candidates(proc[a].run) = {}
  /\ Goto(a, "query")
  /\ UNCHANGED <<op, art, delivery>>
  /\ NoIO

-----------------------------------------------------------------------------
(* The query *)

\* The number follows the last settled attempt; a run whose attempt is open, or
\* succeeded without its values being saved, is not queried again.
NextFrozenQueryNumber(r) == read[r].number + 1

ReserveFrozenQuery(a) ==
  LET r == proc[a].run IN
  /\ proc[a].step = "query"
  /\ read[r].state \in {"none", "retryable"}
  /\ NextFrozenQueryNumber(r) <= QueryAttempts[r]
  /\ Held(a)
  /\ ReserveReportingUsage(a, 1, 0)
  /\ proc' = [proc EXCEPT ![a].step = "reserved", ![a].number = NextFrozenQueryNumber(r)]
  /\ UNCHANGED <<op, art>>
  /\ NoIO

\* The journal takes the number once, whoever holds the run by now.
Execute(a) ==
  LET r == proc[a].run IN
  /\ proc[a].step = "reserved"
  /\ read[r].number = proc[a].number - 1 /\ read[r].state \in {"none", "retryable"}
  /\ read' = [read EXCEPT ![r] = [number |-> proc[a].number, state |-> "open", at |-> 0]]
  /\ queried' = [queried EXCEPT ![r] = @ + 1]
  /\ Goto(a, "asked")
  /\ UNCHANGED <<op, art, delivery, called, now, scheduled>>

\* The attempt is settled, by its process or by reconciliation.
SettleRead(r, s) ==
  /\ read[r].state = "open"
  /\ read' = [read EXCEPT ![r].state = s, ![r].at = now]
  /\ UNCHANGED <<op, art, delivery, proc, queried, called, now, scheduled>>

\* The process that asked saves what it was given.
FrozenResult(a, size) ==
  LET r == proc[a].run IN
  /\ proc[a].step = "asked"
  /\ read[r].number = proc[a].number /\ read[r].state = "succeeded"
  /\ Checkpointable(a)
  /\ art[r].result = 0
  /\ Fits(r, size)
  /\ art' = [art EXCEPT ![r].result = size, ![r].retained = @ + size,
               ![r].state = "normalized", ![r].observed = read[r].at]
  /\ proc' = [proc EXCEPT ![a].step = "outputs", ![a].known = art[r].outs]
  /\ UNCHANGED <<op, delivery>>
  /\ NoIO

-----------------------------------------------------------------------------
(* Outputs and narratives *)

\* The outputs in order; the first that is not final is next.
IsNext(a, i) ==
  /\ proc[a].known[Outputs[i]] \notin Final
  /\ \A j \in 1 .. i - 1 : proc[a].known[Outputs[j]] \in Final

\* An update charged by the full size of the new bytes.
RetainAgain(row, o, s) ==
  [row EXCEPT !.outs[o] = s, !.retained = @ + OutputBytes(s)]

\* Stores output o, charging the difference to the bytes it replaces.
Retain(row, o, s) ==
  [row EXCEPT !.outs[o] = s, !.retained = @ + OutputBytes(s) - OutputBytes(row.outs[o])]

FrozenOutput(a, o, s) ==
  LET r == proc[a].run IN
  /\ Checkpointable(a)
  /\ art[r].state = "normalized"
  /\ Fits(r, OutputBytes(s) - OutputBytes(art[r].outs[o]))
  /\ art' = [art EXCEPT ![r] = Retain(art[r], o, s)]
  /\ proc' = [proc EXCEPT ![a].step = "outputs", ![a].known[o] = s, ![a].used = 0]

\* A chart succeeds or fails; a narrative without evidence, model or policy fails
\* before the model is asked.
MakeOutput(a, i, s) ==
  LET o == Outputs[i] IN
  /\ proc[a].step = "outputs" /\ IsNext(a, i)
  /\ proc[a].known[o] = "absent"
  /\ o \in Narratives => s = "failed"
  /\ art[proc[a].run].outs[o] = "absent"
  /\ FrozenOutput(a, o, s)
  /\ UNCHANGED <<op, delivery>>
  /\ NoIO

\* A start that reserves its calls and leaves no trace of the output.
StartUntraced(row, o) == [row EXCEPT !.calls = @ + MaxCalls]

\* The reservation and the indeterminate output are saved before the model is asked.
Started(row, o) == [Retain(row, o, "indeterminate") EXCEPT !.calls = @ + MaxCalls]

StartNarrative(a, i) ==
  LET r == proc[a].run
      o == Outputs[i]
  IN /\ proc[a].step = "outputs" /\ IsNext(a, i)
     /\ o \in Narratives
     /\ proc[a].known[o] = "absent"
     /\ Checkpointable(a)
     /\ art[r].state = "normalized" /\ art[r].outs[o] = "absent"
     /\ art[r].calls + MaxCalls <= NarrativeCalls
     /\ Fits(r, OutputBytes("indeterminate"))
     /\ art' = [art EXCEPT ![r] = Started(art[r], o)]
     /\ Goto(a, "model")
     /\ UNCHANGED <<op, delivery>>
     /\ NoIO

\* A gateway that reserves once and lets the SDK retry.
ReserveFirst(a) ==
  /\ proc[a].used < MaxCalls
  /\ ReserveReportingUsage(a, 0, IF proc[a].used = 0 THEN 1 ELSE 0)

\* Every attempt of the SDK reserves again: the call's own budget, then the durable one.
ReserveAttempt(a) ==
  /\ proc[a].used < MaxCalls
  /\ ReserveReportingUsage(a, 0, 1)

Reserve(a) ==
  /\ proc[a].step = "model"
  /\ ReserveAttempt(a)
  /\ proc' = [proc EXCEPT ![a].step = "granted", ![a].used = @ + 1]
  /\ UNCHANGED <<op, art>>
  /\ NoIO

Generate(a, i) ==
  LET r == proc[a].run IN
  /\ proc[a].step = "granted" /\ IsNext(a, i)
  /\ called' = [called EXCEPT ![r][Outputs[i]] = @ + 1]
  /\ Goto(a, "model")
  /\ UNCHANGED <<op, art, delivery, read, queried, now, scheduled>>

\* Success needs an answer; failure needs nothing.
FinishNarrative(a, i, s) ==
  LET o == Outputs[i] IN
  /\ proc[a].step = "model" /\ IsNext(a, i)
  /\ s = "succeeded" => proc[a].used > 0
  /\ art[proc[a].run].outs[o] = "indeterminate"
  /\ FrozenOutput(a, o, s)
  /\ UNCHANGED <<op, delivery>>
  /\ NoIO

\* What an earlier process left indeterminate is failed, never generated again.
CloseIndeterminate(a, i) ==
  LET o == Outputs[i] IN
  /\ proc[a].step = "outputs" /\ IsNext(a, i)
  /\ proc[a].known[o] = "indeterminate"
  /\ art[proc[a].run].outs[o] = "indeterminate"
  /\ FrozenOutput(a, o, "failed")
  /\ UNCHANGED <<op, delivery>>
  /\ NoIO

\* The outcome is derived from all outputs, whatever the caller believes; what a failed
\* output means is the policy of the manifest, which a run consults once.
FrozenOutcomes(outs) ==
  IF \A o \in OutputSet : outs[o] = "succeeded" THEN {"succeeded"} ELSE {"partial", "failed"}

Complete(a) ==
  LET r == proc[a].run IN
  /\ proc[a].step = "outputs"
  /\ \A o \in OutputSet : proc[a].known[o] \in Final
  /\ Checkpointable(a)
  /\ art[r].result # 0
  /\ \A o \in OutputSet : art[r].outs[o] \in Final
  /\ \E outcome \in FrozenOutcomes(art[r].outs) :
       /\ art' = [art EXCEPT ![r].state = outcome, ![r].reserved = 0]
       /\ CompleteRequest(r, outcome)
  /\ Leave(a)
  /\ NoIO

-----------------------------------------------------------------------------
(* Failures, cancellation, time *)

\* An error ends the attempt: another may follow, or the run has failed.
GiveUp(a, s) ==
  /\ Held(a)
  /\ op' = [op EXCEPT ![proc[a].run].status = s, ![proc[a].run].live = FALSE]
  /\ Leave(a)
  /\ UNCHANGED <<art, delivery>>
  /\ NoIO

\* The process dies, or finds that it has lost the run.
Crash(a) ==
  /\ proc[a].step # "idle"
  /\ Leave(a)
  /\ UNCHANGED <<op, art, delivery>>
  /\ NoIO

Lapse(r) ==
  /\ op[r].status = "running" /\ op[r].live
  /\ op' = [op EXCEPT ![r].live = FALSE]
  /\ UNCHANGED <<art, delivery, proc>>
  /\ NoIO

CancelFrozenRun(r) ==
  /\ op[r].status \in {"pending", "running"}
  /\ op' = [op EXCEPT ![r].status = "cancelled", ![r].live = FALSE]
  /\ UNCHANGED <<art, delivery, proc>>
  /\ NoIO

\* Only values go: identity, expiry and reservations stay as a tombstone.
Tombstone(row) ==
  [row EXCEPT !.state = "expired", !.result = 0, !.outs = NoOutputs, !.retained = 0,
              !.reserved = 0]

\* A bounded sweep, so any of the due rows.
ExpireFrozenArtifacts(S) ==
  /\ S # {}
  /\ \A r \in S : art[r].state \notin {"absent", "expired"} /\ art[r].expires <= now
  /\ art' = [r \in Runs |-> IF r \in S THEN Tombstone(art[r]) ELSE art[r]]
  /\ UNCHANGED <<op, delivery, proc>>
  /\ NoIO

Tick ==
  /\ now < MaxTime
  /\ now' = now + 1
  /\ UNCHANGED <<scheduled, op, art, read, delivery, proc, queried, called>>

Next ==
  \/ Tick
  \/ \E r \in Runs :
       \/ Admit(r) \/ SealFrozenRun(r) \/ Lapse(r) \/ CancelFrozenRun(r)
       \/ \E s \in {"succeeded", "retryable"} : SettleRead(r, s)
       \/ \E a \in Actors : Claim(a, r)
  \/ \E a \in Actors :
       \/ SealScheduledFrozenRun(a) \/ Continue(a) \/ ReuseFrozenRun(a) \/ ClaimFrozenReuse(a)
       \/ ReserveFrozenQuery(a) \/ Execute(a) \/ Reserve(a) \/ Complete(a) \/ Crash(a)
       \/ \E size \in ResultBytes : FrozenResult(a, size)
       \/ \E i \in 1 .. Len(Outputs) :
            \/ \E s \in Final : MakeOutput(a, i, s) \/ FinishNarrative(a, i, s)
            \/ StartNarrative(a, i) \/ Generate(a, i) \/ CloseIndeterminate(a, i)
       \/ \E s \in {"pending", "failed"} : GiveUp(a, s)
  \/ \E S \in SUBSET Runs : ExpireFrozenArtifacts(S)

ArtifactSpec == Init /\ [][Next]_vars

-----------------------------------------------------------------------------
(* What a caller is told about an occurrence *)

\* The row as it was published, corrected by what is retained now.
ReportingReceipt(r) ==
  LET a == art[r]
      retained == a.state \in {"succeeded", "partial"}
      gone == a.state = "expired" \/ a.expires <= now
  IN IF a.state = "absent"
     THEN IF op[r].status \in {"blocked", "failed", "cancelled"}
          THEN [delivery[r] EXCEPT !.query = op[r].status, !.catalog = "unavailable"]
          ELSE delivery[r]
     ELSE [delivery[r] EXCEPT
             !.query = IF a.state = "partial" THEN "partial"
                       ELSE IF retained \/ a.state = "normalized" THEN "succeeded" ELSE @,
             !.artifact = IF gone THEN "expired" ELSE IF retained THEN "retained" ELSE @,
             !.catalog = IF gone THEN "expired" ELSE @]

Readable(r) == art[r].result # 0 /\ Unexpired(r) /\ art[r].state \in Terminal

-----------------------------------------------------------------------------
(* Properties *)

\* Every variable has its type, and no artifact or occurrence exceeds its limits.
ArtifactTypeOK ==
  /\ now \in 1 .. MaxTime
  /\ op \in [Runs -> [status : {"none", "pending", "running", "succeeded", "blocked", "failed",
                                "cancelled"},
                      fence : Nat, live : BOOLEAN, created : 0 .. MaxTime]]
  /\ \A r \in Runs :
       /\ art[r].state \in {"absent", "sealed", "normalized", "expired"} \cup Terminal
       /\ art[r].outs \in [OutputSet -> OutputStates]
       /\ art[r].retained \in 0 .. MaxArtifactBytes
       /\ art[r].from \in Runs \cup {NoRun}
       /\ read[r] \in [number : 0 .. QueryAttempts[r], at : 0 .. MaxTime,
                       state : {"none", "open", "retryable", "succeeded"}]
  /\ \A a \in Actors : proc[a].step \in Steps /\ proc[a].used \in 0 .. MaxCalls

ModelCalls(r) == SumFunction(called[r])

\* Whatever crashes and whoever takes the run over, the model is asked for one narrative
\* of one run at most as often as one start reserved (makeOutput, continueFrozen).
NarrativeAskedOnce == \A r \in Runs, o \in Narratives : called[r][o] <= MaxCalls

\* An occurrence never asks the source or the model more often than it reserved, and never
\* reserves past its budget, over all attempts, crashes and stale processes
\* (ReserveReportingUsage, ReserveAttempt).
BudgetHolds ==
  \A r \in scheduled :
    /\ queried[r] <= delivery[r].queries /\ delivery[r].queries <= QueryLimit
    /\ ModelCalls(r) <= delivery[r].calls /\ delivery[r].calls <= CallLimit

\* The byte count of a row is what its payload holds, through replaced outputs, copies and
\* erasure (frozenBytesTx, ReuseFrozenRun, expireFrozenRunTx).
BytesAccounted ==
  \A r \in Runs :
    art[r].retained = IF art[r].state \in {"absent", "expired"} THEN 0
                      ELSE ManifestBytes + art[r].result + AllOutputBytes(art[r].outs)

\* What open runs may still write never exceeds the tenant's quota, so a run that was
\* sealed is not starved of space by another (sealFrozenRun).
TenantQuota == Charged <= MaxTenantBytes

\* A copy has the observation time of its origin and is not kept longer than it, through
\* chains of copies (ReuseFrozenRun).
CopiesKeepOrigin ==
  \A r \in Runs :
    art[r].from # NoRun =>
      /\ art[r].observed = art[art[r].from].observed
      /\ art[r].expires <= art[art[r].from].expires

\* A receipt that says retained or available is about values a reader gets now, and
\* availability is announced exactly for occurrences that succeeded
\* (reportingReceiptTx, completeReportingRequestTx).
ReceiptIsTruthful ==
  \A r \in scheduled :
    LET receipt == ReportingReceipt(r) IN
    /\ receipt.artifact = "retained" => Readable(r)
    /\ receipt.catalog = "available" => op[r].status = "succeeded" /\ Readable(r)
    /\ op[r].status = "succeeded" /\ Readable(r) => receipt.catalog = "available"

=============================================================================
