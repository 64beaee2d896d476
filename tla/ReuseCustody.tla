---------------------------- MODULE ReuseCustody ----------------------------
(***************************************************************************)
(* Frozen runs that share one reuse key, and the custody row that elects   *)
(* which of them may query the source.  An invocation of a run             *)
(* (reporting.continueFrozen) holds an operation fence it may lose at any  *)
(* time; it looks for a finished artifact to copy, claims custody,         *)
(* reserves a numbered query, reads through an executor that keeps the     *)
(* promise of SourceAttempt, and checkpoints receipt, result and           *)
(* completion under its fence.                                             *)
(*                                                                         *)
(* The operation ledger is reduced to what is used of it: a fence that     *)
(* grows with every claim, and whether its lease is live.                  *)
(***************************************************************************)
EXTENDS SourceAttempt

CONSTANTS
  Actors,       \* processes that execute runs
  NoOp,         \* not a run
  MaxFence      \* bound on the claims of a run

ASSUME CustodyAssumption ==
  NoOp \notin Ops /\ MaxReads \in Nat /\ MaxFence \in Nat

VARIABLES
  sharing,      \* runs whose sealed manifest allows reuse (frozenReuseEligible)
  run,          \* frozen_runs.state
  aged,         \* the artifact is older than any reuse age
  copies,       \* frozen_run_attempts: receipts that outlive the journal
  fence,        \* operations.fence
  live,         \* running with a lease that has not run out
  custody,      \* the frozen_reuse_owners row of the key
  inv,          \* the invocation an actor executes
  unpublished   \* history: runs with a successful receipt and no finished artifact

vars == <<attempt, sharing, run, aged, copies, fence, live, custody, inv, unpublished>>

Fences == 0 .. MaxFence
Settlements == {"none", "unresolved", "retryable", "successful", "retained"}
States == {"sealed", "normalized", "succeeded", "partial", "failed", "expired"}
Steps == {"lookup", "elect", "own", "numbered", "reserved", "reading", "receipt", "values",
          "outputs"}

\* What a receipt says: an attempt nobody sealed, or sealed as uncertain, is open.
Receipts == {"absent", "open"} \cup Verdicts
Receipt(p) == IF p \in {"ready", "running", "over"} THEN "open" ELSE p

NoCustody == [owner |-> NoOp, ownerFence |-> 0, number |-> 0, fence |-> 0,
              settlement |-> "none", completed |-> FALSE]
Idle == [op |-> NoOp, fence |-> 0, step |-> "idle", number |-> 0, report |-> "absent"]

Init ==
  /\ AttemptInit
  /\ sharing \in SUBSET Ops
  /\ run = [o \in Ops |-> "sealed"]
  /\ aged = [o \in Ops |-> FALSE]
  /\ copies = [o \in Ops |-> [n \in Numbers |-> "absent"]]
  /\ fence \in [Ops -> Fences]      \* earlier claims lapsed before any work
  /\ live = [o \in Ops |-> FALSE]
  /\ custody = NoCustody
  /\ inv = [a \in Actors |-> Idle]
  /\ unpublished = {}

Holds(a) == live[inv[a].op] /\ fence[inv[a].op] = inv[a].fence

\* a fence taken as proof that there is still something to execute
CurrentByFence(a) == Holds(a)

\* frozenReuseRunTx: the fence is current, and the run neither expired nor has values.
Current(a) == Holds(a) /\ run[inv[a].op] = "sealed"

Goto(a, step) == inv' = [inv EXCEPT ![a].step = step]
Leave(a) == inv' = [inv EXCEPT ![a] = Idle]

-----------------------------------------------------------------------------
(* Receipts and their settlement *)

\* frozenAttemptsTx: the journal wins over the retained copy.
Merged(o, n) == IF attempt[o][n] # "absent" THEN Receipt(attempt[o][n]) ELSE copies[o][n]

Attempted(o) == \E n \in Numbers : Merged(o, n) # "absent"

\* a settlement that stores the receipt's own word
SettlementAsStatus(r) == r

\* a settlement that takes silence for failure
SettlementByDefault(r) == IF r = "succeeded" THEN "successful" ELSE "retryable"

\* frozenReuseAttemptSettlement: missing and open receipts settle nothing.
Settlement(r) ==
  CASE r = "succeeded" -> "successful"
    [] r = "retryable" -> "retryable"
    [] OTHER -> "unresolved"

\* frozenReuseSettleTx: only the exact owner's numbered receipt settles a reservation.
Settle(c) ==
  IF c.number > 0 /\ c.settlement = "unresolved"
  THEN [c EXCEPT !.settlement = Settlement(Merged(c.owner, c.number))]
  ELSE c

\* nextFrozenQueryNumber
MayQuery(o, n) ==
  /\ \A k \in Numbers : k < n <=> Merged(o, k) # "absent"
  /\ n > 1 => Merged(o, n - 1) = "retryable"

Reusable(o) == run[o] = "succeeded" /\ ~aged[o]

-----------------------------------------------------------------------------
(* An invocation of a run *)

Start(a, o) ==
  /\ inv[a] = Idle
  /\ ~live[o] /\ fence[o] < MaxFence
  /\ run[o] \in {"sealed", "normalized"}
  /\ fence' = [fence EXCEPT ![o] = @ + 1]
  /\ live' = [live EXCEPT ![o] = TRUE]
  /\ inv' = [inv EXCEPT ![a] =
       [op |-> o, fence |-> fence[o] + 1, number |-> 0, report |-> "absent",
        step |-> IF run[o] = "normalized" THEN "outputs"
                 ELSE IF o \in sharing /\ ~Attempted(o) THEN "lookup" ELSE "elect"]]
  /\ UNCHANGED <<attempt, run, aged, copies, custody, unpublished>>

\* ReuseFrozenRun: copy a finished artifact of the key, if there is one.
Lookup(a) ==
  LET o == inv[a].op IN
  /\ inv[a].step = "lookup"
  /\ Current(a)
  /\ \/ /\ \E p \in sharing \ {o} : Reusable(p)
        /\ run' = [run EXCEPT ![o] = "succeeded"]
        /\ live' = [live EXCEPT ![o] = FALSE]
        /\ Leave(a)
     \/ /\ \A p \in sharing \ {o} : ~Reusable(p)
        /\ Goto(a, "elect")
        /\ UNCHANGED <<run, live>>
  /\ UNCHANGED <<attempt, aged, copies, fence, custody, unpublished>>

\* frozenReuseBypassTx: a run that shares nothing needs no custody, and has none.
Bypass(o) == o \notin sharing /\ custody.owner # o /\ UNCHANGED custody

\* The INSERT ... ON CONFLICT DO NOTHING at the head of an election.
Elected(o, f) ==
  IF custody.owner # NoOp THEN custody
  ELSE LET taken == {n \in Numbers : Merged(o, n) # "absent"}
           last == IF taken = {} THEN 0 ELSE CHOOSE n \in taken : \A k \in taken : k <= n
       IN [owner |-> o, ownerFence |-> f, number |-> last,
           fence |-> IF last > 0 THEN f ELSE 0,
           settlement |-> IF last > 0 THEN "unresolved" ELSE "none", completed |-> FALSE]

\* custody that lapses with its owner's lease
ReplaceableByLease(c) == TRUE

Replaceable(c) == c.number = 0 \/ c.settlement = "retryable" \/ c.completed

\* ClaimFrozenReuse: become owner, wait for the owner, or fail closed (GiveUp).
Elect(a) ==
  LET o == inv[a].op
      first == Elected(o, inv[a].fence)
      other == first.owner # o
      c == Settle(first)
  IN
  /\ inv[a].step = "elect"
  /\ Current(a)
  /\ \/ Bypass(o) /\ Goto(a, "own")
     \/ /\ o \in sharing /\ other
        /\ live[first.owner] \/ (c.completed /\ Reusable(c.owner))
        /\ custody' = IF live[first.owner] THEN first ELSE c
        /\ Goto(a, "lookup")
     \/ /\ o \in sharing
        /\ other => ~live[first.owner] /\ ~(c.completed /\ Reusable(c.owner))
        /\ Replaceable(c)
        /\ custody' = IF other
                      THEN [NoCustody EXCEPT !.owner = o, !.ownerFence = inv[a].fence]
                      ELSE [c EXCEPT !.ownerFence = inv[a].fence]
        /\ Goto(a, "own")
  /\ UNCHANGED <<attempt, run, aged, copies, fence, live, unpublished>>

Owns(a) == custody.owner = inv[a].op /\ custody.ownerFence = inv[a].fence

\* queryFrozen reads the receipts and numbers its query, in a transaction of its own.
Number(a, n) ==
  /\ inv[a].step = "own"
  /\ MayQuery(inv[a].op, n)
  /\ inv' = [inv EXCEPT ![a].step = "numbered", ![a].number = n]
  /\ UNCHANGED <<attempt, run, aged, copies, fence, live, custody, unpublished>>

\* ReserveFrozenQuery, called by the executor before BeginRead.
Reserve(a) ==
  LET o == inv[a].op
      c == Settle(custody)
  IN
  /\ inv[a].step = "numbered"
  /\ Current(a)
  /\ \/ Bypass(o)
     \/ /\ o \in sharing
        /\ Owns(a)
        /\ c.number = 0 \/ c.settlement = "retryable"
        /\ inv[a].number = c.number + 1
        /\ custody' = [c EXCEPT !.number = @ + 1, !.fence = inv[a].fence,
                                !.settlement = "unresolved", !.completed = FALSE]
  /\ Goto(a, "reserved")
  /\ UNCHANGED <<attempt, run, aged, copies, fence, live, unpublished>>

\* The executor journals the attempt; the fence is not looked at again.
Journal(a) ==
  /\ inv[a].step = "reserved"
  /\ Begin(inv[a].op, inv[a].number)
  /\ Goto(a, "reading")
  /\ UNCHANGED <<run, aged, copies, fence, live, custody, unpublished>>

\* Execute returns.  It sealed the receipt, or left it open, or cannot tell: then it
\* reports nothing and the invocation fails.
Return(a) ==
  LET o == inv[a].op
      n == inv[a].number
      Report(r) == inv' = [inv EXCEPT ![a].step = "receipt", ![a].report = r]
  IN
  /\ inv[a].step = "reading"
  /\ \/ /\ Succeed(o, n)
        /\ Report("succeeded") \/ Report("absent")
        /\ unpublished' = unpublished \cup {o}
     \/ /\ Fail(o, n)
        /\ Report("retryable") \/ Report("absent")
        /\ UNCHANGED unpublished
     \/ /\ Report("open") \/ Report("absent")
        /\ UNCHANGED <<attempt, unpublished>>
  /\ UNCHANGED <<run, aged, copies, fence, live, custody>>

\* The source and controllers act on attempts whether or not anybody waits for them.
Source ==
  /\ \E o \in Ops, n \in Numbers : Issue(o, n) \/ End(o, n) \/ Fail(o, n)
  /\ UNCHANGED <<run, aged, copies, fence, live, custody, inv, unpublished>>

-----------------------------------------------------------------------------
(* CheckpointFrozenRun *)

\* frozenJournalTx: the reported receipt is the journal's, and is copied.
CopyReceipt(a) ==
  /\ Receipt(attempt[inv[a].op][inv[a].number]) = inv[a].report
  /\ copies' = [copies EXCEPT ![inv[a].op][inv[a].number] = inv[a].report]

\* frozenReuseCheckpointTx for an attempt or a result; a repeated receipt does not discard
\* the proof that values were retained.
SettleOwn(a, settlement) ==
  \/ inv[a].op \notin sharing /\ UNCHANGED custody
  \/ /\ inv[a].op \in sharing
     /\ Owns(a) /\ custody.number = inv[a].number
     /\ custody' = [custody EXCEPT !.settlement =
          IF @ = "retained" /\ settlement = "successful" THEN @ ELSE settlement]

CheckpointAttempt(a) ==
  /\ inv[a].step = "receipt" /\ inv[a].report # "absent"
  /\ Current(a)
  /\ CopyReceipt(a)
  /\ SettleOwn(a, Settlement(inv[a].report))
  /\ IF inv[a].report = "succeeded" THEN Goto(a, "values") ELSE Leave(a)
  /\ live' = IF inv[a].report = "succeeded" THEN live ELSE [live EXCEPT ![inv[a].op] = FALSE]
  /\ UNCHANGED <<attempt, run, aged, fence, unpublished>>

\* The values are retained with the receipt that proves them.
CheckpointResult(a) ==
  LET o == inv[a].op IN
  /\ inv[a].step = "values"
  /\ Current(a)
  /\ CopyReceipt(a)
  /\ SettleOwn(a, "retained")
  /\ run' = [run EXCEPT ![o] = "normalized"]
  /\ Goto(a, "outputs")
  /\ UNCHANGED <<attempt, aged, fence, live, unpublished>>

\* A resumed owner may go on with retained values under a newer fence; what an output
\* contains is the subject of FrozenArtifacts.
CheckpointOutput(a) ==
  LET o == inv[a].op IN
  /\ inv[a].step = "outputs"
  /\ Holds(a) /\ run[o] = "normalized"
  /\ o \in sharing /\ custody.owner = o /\ ~Owns(a) /\ custody.settlement = "retained"
  /\ custody' = [custody EXCEPT !.ownerFence = inv[a].fence]
  /\ UNCHANGED <<attempt, run, aged, copies, fence, live, inv, unpublished>>

\* a completion that closes custody whatever was produced
CustodyCompletedAlways(a, outcome) ==
  \/ inv[a].op \notin sharing /\ UNCHANGED custody
  \/ custody' = [custody EXCEPT !.ownerFence = inv[a].fence, !.completed = TRUE]

\* Custody is closed only over a succeeded artifact.
CustodyCompleted(a, outcome) ==
  \/ inv[a].op \notin sharing /\ UNCHANGED custody
  \/ /\ inv[a].op \in sharing
     /\ custody.owner = inv[a].op /\ custody.settlement = "retained"
     /\ custody' = [custody EXCEPT !.ownerFence = inv[a].fence,
                                   !.completed = outcome = "succeeded"]

CheckpointComplete(a, outcome) ==
  LET o == inv[a].op IN
  /\ inv[a].step = "outputs"
  /\ Holds(a) /\ run[o] = "normalized"
  /\ run' = [run EXCEPT ![o] = outcome]
  /\ live' = [live EXCEPT ![o] = FALSE]
  /\ CustodyCompleted(a, outcome)
  /\ unpublished' = IF outcome = "succeeded" THEN unpublished \ {o} ELSE unpublished
  /\ Leave(a)
  /\ UNCHANGED <<attempt, aged, copies, fence>>

-----------------------------------------------------------------------------
(* Failures, the clock, and other callers *)

\* Any refusal or error outside the executor ends the attempt and frees its lease;
\* Execute itself always returns.
GiveUp(a) ==
  /\ inv[a].step \notin {"idle", "reading"}
  /\ live' = IF Holds(a) THEN [live EXCEPT ![inv[a].op] = FALSE] ELSE live
  /\ Leave(a)
  /\ UNCHANGED <<attempt, run, aged, copies, fence, custody, unpublished>>

Crash(a) ==
  /\ inv[a] # Idle
  /\ Leave(a)
  /\ UNCHANGED <<attempt, run, aged, copies, fence, live, custody, unpublished>>

\* The lease runs out, or CancelFrozenRun ends it; the run may be resumed.  Forwarding the
\* cancellation to the read is one way an attempt of SourceAttempt ends.
Lapse(o) ==
  /\ live[o]
  /\ live' = [live EXCEPT ![o] = FALSE]
  /\ UNCHANGED <<attempt, run, aged, copies, fence, custody, inv, unpublished>>

\* expireFrozenRunTx erases the values and keeps receipts and custody.
Expire(o) ==
  /\ run[o] # "expired"
  /\ run' = [run EXCEPT ![o] = "expired"]
  /\ UNCHANGED <<attempt, aged, copies, fence, live, custody, inv, unpublished>>

AgeOut(o) ==
  /\ run[o] = "succeeded" /\ ~aged[o]
  /\ aged' = [aged EXCEPT ![o] = TRUE]
  /\ UNCHANGED <<attempt, run, copies, fence, live, custody, inv, unpublished>>

Step ==
  \/ \E a \in Actors :
       \/ \E o \in Ops : Start(a, o)
       \/ Lookup(a) \/ Elect(a) \/ Journal(a) \/ Return(a)
       \/ \E n \in Numbers : Number(a, n)
       \/ Reserve(a) \/ CheckpointAttempt(a) \/ CheckpointResult(a) \/ CheckpointOutput(a)
       \/ \E outcome \in {"succeeded", "partial", "failed"} : CheckpointComplete(a, outcome)
       \/ GiveUp(a) \/ Crash(a)
  \/ \E o \in Ops : Lapse(o) \/ Expire(o) \/ AgeOut(o)
  \/ Source

\* What a manifest says never changes.
Next == Step /\ UNCHANGED sharing

Spec == Init /\ [][Next]_vars

-----------------------------------------------------------------------------

\* Attempts, runs, receipts, fences, custody and invocations have their shapes.
CustodyTypeOK ==
  /\ attempt \in [Ops -> [Numbers -> Phases]]
  /\ sharing \subseteq Ops
  /\ run \in [Ops -> States]
  /\ aged \in [Ops -> BOOLEAN] /\ live \in [Ops -> BOOLEAN] /\ fence \in [Ops -> Fences]
  /\ copies \in [Ops -> [Numbers -> Receipts]]
  /\ custody \in [owner : Ops \cup {NoOp}, ownerFence : Fences, number : Numbers \cup {0},
                  fence : Fences, settlement : Settlements, completed : BOOLEAN]
  /\ inv \in [Actors -> {Idle} \cup [op : Ops, fence : Fences, number : Numbers \cup {0},
                                    step : Steps, report : Receipts]]
  /\ unpublished \subseteq Ops

\* Every attempt of the key that is not settled is the reservation custody records as
\* unresolved: no owner is replaced, and no next number reserved, over doubtful work.
CustodyCoversSource ==
  \A o \in sharing, n \in Numbers :
    Receipt(attempt[o][n]) = "open" =>
      custody.owner = o /\ custody.number = n /\ custody.settlement = "unresolved"

\* "A successful receipt whose values were lost returns incomplete, never a replay": no run
\* of the key begins a query while some run's successful read has not become an artifact.
ValuesNeverRefetched ==
  [][\A o \in sharing, n \in Numbers :
       attempt[o][n] # "ready" /\ attempt'[o][n] = "ready" =>
         unpublished \cap sharing = {}]_vars

\* A run that ended, in whatever state, never becomes runnable again.
TerminalRunsStay ==
  [][\A o \in Ops :
       run[o] \notin {"sealed", "normalized"} => run'[o] \in {run[o], "expired"}]_vars

\* The owner whose last attempt is proved over may execute its next numbered attempt:
\* the number custody expects is the number the journal calls for.
OwnerMayContinue ==
  \A o \in sharing, n \in Numbers :
    custody.owner = o /\ run[o] = "sealed" /\ Replaceable(Settle(custody)) /\ MayQuery(o, n) =>
      n = custody.number + 1

=============================================================================
