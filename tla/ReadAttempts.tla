---------------------------- MODULE ReadAttempts ----------------------------
(***************************************************************************)
(* One physical warehouse read and its journal.  The executor              *)
(* (exec.Executor) journals an attempt before it touches the source, the   *)
(* source adapter journals the native identity before it issues SQL, and   *)
(* the outcome is sealed only after the native transaction was seen to     *)
(* end.  Whatever a crash, a lost reply or a slow source leaves open is    *)
(* presented as uncertain, and a controller may reconcile it once the      *)
(* source shows that nothing runs any more.                                *)
(*                                                                         *)
(* Time is what the code compares it with: an attempt's deadline is ahead, *)
(* passed, passed by more than the cancel grace, or a day ago.             *)
(***************************************************************************)
EXTENDS Integers

CONSTANTS
  Ops,          \* logical operations that read a source
  Actors,       \* goroutines executing a read
  NoOp,         \* not an operation
  MaxReads      \* physical attempts of an operation, MaxReadAttempts

ASSUME ReadAssumption == NoOp \notin Ops /\ MaxReads \in Nat

VARIABLES
  journal,      \* read_attempts, by operation and attempt number
  native,       \* external: what the warehouse does for the attempt
  reader,       \* the read an actor executes, in its own memory
  control       \* observations controllers have made and not yet written

readVars == <<journal, native, reader, control>>

Numbers == 1 .. MaxReads

Unfinished == {"accepted", "dispatching", "running"}
Retryable == {"failed", "cancelled", "interrupted"}
Outcomes == Retryable \cup {"succeeded", "uncertain"}
RemoteStates == {"not_issued", "running", "stopped", "unknown"}
Ages == {"fresh", "late", "overdue", "old"}

\* A failed read and one that timed out are told apart by nobody here, nor are a
\* full, an empty and a truncated result.
Rows == [status : {"absent"} \cup Unfinished \cup Outcomes, identity : BOOLEAN,
         remote : RemoteStates, cancel : BOOLEAN, age : Ages]

Absent == [status |-> "absent", identity |-> FALSE, remote |-> "not_issued",
           cancel |-> FALSE, age |-> "fresh"]
Accepted == [Absent EXCEPT !.status = "accepted"]

Phases == {"begun", "opened", "submitted", "declared", "fetching", "ended", "reported"}
NoReader == [op |-> NoOp, number |-> 0, phase |-> "idle", remote |-> "not_issued",
             outcome |-> "none"]
Readers == {NoReader} \cup
  [op : Ops, number : Numbers, phase : Phases, remote : RemoteStates,
   outcome : Outcomes \cup {"none", "lost"}]

Open(r) == r.status \in Unfinished \cup {"uncertain"}
Settled(r) == r.status \in Outcomes \ {"uncertain"}

Row(a) == journal[reader[a].op][reader[a].number]
Native(a) == native[reader[a].op][reader[a].number]

ReadInit ==
  /\ journal = [o \in Ops |-> [n \in Numbers |-> Absent]]
  /\ native = [o \in Ops |-> [n \in Numbers |-> "none"]]
  /\ reader = [a \in Actors |-> NoReader]
  /\ control = {}

SetRow(o, n, r) == journal' = [journal EXCEPT ![o][n] = r]
SetNative(o, n, v) == native' = [native EXCEPT ![o][n] = v]
SetPhase(a, p) == reader' = [reader EXCEPT ![a].phase = p]

-----------------------------------------------------------------------------
(* The journal *)

\* A receipt past its deadline and grace that nobody sealed reads as uncertain.
Presented(r) ==
  IF r.status \in Unfinished /\ r.age \in {"overdue", "old"}
  THEN [r EXCEPT !.status = "uncertain", !.remote = "unknown"]
  ELSE r

\* Every BeginRead of the tenant first forgets what was settled a day ago.
Collected ==
  [o \in Ops |-> [n \in Numbers |->
     IF Settled(journal[o][n]) /\ journal[o][n].age = "old" THEN Absent ELSE journal[o][n]]]

\* a BeginRead that looks at the attempt order only
MayBeginInOrder(o, n) ==
  /\ \A k \in Numbers : k >= n => Collected[o][k].status = "absent"
  /\ n > 1 => Collected[o][n - 1].status # "absent"

\* The next number after a retryable attempt, or the first one.
MayBegin(o, n) ==
  /\ \A k \in Numbers : k >= n => Collected[o][k].status = "absent"
  /\ n > 1 => Presented(Collected[o][n - 1]).status \in Retryable

BeginRead(a, o, n) ==
  /\ reader[a] = NoReader
  /\ MayBegin(o, n)
  /\ journal' = [Collected EXCEPT ![o][n] = Accepted]
  /\ SetNative(o, n, "none")
  /\ reader' = [reader EXCEPT ![a] =
       [NoReader EXCEPT !.op = o, !.number = n, !.phase = "begun"]]
  /\ UNCHANGED control

MayDispatch(r, from) == r.status = from /\ ~r.cancel /\ r.age = "fresh"

\* a seal that forgets the cancellation
SealedAsRead(r, status, remote) == [r EXCEPT !.status = status, !.remote = remote]

\* FinishRead: a recorded cancellation replaces the outcome, uncertainty excepted.
Sealed(r, status, remote) ==
  [r EXCEPT !.status = IF r.cancel /\ status \notin {"uncertain", "interrupted"}
                       THEN "cancelled" ELSE status,
            !.remote = remote]

\* a seal that replaces any receipt
MaySealAgain(r) == r.status # "absent"

MaySeal(r) == Open(r)

CancelRead(o, n) ==
  /\ Open(journal[o][n]) /\ ~journal[o][n].cancel
  /\ SetRow(o, n, [journal[o][n] EXCEPT !.cancel = TRUE])
  /\ UNCHANGED <<native, reader, control>>

-----------------------------------------------------------------------------
(* The executor and the source adapter *)

\* The observer's check: not cancelled, and nobody sealed or doubts the attempt.
Checked(a) ==
  /\ ~Row(a).cancel
  /\ Presented(Row(a)).status \in Unfinished

\* The adapter opens its transaction and tags it with the attempt.
OpenNative(a) ==
  /\ reader[a].phase = "begun"
  /\ Checked(a)
  /\ SetNative(reader[a].op, reader[a].number, "open")
  /\ SetPhase(a, "opened")
  /\ UNCHANGED <<journal, control>>

\* Dispatch(false): the identity is durable before any SQL.  When the reply is
\* lost the adapter does not issue anything.
Submit(a) ==
  /\ reader[a].phase = "opened"
  /\ MayDispatch(Row(a), "accepted") /\ ~Row(a).identity
  /\ SetRow(reader[a].op, reader[a].number,
            [Row(a) EXCEPT !.status = "dispatching", !.identity = TRUE, !.remote = "running"])
  /\ SetPhase(a, "submitted") \/ UNCHANGED reader
  /\ UNCHANGED <<native, control>>

\* DECLARE starts the statement in the tagged transaction.
Declare(a) ==
  /\ reader[a].phase = "submitted"
  /\ Native(a) = "open"
  /\ SetNative(reader[a].op, reader[a].number, "running")
  /\ SetPhase(a, "declared")
  /\ UNCHANGED <<journal, control>>

\* Dispatch(true)
Acknowledge(a) ==
  /\ reader[a].phase = "declared"
  /\ MayDispatch(Row(a), "dispatching")
  /\ SetRow(reader[a].op, reader[a].number, [Row(a) EXCEPT !.status = "running"])
  /\ SetPhase(a, "fetching")
  /\ UNCHANGED <<native, control>>

Issued(a) == reader[a].phase \in {"submitted", "declared", "fetching"}

\* What the executor makes of the adapter's result: a successful read has fetched every
\* row; any step may fail or find its context over; the watcher reports uncertainty once
\* somebody else judged the attempt.
MayEnd(a, outcome) ==
  \/ outcome = "succeeded" /\ reader[a].phase = "fetching" /\ Native(a) = "running"
  \/ outcome = "failed"
  \/ outcome = "uncertain" /\ Presented(Row(a)).status \notin Unfinished

\* The deferred rollback ends the native transaction.
Rollback(a, outcome) ==
  /\ reader[a].phase \in {"begun", "opened"} \/ Issued(a)
  /\ MayEnd(a, outcome)
  /\ SetNative(reader[a].op, reader[a].number,
               IF Native(a) = "none" THEN "none" ELSE "ended")
  /\ reader' = [reader EXCEPT ![a].phase = "ended", ![a].outcome = outcome,
                              ![a].remote = IF Issued(a) THEN "stopped" ELSE "not_issued"]
  /\ UNCHANGED <<journal, control>>

\* a lost connection taken for a stopped query
LoseSourceStopped(a) ==
  /\ reader[a].phase = "opened" \/ Issued(a)
  /\ reader' = [reader EXCEPT ![a].phase = "ended", ![a].outcome = "failed",
                              ![a].remote = IF Issued(a) THEN "stopped" ELSE "not_issued"]
  /\ UNCHANGED <<journal, native, control>>

\* The rollback itself fails.  Closing a socket proves nothing: without an independent
\* observation that the tagged backend is gone, the remote state is unknown.
LoseSource(a) ==
  /\ reader[a].phase = "opened" \/ Issued(a)
  /\ \E seen \in BOOLEAN :
       /\ seen => Native(a) = "ended"
       /\ reader' = [reader EXCEPT ![a].phase = "ended",
            ![a].outcome = IF Issued(a) /\ ~seen THEN "uncertain" ELSE "failed",
            ![a].remote = IF ~Issued(a) THEN "not_issued" ELSE IF seen THEN "stopped" ELSE "unknown"]
  /\ UNCHANGED <<journal, native, control>>

\* The executor seals the receipt and reports what the journal then says.  A refused
\* or unheard seal is reported as no receipt at all, and the rows are dropped.
FinishRead(a) ==
  /\ reader[a].phase = "ended"
  /\ LET r == Sealed(Row(a), reader[a].outcome, reader[a].remote)
         Report(outcome) == reader' = [reader EXCEPT ![a].phase = "reported", ![a].outcome = outcome]
     IN \/ /\ MaySeal(Row(a))
           /\ SetRow(reader[a].op, reader[a].number, r)
           /\ Report(r.status) \/ Report("lost")
        \/ /\ ~MaySeal(Row(a))
           /\ UNCHANGED journal
           /\ Report("lost")
  /\ UNCHANGED <<native, control>>

Forget(a) ==
  /\ reader[a] # NoReader
  /\ reader' = [reader EXCEPT ![a] = NoReader]
  /\ UNCHANGED <<journal, native, control>>

-----------------------------------------------------------------------------
(* The source, the clock, and controllers *)

\* A dead client, a statement timeout or the source itself ends a backend.
NativeEnds(o, n) ==
  /\ native[o][n] \in {"open", "running"}
  /\ SetNative(o, n, "ended")
  /\ UNCHANGED <<journal, reader, control>>

\* The contexts of a read and of a control call end long before a day is over.
Untouched(o, n) ==
  /\ \A a \in Actors : reader[a].op # o \/ reader[a].number # n
  /\ \A c \in control : c.op # o \/ c.number # n

TimePasses(o, n) ==
  /\ LET r == journal[o][n]
         Older(age) == SetRow(o, n, [r EXCEPT !.age = age])
     IN \/ r.status \in Unfinished /\ r.age = "fresh" /\ Older("late")
        \/ r.status \in Unfinished /\ r.age = "late" /\ Older("overdue")
        \/ Settled(r) /\ r.age # "old" /\ Untouched(o, n) /\ Older("old")
  /\ UNCHANGED <<native, reader, control>>

\* a controller that writes down whatever it saw
ObserveAnything(o, n) ==
  /\ Presented(journal[o][n]).status = "uncertain"
  /\ control' = control \cup {[op |-> o, number |-> n, remote |->
       IF native[o][n] \in {"open", "running"} THEN "running" ELSE "stopped"]}
  /\ UNCHANGED <<journal, native, reader>>

\* Control reads a doubtful attempt and looks for the tagged backend.
ObserveControl(o, n) ==
  /\ Presented(journal[o][n]).status = "uncertain"
  /\ \/ /\ ~journal[o][n].identity
        /\ control' = control \cup {[op |-> o, number |-> n, remote |-> "not_issued"]}
     \/ /\ journal[o][n].identity
        /\ native[o][n] \notin {"open", "running"}
        /\ control' = control \cup {[op |-> o, number |-> n, remote |-> "stopped"]}
  /\ UNCHANGED <<journal, native, reader>>

\* ... and seals it as interrupted, if it still may.
Reconcile(c) ==
  /\ c \in control
  /\ LET r == journal[c.op][c.number]
     IN IF MaySeal(r) /\ Presented(r).status = "uncertain"
        THEN SetRow(c.op, c.number, Sealed(r, "interrupted", c.remote))
        ELSE UNCHANGED journal
  /\ control' = control \ {c}
  /\ UNCHANGED <<native, reader>>

-----------------------------------------------------------------------------

ReadStep(a) ==
  \/ OpenNative(a) \/ Submit(a) \/ Declare(a) \/ Acknowledge(a)
  \/ \E outcome \in Outcomes : Rollback(a, outcome)
  \/ LoseSource(a) \/ FinishRead(a)

SourceStep ==
  \/ \E o \in Ops, n \in Numbers :
       NativeEnds(o, n) \/ TimePasses(o, n) \/ CancelRead(o, n) \/ ObserveControl(o, n)
  \/ \E c \in control : Reconcile(c)

\* The executor as any caller uses it.
ReadNext ==
  \/ \E a \in Actors, o \in Ops, n \in Numbers : BeginRead(a, o, n)
  \/ \E a \in Actors : ReadStep(a) \/ Forget(a)
  \/ SourceStep

ReadSpec == ReadInit /\ [][ReadNext]_readVars

-----------------------------------------------------------------------------

\* Attempt rows, native states, readers and observations have their shapes.
ReadTypeOK ==
  /\ journal \in [Ops -> [Numbers -> Rows]]
  /\ native \in [Ops -> [Numbers -> {"none", "open", "running", "ended"}]]
  /\ reader \in [Actors -> Readers]
  /\ control \subseteq [op : Ops, number : Numbers, remote : {"not_issued", "stopped"}]

\* While the warehouse runs an attempt's statement, the journal does not call that
\* attempt settled: neither the executor's seal nor a reconciliation, made from an
\* observation that may be old, claims an end that has not come (FinishRead, Control).
RunningIsUnsettled ==
  \A o \in Ops, n \in Numbers :
    native[o][n] = "running" => Open(journal[o][n]) /\ journal[o][n].identity

\* A settled receipt keeps its outcome until retention forgets it: a late owner, a second
\* controller or a cancellation cannot rewrite it.
ReceiptsAreFinal ==
  [][\A o \in Ops, n \in Numbers :
       Settled(journal[o][n]) /\ journal[o][n].age # "old" =>
         /\ journal'[o][n].status = journal[o][n].status
         /\ journal'[o][n].remote = journal[o][n].remote]_readVars

\* Once a cancellation is recorded the attempt is never sealed as a success, although
\* the reader may already hold every row.
CancelledNeverSucceeds ==
  [][\A o \in Ops, n \in Numbers :
       Open(journal[o][n]) /\ journal[o][n].cancel =>
         journal'[o][n].status # "succeeded"]_readVars

\* An attempt as its caller may see it.
PhaseOf(r, v) ==
  CASE r.status = "absent" -> "absent"
    [] r.status = "succeeded" -> "succeeded"
    [] r.status \in Retryable -> "retryable"
    [] Open(r) /\ v = "running" -> "running"
    [] Open(r) /\ v = "ended" -> "over"
    [] OTHER -> "ready"

AttemptPhase == [o \in Ops |-> [n \in Numbers |-> PhaseOf(journal[o][n], native[o][n])]]

Promise == INSTANCE SourceAttempt WITH attempt <- AttemptPhase

\* The executor keeps its promise to callers: numbered attempts begin one after another,
\* each statement runs at most once, and a settled attempt runs no more (BeginRead,
\* ExecuteRead, FinishRead and Control together).
ImplementsSourceAttempt == Promise!AttemptSpec

=============================================================================
