---------------------------- MODULE SourceAttempt ----------------------------
(***************************************************************************)
(* What the read executor promises its callers, without processes,         *)
(* journal columns, deadlines or transactions.  The numbered attempts of   *)
(* an operation come one after another, each after the one before it was   *)
(* settled as retryable; the source runs an attempt's statement at most    *)
(* once; and an attempt is settled only when its statement runs no more    *)
(* and never will.  ReadAttempts implements this.                          *)
(***************************************************************************)
EXTENDS Integers

CONSTANTS
  Ops,          \* logical operations that read a source
  MaxReads      \* physical attempts of an operation

VARIABLE attempt

Numbers == 1 .. MaxReads

\* ready: journalled, the source may still be asked.  over: the statement has ended,
\* or will never be issued, and nobody has said so yet.
Verdicts == {"succeeded", "retryable"}
Phases == {"absent", "ready", "running", "over"} \cup Verdicts

AttemptInit == attempt = [o \in Ops |-> [n \in Numbers |-> "absent"]]

Move(o, n, from, to) ==
  /\ attempt[o][n] \in from
  /\ attempt' = [attempt EXCEPT ![o][n] = to]

\* Some settled attempts are forgotten whenever one begins.
Begin(o, n) ==
  \E kept \in SUBSET (Ops \X Numbers) :
    LET left == [p \in Ops |-> [k \in Numbers |->
                   IF attempt[p][k] \in Verdicts /\ <<p, k>> \notin kept
                   THEN "absent" ELSE attempt[p][k]]]
    IN /\ \A k \in Numbers : k >= n => left[o][k] = "absent"
       /\ n > 1 => left[o][n - 1] = "retryable"
       /\ attempt' = [left EXCEPT ![o][n] = "ready"]

Issue(o, n) == Move(o, n, {"ready"}, "running")
End(o, n) == Move(o, n, {"ready", "running"}, "over")
Succeed(o, n) == Move(o, n, {"over"}, "succeeded")
Fail(o, n) == Move(o, n, {"ready", "over"}, "retryable")

AttemptStep(o, n) == Issue(o, n) \/ End(o, n) \/ Succeed(o, n) \/ Fail(o, n)

AttemptNext == \E o \in Ops, n \in Numbers : Begin(o, n) \/ AttemptStep(o, n)

AttemptSpec == AttemptInit /\ [][AttemptNext]_attempt

=============================================================================
