-------------------------- MODULE ReuseCustodyProof --------------------------
(***************************************************************************)
(* Custody of a reuse key covers every doubtful query and every lost       *)
(* result, for any number of runs, processes, attempts and claims.         *)
(***************************************************************************)
EXTENDS ReuseCustody, WellFoundedInduction, TLAPS

\* Zenon does the first-order steps; a step beyond it cites SMT.
USE Zenon

\* Invocations of a run are told apart by their fence.
Fenced ==
  /\ \A a \in Actors : inv[a].step # "idle" => inv[a].fence <= fence[inv[a].op]
  /\ \A a, b \in Actors :
       /\ inv[a].step # "idle" /\ inv[b].step # "idle"
       /\ inv[a].op = inv[b].op /\ inv[a].fence = inv[b].fence
       => a = b

\* a has reserved a query of the key and not journalled it.
Reserving(a) == inv[a].step = "reserved" /\ inv[a].op \in sharing

Fresh(o, n) == n \in Numbers /\ attempt[o][n] = "absent" /\ copies[o][n] = "absent"

\* A reservation in flight is the one custody records, for a number never used.
ReservationKnown ==
  /\ \A a \in Actors : Reserving(a) =>
       /\ custody.owner = inv[a].op /\ custody.number = inv[a].number
       /\ custody.settlement = "unresolved"
       /\ Fresh(inv[a].op, inv[a].number)
  /\ \A a, b \in Actors : Reserving(a) /\ Reserving(b) => a = b

NoneReserving == \A b \in Actors : ~Reserving(b)

\* While an owner has not reserved, nobody has; and the number it chose stays unused.
OwnerUndisturbed ==
  \A a \in Actors : inv[a].op \in sharing /\ Owns(a) =>
    /\ inv[a].step \in {"own", "numbered"} => NoneReserving
    /\ inv[a].step = "numbered" => Fresh(inv[a].op, inv[a].number)

\* The columns of the custody row agree with each other and with the owner's run.
RowAgrees ==
  /\ custody.owner = NoOp => custody = NoCustody
  /\ custody.completed => custody.settlement = "retained"
  /\ custody.settlement = "retained" => run[custody.owner] # "sealed"

\* A copied failure is never the copy of a later success.
CopiesAgree ==
  \A o \in sharing, n \in Numbers :
    copies[o][n] = "retryable" => attempt[o][n] \in {"retryable", "absent"}

\* An invocation past its numbering has a number; one that retains values has proof of them.
InvocationAgrees ==
  \A a \in Actors :
    /\ inv[a].step \in {"numbered", "reserved", "reading", "receipt", "values"} =>
         inv[a].number \in Numbers
    /\ inv[a].step = "values" => inv[a].report = "succeeded"

\* A success that is not an artifact yet keeps custody, which nobody can take or renumber.
Guarded(o) ==
  /\ custody.owner = o /\ custody.number \in Numbers /\ ~custody.completed
  /\ custody.settlement \in {"unresolved", "successful", "retained"}
  /\ attempt[o][custody.number] \in {"succeeded", "absent"}
  /\ custody.settlement = "unresolved" => copies[o][custody.number] # "retryable"
  /\ NoneReserving

LossesGuarded == \A o \in unpublished \cap sharing : Guarded(o)

CustodyInv ==
  /\ CustodyTypeOK /\ CustodyCoversSource /\ Fenced /\ ReservationKnown
  /\ OwnerUndisturbed /\ RowAgrees /\ CopiesAgree /\ InvocationAgrees /\ LossesGuarded

-----------------------------------------------------------------------------
(* Types and fences *)

Busy == [op : Ops, fence : Fences, number : Numbers \cup {0}, step : Steps, report : Receipts]

Rows == [owner : Ops \cup {NoOp}, ownerFence : Fences, number : Numbers \cup {0},
         fence : Fences, settlement : Settlements, completed : BOOLEAN]

\* An invocation that is not idle has a run and a step.
LEMMA BusyTyped ==
  ASSUME CustodyTypeOK, NEW a \in Actors, inv[a].step # "idle"
  PROVE  inv[a] \in Busy
  BY SMT DEF CustodyTypeOK, Busy, Idle

\* No busy invocation is at step idle.
LEMMA IdleStep == Idle.step = "idle" /\ \A r \in Busy : r.step # "idle"
  BY DEF Idle, Busy, Steps

\* One invocation changes and the rest stay.
LEMMA InvTyped ==
  ASSUME CustodyTypeOK, NEW a \in Actors, NEW r \in Busy \cup {Idle},
         inv' = [inv EXCEPT ![a] = r]
  PROVE  inv' \in [Actors -> {Idle} \cup Busy]
  BY DEF CustodyTypeOK, Busy

\* Moving an invocation to a step keeps its other fields.
LEMMA GotoTyped ==
  ASSUME CustodyTypeOK, NEW a \in Actors, NEW step \in Steps,
         inv[a].step # "idle", Goto(a, step)
  PROVE  /\ inv' \in [Actors -> {Idle} \cup Busy]
         /\ \A b \in Actors \ {a} : inv'[b] = inv[b]
         /\ inv'[a] = [inv[a] EXCEPT !.step = step]
         /\ inv'[a] \in Busy /\ inv'[a].step = step
         /\ inv'[a].op = inv[a].op /\ inv'[a].fence = inv[a].fence
         /\ inv'[a].number = inv[a].number /\ inv'[a].report = inv[a].report
<1>1. inv[a] \in Busy
  BY BusyTyped
<1>2. inv' = [inv EXCEPT ![a] = [inv[a] EXCEPT !.step = step]]
  BY DEF Goto
<1>3. [inv[a] EXCEPT !.step = step] \in Busy
  BY <1>1 DEF Busy
<1>4. inv \in [Actors -> {Idle} \cup Busy]
  BY DEF CustodyTypeOK, Busy
<1>5. inv' \in [Actors -> {Idle} \cup Busy]
  BY <1>2, <1>3, <1>4
<1>6. inv'[a] = [inv[a] EXCEPT !.step = step] /\ \A b \in Actors \ {a} : inv'[b] = inv[b]
  BY <1>2, <1>4
<1> QED
  BY <1>1, <1>3, <1>5, <1>6 DEF Busy

\* Leaving returns one invocation to idle.
LEMMA LeaveTyped ==
  ASSUME CustodyTypeOK, NEW a \in Actors, Leave(a)
  PROVE  /\ inv' \in [Actors -> {Idle} \cup Busy]
         /\ \A b \in Actors \ {a} : inv'[b] = inv[b]
         /\ inv'[a].step = "idle"
  BY DEF CustodyTypeOK, Busy, Leave, Idle

\* Invocations keep run and fence until they end.
LEMMA FencedStep ==
  ASSUME Fenced, UNCHANGED fence,
         \A b \in Actors : \/ inv'[b].step = "idle"
                           \/ /\ inv[b].step # "idle"
                              /\ inv'[b].op = inv[b].op /\ inv'[b].fence = inv[b].fence
  PROVE  Fenced'
  BY DEF Fenced

\* An attempt that moves keeps the journal's shape.
LEMMA MoveTyped ==
  ASSUME CustodyTypeOK, NEW o \in Ops, NEW n \in Numbers, NEW from, NEW to \in Phases,
         Move(o, n, from, to)
  PROVE  /\ attempt' \in [Ops -> [Numbers -> Phases]]
         /\ attempt[o][n] \in from /\ attempt'[o][n] = to
         /\ \A p \in Ops, k \in Numbers : p # o \/ k # n => attempt'[p][k] = attempt[p][k]
  BY DEF CustodyTypeOK, Move

\* Beginning makes one numbered attempt ready.
LEMMA BeginTyped ==
  ASSUME CustodyTypeOK, NEW o \in Ops, NEW n \in Numbers, Begin(o, n)
  PROVE  /\ attempt' \in [Ops -> [Numbers -> Phases]]
         /\ attempt'[o][n] = "ready"
         /\ \A p \in Ops, k \in Numbers : p # o \/ k # n =>
              \/ attempt'[p][k] = attempt[p][k]
              \/ attempt[p][k] \in Verdicts /\ attempt'[p][k] = "absent"
<1>1. PICK kept \in SUBSET (Ops \X Numbers) :
        attempt' = [[p \in Ops |-> [k \in Numbers |->
                       IF attempt[p][k] \in Verdicts /\ <<p, k>> \notin kept
                       THEN "absent" ELSE attempt[p][k]]] EXCEPT ![o][n] = "ready"]
  BY DEF Begin
<1> DEFINE left == [p \in Ops |-> [k \in Numbers |->
                      IF attempt[p][k] \in Verdicts /\ <<p, k>> \notin kept
                      THEN "absent" ELSE attempt[p][k]]]
<1>2. left \in [Ops -> [Numbers -> Phases]]
  BY DEF CustodyTypeOK, Phases
<1>3. \A p \in Ops, k \in Numbers :
        \/ left[p][k] = attempt[p][k]
        \/ attempt[p][k] \in Verdicts /\ left[p][k] = "absent"
  OBVIOUS
<1>4. attempt' = [left EXCEPT ![o][n] = "ready"]
  BY <1>1
<1> HIDE DEF left
<1> QED
  BY <1>2, <1>3, <1>4 DEF Phases

-----------------------------------------------------------------------------
(* Steps that touch neither receipts nor custody *)

Calm(r) ==
  /\ r.step \in {"idle", "lookup", "elect", "reading", "receipt", "outputs"}
  /\ r.step \in {"reading", "receipt"} => r.number \in Numbers

\* An invocation that changes leaves the steps the invariant speaks of.
Quiet ==
  /\ UNCHANGED <<attempt, copies, custody, unpublished, sharing>>
  /\ \A o \in Ops : run[o] # "sealed" => run'[o] # "sealed"
  /\ \A b \in Actors : inv'[b] = inv[b] \/ Calm(inv'[b])

\* A step that touches no attempt, receipt or custody row keeps the invariant.
LEMMA QuietInv ==
  ASSUME CustodyInv, CustodyTypeOK', Fenced', Quiet
  PROVE  CustodyInv'
<1> USE DEF CustodyInv, Quiet
<1>1. \A b \in Actors : Reserving(b)' => inv'[b] = inv[b] /\ Reserving(b)
  BY DEF Reserving, Calm
<1>2. NoneReserving => NoneReserving'
  BY <1>1 DEF NoneReserving
<1>3. CustodyCoversSource'
  BY DEF CustodyCoversSource
<1>4. ReservationKnown'
  <2>1. ASSUME NEW b \in Actors, Reserving(b)'
        PROVE  /\ custody'.owner = inv'[b].op /\ custody'.number = inv'[b].number
               /\ custody'.settlement = "unresolved"
               /\ Fresh(inv[b].op, inv[b].number)'
    BY <1>1, <2>1 DEF ReservationKnown, Fresh
  <2> QED
    BY <1>1, <2>1 DEF ReservationKnown
<1>5. OwnerUndisturbed'
  <2> SUFFICES ASSUME NEW b \in Actors, inv'[b].op \in sharing', Owns(b)',
                      inv'[b].step \in {"own", "numbered"}
               PROVE  NoneReserving' /\ (inv'[b].step = "numbered" => Fresh(inv[b].op, inv[b].number)')
    BY DEF OwnerUndisturbed
  <2>1. inv'[b] = inv[b] /\ Owns(b)
    BY DEF Calm, Owns
  <2> QED
    BY <1>2, <2>1 DEF OwnerUndisturbed, Fresh
<1>6. RowAgrees'
  BY SMT, CustodyAssumption DEF RowAgrees, CustodyTypeOK, NoCustody
<1>7. CopiesAgree'
  BY DEF CopiesAgree
<1>8. InvocationAgrees'
  BY DEF InvocationAgrees, Calm
<1>9. LossesGuarded'
  BY <1>2 DEF LossesGuarded, Guarded
<1> QED
  BY <1>3, <1>4, <1>5, <1>6, <1>7, <1>8, <1>9

\* Start keeps the invariant: the new invocation holds the newest fence.
LEMMA StartInv ==
  ASSUME CustodyInv, NEW a \in Actors, NEW o \in Ops, Start(a, o), UNCHANGED sharing
  PROVE  CustodyInv'
<1> DEFINE r == [op |-> o, fence |-> fence[o] + 1, number |-> 0, report |-> "absent",
                 step |-> IF run[o] = "normalized" THEN "outputs"
                          ELSE IF o \in sharing /\ ~Attempted(o) THEN "lookup" ELSE "elect"]
<1>1. inv' = [inv EXCEPT ![a] = r] /\ fence' = [fence EXCEPT ![o] = @ + 1]
  BY DEF Start
<1>2. fence \in [Ops -> Fences] /\ inv \in [Actors -> {Idle} \cup Busy]
  BY DEF CustodyInv, CustodyTypeOK, Busy
<1>3. fence[o] + 1 \in Fences
  BY SMT, <1>2, CustodyAssumption DEF Start, Fences
<1>4. r \in Busy /\ r.step \in {"lookup", "elect", "outputs"}
  BY <1>3 DEF Busy, Steps, Receipts
<1>5. r.op = o /\ r.fence = fence[o] + 1
  OBVIOUS
<1> HIDE DEF r
<1>6. inv' \in [Actors -> {Idle} \cup Busy] /\ inv'[a] = r
      /\ \A b \in Actors \ {a} : inv'[b] = inv[b]
  BY <1>1, <1>2, <1>4
<1>7. fence' \in [Ops -> Fences] /\ fence'[o] = fence[o] + 1
      /\ \A p \in Ops : fence[p] <= fence'[p]
  BY SMT, <1>1, <1>2, <1>3 DEF Fences
<1>8. CustodyTypeOK'
  BY <1>6, <1>7 DEF CustodyInv, CustodyTypeOK, Start, Busy
<1>9. Fenced'
  <2>1. \A b \in Actors : inv[b].step # "idle" => inv[b].op \in Ops /\ inv[b].fence \in Fences
    BY BusyTyped DEF CustodyInv, Busy
  <2>2. \A b \in Actors \ {a} : inv[b].step # "idle" /\ inv[b].op = o => inv[b].fence < fence[o] + 1
    BY SMT, <1>2, <2>1 DEF CustodyInv, Fenced, Fences
  <2>3. \A b \in Actors : inv'[b].step # "idle" => inv'[b].fence <= fence'[inv'[b].op]
    BY SMT, <1>2, <1>5, <1>6, <1>7, <2>1 DEF CustodyInv, Fenced, Fences
  <2> QED
    BY SMT, <1>2, <1>5, <1>6, <2>1, <2>2, <2>3 DEF CustodyInv, Fenced, Fences
<1>10. Quiet
  BY <1>4, <1>6 DEF Quiet, Start, Calm
<1> QED
  BY <1>8, <1>9, <1>10, QuietInv

\* Lookup keeps the invariant.
LEMMA LookupInv ==
  ASSUME CustodyInv, NEW a \in Actors, Lookup(a), UNCHANGED sharing
  PROVE  CustodyInv'
<1>1. inv[a] \in Busy /\ inv[a].op \in Ops /\ inv[a].step # "idle"
  BY BusyTyped DEF CustodyInv, Lookup, Busy
<1>2. CASE Goto(a, "elect") /\ UNCHANGED <<run, live>>
  <2>1. CustodyTypeOK' /\ Quiet
    BY <1>1, <1>2, GotoTyped DEF CustodyInv, CustodyTypeOK, Lookup, Quiet, Calm, Steps, Busy
  <2>2. Fenced'
    BY <1>1, <1>2, GotoTyped, FencedStep DEF CustodyInv, Lookup, Steps
  <2> QED
    BY <2>1, <2>2, QuietInv
<1>3. CASE /\ Leave(a) /\ run' = [run EXCEPT ![inv[a].op] = "succeeded"]
           /\ live' = [live EXCEPT ![inv[a].op] = FALSE]
  <2>1. CustodyTypeOK' /\ Quiet
    BY <1>1, <1>3, LeaveTyped DEF CustodyInv, CustodyTypeOK, Lookup, Quiet, Calm, States, Busy
  <2>2. Fenced'
    BY <1>1, <1>3, LeaveTyped, FencedStep DEF CustodyInv, Lookup, Fenced
  <2> QED
    BY <2>1, <2>2, QuietInv
<1> QED
  BY <1>2, <1>3 DEF Lookup

\* GiveUp and Crash keep the invariant: only the invocation ends.
LEMMA GiveUpInv ==
  ASSUME CustodyInv, NEW a \in Actors, GiveUp(a) \/ Crash(a), UNCHANGED sharing
  PROVE  CustodyInv'
<1>1. Leave(a) /\ UNCHANGED <<attempt, run, aged, copies, fence, custody, unpublished>>
  BY DEF GiveUp, Crash
<1>2. live' \in [Ops -> BOOLEAN]
  BY DEF CustodyInv, CustodyTypeOK, GiveUp, Crash
<1>3. CustodyTypeOK' /\ Quiet
  BY <1>1, <1>2, LeaveTyped DEF CustodyInv, CustodyTypeOK, Quiet, Calm, Busy
<1>4. Fenced'
  BY <1>1, LeaveTyped, FencedStep DEF CustodyInv, Fenced
<1> QED
  BY <1>3, <1>4, QuietInv

\* Lapsed fences, expiry and ageing keep the invariant.
LEMMA ClockInv ==
  ASSUME CustodyInv, NEW o \in Ops, Lapse(o) \/ Expire(o) \/ AgeOut(o), UNCHANGED sharing
  PROVE  CustodyInv'
<1>1. CustodyTypeOK' /\ Quiet
  BY DEF CustodyInv, CustodyTypeOK, Quiet, Lapse, Expire, AgeOut, States
<1>2. Fenced'
  BY SMT DEF CustodyInv, Fenced, Lapse, Expire, AgeOut
<1> QED
  BY <1>1, <1>2, QuietInv

-----------------------------------------------------------------------------
(* The source, and the executor's return *)

\* One attempt in doubt moves on; a success is remembered as unpublished.
Progress(o, n) ==
  /\ Receipt(attempt[o][n]) = "open" /\ attempt'[o][n] # "absent"
  /\ \A p \in Ops, k \in Numbers : p # o \/ k # n => attempt'[p][k] = attempt[p][k]
  /\ \/ unpublished' = unpublished
     \/ unpublished' = unpublished \cup {o} /\ attempt'[o][n] = "succeeded"
  /\ UNCHANGED <<copies, custody, run, sharing, fence>>
  /\ \A b \in Actors : inv'[b] = inv[b] \/ Calm(inv'[b])

\* The phases whose receipt is still open.
LEMMA OpenReceipts ==
  \A p : Receipt(p) = "open" <=> p \in {"ready", "running", "over", "open"}
  BY DEF Receipt

\* An open attempt that moves on or settles keeps the invariant.
LEMMA ProgressInv ==
  ASSUME CustodyInv, CustodyTypeOK', Fenced', NEW o \in Ops, NEW n \in Numbers, Progress(o, n)
  PROVE  CustodyInv'
<1> USE DEF CustodyInv, Progress
<1>1. \A b \in Actors : Reserving(b)' => inv'[b] = inv[b] /\ Reserving(b)
  BY DEF Reserving, Calm
<1>2. NoneReserving => NoneReserving'
  BY <1>1 DEF NoneReserving
<1>3. attempt[o][n] \in {"ready", "running", "over"}
  <2>1. attempt[o][n] \in Phases
    BY SMT DEF CustodyTypeOK
  <2>2. Receipt(attempt[o][n]) = "open"
    OBVIOUS
  <2> QED
    BY <2>1, <2>2, OpenReceipts DEF Phases, Verdicts
<1>4. o \in sharing => /\ custody.owner = o /\ custody.number = n
                       /\ custody.settlement = "unresolved" /\ ~custody.completed
  BY SMT DEF CustodyCoversSource, RowAgrees, CustodyTypeOK
<1>5. \A p \in Ops, k \in Numbers : Fresh(p, k) => Fresh(p, k)'
  BY <1>3 DEF Fresh
<1>6. CustodyCoversSource'
  <2> SUFFICES ASSUME NEW p \in sharing, NEW k \in Numbers, Receipt(attempt'[p][k]) = "open"
               PROVE  /\ custody.owner = p /\ custody.number = k
                      /\ custody.settlement = "unresolved"
    BY SMT DEF CustodyCoversSource, Receipt
  <2>1. p \in Ops
    BY DEF CustodyTypeOK
  <2>2. CASE p # o \/ k # n
    BY <2>1, <2>2 DEF CustodyCoversSource
  <2> QED
    BY <1>4, <2>2
<1>7. ReservationKnown'
  <2>1. ASSUME NEW b \in Actors, Reserving(b)'
        PROVE  /\ custody'.owner = inv'[b].op /\ custody'.number = inv'[b].number
               /\ custody'.settlement = "unresolved"
               /\ Fresh(inv[b].op, inv[b].number)'
    <3>1. inv'[b] = inv[b] /\ Reserving(b) /\ Fresh(inv[b].op, inv[b].number)
      BY <1>1, <2>1 DEF ReservationKnown
    <3>2. inv[b].op \in Ops /\ inv[b].number \in Numbers
      BY <3>1 DEF Reserving, CustodyTypeOK, Fresh
    <3>3. Fresh(inv[b].op, inv[b].number)'
      BY SMT, <1>5, <3>1, <3>2 DEF Fresh
    <3> QED
      BY <3>1, <3>3 DEF ReservationKnown
  <2> QED
    BY <1>1, <2>1 DEF ReservationKnown
<1>8. OwnerUndisturbed'
  <2> SUFFICES ASSUME NEW b \in Actors, inv'[b].op \in sharing', Owns(b)',
                      inv'[b].step \in {"own", "numbered"}
               PROVE  NoneReserving' /\ (inv'[b].step = "numbered" => Fresh(inv[b].op, inv[b].number)')
    BY DEF OwnerUndisturbed
  <2>1. inv'[b] = inv[b] /\ Owns(b)
    BY DEF Calm, Owns
  <2>2. inv[b].step = "numbered" => Fresh(inv[b].op, inv[b].number)
    BY <2>1 DEF OwnerUndisturbed
  <2>3. inv[b].op \in Ops
    BY <2>1 DEF CustodyTypeOK
  <2>4. inv[b].step = "numbered" => Fresh(inv[b].op, inv[b].number)'
    BY SMT, <1>5, <2>1, <2>2, <2>3 DEF Fresh
  <2> QED
    BY <1>2, <2>1, <2>4 DEF OwnerUndisturbed
<1>9. RowAgrees'
  BY DEF RowAgrees
<1>10. CopiesAgree'
  <2>1. \A p \in sharing, k \in Numbers :
          attempt[p][k] \in {"retryable", "absent"} => attempt'[p][k] = attempt[p][k]
    <3>1. sharing \subseteq Ops
      BY DEF CustodyTypeOK
    <3>2. attempt[o][n] # "retryable" /\ attempt[o][n] # "absent"
      BY SMT, <1>3
    <3> QED
      BY <3>1, <3>2
  <2>2. sharing' = sharing /\ copies' = copies
    OBVIOUS
  <2> QED
    BY <2>1, <2>2 DEF CopiesAgree
<1>11. InvocationAgrees'
  BY DEF InvocationAgrees, Calm
<1>12. LossesGuarded'
  <2> SUFFICES ASSUME NEW p \in unpublished' \cap sharing'
               PROVE  Guarded(p)'
    BY DEF LossesGuarded
  <2>1. CASE p \in unpublished
    <3>1. Guarded(p) /\ p \in Ops
      BY <2>1 DEF LossesGuarded, CustodyTypeOK
    <3>2. o \in sharing => p # o
      BY <1>3, <1>4, <3>1 DEF Guarded
    <3>3. attempt'[p][custody.number] = attempt[p][custody.number]
      BY <3>1, <3>2 DEF Guarded, CustodyTypeOK
    <3> QED
      BY <1>2, <3>1, <3>3 DEF Guarded
  <2>2. CASE p = o /\ attempt'[o][n] = "succeeded"
    <3>1. NoneReserving
      BY <1>3, <1>4, <2>2 DEF NoneReserving, ReservationKnown, Fresh
    <3>2. copies[o][n] # "retryable"
      BY <1>3, <2>2 DEF CopiesAgree
    <3> QED
      BY <1>2, <1>4, <2>2, <3>1, <3>2 DEF Guarded
  <2> QED
    BY <2>1, <2>2
<1> QED
  BY <1>6, <1>7, <1>8, <1>9, <1>10, <1>11, <1>12

\* What the source does by itself keeps the invariant.
LEMMA SourceInv ==
  ASSUME CustodyInv, Source, UNCHANGED sharing
  PROVE  CustodyInv'
<1>1. PICK o \in Ops, n \in Numbers : Issue(o, n) \/ End(o, n) \/ Fail(o, n)
  BY DEF Source
<1>2. PICK from \in SUBSET {"ready", "running", "over"}, to \in Phases \ {"absent"} :
        Move(o, n, from, to)
  <2>1. CASE Issue(o, n)
    BY <2>1, {"ready"} \in SUBSET {"ready", "running", "over"} DEF Issue, Phases
  <2>2. CASE End(o, n)
    BY <2>2, {"ready", "running"} \in SUBSET {"ready", "running", "over"} DEF End, Phases
  <2>3. CASE Fail(o, n)
    BY <2>3, {"ready", "over"} \in SUBSET {"ready", "running", "over"} DEF Fail, Phases, Verdicts
  <2> QED
    BY <1>1, <2>1, <2>2, <2>3
<1>3. /\ attempt' \in [Ops -> [Numbers -> Phases]]
      /\ attempt[o][n] \in from /\ attempt'[o][n] = to
      /\ \A p \in Ops, k \in Numbers : p # o \/ k # n => attempt'[p][k] = attempt[p][k]
  BY SMT, <1>2, MoveTyped DEF CustodyInv
<1>4. Progress(o, n)
  BY <1>3, OpenReceipts DEF Source, Progress
<1>5. CustodyTypeOK' /\ Fenced'
  BY <1>3 DEF CustodyInv, CustodyTypeOK, Fenced, Source
<1> QED
  BY <1>4, <1>5, ProgressInv

\* Return keeps the invariant.
LEMMA ReturnInv ==
  ASSUME CustodyInv, NEW a \in Actors, Return(a), UNCHANGED sharing
  PROVE  CustodyInv'
<1> DEFINE o == inv[a].op
           n == inv[a].number
<1>1. inv[a] \in Busy /\ inv[a].step # "idle"
  BY BusyTyped DEF CustodyInv, Return
<1>2. PICK r \in Receipts : inv' = [inv EXCEPT ![a] = [inv[a] EXCEPT !.step = "receipt", !.report = r]]
  BY DEF Return, Receipts, Verdicts
<1>3. [inv[a] EXCEPT !.step = "receipt", !.report = r] \in Busy
  BY <1>1, <1>2 DEF Busy, Steps
<1>4. /\ inv' \in [Actors -> {Idle} \cup Busy]
      /\ inv'[a].step = "receipt" /\ inv'[a].number \in Numbers
      /\ inv'[a].op = inv[a].op /\ inv'[a].fence = inv[a].fence
      /\ \A b \in Actors \ {a} : inv'[b] = inv[b]
  BY <1>1, <1>2, <1>3 DEF CustodyInv, CustodyTypeOK, Busy, InvocationAgrees, Return
<1>5. Fenced'
  BY <1>1, <1>4, FencedStep DEF CustodyInv, Return, Fenced
<1>6. CASE UNCHANGED <<attempt, unpublished>>
  <2>1. CustodyTypeOK' /\ Quiet
    BY <1>4, <1>6 DEF CustodyInv, CustodyTypeOK, Quiet, Calm, Return, Busy
  <2> QED
    BY <1>5, <2>1, QuietInv
<1>7. ASSUME NEW from \in SUBSET {"ready", "running", "over"}, NEW to \in Phases \ {"absent"},
             Move(o, n, from, to),
             \/ UNCHANGED unpublished
             \/ unpublished' = unpublished \cup {o} /\ to = "succeeded"
      PROVE  CustodyInv'
  <2>1. o \in Ops /\ n \in Numbers
    BY <1>1 DEF CustodyInv, InvocationAgrees, Return, Busy
  <2>2. /\ attempt' \in [Ops -> [Numbers -> Phases]]
        /\ attempt[o][n] \in from /\ attempt'[o][n] = to
        /\ \A p \in Ops, k \in Numbers : p # o \/ k # n => attempt'[p][k] = attempt[p][k]
    BY SMT, <1>7, <2>1, MoveTyped DEF CustodyInv
  <2>3. Progress(o, n)
    BY <1>4, <1>7, <2>1, <2>2, OpenReceipts DEF Return, Progress, Calm
  <2>4. CustodyTypeOK'
    BY <1>4, <1>7, <2>1, <2>2 DEF CustodyInv, CustodyTypeOK, Return, Busy
  <2> QED
    BY <1>5, <2>1, <2>3, <2>4, ProgressInv
<1>8. CASE Succeed(o, n) /\ unpublished' = unpublished \cup {o}
  <2>1. Move(o, n, {"over"}, "succeeded")
    BY <1>8 DEF Succeed
  <2>2. {"over"} \in SUBSET {"ready", "running", "over"} /\ "succeeded" \in Phases \ {"absent"}
    BY DEF Phases, Verdicts
  <2> QED
    BY <1>7, <1>8, <2>1, <2>2
<1>9. CASE Fail(o, n) /\ UNCHANGED unpublished
  <2>1. Move(o, n, {"ready", "over"}, "retryable")
    BY <1>9 DEF Fail
  <2>2. {"ready", "over"} \in SUBSET {"ready", "running", "over"} /\ "retryable" \in Phases \ {"absent"}
    BY DEF Phases, Verdicts
  <2> QED
    BY <1>7, <1>9, <2>1, <2>2
<1> QED
  BY <1>6, <1>8, <1>9 DEF Return

-----------------------------------------------------------------------------
(* Numbering and journalling a query *)

\* A receipt is missing only where neither the journal nor the copies have one.
LEMMA MissingReceipt ==
  ASSUME CustodyTypeOK, NEW o \in Ops, NEW n \in Numbers
  PROVE  Merged(o, n) = "absent" => Fresh(o, n)
<1>1. attempt[o][n] \in Phases /\ \A p : Receipt(p) = "absent" => p = "absent"
  BY SMT DEF CustodyTypeOK, Receipt
<1> QED
  BY <1>1 DEF Merged, Fresh

\* Number keeps the invariant: only the invocation moves.
LEMMA NumberInv ==
  ASSUME CustodyInv, NEW a \in Actors, NEW n \in Numbers, Number(a, n), UNCHANGED sharing
  PROVE  CustodyInv'
<1> DEFINE o == inv[a].op
<1>1. inv[a] \in Busy /\ inv[a].step = "own" /\ o \in Ops
  BY BusyTyped DEF CustodyInv, Number, Busy
<1>2. [inv[a] EXCEPT !.step = "numbered", !.number = n] \in Busy
  BY <1>1 DEF Busy, Steps
<1>3. inv' = [inv EXCEPT ![a] = [inv[a] EXCEPT !.step = "numbered", !.number = n]]
  BY DEF Number
<1>4. /\ inv' \in [Actors -> {Idle} \cup Busy]
      /\ inv'[a].step = "numbered" /\ inv'[a].number = n
      /\ inv'[a].op = inv[a].op /\ inv'[a].fence = inv[a].fence
      /\ \A b \in Actors \ {a} : inv'[b] = inv[b]
  BY <1>1, <1>2, <1>3 DEF CustodyInv, CustodyTypeOK, Busy
<1>5. UNCHANGED <<attempt, run, aged, copies, fence, live, custody, unpublished, sharing>>
  BY DEF Number
<1>6. Fresh(o, n)
  <2>1. Merged(o, n) = "absent"
    BY SMT DEF Number, MayQuery, Numbers
  <2> QED
    BY <1>1, <2>1, MissingReceipt DEF CustodyInv
<1>7. \A b \in Actors : Reserving(b)' <=> Reserving(b)
  BY <1>1, <1>4, <1>5 DEF Reserving
<1>8. CustodyTypeOK' /\ CustodyCoversSource' /\ CopiesAgree' /\ RowAgrees'
  BY SMT, <1>4, <1>5 DEF CustodyInv, CustodyTypeOK, Busy, CustodyCoversSource, CopiesAgree, RowAgrees
<1>9. Fenced'
  BY <1>1, <1>4, <1>5, FencedStep DEF CustodyInv, Fenced
<1>10. ReservationKnown'
  <2>1. \A b \in Actors : Reserving(b)' => inv'[b] = inv[b]
    BY <1>4 DEF Reserving
  <2> QED
    BY <1>5, <1>7, <2>1 DEF CustodyInv, ReservationKnown, Fresh
<1>11. OwnerUndisturbed'
  <2>1. \A b \in Actors : Owns(b)' <=> Owns(b)
    BY <1>4, <1>5 DEF Owns
  <2>2. NoneReserving => NoneReserving'
    BY <1>7 DEF NoneReserving
  <2>3. ASSUME NEW b \in Actors \ {a}, inv[b].op \in sharing, Owns(b)
        PROVE  /\ inv'[b].step \in {"own", "numbered"} => NoneReserving'
               /\ inv'[b].step = "numbered" => Fresh(inv[b].op, inv[b].number)'
    BY <1>4, <1>5, <2>2, <2>3 DEF CustodyInv, OwnerUndisturbed, Fresh
  <2>4. ASSUME o \in sharing, Owns(a)
        PROVE  NoneReserving' /\ Fresh(inv[a].op, inv[a].number)'
    BY <1>1, <1>4, <1>5, <1>6, <2>2, <2>4 DEF CustodyInv, OwnerUndisturbed, Fresh
  <2> QED
    BY <1>4, <1>5, <2>1, <2>3, <2>4 DEF OwnerUndisturbed
<1>12. InvocationAgrees'
  BY <1>4 DEF CustodyInv, InvocationAgrees
<1>13. LossesGuarded'
  BY <1>5, <1>7 DEF CustodyInv, LossesGuarded, Guarded, NoneReserving
<1> QED
  BY <1>8, <1>9, <1>10, <1>11, <1>12, <1>13 DEF CustodyInv

\* The executor's BeginRead: only an attempt custody already records comes into doubt.
LEMMA JournalInv ==
  ASSUME CustodyInv, NEW a \in Actors, Journal(a), UNCHANGED sharing
  PROVE  CustodyInv'
<1> DEFINE o == inv[a].op
           n == inv[a].number
<1>1. inv[a] \in Busy /\ inv[a].step = "reserved" /\ o \in Ops /\ n \in Numbers
  BY BusyTyped DEF CustodyInv, Journal, Busy, InvocationAgrees
<1>2. UNCHANGED <<run, aged, copies, fence, live, custody, unpublished, sharing>>
  BY DEF Journal
<1>3. /\ attempt' \in [Ops -> [Numbers -> Phases]]
      /\ attempt'[o][n] = "ready"
      /\ \A p \in Ops, k \in Numbers : p # o \/ k # n =>
           \/ attempt'[p][k] = attempt[p][k]
           \/ attempt[p][k] \in Verdicts /\ attempt'[p][k] = "absent"
  BY SMT, <1>1, BeginTyped DEF CustodyInv, Journal
<1>4. /\ inv' \in [Actors -> {Idle} \cup Busy]
      /\ inv'[a].step = "reading" /\ inv'[a].number = n
      /\ inv'[a].op = inv[a].op /\ inv'[a].fence = inv[a].fence
      /\ \A b \in Actors \ {a} : inv'[b] = inv[b]
  BY <1>1, GotoTyped DEF CustodyInv, Journal, Steps
<1>5. o \in sharing =>
        /\ custody.owner = o /\ custody.number = n /\ custody.settlement = "unresolved"
        /\ copies[o][n] = "absent"
        /\ \A b \in Actors : Reserving(b) => b = a
        /\ ~NoneReserving
  BY <1>1 DEF CustodyInv, ReservationKnown, Reserving, Fresh, NoneReserving
<1>6. \A b \in Actors : Reserving(b)' => Reserving(b) /\ b # a
  BY <1>2, <1>4 DEF Reserving
<1>7. \A p \in Ops \ {o}, k \in Numbers : Fresh(p, k) => Fresh(p, k)'
  BY <1>2, <1>3 DEF Fresh, Verdicts
<1>8. CustodyTypeOK'
  BY <1>2, <1>3, <1>4 DEF CustodyInv, CustodyTypeOK, Busy
<1>9. Fenced'
  BY <1>1, <1>2, <1>4, FencedStep DEF CustodyInv, Fenced
<1>10. CustodyCoversSource'
  <2> SUFFICES ASSUME NEW p \in sharing, NEW k \in Numbers, Receipt(attempt'[p][k]) = "open"
               PROVE  /\ custody.owner = p /\ custody.number = k
                      /\ custody.settlement = "unresolved"
    BY <1>2 DEF CustodyCoversSource, Receipt
  <2>1. p \in Ops
    BY DEF CustodyInv, CustodyTypeOK
  <2>2. CASE p # o \/ k # n
    <3>1. attempt'[p][k] = attempt[p][k]
      BY <1>3, <2>1, <2>2, OpenReceipts
    <3> QED
      BY <3>1 DEF CustodyInv, CustodyCoversSource
  <2>3. CASE p = o /\ k = n
    BY <1>5, <2>3
  <2> QED
    BY <2>2, <2>3
<1>11. ReservationKnown'
  <2>1. ASSUME NEW b \in Actors, Reserving(b)'
        PROVE  /\ custody'.owner = inv'[b].op /\ custody'.number = inv'[b].number
               /\ custody'.settlement = "unresolved"
               /\ Fresh(inv[b].op, inv[b].number)'
    <3>1. Reserving(b) /\ b # a /\ inv'[b] = inv[b] /\ o \notin sharing
      BY <1>4, <1>5, <1>6, <2>1
    <3>2. inv[b].op \in Ops \ {o} /\ inv[b].number \in Numbers /\ Fresh(inv[b].op, inv[b].number)
      BY <3>1 DEF CustodyInv, CustodyTypeOK, Reserving, ReservationKnown, Fresh
    <3>3. Fresh(inv[b].op, inv[b].number)'
      BY <1>7, <3>1, <3>2 DEF Fresh
    <3> QED
      BY <1>2, <3>1, <3>3 DEF CustodyInv, ReservationKnown
  <2> QED
    BY <1>6, <2>1 DEF CustodyInv, ReservationKnown
<1>12. OwnerUndisturbed'
  <2> SUFFICES ASSUME NEW b \in Actors, inv'[b].op \in sharing', Owns(b)',
                      inv'[b].step \in {"own", "numbered"}
               PROVE  NoneReserving' /\ (inv'[b].step = "numbered" => Fresh(inv[b].op, inv[b].number)')
    BY DEF OwnerUndisturbed
  <2>1. b # a /\ inv'[b] = inv[b] /\ Owns(b) /\ inv[b].op \in sharing
    BY <1>2, <1>4 DEF Owns
  <2>2. NoneReserving /\ (inv[b].step = "numbered" => Fresh(inv[b].op, inv[b].number))
    BY <2>1 DEF CustodyInv, OwnerUndisturbed
  <2>3. NoneReserving'
    BY <1>6, <2>2 DEF NoneReserving
  <2>4. inv[b].op \in Ops \ {o}
    BY <1>5, <2>1, <2>2 DEF CustodyInv, CustodyTypeOK
  <2>5. inv[b].step = "numbered" => Fresh(inv[b].op, inv[b].number)'
    BY <1>7, <2>1, <2>2, <2>4 DEF Fresh
  <2> QED
    BY <2>1, <2>3, <2>5
<1>13. RowAgrees'
  BY <1>2 DEF CustodyInv, RowAgrees
<1>14. CopiesAgree'
  <2> SUFFICES ASSUME NEW p \in sharing, NEW k \in Numbers, copies[p][k] = "retryable"
               PROVE  attempt'[p][k] \in {"retryable", "absent"}
    BY <1>2 DEF CopiesAgree
  <2>1. p \in Ops /\ (p # o \/ k # n)
    BY <1>5 DEF CustodyInv, CustodyTypeOK
  <2> QED
    BY <1>3, <2>1 DEF CustodyInv, CopiesAgree
<1>15. InvocationAgrees'
  BY <1>1, <1>4 DEF CustodyInv, InvocationAgrees
<1>16. LossesGuarded'
  <2> SUFFICES ASSUME NEW p \in unpublished \cap sharing
               PROVE  Guarded(p)'
    BY <1>2 DEF LossesGuarded
  <2>1. Guarded(p) /\ p \in Ops
    BY DEF CustodyInv, LossesGuarded, CustodyTypeOK
  <2>2. p # o /\ NoneReserving'
    BY <1>5, <1>6, <2>1 DEF Guarded, NoneReserving
  <2>3. attempt'[p][custody.number] \in {"succeeded", "absent"}
    BY <1>3, <2>1, <2>2 DEF Guarded
  <2> QED
    BY <1>2, <2>1, <2>2, <2>3 DEF Guarded
<1> QED
  BY <1>8, <1>9, <1>10, <1>11, <1>12, <1>13, <1>14, <1>15, <1>16 DEF CustodyInv

-----------------------------------------------------------------------------
(* Custody that may be replaced or renumbered guards nothing *)

\* Some receipt of a run has the largest number.
LEMMA LastReceipt ==
  ASSUME NEW S \in SUBSET Numbers, S # {}
  PROVE  \E n \in S : \A k \in S : k <= n
<1> DEFINE R == {ss \in Nat \X Nat : ss[1] < ss[2]}
           T == {MaxReads - k : k \in S}
<1>1. IsWellFoundedOn(R, Nat)
  BY NatLessThanWellFounded DEF OpToRel
<1>2. T \subseteq Nat /\ T # {}
  <2>1. \A k \in S : MaxReads - k \in Nat
    BY SMT, CustodyAssumption DEF Numbers
  <2>2. PICK k : k \in S
    OBVIOUS
  <2>3. MaxReads - k \in T
    BY <2>2
  <2>4. T \subseteq Nat
    BY <2>1
  <2> QED
    BY <2>3, <2>4
<1>3. \E x \in T : \A y \in T : ~(<<y, x>> \in R)
  <2> HIDE DEF R, T
  <2> QED
    BY <1>1, <1>2, WFMin
<1>4. PICK x \in T : \A y \in T : x <= y
  <2>1. PICK x \in T : \A y \in T : ~(<<y, x>> \in R)
    BY <1>3
  <2>2. ASSUME NEW y \in T PROVE x <= y
    <3>1. x \in Nat /\ y \in Nat /\ ~(<<y, x>> \in R)
      BY <1>2, <2>1
    <3>2. y < x => <<y, x>> \in R
      BY <3>1
    <3> QED
      BY SMT, <3>1, <3>2
  <2> QED
    BY <2>2
<1>5. PICK n \in S : x = MaxReads - n
  BY <1>4
<1>6. ASSUME NEW k \in S PROVE k <= n
  <2>1. MaxReads - k \in T
    OBVIOUS
  <2> QED
    BY SMT, <1>4, <1>5, <2>1, CustodyAssumption DEF Numbers
<1> QED
  BY <1>6

\* The row an election leaves.
LEMMA ElectedTyped ==
  ASSUME CustodyTypeOK, NEW o \in Ops, NEW f \in Fences
  PROVE  /\ Elected(o, f) \in Rows
         /\ custody.owner # NoOp => Elected(o, f) = custody
         /\ custody.owner = NoOp =>
              /\ Elected(o, f).owner = o /\ Elected(o, f).ownerFence = f
              /\ Elected(o, f).settlement \in {"none", "unresolved"}
              /\ ~Elected(o, f).completed
<1> DEFINE taken == {n \in Numbers : Merged(o, n) # "absent"}
           last == IF taken = {} THEN 0 ELSE CHOOSE n \in taken : \A k \in taken : k <= n
<1>1. last \in Numbers \cup {0}
  <2>1. CASE taken # {}
    <3>1. \E n \in taken : \A k \in taken : k <= n
      BY <2>1, LastReceipt
    <3> QED
      BY <2>1, <3>1
  <2> QED
    BY <2>1
<1>2. custody \in Rows
  BY DEF CustodyTypeOK, Rows
<1>3. Elected(o, f) = IF custody.owner # NoOp THEN custody
        ELSE [owner |-> o, ownerFence |-> f, number |-> last,
              fence |-> IF last > 0 THEN f ELSE 0,
              settlement |-> IF last > 0 THEN "unresolved" ELSE "none", completed |-> FALSE]
  BY DEF Elected
<1> HIDE DEF last
<1>4. 0 \in Fences
  BY SMT, CustodyAssumption DEF Fences
<1> QED
  BY SMT, <1>1, <1>2, <1>3, <1>4 DEF Rows, Settlements

\* Settling changes nothing but the settlement of an unresolved reservation.
LEMMA SettleTyped ==
  ASSUME NEW c \in Rows
  PROVE  /\ Settle(c) \in Rows
         /\ Settle(c).owner = c.owner /\ Settle(c).ownerFence = c.ownerFence
         /\ Settle(c).number = c.number /\ Settle(c).completed = c.completed
         /\ Settle(c).settlement # c.settlement => c.number > 0 /\ c.settlement = "unresolved"
         /\ c.number > 0 /\ c.settlement = "unresolved" =>
              Settle(c).settlement = Settlement(Merged(c.owner, c.number))
<1>1. \A r : Settlement(r) \in {"successful", "retryable", "unresolved"}
  BY DEF Settlement
<1> QED
  BY <1>1 DEF Settle, Rows, Settlements

\* What a settlement says of the receipt it was read from.
LEMMA SettlementSays ==
  ASSUME CustodyTypeOK, NEW o \in Ops, NEW n \in Numbers
  PROVE  /\ Settlement(Merged(o, n)) = "retryable" =>
              \/ attempt[o][n] = "retryable"
              \/ attempt[o][n] = "absent" /\ copies[o][n] = "retryable"
         /\ Settlement(Merged(o, n)) # "unresolved" =>
              Receipt(attempt[o][n]) # "open" /\ ~Fresh(o, n)
<1>1. \A r : /\ Settlement(r) = "retryable" <=> r = "retryable"
             /\ r \in {"open", "absent"} => Settlement(r) = "unresolved"
  BY DEF Settlement
<1>2. attempt[o][n] \in Phases
  BY SMT DEF CustodyTypeOK
<1>3. /\ attempt[o][n] # "absent" => Merged(o, n) = Receipt(attempt[o][n])
      /\ attempt[o][n] = "absent" => Merged(o, n) = copies[o][n] /\ Receipt(attempt[o][n]) = "absent"
  BY DEF Merged, Receipt
<1>4. Receipt(attempt[o][n]) = "retryable" => attempt[o][n] = "retryable"
  BY <1>2 DEF Receipt
<1> QED
  BY <1>1, <1>3, <1>4 DEF Fresh

\* Nothing of the key is in doubt, in flight or lost.
Vacant ==
  /\ NoneReserving
  /\ \A o \in sharing, n \in Numbers : Receipt(attempt[o][n]) # "open"
  /\ unpublished \cap sharing = {}

\* Custody that may be replaced or renumbered guards nothing.
LEMMA ReplaceableIsVacant ==
  ASSUME CustodyInv, Replaceable(Settle(custody))
  PROVE  Vacant
<1>1. custody \in Rows
  BY DEF CustodyInv, CustodyTypeOK, Rows
<1>2. /\ Settle(custody).number = custody.number /\ Settle(custody).completed = custody.completed
      /\ Settle(custody).settlement # custody.settlement =>
           custody.number > 0 /\ custody.settlement = "unresolved"
      /\ custody.number > 0 /\ custody.settlement = "unresolved" =>
           Settle(custody).settlement = Settlement(Merged(custody.owner, custody.number))
  BY <1>1, SettleTyped
<1>3. ASSUME NEW o \in Ops, NEW n \in Numbers, custody.owner = o, custody.number = n,
             custody.settlement = "unresolved"
      PROVE  /\ Receipt(attempt[o][n]) # "open" /\ ~Fresh(o, n)
             /\ \/ attempt[o][n] = "retryable"
                \/ attempt[o][n] = "absent" /\ copies[o][n] = "retryable"
  <2>1. n > 0 /\ ~custody.completed
    BY SMT, <1>3 DEF CustodyInv, RowAgrees, Numbers
  <2>2. Settlement(Merged(o, n)) = "retryable"
    BY SMT, <1>1, <1>2, <1>3, <2>1 DEF Replaceable, Rows, Numbers
  <2> QED
    BY <2>2, SettlementSays DEF CustodyInv
<1>4. NoneReserving
  <2> SUFFICES ASSUME NEW b \in Actors, Reserving(b) PROVE FALSE
    BY DEF NoneReserving
  <2>1. /\ custody.owner = inv[b].op /\ custody.number = inv[b].number
        /\ custody.settlement = "unresolved" /\ Fresh(inv[b].op, inv[b].number)
    BY DEF CustodyInv, ReservationKnown
  <2>2. inv[b].op \in Ops /\ inv[b].number \in Numbers
    BY <2>1 DEF CustodyInv, CustodyTypeOK, Reserving, Fresh
  <2> QED
    BY <1>3, <2>1, <2>2
<1>5. ASSUME NEW o \in sharing, NEW n \in Numbers
      PROVE  Receipt(attempt[o][n]) # "open"
  <2>1. o \in Ops
    BY DEF CustodyInv, CustodyTypeOK
  <2> QED
    BY <1>3, <2>1 DEF CustodyInv, CustodyCoversSource
<1>6. ASSUME NEW o \in unpublished \cap sharing
      PROVE  FALSE
  <2>1. Guarded(o) /\ o \in Ops
    BY DEF CustodyInv, LossesGuarded, CustodyTypeOK
  <2>2. custody.settlement = "unresolved"
    BY SMT, <1>1, <1>2, <2>1 DEF Guarded, Replaceable, Numbers
  <2> QED
    BY <1>3, <2>1, <2>2 DEF Guarded
<1> QED
  BY <1>4, <1>5, <1>6 DEF Vacant

\* Vacant custody may be rewritten for an invocation that owns it, or reserves a fresh number.
Rewritten(a) ==
  /\ UNCHANGED <<attempt, copies, unpublished, sharing>>
  /\ \A b \in Actors \ {a} : inv'[b] = inv[b]
  /\ inv[a].step # "idle" /\ inv'[a].op = inv[a].op /\ inv'[a].number = inv[a].number
  /\ custody'.owner = inv[a].op /\ custody'.ownerFence = inv[a].fence
  /\ \/ inv'[a].step = "own"
     \/ /\ inv'[a].step = "reserved" /\ custody'.number = inv[a].number
        /\ custody'.settlement = "unresolved" /\ Fresh(inv[a].op, inv[a].number)

\* A custody row rewritten for a new owner or reservation keeps the invariant.
LEMMA RewrittenInv ==
  ASSUME CustodyInv, CustodyTypeOK', Fenced', RowAgrees', Vacant, NEW a \in Actors, Rewritten(a)
  PROVE  CustodyInv'
<1> USE DEF Rewritten
<1>1. CustodyCoversSource'
  BY DEF CustodyCoversSource, Vacant, Receipt
<1>2. \A b \in Actors : Reserving(b)' => b = a
  BY DEF Vacant, NoneReserving, Reserving
<1>3. ReservationKnown'
  BY <1>2 DEF ReservationKnown, Reserving, Fresh
<1>4. OwnerUndisturbed'
  <2> SUFFICES ASSUME NEW b \in Actors, inv'[b].op \in sharing', Owns(b)',
                      inv'[b].step \in {"own", "numbered"}
               PROVE  NoneReserving' /\ (inv'[b].step = "numbered" => Fresh(inv[b].op, inv[b].number)')
    BY DEF OwnerUndisturbed
  <2>1. b = a
    BY DEF Owns, CustodyInv, Fenced
  <2> QED
    BY <1>2, <2>1 DEF NoneReserving, Reserving
<1>5. CopiesAgree'
  BY DEF CustodyInv, CopiesAgree
<1>6. InvocationAgrees'
  BY DEF CustodyInv, InvocationAgrees, Fresh
<1>7. LossesGuarded'
  BY DEF LossesGuarded, Vacant
<1> QED
  BY <1>1, <1>3, <1>4, <1>5, <1>6, <1>7 DEF CustodyInv

-----------------------------------------------------------------------------
(* Electing an owner and reserving a query *)

\* A run that shares nothing goes on without custody.
LEMMA BypassInv ==
  ASSUME CustodyInv, CustodyTypeOK', Fenced', NEW a \in Actors,
         UNCHANGED <<attempt, copies, custody, run, unpublished, sharing>>,
         \A b \in Actors \ {a} : inv'[b] = inv[b],
         inv'[a].op \notin sharing, inv'[a].step \in {"own", "reserved"},
         inv'[a].step = "reserved" => inv'[a].number \in Numbers
  PROVE  CustodyInv'
<1> USE DEF CustodyInv
<1>1. \A b \in Actors : Reserving(b)' => b # a /\ Reserving(b)
  BY DEF Reserving
<1>2. NoneReserving => NoneReserving'
  BY <1>1 DEF NoneReserving
<1>3. CustodyCoversSource' /\ RowAgrees' /\ CopiesAgree' /\ InvocationAgrees'
  BY DEF CustodyCoversSource, RowAgrees, CopiesAgree, InvocationAgrees
<1>4. ReservationKnown'
  BY SMT, <1>1 DEF ReservationKnown, Fresh
<1>5. OwnerUndisturbed'
  BY <1>2 DEF OwnerUndisturbed, Owns, Fresh
<1>6. LossesGuarded'
  BY <1>2 DEF LossesGuarded, Guarded
<1> QED
  BY <1>3, <1>4, <1>5, <1>6

\* Recording a settlement the receipts already prove.
LEMMA SettledInv ==
  ASSUME CustodyInv, CustodyTypeOK', Fenced', NEW a \in Actors,
         UNCHANGED <<attempt, copies, run, unpublished, sharing>>,
         \A b \in Actors \ {a} : inv'[b] = inv[b], Calm(inv'[a]),
         custody.owner \in Ops, custody' = Settle(custody)
  PROVE  CustodyInv'
<1> USE DEF CustodyInv
<1>1. custody \in Rows
  BY DEF CustodyTypeOK, Rows
<1>2. /\ custody'.owner = custody.owner /\ custody'.ownerFence = custody.ownerFence
      /\ custody'.number = custody.number /\ custody'.completed = custody.completed
      /\ custody'.settlement # custody.settlement =>
           /\ custody.number > 0 /\ custody.settlement = "unresolved"
           /\ custody'.settlement = Settlement(Merged(custody.owner, custody.number))
  BY <1>1, SettleTyped
<1>3. custody'.settlement # custody.settlement =>
        /\ custody.settlement = "unresolved" /\ custody.number \in Numbers
        /\ custody'.settlement \in {"successful", "retryable"}
        /\ Receipt(attempt[custody.owner][custody.number]) # "open"
        /\ ~Fresh(custody.owner, custody.number)
        /\ custody'.settlement = "retryable" =>
             \/ attempt[custody.owner][custody.number] = "retryable"
             \/ /\ attempt[custody.owner][custody.number] = "absent"
                /\ copies[custody.owner][custody.number] = "retryable"
  <2> SUFFICES ASSUME custody'.settlement # custody.settlement
               PROVE  /\ custody.settlement = "unresolved" /\ custody.number \in Numbers
                      /\ custody'.settlement \in {"successful", "retryable"}
                      /\ Receipt(attempt[custody.owner][custody.number]) # "open"
                      /\ ~Fresh(custody.owner, custody.number)
                      /\ custody'.settlement = "retryable" =>
                           \/ attempt[custody.owner][custody.number] = "retryable"
                           \/ /\ attempt[custody.owner][custody.number] = "absent"
                              /\ copies[custody.owner][custody.number] = "retryable"
    OBVIOUS
  <2>1. custody.number \in Numbers
    BY SMT, <1>1, <1>2 DEF Rows
  <2>2. \A r : Settlement(r) \in {"successful", "retryable", "unresolved"}
    BY DEF Settlement
  <2> QED
    BY SMT, <1>2, <2>1, <2>2, SettlementSays
<1>4. \A b \in Actors : Reserving(b)' => b # a /\ Reserving(b)
  BY DEF Reserving, Calm
<1>5. NoneReserving => NoneReserving'
  BY <1>4 DEF NoneReserving
<1>6. CustodyCoversSource'
  BY <1>2, <1>3 DEF CustodyCoversSource, Receipt
<1>7. ReservationKnown'
  <2>1. ASSUME NEW b \in Actors, Reserving(b)'
        PROVE  /\ custody'.owner = inv'[b].op /\ custody'.number = inv'[b].number
               /\ custody'.settlement = "unresolved"
               /\ Fresh(inv[b].op, inv[b].number)'
    <3>1. b # a /\ inv'[b] = inv[b] /\ Reserving(b)
      BY <1>4, <2>1
    <3>2. /\ custody.owner = inv[b].op /\ custody.number = inv[b].number
          /\ custody.settlement = "unresolved" /\ Fresh(inv[b].op, inv[b].number)
      BY <3>1 DEF ReservationKnown
    <3> QED
      BY <1>2, <1>3, <3>1, <3>2 DEF Fresh
  <2> QED
    BY <1>4, <2>1 DEF ReservationKnown
<1>8. OwnerUndisturbed'
  BY <1>2, <1>5 DEF OwnerUndisturbed, Owns, Fresh, Calm
<1>9. RowAgrees'
  BY <1>2, <1>3, CustodyAssumption DEF RowAgrees
<1>10. CopiesAgree' /\ InvocationAgrees'
  BY DEF CopiesAgree, InvocationAgrees, Calm
<1>11. LossesGuarded'
  <2> SUFFICES ASSUME NEW p \in unpublished \cap sharing
               PROVE  Guarded(p)'
    BY DEF LossesGuarded
  <2>1. Guarded(p)
    BY DEF LossesGuarded
  <2>2. custody'.settlement \in {"unresolved", "successful", "retained"}
    BY <1>3, <2>1 DEF Guarded
  <2>3. custody'.settlement = "unresolved" => custody.settlement = "unresolved"
    BY <1>3
  <2> QED
    BY <1>2, <1>5, <2>1, <2>2, <2>3 DEF Guarded
<1> QED
  BY <1>6, <1>7, <1>8, <1>9, <1>10, <1>11

\* Elect keeps the invariant: custody is taken only from settled work.
LEMMA ElectInv ==
  ASSUME CustodyInv, NEW a \in Actors, Elect(a), UNCHANGED sharing
  PROVE  CustodyInv'
<1> DEFINE o == inv[a].op
           first == Elected(o, inv[a].fence)
           c == Settle(first)
<1>1. inv[a] \in Busy /\ inv[a].step = "elect" /\ o \in Ops /\ inv[a].fence \in Fences
  BY BusyTyped DEF CustodyInv, Elect, Busy
<1>2. UNCHANGED <<attempt, run, aged, copies, fence, live, unpublished, sharing>>
  BY DEF Elect
<1>3. /\ first \in Rows
      /\ custody.owner # NoOp => first = custody
      /\ custody.owner = NoOp =>
           /\ first.owner = o /\ first.ownerFence = inv[a].fence
           /\ first.settlement \in {"none", "unresolved"} /\ ~first.completed
  BY <1>1, ElectedTyped DEF CustodyInv
<1>4. custody \in Rows
  BY DEF CustodyInv, CustodyTypeOK, Rows
<1> HIDE DEF first
<1>5. /\ c \in Rows /\ c.owner = first.owner /\ c.number = first.number
      /\ c.completed = first.completed
      /\ c.settlement # first.settlement => first.settlement = "unresolved"
      /\ c.settlement = "retained" => first.settlement = "retained"
  <2>1. \A r : Settlement(r) # "retained"
    BY DEF Settlement
  <2> QED
    BY SMT, <1>3, <2>1, SettleTyped
<1>6. CASE Bypass(o) /\ Goto(a, "own")
  <2>1. UNCHANGED custody /\ o \notin sharing
    BY <1>6 DEF Bypass
  <2>2. /\ inv' \in [Actors -> {Idle} \cup Busy]
        /\ inv'[a].step = "own" /\ inv'[a].op = o /\ inv'[a].fence = inv[a].fence
        /\ \A b \in Actors \ {a} : inv'[b] = inv[b]
    BY <1>1, <1>6, GotoTyped DEF CustodyInv, Steps
  <2>3. CustodyTypeOK'
    BY <1>2, <2>1, <2>2 DEF CustodyInv, CustodyTypeOK, Busy
  <2>4. Fenced'
    BY <1>1, <1>2, <2>2, FencedStep DEF CustodyInv
  <2> QED
    BY <1>2, <2>1, <2>2, <2>3, <2>4, BypassInv
<1>7. CASE /\ o \in sharing /\ first.owner # o /\ Goto(a, "lookup")
           /\ custody' = IF live[first.owner] THEN first ELSE c
  <2>1. custody.owner \in Ops /\ first = custody
    BY <1>3, <1>4, <1>7 DEF Rows
  <2>2. /\ inv' \in [Actors -> {Idle} \cup Busy]
        /\ inv'[a].step = "lookup" /\ inv'[a].op = o /\ inv'[a].fence = inv[a].fence
        /\ \A b \in Actors \ {a} : inv'[b] = inv[b]
    BY <1>1, <1>7, GotoTyped DEF CustodyInv, Steps
  <2>3. Fenced'
    BY <1>1, <1>2, <2>2, FencedStep DEF CustodyInv
  <2>4. custody' \in Rows
    BY <1>3, <1>5, <1>7
  <2>5. CustodyTypeOK'
    BY <1>2, <2>2, <2>4 DEF CustodyInv, CustodyTypeOK, Busy, Rows
  <2>6. CASE custody' = custody
    <3>1. Quiet
      BY <1>2, <2>2, <2>6 DEF Quiet, Calm
    <3> QED
      BY <2>3, <2>5, <3>1, QuietInv
  <2>7. CASE custody' = Settle(custody)
    <3>1. Calm(inv'[a])
      BY <2>2 DEF Calm
    <3> QED
      BY <1>2, <2>1, <2>2, <2>3, <2>5, <2>7, <3>1, SettledInv
  <2> QED
    BY <1>7, <2>1, <2>6, <2>7
<1>8. CASE /\ o \in sharing /\ Goto(a, "own") /\ Replaceable(c)
           /\ custody' = IF first.owner # o
                         THEN [NoCustody EXCEPT !.owner = o, !.ownerFence = inv[a].fence]
                         ELSE [c EXCEPT !.ownerFence = inv[a].fence]
  <2>1. Vacant
    <3>1. CASE custody.owner # NoOp
      BY <1>3, <1>8, <3>1, ReplaceableIsVacant
    <3>2. CASE custody.owner = NoOp
      <4>1. custody = NoCustody
        BY <3>2 DEF CustodyInv, RowAgrees
      <4>2. Replaceable(Settle(custody))
        BY <4>1 DEF Replaceable, Settle, NoCustody
      <4> QED
        BY <4>2, ReplaceableIsVacant
    <3> QED
      BY <3>1, <3>2
  <2>2. /\ inv' \in [Actors -> {Idle} \cup Busy]
        /\ inv'[a].step = "own" /\ inv'[a].op = o /\ inv'[a].fence = inv[a].fence
        /\ inv'[a].number = inv[a].number
        /\ \A b \in Actors \ {a} : inv'[b] = inv[b]
    BY <1>1, <1>8, GotoTyped DEF CustodyInv, Steps
  <2>3. Fenced'
    BY <1>1, <1>2, <2>2, FencedStep DEF CustodyInv
  <2>4. /\ custody' \in Rows /\ custody'.owner = o /\ custody'.ownerFence = inv[a].fence
        /\ \/ custody'.settlement = "none" /\ ~custody'.completed
           \/ custody'.settlement = c.settlement /\ custody'.completed = c.completed
              /\ first.owner = o
    <3>1. CASE first.owner # o
      <4>1. custody' = [NoCustody EXCEPT !.owner = o, !.ownerFence = inv[a].fence]
        BY <1>8, <3>1
      <4>2. 0 \in Fences
        BY SMT, CustodyAssumption DEF Fences
      <4> QED
        BY <1>1, <4>1, <4>2 DEF NoCustody, Rows, Settlements
    <3>2. CASE first.owner = o
      <4>1. custody' = [c EXCEPT !.ownerFence = inv[a].fence]
        BY <1>8, <3>2
      <4> HIDE DEF c
      <4> QED
        BY <1>1, <1>5, <3>2, <4>1 DEF Rows
    <3> QED
      BY <3>1, <3>2
  <2>5. CustodyTypeOK'
    BY <1>2, <2>2, <2>4 DEF CustodyInv, CustodyTypeOK, Busy, Rows
  <2>6. RowAgrees'
    <3>1. o # NoOp
      BY <1>1, CustodyAssumption
    <3>2. first.completed => first.settlement = "retained"
      BY <1>3 DEF CustodyInv, RowAgrees
    <3>3. first.settlement = "retained" /\ first.owner = o => run[o] # "sealed"
      BY <1>3 DEF CustodyInv, RowAgrees
    <3> HIDE DEF c
    <3>4. custody'.completed => custody'.settlement = "retained"
      BY <1>5, <2>4, <3>2
    <3>5. custody'.settlement = "retained" => run[o] # "sealed"
      BY <1>5, <2>4, <3>3
    <3> QED
      BY <1>2, <2>4, <3>1, <3>4, <3>5 DEF RowAgrees
  <2>7. Rewritten(a)
    BY <1>1, <1>2, <2>2, <2>4 DEF Rewritten
  <2> QED
    BY <2>1, <2>3, <2>5, <2>6, <2>7, RewrittenInv
<1> QED
  BY <1>6, <1>7, <1>8 DEF Elect, first

\* Reserve keeps the invariant: the row settles what came before.
LEMMA ReserveInv ==
  ASSUME CustodyInv, NEW a \in Actors, Reserve(a), UNCHANGED sharing
  PROVE  CustodyInv'
<1> DEFINE o == inv[a].op
           c == Settle(custody)
<1>1. /\ inv[a] \in Busy /\ inv[a].step = "numbered" /\ o \in Ops
      /\ inv[a].fence \in Fences /\ inv[a].number \in Numbers
  BY BusyTyped DEF CustodyInv, Reserve, Busy, InvocationAgrees
<1>2. UNCHANGED <<attempt, run, aged, copies, fence, live, unpublished, sharing>>
  BY DEF Reserve
<1>3. custody \in Rows
  BY DEF CustodyInv, CustodyTypeOK, Rows
<1>4. /\ inv' \in [Actors -> {Idle} \cup Busy]
      /\ inv'[a].step = "reserved" /\ inv'[a].op = o /\ inv'[a].fence = inv[a].fence
      /\ inv'[a].number = inv[a].number
      /\ \A b \in Actors \ {a} : inv'[b] = inv[b]
  BY <1>1, GotoTyped DEF CustodyInv, Steps, Reserve
<1>5. Fenced'
  BY <1>1, <1>2, <1>4, FencedStep DEF CustodyInv
<1>6. CASE Bypass(o)
  <2>1. UNCHANGED custody /\ o \notin sharing
    BY <1>6 DEF Bypass
  <2>2. CustodyTypeOK'
    BY <1>2, <1>4, <2>1 DEF CustodyInv, CustodyTypeOK, Busy
  <2> QED
    BY <1>1, <1>2, <1>4, <1>5, <2>1, <2>2, BypassInv
<1>7. CASE /\ o \in sharing /\ Owns(a)
           /\ c.number = 0 \/ c.settlement = "retryable"
           /\ inv[a].number = c.number + 1
           /\ custody' = [c EXCEPT !.number = @ + 1, !.fence = inv[a].fence,
                                   !.settlement = "unresolved", !.completed = FALSE]
  <2>1. Vacant
    BY <1>7, ReplaceableIsVacant DEF Replaceable
  <2>2. c \in Rows /\ c.owner = custody.owner /\ c.ownerFence = custody.ownerFence
    BY <1>3, SettleTyped
  <2>3. Fresh(o, inv[a].number)
    BY <1>1, <1>7 DEF CustodyInv, OwnerUndisturbed
  <2> HIDE DEF c
  <2>4. /\ custody' \in Rows /\ custody'.owner = o /\ custody'.ownerFence = inv[a].fence
        /\ custody'.number = inv[a].number /\ custody'.settlement = "unresolved"
        /\ ~custody'.completed
    BY <1>1, <1>7, <2>2 DEF Rows, Settlements, Owns
  <2>5. CustodyTypeOK'
    BY <1>2, <1>4, <2>4 DEF CustodyInv, CustodyTypeOK, Busy, Rows
  <2>6. RowAgrees'
    BY <1>1, <2>4, CustodyAssumption DEF RowAgrees
  <2>7. Rewritten(a)
    BY <1>1, <1>2, <1>4, <2>3, <2>4 DEF Rewritten
  <2> QED
    BY <1>5, <2>1, <2>5, <2>6, <2>7, RewrittenInv
<1> QED
  BY <1>6, <1>7 DEF Reserve

-----------------------------------------------------------------------------
(* Checkpoints *)

\* The journal's receipt of the invocation's query is copied; custody follows its verdict s.
Receipted(a, s) ==
  LET o == inv[a].op
      n == inv[a].number
      r == inv[a].report
  IN
  /\ n \in Numbers /\ r \in Receipts \ {"absent"} /\ Receipt(attempt[o][n]) = r
  /\ UNCHANGED <<attempt, unpublished, sharing>>
  /\ copies' = [copies EXCEPT ![o][n] = r]
  /\ o \notin sharing => UNCHANGED custody
  /\ o \in sharing => /\ Owns(a) /\ custody.number = n
                      /\ custody' = [custody EXCEPT !.settlement = s]
  /\ r = "open" => s = "unresolved"
  /\ r = "retryable" => s = "retryable"
  /\ r = "succeeded" => s \in {"successful", "retained"}
  /\ s = "retained" => run'[o] # "sealed"
  /\ run[o] = "sealed" /\ \A p \in Ops : run[p] # "sealed" => run'[p] # "sealed"
  /\ \A b \in Actors \ {a} : inv'[b] = inv[b]
  /\ \/ Calm(inv'[a])
     \/ inv'[a].step = "values" /\ inv'[a].number = n /\ inv'[a].report = "succeeded"

\* A receipt written into the row keeps the invariant.
LEMMA ReceiptedInv ==
  ASSUME CustodyInv, CustodyTypeOK', Fenced', NEW a \in Actors, inv[a] \in Busy,
         NEW s \in Settlements, Receipted(a, s)
  PROVE  CustodyInv'
<1> DEFINE o == inv[a].op
           n == inv[a].number
           r == inv[a].report
<1> USE DEF CustodyInv
<1>1. /\ o \in Ops /\ n \in Numbers /\ r # "absent" /\ Receipt(attempt[o][n]) = r
      /\ UNCHANGED <<attempt, unpublished, sharing>>
      /\ \A b \in Actors \ {a} : inv'[b] = inv[b]
  BY DEF Receipted, Busy
<1>2. attempt[o][n] \in Phases \ {"absent"}
  BY SMT, <1>1 DEF Receipt, CustodyTypeOK
<1>3. /\ r = "retryable" => attempt[o][n] = "retryable"
      /\ attempt[o][n] = "succeeded" => r = "succeeded"
  BY <1>1, <1>2 DEF Receipt
<1>4. copies'[o][n] = r /\ \A p \in Ops, k \in Numbers : p # o \/ k # n => copies'[p][k] = copies[p][k]
  BY <1>1 DEF Receipted, CustodyTypeOK
<1>5. o \in sharing =>
        /\ Owns(a) /\ custody.owner = o /\ custody.number = n /\ custody.settlement # "retained"
        /\ ~custody.completed
        /\ custody'.owner = custody.owner /\ custody'.ownerFence = custody.ownerFence
        /\ custody'.number = custody.number /\ custody'.completed = custody.completed
        /\ custody'.settlement = s
  BY DEF Receipted, Owns, RowAgrees, CustodyTypeOK
<1>6. o \notin sharing => custody' = custody
  BY DEF Receipted
<1>7. \A b \in Actors : Reserving(b)' => b # a /\ inv'[b] = inv[b] /\ Reserving(b) /\ o \notin sharing
  <2> SUFFICES ASSUME NEW b \in Actors, Reserving(b)'
               PROVE  b # a /\ inv'[b] = inv[b] /\ Reserving(b) /\ o \notin sharing
    OBVIOUS
  <2>1. b # a
    BY DEF Receipted, Calm, Reserving
  <2>2. inv'[b] = inv[b] /\ Reserving(b)
    BY <1>1, <2>1 DEF Reserving
  <2>3. o \in sharing => FALSE
    BY <1>2, <1>5, <2>2 DEF ReservationKnown, Fresh
  <2> QED
    BY <2>1, <2>2, <2>3
<1>8. \A p \in Ops \ {o}, k \in Numbers : Fresh(p, k) => Fresh(p, k)'
  BY <1>1, <1>4 DEF Fresh
<1>9. CustodyCoversSource'
  <2> SUFFICES ASSUME NEW p \in sharing, NEW k \in Numbers, Receipt(attempt[p][k]) = "open"
               PROVE  /\ custody'.owner = p /\ custody'.number = k
                      /\ custody'.settlement = "unresolved"
    BY <1>1 DEF CustodyCoversSource, Receipt
  <2>1. custody.owner = p /\ custody.number = k /\ custody.settlement = "unresolved"
    BY DEF CustodyCoversSource
  <2>2. o \in sharing => s = "unresolved"
    BY <1>1, <1>5, <2>1 DEF Receipted
  <2> QED
    BY <1>5, <1>6, <2>1, <2>2
<1>10. ReservationKnown'
  <2>1. ASSUME NEW b \in Actors, Reserving(b)'
        PROVE  /\ custody'.owner = inv'[b].op /\ custody'.number = inv'[b].number
               /\ custody'.settlement = "unresolved"
               /\ Fresh(inv[b].op, inv[b].number)'
    <3>1. inv'[b] = inv[b] /\ Reserving(b) /\ custody' = custody /\ inv[b].op # o
      BY <1>6, <1>7, <2>1 DEF Reserving
    <3>2. inv[b].op \in Ops /\ inv[b].number \in Numbers /\ Fresh(inv[b].op, inv[b].number)
      BY <3>1 DEF CustodyTypeOK, Reserving, ReservationKnown, Fresh
    <3>3. Fresh(inv[b].op, inv[b].number)'
      BY <1>8, <3>1, <3>2 DEF Fresh
    <3> QED
      BY <3>1, <3>3 DEF ReservationKnown
  <2> QED
    BY <1>7, <2>1 DEF ReservationKnown
<1>11. OwnerUndisturbed'
  <2> SUFFICES ASSUME NEW b \in Actors, inv'[b].op \in sharing', Owns(b)',
                      inv'[b].step \in {"own", "numbered"}
               PROVE  NoneReserving' /\ (inv'[b].step = "numbered" => Fresh(inv[b].op, inv[b].number)')
    BY DEF OwnerUndisturbed
  <2>1. b # a
    BY DEF Receipted, Calm
  <2>2. inv'[b] = inv[b] /\ Owns(b) /\ inv[b].op \in sharing
    BY <1>1, <1>5, <1>6, <2>1 DEF Owns
  <2>3. o \notin sharing
    BY <1>5, <2>1, <2>2, IdleStep DEF Owns, Fenced
  <2>4. NoneReserving /\ (inv[b].step = "numbered" => Fresh(inv[b].op, inv[b].number))
    BY <2>2 DEF OwnerUndisturbed
  <2>5. inv[b].op \in Ops \ {o}
    BY <2>2, <2>3 DEF CustodyTypeOK
  <2>6. inv[b].step = "numbered" => Fresh(inv[b].op, inv[b].number)'
    BY <1>8, <2>2, <2>4, <2>5 DEF Fresh
  <2> QED
    BY <1>7, <2>2, <2>4, <2>6 DEF NoneReserving
<1>12. RowAgrees'
  <2>1. CASE o \in sharing
    BY SMT, <1>1, <1>5, <2>1, CustodyAssumption DEF RowAgrees, Receipted
  <2>2. CASE o \notin sharing
    <3>1. custody.settlement = "retained" => custody.owner \in Ops
      BY SMT DEF RowAgrees, NoCustody, CustodyTypeOK
    <3> QED
      BY <1>6, <2>2, <3>1 DEF RowAgrees, Receipted
  <2> QED
    BY <2>1, <2>2
<1>13. CopiesAgree'
  <2> SUFFICES ASSUME NEW p \in sharing, NEW k \in Numbers, copies'[p][k] = "retryable"
               PROVE  attempt[p][k] \in {"retryable", "absent"}
    BY <1>1 DEF CopiesAgree
  <2>1. p \in Ops
    BY DEF CustodyTypeOK
  <2> QED
    BY <1>3, <1>4, <2>1 DEF CopiesAgree
<1>14. InvocationAgrees'
  BY SMT, <1>1 DEF InvocationAgrees, Receipted, Calm
<1>15. LossesGuarded'
  <2> SUFFICES ASSUME NEW p \in unpublished \cap sharing
               PROVE  Guarded(p)'
    BY <1>1 DEF LossesGuarded
  <2>1. Guarded(p) /\ p \in Ops
    BY DEF LossesGuarded, CustodyTypeOK
  <2>2. NoneReserving'
    BY <1>7, <2>1 DEF Guarded, NoneReserving
  <2>3. CASE o \in sharing
    <3>1. p = o /\ custody.number = n /\ r = "succeeded"
      BY <1>2, <1>3, <1>5, <2>1, <2>3 DEF Guarded
    <3>2. s \in {"successful", "retained"}
      BY <3>1 DEF Receipted
    <3> QED
      BY <1>1, <1>5, <2>1, <2>2, <2>3, <3>1, <3>2 DEF Guarded
  <2>4. CASE o \notin sharing
    <3>1. p # o /\ custody' = custody
      BY <1>6, <2>4
    <3>2. copies'[p][custody.number] = copies[p][custody.number]
      BY <1>4, <2>1, <3>1 DEF Guarded
    <3> QED
      BY <1>1, <2>1, <2>2, <3>1, <3>2 DEF Guarded
  <2> QED
    BY <2>3, <2>4
<1> QED
  BY <1>9, <1>10, <1>11, <1>12, <1>13, <1>14, <1>15

\* A copied receipt keeps the shape of the copies.
LEMMA CopiesTyped ==
  ASSUME CustodyTypeOK, NEW o \in Ops, NEW n \in Numbers, NEW r \in Receipts
  PROVE  [copies EXCEPT ![o][n] = r] \in [Ops -> [Numbers -> Receipts]]
  BY DEF CustodyTypeOK

\* SettleOwn writes one settlement.
LEMMA SettleOwnTyped ==
  ASSUME CustodyInv, NEW a \in Actors, NEW s \in Settlements, SettleOwn(a, s),
         run[inv[a].op] = "sealed"
  PROVE  /\ custody' \in Rows
         /\ inv[a].op \notin sharing => UNCHANGED custody
         /\ inv[a].op \in sharing => /\ Owns(a) /\ custody.number = inv[a].number
                                     /\ custody' = [custody EXCEPT !.settlement = s]
<1>1. custody \in Rows
  BY DEF CustodyInv, CustodyTypeOK, Rows
<1>2. inv[a].op \in sharing => custody.settlement # "retained"
  BY DEF CustodyInv, RowAgrees, SettleOwn, Owns
<1> QED
  BY <1>1, <1>2 DEF SettleOwn, Rows

\* CheckpointAttempt keeps the invariant.
LEMMA CheckpointAttemptInv ==
  ASSUME CustodyInv, NEW a \in Actors, CheckpointAttempt(a), UNCHANGED sharing
  PROVE  CustodyInv'
<1> DEFINE o == inv[a].op
           n == inv[a].number
           r == inv[a].report
           s == Settlement(r)
<1>1. /\ inv[a] \in Busy /\ inv[a].step = "receipt" /\ o \in Ops /\ n \in Numbers
      /\ r \in Receipts \ {"absent"} /\ run[o] = "sealed"
  BY BusyTyped DEF CustodyInv, CheckpointAttempt, Busy, InvocationAgrees, Current
<1>2. UNCHANGED <<attempt, run, aged, fence, unpublished, sharing>>
  BY DEF CheckpointAttempt
<1>3. /\ s \in Settlements /\ s # "retained" /\ (r = "open" => s = "unresolved")
      /\ (r = "retryable" => s = "retryable") /\ (r = "succeeded" => s = "successful")
  BY DEF Settlement, Settlements
<1>4. /\ custody' \in Rows
      /\ o \notin sharing => UNCHANGED custody
      /\ o \in sharing => /\ Owns(a) /\ custody.number = n
                          /\ custody' = [custody EXCEPT !.settlement = s]
  BY <1>1, <1>3, SettleOwnTyped DEF CheckpointAttempt
<1>5. Receipt(attempt[o][n]) = r /\ copies' = [copies EXCEPT ![o][n] = r]
  BY DEF CheckpointAttempt, CopyReceipt
<1>6. /\ inv' \in [Actors -> {Idle} \cup Busy]
      /\ \A b \in Actors \ {a} : inv'[b] = inv[b]
      /\ \/ inv'[a].step = "idle"
         \/ /\ inv'[a].step = "values" /\ inv'[a].number = n /\ inv'[a].report = "succeeded"
            /\ inv'[a].op = o /\ inv'[a].fence = inv[a].fence
  <2>1. CASE r = "succeeded" /\ Goto(a, "values")
    BY <1>1, <2>1, GotoTyped DEF CustodyInv, Steps
  <2>2. CASE Leave(a)
    BY <2>2, LeaveTyped DEF CustodyInv
  <2> QED
    BY <2>1, <2>2 DEF CheckpointAttempt
<1>7. Fenced'
  BY <1>1, <1>2, <1>6, FencedStep DEF CustodyInv, Fenced
<1>8. live' \in [Ops -> BOOLEAN] /\ copies' \in [Ops -> [Numbers -> Receipts]]
  BY <1>1, <1>5, CopiesTyped DEF CustodyInv, CustodyTypeOK, CheckpointAttempt
<1>9. CustodyTypeOK'
  BY <1>2, <1>4, <1>6, <1>8 DEF CustodyInv, CustodyTypeOK, Busy, Rows
<1>10. Receipted(a, s)
  BY <1>1, <1>2, <1>3, <1>4, <1>5, <1>6 DEF Receipted, Calm
<1> QED
  BY <1>1, <1>3, <1>7, <1>9, <1>10, ReceiptedInv

\* CheckpointResult keeps the invariant.
LEMMA CheckpointResultInv ==
  ASSUME CustodyInv, NEW a \in Actors, CheckpointResult(a), UNCHANGED sharing
  PROVE  CustodyInv'
<1> DEFINE o == inv[a].op
           n == inv[a].number
           r == inv[a].report
<1>1. /\ inv[a] \in Busy /\ inv[a].step = "values" /\ o \in Ops /\ n \in Numbers
      /\ r = "succeeded" /\ r \in Receipts \ {"absent"} /\ run[o] = "sealed"
  BY BusyTyped DEF CustodyInv, CheckpointResult, Busy, InvocationAgrees, Current
<1>2. UNCHANGED <<attempt, aged, fence, live, unpublished, sharing>>
  BY DEF CheckpointResult
<1>3. /\ custody' \in Rows
      /\ o \notin sharing => UNCHANGED custody
      /\ o \in sharing => /\ Owns(a) /\ custody.number = n
                          /\ custody' = [custody EXCEPT !.settlement = "retained"]
  BY <1>1, SettleOwnTyped DEF CheckpointResult, Settlements
<1>4. Receipt(attempt[o][n]) = r /\ copies' = [copies EXCEPT ![o][n] = r]
  BY DEF CheckpointResult, CopyReceipt
<1>5. /\ inv' \in [Actors -> {Idle} \cup Busy] /\ inv'[a].step = "outputs"
      /\ inv'[a].op = o /\ inv'[a].fence = inv[a].fence
      /\ \A b \in Actors \ {a} : inv'[b] = inv[b]
  BY <1>1, GotoTyped DEF CustodyInv, CheckpointResult, Steps
<1>6. Fenced'
  BY <1>1, <1>2, <1>5, FencedStep DEF CustodyInv, Fenced
<1>7. /\ run' \in [Ops -> States] /\ run'[o] = "normalized"
      /\ \A p \in Ops : run[p] # "sealed" => run'[p] # "sealed"
  BY <1>1 DEF CustodyInv, CustodyTypeOK, CheckpointResult, States
<1>8. copies' \in [Ops -> [Numbers -> Receipts]]
  BY <1>1, <1>4, CopiesTyped DEF CustodyInv
<1>9. CustodyTypeOK'
  BY <1>2, <1>3, <1>5, <1>7, <1>8 DEF CustodyInv, CustodyTypeOK, Busy, Rows
<1>10. Receipted(a, "retained")
  BY <1>1, <1>2, <1>3, <1>4, <1>5, <1>7 DEF Receipted, Calm
<1> QED
  BY <1>1, <1>6, <1>9, <1>10, ReceiptedInv DEF Settlements

\* Retained values become outputs and an artifact; only an artifact ends the guard.
Concluded(a) ==
  LET o == inv[a].op IN
  /\ UNCHANGED <<attempt, copies, sharing>> /\ unpublished' \subseteq unpublished
  /\ \A p \in Ops : run[p] # "sealed" => run'[p] # "sealed"
  /\ \A b \in Actors \ {a} : inv'[b] = inv[b]
  /\ Calm(inv'[a])
  /\ \/ UNCHANGED custody
     \/ /\ o \in sharing /\ custody.owner = o /\ custody.settlement = "retained"
        /\ \E x \in BOOLEAN :
             /\ custody' = [custody EXCEPT !.ownerFence = inv[a].fence, !.completed = x]
             /\ x => custody.completed \/ o \notin unpublished'

\* A run that ends keeps the invariant.
LEMMA ConcludedInv ==
  ASSUME CustodyInv, CustodyTypeOK', Fenced', NEW a \in Actors, inv[a] \in Busy,
         Concluded(a)
  PROVE  CustodyInv'
<1> DEFINE o == inv[a].op
<1> USE DEF CustodyInv
<1>1. \A b \in Actors : Reserving(b)' => b # a /\ inv'[b] = inv[b] /\ Reserving(b)
  BY DEF Reserving, Calm, Concluded
<1>2. NoneReserving => NoneReserving'
  BY <1>1 DEF NoneReserving
<1>3. /\ custody'.owner = custody.owner /\ custody'.number = custody.number
      /\ custody'.settlement = custody.settlement
      /\ custody' = custody \/ /\ o \in sharing /\ custody.owner = o
                               /\ custody'.ownerFence = inv[a].fence
                               /\ custody.settlement = "retained"
                               /\ custody'.completed => custody.completed \/ o \notin unpublished'
  BY DEF Concluded, CustodyTypeOK
<1>4. UNCHANGED <<attempt, copies, sharing>>
  BY DEF Concluded
<1>5. CustodyCoversSource' /\ CopiesAgree'
  BY <1>3, <1>4 DEF CustodyCoversSource, CopiesAgree
<1>10. ReservationKnown'
  <2>1. ASSUME NEW b \in Actors, Reserving(b)'
        PROVE  /\ custody'.owner = inv'[b].op /\ custody'.number = inv'[b].number
               /\ custody'.settlement = "unresolved"
               /\ Fresh(inv[b].op, inv[b].number)'
    BY SMT, <1>1, <1>3, <1>4, <2>1 DEF ReservationKnown, Fresh
  <2> QED
    BY <1>1, <2>1 DEF ReservationKnown
<1>6. OwnerUndisturbed'
  <2> SUFFICES ASSUME NEW b \in Actors, inv'[b].op \in sharing', Owns(b)',
                      inv'[b].step \in {"own", "numbered"}
               PROVE  NoneReserving' /\ (inv'[b].step = "numbered" => Fresh(inv[b].op, inv[b].number)')
    BY DEF OwnerUndisturbed
  <2>1. b # a /\ inv'[b] = inv[b] /\ sharing' = sharing
    BY DEF Concluded, Calm
  <2>2. custody' = custody
    BY <1>3, <2>1, IdleStep DEF Owns, Fenced
  <2>3. Owns(b)
    BY <2>1, <2>2 DEF Owns
  <2> QED
    BY <1>2, <2>1, <2>3 DEF OwnerUndisturbed, Fresh, Concluded
<1>7. RowAgrees'
  <2>1. custody.settlement = "retained" => custody.owner \in Ops
    BY SMT DEF RowAgrees, NoCustody, CustodyTypeOK
  <2>2. custody'.settlement = "retained" => run'[custody'.owner] # "sealed"
    BY <1>3, <2>1 DEF RowAgrees, Concluded
  <2>3. custody'.completed => custody'.settlement = "retained"
    BY <1>3 DEF RowAgrees
  <2>4. custody'.owner = NoOp => custody' = NoCustody
    BY <1>3, CustodyAssumption DEF RowAgrees, CustodyTypeOK
  <2> QED
    BY <2>2, <2>3, <2>4 DEF RowAgrees
<1>8. InvocationAgrees'
  BY DEF InvocationAgrees, Concluded, Calm
<1>9. LossesGuarded'
  <2> SUFFICES ASSUME NEW p \in unpublished' \cap sharing
               PROVE  Guarded(p)'
    BY DEF LossesGuarded, Concluded
  <2>1. Guarded(p)
    BY DEF LossesGuarded, Concluded
  <2>2. ~custody'.completed
    BY <1>3, <2>1 DEF Guarded
  <2> QED
    BY <1>2, <1>3, <2>1, <2>2 DEF Guarded, Concluded
<1> QED
  BY <1>5, <1>6, <1>7, <1>8, <1>9, <1>10

\* CheckpointOutput keeps the invariant.
LEMMA CheckpointOutputInv ==
  ASSUME CustodyInv, NEW a \in Actors, CheckpointOutput(a), UNCHANGED sharing
  PROVE  CustodyInv'
<1>1. /\ inv[a] \in Busy /\ inv[a].step = "outputs" /\ inv[a].fence \in Fences
      /\ custody.completed \in BOOLEAN
  BY BusyTyped DEF CustodyInv, CustodyTypeOK, CheckpointOutput, Busy
<1>2. /\ UNCHANGED <<attempt, run, aged, copies, fence, live, inv, unpublished, sharing>>
      /\ inv[a].op \in sharing /\ custody.owner = inv[a].op /\ custody.settlement = "retained"
      /\ custody' = [custody EXCEPT !.ownerFence = inv[a].fence]
  BY DEF CheckpointOutput
<1>3. custody' = [custody EXCEPT !.ownerFence = inv[a].fence, !.completed = custody.completed]
  BY <1>2 DEF CustodyInv, CustodyTypeOK
<1>4. CustodyTypeOK'
  BY <1>1, <1>2 DEF CustodyInv, CustodyTypeOK
<1>5. Fenced'
  BY <1>2 DEF CustodyInv, Fenced
<1>6. Concluded(a)
  BY <1>1, <1>2, <1>3 DEF Concluded, Calm
<1> QED
  BY <1>1, <1>4, <1>5, <1>6, ConcludedInv

\* CheckpointComplete keeps the invariant.
LEMMA CheckpointCompleteInv ==
  ASSUME CustodyInv, NEW a \in Actors, NEW outcome \in {"succeeded", "partial", "failed"},
         CheckpointComplete(a, outcome), UNCHANGED sharing
  PROVE  CustodyInv'
<1> DEFINE o == inv[a].op
           x == outcome = "succeeded"
<1>1. inv[a] \in Busy /\ o \in Ops /\ inv[a].fence \in Fences
  BY BusyTyped DEF CustodyInv, CheckpointComplete, Busy
<1>2. /\ UNCHANGED <<attempt, aged, copies, fence, sharing>>
      /\ run' = [run EXCEPT ![o] = outcome] /\ live' = [live EXCEPT ![o] = FALSE]
      /\ unpublished' = IF x THEN unpublished \ {o} ELSE unpublished
      /\ CustodyCompleted(a, outcome) /\ Leave(a)
  BY DEF CheckpointComplete
<1>3. /\ inv' \in [Actors -> {Idle} \cup Busy] /\ inv'[a].step = "idle"
      /\ \A b \in Actors \ {a} : inv'[b] = inv[b]
  BY <1>2, LeaveTyped DEF CustodyInv
<1>4. /\ run' \in [Ops -> States] /\ live' \in [Ops -> BOOLEAN] /\ unpublished' \subseteq Ops
      /\ \A p \in Ops : run[p] # "sealed" => run'[p] # "sealed"
  BY <1>1, <1>2 DEF CustodyInv, CustodyTypeOK, States
<1>5. /\ custody' \in Rows
      /\ \/ UNCHANGED custody
         \/ /\ o \in sharing /\ custody.owner = o /\ custody.settlement = "retained"
            /\ custody' = [custody EXCEPT !.ownerFence = inv[a].fence, !.completed = x]
  <2>1. custody \in Rows
    BY DEF CustodyInv, CustodyTypeOK, Rows
  <2> QED
    BY <1>1, <1>2, <2>1 DEF CustodyCompleted, Rows
<1>6. CustodyTypeOK'
  BY <1>2, <1>3, <1>4, <1>5 DEF CustodyInv, CustodyTypeOK, Busy, Rows
<1>7. Fenced'
  BY <1>2, <1>3, FencedStep DEF CustodyInv, Fenced
<1>8. x => o \notin unpublished'
  BY <1>2
<1>9. x \in BOOLEAN /\ unpublished' \subseteq unpublished
  BY <1>2
<1> HIDE DEF x
<1>10. Concluded(a)
  BY <1>2, <1>3, <1>4, <1>5, <1>8, <1>9 DEF Concluded, Calm
<1> QED
  BY <1>1, <1>6, <1>7, <1>10, ConcludedInv

-----------------------------------------------------------------------------
(* The theorems *)

\* The initial states satisfy the invariant.
LEMMA InitInv == Init => CustodyInv
<1> SUFFICES ASSUME Init PROVE CustodyInv
  OBVIOUS
<1>1. CustodyTypeOK
  BY SMT, CustodyAssumption
  DEF Init, AttemptInit, CustodyTypeOK, Phases, Verdicts, States, Receipts, NoCustody, Settlements,
      Fences
<1>2. \A a \in Actors : inv[a].step = "idle"
  BY DEF Init, Idle
<1>3. Fenced /\ ReservationKnown /\ OwnerUndisturbed /\ InvocationAgrees
  BY <1>2 DEF Fenced, ReservationKnown, OwnerUndisturbed, InvocationAgrees, Reserving
<1>4. \A o \in Ops, n \in Numbers : attempt[o][n] = "absent" /\ copies[o][n] = "absent"
  BY DEF Init, AttemptInit
<1>5. CustodyCoversSource /\ CopiesAgree
  BY SMT, <1>1, <1>4, OpenReceipts DEF CustodyCoversSource, CopiesAgree, CustodyTypeOK
<1>6. RowAgrees /\ LossesGuarded
  BY DEF Init, RowAgrees, NoCustody, LossesGuarded
<1> QED
  BY <1>1, <1>3, <1>5, <1>6 DEF CustodyInv

\* Every step of the specification keeps the invariant.
LEMMA StepInv ==
  ASSUME CustodyInv, [Next]_vars
  PROVE  CustodyInv'
<1>1. CASE Next
  <2> USE <1>1 DEF Next
  <2>1. ASSUME NEW a \in Actors, NEW o \in Ops, Start(a, o) PROVE CustodyInv'
    BY <2>1, StartInv
  <2>2. ASSUME NEW a \in Actors, Lookup(a) PROVE CustodyInv'
    BY <2>2, LookupInv
  <2>3. ASSUME NEW a \in Actors, Elect(a) PROVE CustodyInv'
    BY <2>3, ElectInv
  <2>4. ASSUME NEW a \in Actors, Journal(a) PROVE CustodyInv'
    BY <2>4, JournalInv
  <2>5. ASSUME NEW a \in Actors, Return(a) PROVE CustodyInv'
    BY <2>5, ReturnInv
  <2>6. ASSUME NEW a \in Actors, NEW n \in Numbers, Number(a, n) PROVE CustodyInv'
    BY <2>6, NumberInv
  <2>7. ASSUME NEW a \in Actors, Reserve(a) PROVE CustodyInv'
    BY <2>7, ReserveInv
  <2>8. ASSUME NEW a \in Actors, CheckpointAttempt(a) PROVE CustodyInv'
    BY <2>8, CheckpointAttemptInv
  <2>9. ASSUME NEW a \in Actors, CheckpointResult(a) PROVE CustodyInv'
    BY <2>9, CheckpointResultInv
  <2>10. ASSUME NEW a \in Actors, CheckpointOutput(a) PROVE CustodyInv'
    BY <2>10, CheckpointOutputInv
  <2>11. ASSUME NEW a \in Actors, NEW outcome \in {"succeeded", "partial", "failed"},
                CheckpointComplete(a, outcome)
         PROVE  CustodyInv'
    BY <2>11, CheckpointCompleteInv
  <2>12. ASSUME NEW a \in Actors, GiveUp(a) \/ Crash(a) PROVE CustodyInv'
    BY <2>12, GiveUpInv
  <2>13. ASSUME NEW o \in Ops, Lapse(o) \/ Expire(o) \/ AgeOut(o) PROVE CustodyInv'
    BY <2>13, ClockInv
  <2>14. ASSUME Source PROVE CustodyInv'
    BY <2>14, SourceInv
  <2> QED
    BY <2>1, <2>2, <2>3, <2>4, <2>5, <2>6, <2>7, <2>8, <2>9, <2>10, <2>11, <2>12, <2>13, <2>14
    DEF Step
<1>2. CASE UNCHANGED vars
  <2>1. CustodyTypeOK' /\ Fenced' /\ Quiet
    BY <1>2 DEF vars, CustodyInv, CustodyTypeOK, Fenced, Quiet
  <2> QED
    BY <2>1, QuietInv
<1> QED
  BY <1>1, <1>2

\* The inductive invariant holds throughout.
LEMMA InvariantHolds == Spec => []CustodyInv
<1>1. CustodyInv /\ [Next]_vars => CustodyInv'
  BY StepInv
<1> QED
  BY InitInv, <1>1, PTL DEF Spec

\* Invocations, receipts and the custody row stay within their types.
THEOREM CustodyTypes == Spec => []CustodyTypeOK
<1>1. CustodyInv => CustodyTypeOK
  BY DEF CustodyInv
<1> QED
  BY InvariantHolds, <1>1, PTL

\* ClaimFrozenReuse and ReserveFrozenQuery never replace an owner, or reserve its next
\* number, while a query of the key is not proved over.
THEOREM CustodyCovers == Spec => []CustodyCoversSource
<1>1. CustodyInv => CustodyCoversSource
  BY DEF CustodyInv
<1> QED
  BY InvariantHolds, <1>1, PTL

\* At most one query of a reuse key runs at its source at a time.
OneSourceQuery ==
  \A o, p \in sharing, m, n \in Numbers :
    attempt[o][m] = "running" /\ attempt[p][n] = "running" => o = p /\ m = n

\* Custody makes the source work of a reuse key sequential, whatever fails.
THEOREM KeysReadOnce == Spec => []OneSourceQuery
<1>1. CustodyInv => OneSourceQuery
  BY SMT, OpenReceipts DEF CustodyInv, CustodyCoversSource, OneSourceQuery
<1> QED
  BY InvariantHolds, <1>1, PTL

\* Only BeginRead makes an attempt ready, and it follows a reservation nobody could make
\* while a successful read had not become an artifact.
THEOREM LostValuesStayLost == Spec => ValuesNeverRefetched
<1> DEFINE A == \A o \in sharing, n \in Numbers :
                  attempt[o][n] # "ready" /\ attempt'[o][n] = "ready" =>
                    unpublished \cap sharing = {}
<1>1. CustodyInv /\ [Next]_vars => A
  <2> SUFFICES ASSUME CustodyInv, Next, NEW o \in sharing, NEW n \in Numbers,
                      attempt[o][n] # "ready", attempt'[o][n] = "ready"
               PROVE  unpublished \cap sharing = {}
    BY DEF vars
  <2>1. o \in Ops
    BY DEF CustodyInv, CustodyTypeOK
  <2>2. ASSUME NEW p \in Ops, NEW k \in Numbers, NEW from, NEW to \in Phases, Move(p, k, from, to)
        PROVE  to = "ready"
    BY SMT, <2>1, <2>2, MoveTyped DEF CustodyInv
  <2>3. ASSUME NEW p \in Ops, NEW k \in Numbers,
               Issue(p, k) \/ End(p, k) \/ Succeed(p, k) \/ Fail(p, k)
        PROVE  FALSE
    BY <2>2, <2>3 DEF Issue, End, Succeed, Fail, Phases, Verdicts
  <2>4. ~Source
    BY <2>3 DEF Source
  <2>5. ASSUME NEW a \in Actors, Return(a) PROVE FALSE
    <3>1. inv[a].op \in Ops /\ inv[a].number \in Numbers
      BY <2>5, BusyTyped DEF CustodyInv, Return, Busy, InvocationAgrees
    <3> QED
      BY <2>3, <2>5, <3>1 DEF Return
  <2>6. PICK a \in Actors : Journal(a)
    BY <2>4, <2>5
    DEF Next, Step, Start, Lookup, Elect, Number, Reserve, CheckpointAttempt, CheckpointResult,
        CheckpointOutput, CheckpointComplete, GiveUp, Crash, Lapse, Expire, AgeOut
  <2>7. inv[a].step = "reserved" /\ inv[a] \in Busy /\ inv[a].number \in Numbers
    BY <2>6, BusyTyped DEF CustodyInv, Journal, InvocationAgrees
  <2>8. inv[a].op = o
    <3>1. \A p \in Ops, k \in Numbers : p # inv[a].op \/ k # inv[a].number =>
            \/ attempt'[p][k] = attempt[p][k]
            \/ attempt[p][k] \in Verdicts /\ attempt'[p][k] = "absent"
      BY SMT, <2>6, <2>7, BeginTyped DEF CustodyInv, Journal, Busy
    <3> QED
      BY <2>1, <3>1
  <2>9. Reserving(a)
    BY <2>7, <2>8 DEF Reserving
  <2> QED
    BY <2>9 DEF CustodyInv, LossesGuarded, Guarded, NoneReserving
<1> QED
  BY InvariantHolds, <1>1, PTL DEF Spec, ValuesNeverRefetched

\* CheckpointFrozenRun and ReuseFrozenRun never touch a run that already ended.
THEOREM EndedRunsStay == Spec => TerminalRunsStay
<1> DEFINE A == \A o \in Ops :
                  run[o] \notin {"sealed", "normalized"} => run'[o] \in {run[o], "expired"}
<1>1. CustodyInv /\ [Next]_vars => A
  <2> SUFFICES ASSUME CustodyInv, Next, NEW o \in Ops, run[o] \notin {"sealed", "normalized"}
               PROVE  run'[o] \in {run[o], "expired"}
    BY DEF vars
  <2>1. run \in [Ops -> States]
    BY DEF CustodyInv, CustodyTypeOK
  <2>2. ASSUME NEW a \in Actors, Lookup(a) \/ CheckpointResult(a) PROVE run'[o] = run[o]
    BY <2>1, <2>2 DEF Lookup, CheckpointResult, Current
  <2>3. ASSUME NEW a \in Actors, NEW outcome, CheckpointComplete(a, outcome)
        PROVE  run'[o] = run[o]
    BY <2>1, <2>3 DEF CheckpointComplete
  <2>4. ASSUME NEW p \in Ops, Expire(p) PROVE run'[o] \in {run[o], "expired"}
    BY <2>1, <2>4 DEF Expire
  <2> QED
    BY <2>2, <2>3, <2>4
    DEF Next, Step, Start, Elect, Number, Reserve, Journal, Return, Source, CheckpointAttempt,
        CheckpointOutput, GiveUp, Crash, Lapse, AgeOut
<1> QED
  BY InvariantHolds, <1>1, PTL DEF Spec, TerminalRunsStay

=============================================================================
