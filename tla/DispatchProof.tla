---------------------------- MODULE DispatchProof ----------------------------
(***************************************************************************)
(* Proofs about the operation ledger and its dispatchers, for any set of   *)
(* operations and processes, any limits and an unbounded clock.  LedgerInv *)
(* is the inductive invariant of the tables: every row transition of       *)
(* OperationLedger preserves it on its own, whoever calls it, which is one *)
(* lemma per transition.  The invariant of Dispatch adds only the type of  *)
(* what a process remembers.                                               *)
(***************************************************************************)
EXTENDS Dispatch, FiniteSetTheorems, TLAPS

\* Zenon does the first-order steps; a step beyond it cites SMT.
USE Zenon

\* A row counts its attempts.
Counted(o) == Cardinality(AttemptRows(o)) = attempts[o]

\* RowConstraints, AttemptLedger and EffectOnce, of one row, and that the fence overtakes
\* the attempts by erasures only.
RowInv(o) ==
  /\ status[o] = "running" <=> lease[o] # NoLease
  /\ lease[o] <= expires[o]
  /\ attempts[o] <= fence[o] /\ fence[o] <= attempts[o] + MaxErasures
  /\ \A f \in Fences :
       /\ attempt[o][f] = "acquiring" <=> status[o] = "running" /\ fence[o] = f
       /\ attempt[o][f] # "none" => f <= fence[o]
  /\ Counted(o)
  /\ status[o] = "succeeded" => effects[o] # <<>>
  /\ effects[o] # <<>> =>
       /\ effects[o] = <<fence[o]>>
       /\ status[o] \in {"succeeded", "blocked", "expired"}
       /\ attempt[o][fence[o]] \in {"succeeded", "blocked"}

LedgerInv == LedgerTypeOK /\ \A o \in Ops : RowInv(o)

Inv == TypeOK /\ LedgerInv

\* The row of o is not touched by a step.
SameRow(o) ==
  /\ status'[o] = status[o] /\ fence'[o] = fence[o] /\ attempts'[o] = attempts[o]
  /\ lease'[o] = lease[o] /\ expires'[o] = expires[o] /\ attempt'[o] = attempt[o]
  /\ effects'[o] = effects[o]

\* What FinishedIsFinal and LapsedLeaseStaysLapsed ask of a step, for one row; and its
\* fence advances by one at most.
RowStep(o) ==
  /\ status[o] \in Finished /\ status'[o] # status[o] =>
       \/ status[o] = "cancelled" /\ status'[o] = "pending" /\ Mode[o] = "request"
       \/ status[o] = "succeeded" /\ status'[o] = "expired"
  /\ status[o] = "running" /\ ~Live(o) /\ status'[o] = "running" =>
       lease'[o] = lease[o] \/ fence'[o] = fence[o] + 1
  /\ fence'[o] = fence[o] \/ fence'[o] = fence[o] + 1

\* A transition of the tables preserves their invariant and treats every row so.
LedgerStep == LedgerInv' /\ \A o \in Ops : RowStep(o)

-----------------------------------------------------------------------------
(* Facts about the operators of the model *)

\* The row invariants together give the three invariants the runs check.
LEMMA RowInvariants == LedgerInv => LedgerTypeOK /\ RowConstraints /\ AttemptLedger /\ EffectOnce
BY DEF LedgerInv, RowInv, Counted, RowConstraints, AttemptLedger, EffectOnce

\* The count stays right when no attempt row is inserted.
LEMMA CountKept ==
  ASSUME NEW o \in Ops, Counted(o), attempts'[o] = attempts[o],
         \A f \in Fences : attempt'[o][f] = "none" <=> attempt[o][f] = "none"
  PROVE  Counted(o)'
<1>1. AttemptRows(o)' = AttemptRows(o)
  BY DEF AttemptRows, Fences
<1> QED BY <1>1 DEF Counted

\* It stays right when the row of a new fence is inserted and counted.
LEMMA CountClaimed ==
  ASSUME NEW o \in Ops, Counted(o), attempts'[o] = attempts[o] + 1,
         NEW n \in Fences, attempt[o][n] = "none",
         \A f \in Fences : attempt'[o][f] = "none" <=> attempt[o][f] = "none" /\ f # n
  PROVE  Counted(o)'
<1>1. AttemptRows(o)' = AttemptRows(o) \cup {n}
  BY DEF AttemptRows, Fences
<1>2. IsFiniteSet(AttemptRows(o))
  <2>1. MaxFence \in Int
    BY SMT, LedgerAssumption DEF MaxFence
  <2>2. IsFiniteSet(Fences)
    BY <2>1, FS_Interval, SMT DEF Fences
  <2>3. AttemptRows(o) \subseteq Fences
    BY DEF AttemptRows
  <2> QED BY <2>2, <2>3, FS_Subset
<1>3. n \notin AttemptRows(o)
  BY DEF AttemptRows
<1>4. Cardinality(AttemptRows(o) \cup {n}) = Cardinality(AttemptRows(o)) + 1
  BY <1>2, <1>3, FS_AddElement
<1> QED BY <1>1, <1>4 DEF Counted

\* A row that no step touches keeps its invariant.
LEMMA SameRowInv ==
  ASSUME NEW o \in Ops, RowInv(o), SameRow(o)
  PROVE  RowInv(o)'
<1>1. Counted(o)'
  BY CountKept DEF RowInv, SameRow
<1> QED BY <1>1 DEF RowInv, SameRow, Fences, NoLease

\* A granted fence is a fence value of a row.
LEMMA FencesFact == MaxFence \in Nat /\ Fences \subseteq 0..MaxFence
BY SMT, LedgerAssumption DEF Fences, MaxFence

\* The earlier of two instants is one of them and not after either.
LEMMA EarlierFact ==
  ASSUME NEW x \in Nat, NEW y \in Nat
  PROVE  Earlier(x, y) \in Nat /\ Earlier(x, y) <= x /\ Earlier(x, y) <= y
BY SMT DEF Earlier

\* A new lease lies after the clock and not after the row's expiry.
LEMMA LeaseFromFact ==
  ASSUME LedgerTypeOK, NEW o \in Ops, expires[o] > now
  PROVE  LeaseFrom(o) \in Nat /\ LeaseFrom(o) # NoLease /\ LeaseFrom(o) <= expires[o]
BY SMT, LedgerAssumption DEF LedgerTypeOK, LeaseFrom, Earlier, NoLease

\* A live claim runs under the row's current fence, its attempt row is still open and
\* nothing has been committed for the operation.
LEMMA HolderFact ==
  ASSUME LedgerInv, NEW o \in Ops, NEW f \in Fences, HoldsFence(o, f)
  PROVE  /\ status[o] = "running" /\ fence[o] = f
         /\ attempt[o][f] = "acquiring" /\ effects[o] = <<>>
BY SMT DEF LedgerInv, RowInv, HoldsFence, Live

\* A claimed row's next fence is one a process can be granted.
LEMMA GrantFact ==
  ASSUME LedgerInv, NEW o \in Ops, Claimable(o)
  PROVE  fence[o] + 1 \in Fences
<1>1. fence[o] <= attempts[o] + MaxErasures /\ attempts[o] < MaxAttempts
  BY DEF LedgerInv, RowInv, Claimable
<1>2. fence[o] \in Nat /\ attempts[o] \in Nat /\ MaxErasures \in Nat /\ MaxAttempts \in Nat
  BY SMT, LedgerAssumption, FencesFact DEF LedgerInv, LedgerTypeOK
<1> QED BY SMT, <1>1, <1>2 DEF Fences, MaxFence

-----------------------------------------------------------------------------
(* Every row transition preserves the invariant of the tables *)

\* The empty ledger satisfies the invariant.
LEMMA InitLedger == LedgerInit => LedgerInv
<1> SUFFICES ASSUME LedgerInit PROVE LedgerInv
  OBVIOUS
<1>1. LedgerTypeOK
  <2> HIDE DEF Fences, MaxFence
  <2> QED BY SMT, LedgerAssumption, FencesFact DEF LedgerInit, LedgerTypeOK, AttemptStates, NoLease
<1>2. ASSUME NEW o \in Ops PROVE RowInv(o)
  <2>1. AttemptRows(o) = {}
    BY DEF AttemptRows, LedgerInit
  <2>2. Counted(o)
    BY <2>1, FS_EmptySet DEF Counted, LedgerInit
  <2> QED BY SMT, <2>2, LedgerAssumption DEF LedgerInit, RowInv, NoLease
<1> QED BY <1>1, <1>2 DEF LedgerInv

\* A step of a process that touches no table preserves it.
LEMMA StutterLedger ==
  ASSUME LedgerInv, UNCHANGED <<now, rows, attempt, policy, effects>>
  PROVE  LedgerStep
<1>1. \A o \in Ops : SameRow(o)
  BY DEF SameRow, rows
<1>2. LedgerTypeOK'
  BY DEF LedgerInv, LedgerTypeOK, rows, Fences, AttemptStates, Unfinished, Finished
<1>s. \A o \in Ops : RowStep(o)
  BY <1>1 DEF RowStep, SameRow
<1> QED BY <1>s, <1>1, <1>2, SameRowInv DEF LedgerStep, LedgerInv

\* The clock may advance under any row.
LEMMA TickLedger ==
  ASSUME LedgerInv, now' = now + 1, UNCHANGED <<rows, attempt, policy, effects>>
  PROVE  LedgerStep
<1>1. \A o \in Ops : SameRow(o)
  BY DEF SameRow, rows
<1>t. now' \in Nat \ {0}
  BY SMT DEF LedgerInv, LedgerTypeOK
<1>2. LedgerTypeOK'
  BY <1>t DEF LedgerInv, LedgerTypeOK, rows
<1>s. \A o \in Ops : RowStep(o)
  BY <1>1 DEF RowStep, SameRow
<1> QED BY <1>s, <1>1, <1>2, SameRowInv DEF LedgerStep, LedgerInv

\* SetPolicy touches no row.
LEMMA PolicyLedger ==
  ASSUME LedgerInv, NEW t \in DOMAIN policy, SetPolicy(t)
  PROVE  LedgerStep
<1>1. \A o \in Ops : SameRow(o)
  BY DEF SameRow, rows, SetPolicy
<1> DEFINE Tenants == {TenantOf[o] : o \in Ops}
<1>a. policy \in [Tenants -> Nat]
  BY Zenon DEF LedgerInv, LedgerTypeOK
<1>b. policy' \in [Tenants -> Nat]
  <2> HIDE DEF Tenants
  <2> QED BY SMT, <1>a DEF SetPolicy
<1>2. LedgerTypeOK'
  BY <1>b, Zenon DEF LedgerInv, LedgerTypeOK, rows, SetPolicy
<1>s. \A o \in Ops : RowStep(o)
  BY <1>1 DEF RowStep, SameRow
<1> QED BY <1>s, <1>1, <1>2, SameRowInv DEF LedgerStep, LedgerInv

\* Inserting a row for a fresh key.
LEMMA InsertRowLedger ==
  ASSUME LedgerInv, NEW o \in Ops, NEW until \in Nat, NEW pf \in 0..MaxFence,
         status[o] = "none", InsertRow(o, until, pf)
  PROVE  LedgerStep
<1>a. policy[TenantOf[o]] \in Nat
  BY Zenon DEF LedgerInv, LedgerTypeOK
<1>1. LedgerTypeOK'
  BY <1>a, Zenon DEF InsertRow, LedgerInv, LedgerTypeOK, Unfinished
<1>2. ASSUME NEW x \in Ops, x # o PROVE SameRow(x)
  BY <1>2 DEF InsertRow, SameRow, LedgerInv, LedgerTypeOK
<1>3. RowInv(o)'
  <2>1. /\ status'[o] = "pending" /\ expires'[o] = until
        /\ fence'[o] = fence[o] /\ attempts'[o] = attempts[o] /\ lease'[o] = lease[o]
        /\ attempt'[o] = attempt[o] /\ effects'[o] = effects[o]
    BY DEF InsertRow, LedgerInv, LedgerTypeOK
  <2>2. lease[o] = NoLease /\ effects[o] = <<>> /\ RowInv(o) /\ status[o] = "none"
    BY DEF LedgerInv, RowInv
  <2>3. Counted(o)'
    BY <2>1, <2>2, CountKept DEF RowInv
  <2> QED BY SMT, <2>1, <2>2, <2>3 DEF RowInv, NoLease, Fences
<1>s. \A x \in Ops : RowStep(x)
  BY DEF InsertRow, RowStep, Finished, LedgerInv, LedgerTypeOK
<1> QED BY <1>s, <1>1, <1>2, <1>3, SameRowInv DEF LedgerStep, LedgerInv

\* Heartbeat and pulse: a renewed lease is no longer than the row lives.
LEMMA RenewLedger ==
  ASSUME LedgerInv, NEW o \in Ops, NEW f \in Fences, RenewOperationLease(o, f)
  PROVE  LedgerStep
<1>0. /\ status[o] = "running" /\ LeaseFrom(o) \in Nat
      /\ LeaseFrom(o) # NoLease /\ LeaseFrom(o) <= expires[o]
  BY LeaseFromFact DEF LedgerInv, RenewOperationLease, HoldsFence, Live
<1>1. LedgerTypeOK'
  BY <1>0, Zenon DEF RenewOperationLease, LedgerInv, LedgerTypeOK
<1>2. ASSUME NEW x \in Ops, x # o PROVE SameRow(x)
  BY <1>2 DEF RenewOperationLease, SameRow, LedgerInv, LedgerTypeOK
<1>3. RowInv(o)'
  <2>1. /\ lease'[o] = LeaseFrom(o) /\ expires'[o] = expires[o] /\ status'[o] = status[o]
        /\ fence'[o] = fence[o] /\ attempts'[o] = attempts[o]
        /\ attempt'[o] = attempt[o] /\ effects'[o] = effects[o]
    BY DEF RenewOperationLease, LedgerInv, LedgerTypeOK
  <2>2. Counted(o)'
    BY <2>1, CountKept DEF RowInv, LedgerInv
  <2> QED BY SMT, <2>1, <2>2, <1>0 DEF RowInv, LedgerInv, NoLease, Fences
<1>s. \A x \in Ops : RowStep(x)
  BY DEF RenewOperationLease, HoldsFence, RowStep, LedgerInv, LedgerTypeOK
<1> QED BY <1>s, <1>1, <1>2, <1>3, SameRowInv DEF LedgerStep, LedgerInv

\* FinishAttempt and FailRequest: the attempt row closes with the operation row.
LEMMA FailLedger ==
  ASSUME LedgerInv, NEW o \in Ops, NEW f \in Fences, NEW permanent \in BOOLEAN,
         NEW delay \in Nat, FailOperationLease(o, f, permanent, delay)
  PROVE  LedgerStep
<1>0. /\ status[o] = "running" /\ fence[o] = f
      /\ attempt[o][f] = "acquiring" /\ effects[o] = <<>>
  BY HolderFact DEF FailOperationLease
<1> DEFINE s == FailureState(o, permanent)
<1>a. s \in {"blocked", "failed", "retry"}
  BY DEF FailureState
<1> HIDE DEF s
<1>b. attempt' = [attempt EXCEPT ![o] = [attempt[o] EXCEPT ![f] = s]]
  BY <1>0 DEF FailOperationLease, LedgerInv, LedgerTypeOK, s
<1>c. [attempt[o] EXCEPT ![f] = s] \in [Fences -> AttemptStates]
  BY <1>a DEF LedgerInv, LedgerTypeOK, AttemptStates
<1>d. attempt' \in [Ops -> [Fences -> AttemptStates]]
  BY <1>b, <1>c DEF LedgerInv, LedgerTypeOK
<1>e. status' \in [Ops -> {"none"} \cup Unfinished \cup Finished]
  BY <1>a, Zenon DEF FailOperationLease, LedgerInv, LedgerTypeOK, Unfinished, Finished, s
<1>f. lease' \in [Ops -> Nat] /\ nextAt' \in [Ops -> Nat]
  BY SMT DEF FailOperationLease, LedgerInv, LedgerTypeOK, NoLease
<1>1. LedgerTypeOK'
  BY <1>d, <1>e, <1>f, Zenon DEF FailOperationLease, LedgerInv, LedgerTypeOK
<1>2. ASSUME NEW x \in Ops, x # o PROVE SameRow(x)
  BY <1>2 DEF FailOperationLease, SameRow, LedgerInv, LedgerTypeOK
<1>3. RowInv(o)'
  <2>1. /\ lease'[o] = NoLease /\ expires'[o] = expires[o] /\ status'[o] = s
        /\ fence'[o] = fence[o] /\ attempts'[o] = attempts[o] /\ effects'[o] = effects[o]
        /\ attempt'[o] = [attempt[o] EXCEPT ![f] = s]
    BY <1>0 DEF FailOperationLease, LedgerInv, LedgerTypeOK, s
  <2>2. \A g \in Fences : attempt'[o][g] = IF g = f THEN s ELSE attempt[o][g]
    BY <2>1 DEF LedgerInv, LedgerTypeOK
  <2>3. expires[o] \in Nat
    BY DEF LedgerInv, LedgerTypeOK
  <2>n. \A g \in Fences : attempt'[o][g] = "none" <=> attempt[o][g] = "none"
    BY <2>2, <1>0, <1>a
  <2>4. Counted(o)'
    BY <2>1, <2>n, CountKept DEF RowInv, LedgerInv
  <2> QED BY SMT, <2>1, <2>2, <2>3, <2>4, <1>0, <1>a DEF RowInv, LedgerInv, NoLease, Fences
<1>s. \A x \in Ops : RowStep(x)
  BY <1>0 DEF FailOperationLease, HoldsFence, RowStep, Finished, LedgerInv, LedgerTypeOK
<1> QED BY <1>s, <1>1, <1>2, <1>3, SameRowInv DEF LedgerStep, LedgerInv

\* Cancellation closes whichever attempt was open.
LEMMA CancelLedger ==
  ASSUME LedgerInv, NEW o \in Ops, CancelOperation(o)
  PROVE  LedgerStep
<1>0. status[o] \in Unfinished /\ effects[o] = <<>>
  BY DEF CancelOperation, LedgerInv, RowInv, Unfinished
<1>a. \A g \in Fences :
        CloseAttempts(o, "cancelled")[g] =
          IF attempt[o][g] = "acquiring" THEN "cancelled" ELSE attempt[o][g]
  BY DEF CloseAttempts
<1>b. CloseAttempts(o, "cancelled") \in [Fences -> AttemptStates]
  BY DEF CloseAttempts, LedgerInv, LedgerTypeOK, AttemptStates
<1>1. LedgerTypeOK'
  BY <1>b, Zenon DEF CancelOperation, LedgerInv, LedgerTypeOK, Unfinished, Finished, NoLease
<1>2. ASSUME NEW x \in Ops, x # o PROVE SameRow(x)
  BY <1>2 DEF CancelOperation, SameRow, LedgerInv, LedgerTypeOK
<1>3. RowInv(o)'
  <2>1. /\ lease'[o] = NoLease /\ expires'[o] = expires[o] /\ status'[o] = "cancelled"
        /\ fence'[o] = fence[o] /\ attempts'[o] = attempts[o] /\ effects'[o] = effects[o]
        /\ attempt'[o] = CloseAttempts(o, "cancelled")
    BY DEF CancelOperation, LedgerInv, LedgerTypeOK
  <2>2. expires[o] \in Nat
    BY DEF LedgerInv, LedgerTypeOK
  <2>3. RowInv(o) /\ status[o] # "succeeded"
    BY <1>0 DEF LedgerInv, Unfinished
  <2>4. \A g \in Fences : /\ attempt'[o][g] # "acquiring"
                          /\ attempt'[o][g] = "none" <=> attempt[o][g] = "none"
    BY <2>1, <2>3, <1>a DEF RowInv
  <2>5. Counted(o)'
    BY <2>1, <2>3, <2>4, CountKept DEF RowInv
  <2> QED BY SMT, <2>1, <2>2, <2>3, <2>4, <2>5, <1>0 DEF RowInv, NoLease
<1>s. \A x \in Ops : RowStep(x)
  BY <1>0 DEF CancelOperation, RowStep, Finished, Unfinished, LedgerInv, LedgerTypeOK
<1> QED BY <1>s, <1>1, <1>2, <1>3, SameRowInv DEF LedgerStep, LedgerInv

\* An erasure closes the open rows it locked, with their attempts, under a new fence.
LEMMA EraseLedger ==
  ASSUME LedgerInv, NEW roots, NEW missed, EraseOwnedRuns(roots, missed)
  PROVE  LedgerStep
<1> DEFINE L == Locked(roots, missed)
           E == Erased(roots, missed)
<1>a. L \subseteq Ops /\ \A x \in Ops : x \in E <=> x \in L /\ status[x] \in Unfinished
  BY DEF Locked, Erased
<1>b. ASSUME NEW x \in Ops
      PROVE  /\ status'[x] = IF x \in E THEN "cancelled" ELSE status[x]
             /\ lease'[x] = IF x \in E THEN NoLease ELSE lease[x]
             /\ fence'[x] = IF x \in E THEN fence[x] + 1 ELSE fence[x]
             /\ attempt'[x] = IF x \in L THEN CloseAttempts(x, "cancelled") ELSE attempt[x]
             /\ attempts'[x] = attempts[x] /\ expires'[x] = expires[x]
             /\ effects'[x] = effects[x]
             /\ x \in E => fence[x] < attempts[x] + MaxErasures
  BY DEF EraseOwnedRuns
<1>h. /\ status' = [x \in Ops |-> IF x \in E THEN "cancelled" ELSE status[x]]
      /\ lease' = [x \in Ops |-> IF x \in E THEN NoLease ELSE lease[x]]
      /\ fence' = [x \in Ops |-> IF x \in E THEN fence[x] + 1 ELSE fence[x]]
      /\ attempt' = [x \in Ops |-> IF x \in L THEN CloseAttempts(x, "cancelled") ELSE attempt[x]]
      /\ UNCHANGED <<now, attempts, expires, nextAt, due, nestedFence, pinned, policy, effects>>
  BY DEF EraseOwnedRuns
<1> HIDE DEF L, E
<1>c. ASSUME NEW x \in Ops
      PROVE  /\ fence[x] \in Nat /\ attempts[x] \in Nat /\ attempts[x] <= MaxAttempts
             /\ MaxErasures \in Nat /\ MaxAttempts \in Nat /\ expires[x] \in Nat
             /\ attempt[x] \in [Fences -> AttemptStates]
  <2>1. /\ fence[x] \in 0..MaxFence /\ attempts[x] \in 0..MaxAttempts /\ expires[x] \in Nat
        /\ attempt[x] \in [Fences -> AttemptStates]
    BY DEF LedgerInv, LedgerTypeOK
  <2> QED BY SMT, <2>1, LedgerAssumption, FencesFact
<1>d. ASSUME NEW x \in Ops
      PROVE  /\ CloseAttempts(x, "cancelled") \in [Fences -> AttemptStates]
             /\ \A g \in Fences :
                  CloseAttempts(x, "cancelled")[g] =
                    IF attempt[x][g] = "acquiring" THEN "cancelled" ELSE attempt[x][g]
  BY <1>c DEF CloseAttempts, AttemptStates
<1>1. LedgerTypeOK'
  <2>1. fence' \in [Ops -> 0..MaxFence]
    <3>1. \A x \in Ops : fence[x] \in 0..MaxFence /\ (x \in E => fence[x] + 1 \in 0..MaxFence)
      <4> TAKE x \in Ops
      <4>1. fence[x] \in 0..MaxFence
        BY DEF LedgerInv, LedgerTypeOK
      <4>2. x \in E => fence[x] + 1 \in 0..MaxFence
        BY SMT, <1>b, <1>c DEF MaxFence
      <4> QED BY <4>1, <4>2
    <3> DEFINE F == 0..MaxFence
    <3> HIDE DEF F
    <3>2. \A x \in Ops : fence[x] \in F /\ (x \in E => fence[x] + 1 \in F)
      BY <3>1 DEF F
    <3>3. fence' \in [Ops -> F]
      BY <3>2, <1>h
    <3> QED BY <3>3 DEF F
  <2>2. status' \in [Ops -> {"none"} \cup Unfinished \cup Finished] /\ lease' \in [Ops -> Nat]
    BY <1>h DEF LedgerInv, LedgerTypeOK, Finished, NoLease
  <2>3. attempt' \in [Ops -> [Fences -> AttemptStates]]
    BY <1>h, <1>c, <1>d
  <2> QED BY <2>1, <2>2, <2>3, <1>h DEF LedgerInv, LedgerTypeOK
<1>2. ASSUME NEW x \in Ops, x \in E PROVE RowInv(x)'
  <2>0. RowInv(x) /\ status[x] \in Unfinished /\ x \in L
    BY <1>2, <1>a DEF LedgerInv
  <2>1. effects[x] = <<>>
    BY <2>0 DEF RowInv, Unfinished
  <2>2. /\ status'[x] = "cancelled" /\ lease'[x] = NoLease /\ fence'[x] = fence[x] + 1
        /\ attempts'[x] = attempts[x] /\ expires'[x] = expires[x] /\ effects'[x] = <<>>
    BY <1>2, <1>b, <2>1
  <2>3. \A g \in Fences : /\ attempt'[x][g] # "acquiring"
                          /\ attempt'[x][g] = "none" <=> attempt[x][g] = "none"
    <3>1. attempt'[x] = CloseAttempts(x, "cancelled")
      BY <2>0, <1>b
    <3> QED BY <3>1, <1>d
  <2>4. Counted(x)'
    BY <2>0, <2>2, <2>3, CountKept DEF RowInv
  <2>5. /\ attempts[x] <= fence[x] + 1 /\ fence[x] + 1 <= attempts[x] + MaxErasures
        /\ \A g \in Fences : attempt'[x][g] # "none" => g <= fence[x] + 1
    <3>1. attempts[x] <= fence[x] /\ fence[x] < attempts[x] + MaxErasures
      BY <2>0, <1>2, <1>b DEF RowInv
    <3>2. \A g \in Fences : g \in Nat /\ (attempt'[x][g] # "none" => g <= fence[x])
      BY SMT, <2>0, <2>3 DEF RowInv, Fences
    <3> QED BY SMT, <1>c, <3>1, <3>2
  <2>6. 0 <= expires[x]
    BY SMT, <1>c
  <2> QED BY <2>2, <2>3, <2>4, <2>5, <2>6 DEF RowInv, NoLease
<1>3. ASSUME NEW x \in Ops, x \notin E PROVE SameRow(x)
  <2>1. CASE x \in L
    <3>1. RowInv(x) /\ status[x] # "running"
      BY <1>3, <2>1, <1>a DEF LedgerInv, Unfinished
    <3>2. \A g \in Fences : CloseAttempts(x, "cancelled")[g] = attempt[x][g]
      BY <3>1, <1>d DEF RowInv
    <3>3. CloseAttempts(x, "cancelled") = attempt[x]
      <4>1. attempt[x] \in [Fences -> AttemptStates]
        BY <1>c
      <4>2. CloseAttempts(x, "cancelled") \in [Fences -> AttemptStates]
        BY <1>d
      <4> QED BY SMT, <3>2, <4>1, <4>2
    <3> QED BY <1>3, <2>1, <1>b, <3>3 DEF SameRow
  <2>2. CASE x \notin L
    BY <1>3, <2>2, <1>b DEF SameRow
  <2> QED BY <2>1, <2>2
<1>s. ASSUME NEW x \in Ops PROVE RowStep(x)
  <2>1. CASE x \in E
    BY <2>1, <1>a, <1>b DEF RowStep, Finished, Unfinished
  <2>2. CASE x \notin E
    BY <2>2, <1>b DEF RowStep
  <2> QED BY <2>1, <2>2
<1> QED BY <1>s, <1>1, <1>2, <1>3, SameRowInv DEF LedgerStep, LedgerInv

\* Resumption reopens a row without a lease, an effect or an open attempt.
LEMMA ResumeLedger ==
  ASSUME LedgerInv, NEW o \in Ops, ResumeRequest(o)
  PROVE  LedgerStep
<1>1. LedgerTypeOK'
  BY Zenon DEF ResumeRequest, LedgerInv, LedgerTypeOK, Unfinished
<1>2. ASSUME NEW x \in Ops, x # o PROVE SameRow(x)
  BY <1>2 DEF ResumeRequest, SameRow, LedgerInv, LedgerTypeOK
<1>3. RowInv(o)'
  <2>1. /\ status'[o] = "pending" /\ expires'[o] = expires[o] /\ lease'[o] = lease[o]
        /\ fence'[o] = fence[o] /\ attempts'[o] = attempts[o]
        /\ attempt'[o] = attempt[o] /\ effects'[o] = effects[o]
    BY DEF ResumeRequest, LedgerInv, LedgerTypeOK
  <2>2. status[o] \in {"cancelled", "retry", "pending"} /\ RowInv(o)
    BY DEF ResumeRequest, LedgerInv
  <2>3. Counted(o)'
    BY <2>1, <2>2, CountKept DEF RowInv
  <2> QED BY <2>1, <2>2, <2>3 DEF RowInv, NoLease, Fences
<1>s. \A x \in Ops : RowStep(x)
  BY DEF ResumeRequest, RowStep, Finished, LedgerInv, LedgerTypeOK
<1> QED BY <1>s, <1>1, <1>2, <1>3, SameRowInv DEF LedgerStep, LedgerInv

\* A claim, with the sweep that precedes it: swept rows close with their attempt, the
\* claimed row gets the next fence and a fresh attempt, every other row is untouched.
LEMMA ClaimLedger ==
  ASSUME LedgerInv, NEW swept \in SUBSET Ops, NEW picked \in SUBSET Ops,
         swept \cap picked = {}, \A o \in swept : status[o] \in Unfinished,
         ClaimOperationLease(swept, picked), nestedFence' \in [Ops -> 0..MaxFence]
  PROVE  LedgerStep
<1> USE LedgerAssumption
<1>a. ASSUME NEW x \in Ops
      PROVE  /\ x \in swept => SweptStatus(x) \in {"expired", "failed"}
             /\ x \in picked => /\ LeaseFrom(x) \in Nat /\ LeaseFrom(x) # NoLease
                                /\ LeaseFrom(x) <= expires[x]
                                /\ status[x] \in Unfinished
                                /\ fence[x] + 1 \in Fences /\ attempts[x] < MaxAttempts
             /\ x \in swept \cup picked => effects[x] = <<>>
  <2>1. x \in picked => Claimable(x)
    BY DEF ClaimOperationLease
  <2>2. x \in picked => LeaseFrom(x) \in Nat /\ LeaseFrom(x) # NoLease /\ LeaseFrom(x) <= expires[x]
    BY <2>1, LeaseFromFact DEF LedgerInv, Claimable
  <2>3. x \in picked => fence[x] + 1 \in Fences /\ attempts[x] < MaxAttempts
    BY <2>1, GrantFact DEF Claimable
  <2>4. x \in swept \cup picked => status[x] \in Unfinished
    BY <2>1 DEF Claimable
  <2>5. status[x] \in Unfinished => effects[x] = <<>>
    BY DEF LedgerInv, RowInv, Unfinished
  <2> QED BY <2>2, <2>3, <2>4, <2>5 DEF SweptStatus
<1>b. ASSUME NEW x \in Ops
      PROVE  /\ status'[x] = IF x \in swept THEN SweptStatus(x)
                             ELSE IF x \in picked THEN "running" ELSE status[x]
             /\ lease'[x] = IF x \in swept THEN NoLease
                            ELSE IF x \in picked THEN LeaseFrom(x) ELSE lease[x]
             /\ fence'[x] = IF x \in picked THEN fence[x] + 1 ELSE fence[x]
             /\ attempts'[x] = IF x \in picked THEN attempts[x] + 1 ELSE attempts[x]
             /\ expires'[x] = expires[x] /\ effects'[x] = effects[x]
  BY DEF ClaimOperationLease, NextFence
<1>c. ASSUME NEW x \in Ops, NEW f \in Fences
      PROVE  attempt'[x][f] =
               IF x \in picked /\ f = fence[x] + 1 THEN "acquiring"
               ELSE IF x \in swept \cup picked /\ attempt[x][f] = "acquiring" THEN "abandoned"
               ELSE attempt[x][f]
  BY DEF ClaimOperationLease, NextFence
<1>1. LedgerTypeOK'
  <2>1. status' \in [Ops -> {"none"} \cup Unfinished \cup Finished]
    BY <1>a, <1>b DEF ClaimOperationLease, LedgerInv, LedgerTypeOK, Unfinished, Finished
  <2>2. lease' \in [Ops -> Nat]
    BY <1>a, <1>b DEF ClaimOperationLease, LedgerInv, LedgerTypeOK, NoLease
  <2>3. fence' \in [Ops -> 0..MaxFence] /\ attempts' \in [Ops -> 0..MaxAttempts]
    <3> DEFINE F == 0..MaxFence
               T == 0..MaxAttempts
    <3>1. \A x \in Ops : fence[x] \in F /\ (x \in picked => fence[x] + 1 \in F)
      BY <1>a, FencesFact DEF LedgerInv, LedgerTypeOK
    <3>2. \A x \in Ops : attempts[x] \in T /\ (x \in picked => attempts[x] + 1 \in T)
      BY SMT, <1>a DEF LedgerInv, LedgerTypeOK
    <3> HIDE DEF F, T
    <3>3. fence' \in [Ops -> F]
      BY <3>1 DEF ClaimOperationLease, NextFence
    <3>4. attempts' \in [Ops -> T]
      BY <3>2 DEF ClaimOperationLease
    <3> QED BY <3>3, <3>4 DEF F, T
  <2>4. attempt' \in [Ops -> [Fences -> AttemptStates]]
    <3>1. \A x \in Ops, f \in Fences : attempt[x][f] \in AttemptStates
      BY SMT DEF LedgerInv, LedgerTypeOK
    <3> QED BY <3>1 DEF ClaimOperationLease, AttemptStates
  <2> QED BY <2>1, <2>2, <2>3, <2>4 DEF ClaimOperationLease, LedgerInv, LedgerTypeOK
<1>2. ASSUME NEW x \in Ops, x \in swept PROVE RowInv(x)'
  <2>1. expires[x] \in Nat /\ RowInv(x) /\ x \notin picked
    BY <1>2 DEF LedgerInv, LedgerTypeOK
  <2>2. /\ status'[x] \in {"expired", "failed"} /\ lease'[x] = NoLease
        /\ fence'[x] = fence[x] /\ attempts'[x] = attempts[x]
        /\ expires'[x] = expires[x] /\ effects'[x] = <<>>
    BY <2>1, <1>2, <1>a, <1>b
  <2>3. \A f \in Fences : /\ attempt'[x][f] # "acquiring"
                          /\ attempt'[x][f] = "none" <=> attempt[x][f] = "none"
    BY SMT, <2>1, <1>2, <1>c
  <2>4. Counted(x)'
    BY <2>1, <2>2, <2>3, CountKept DEF RowInv
  <2>5. 0 <= expires[x]
    BY SMT, <2>1
  <2>6. \A f \in Fences : attempt'[x][f] # "none" => f <= fence[x]
    BY <2>1, <2>3 DEF RowInv
  <2> QED BY <2>1, <2>2, <2>3, <2>4, <2>5, <2>6 DEF RowInv, NoLease
<1>3. ASSUME NEW x \in Ops, x \in picked PROVE RowInv(x)'
  <2>1. x \notin swept /\ RowInv(x) /\ effects[x] = <<>> /\ fence[x] \in Nat
    BY SMT, <1>3, <1>a DEF LedgerInv, LedgerTypeOK
  <2>2. /\ status'[x] = "running" /\ lease'[x] = LeaseFrom(x) /\ fence'[x] = fence[x] + 1
        /\ attempts'[x] = attempts[x] + 1 /\ expires'[x] = expires[x] /\ effects'[x] = <<>>
    BY <2>1, <1>3, <1>b
  <2>n. fence[x] + 1 \in Fences /\ attempt[x][fence[x] + 1] = "none"
    <3>1. fence[x] + 1 \in Fences /\ ~(fence[x] + 1 <= fence[x])
      BY SMT, <2>1, <1>3, <1>a
    <3> QED BY <3>1, <2>1 DEF RowInv
  <2>3. \A f \in Fences :
          /\ attempt'[x][f] = "acquiring" <=> f = fence[x] + 1
          /\ attempt'[x][f] = "none" <=> attempt[x][f] = "none" /\ f # fence[x] + 1
    <3> TAKE f \in Fences
    <3>1. attempt'[x][f] = IF f = fence[x] + 1 THEN "acquiring"
                           ELSE IF attempt[x][f] = "acquiring" THEN "abandoned"
                           ELSE attempt[x][f]
      BY <1>3, <1>c
    <3>2. CASE f = fence[x] + 1
      BY <3>1, <3>2
    <3>3. CASE f # fence[x] + 1
      BY <3>1, <3>3
    <3> QED BY <3>2, <3>3
  <2>4. LeaseFrom(x) # NoLease /\ LeaseFrom(x) <= expires[x]
    BY <1>3, <1>a
  <2>5. Counted(x)'
    <3>1. PICK n \in Fences : n = fence[x] + 1
      BY <2>n
    <3>2. attempt[x][n] = "none"
      BY <2>n, <3>1
    <3>3. \A f \in Fences : attempt'[x][f] = "none" <=> attempt[x][f] = "none" /\ f # n
      BY <2>3, <3>1
    <3>4. Counted(x) /\ attempts'[x] = attempts[x] + 1
      BY <2>1, <2>2 DEF RowInv
    <3> QED BY <3>2, <3>3, <3>4, CountClaimed
  <2>6. /\ attempts[x] + 1 <= fence[x] + 1 /\ fence[x] + 1 <= attempts[x] + 1 + MaxErasures
        /\ \A f \in Fences : attempt'[x][f] # "none" => f <= fence[x] + 1
    <3>1. attempts[x] \in Nat /\ MaxErasures \in Nat
      BY SMT, LedgerAssumption DEF LedgerInv, LedgerTypeOK
    <3>2. attempts[x] <= fence[x] /\ fence[x] <= attempts[x] + MaxErasures
      BY <2>1 DEF RowInv
    <3>3. \A f \in Fences : attempt'[x][f] # "none" => f <= fence[x] \/ f = fence[x] + 1
      BY <2>1, <2>3 DEF RowInv
    <3>4. \A f \in Fences : f \in Nat
      BY SMT DEF Fences
    <3>5. attempts[x] + 1 <= fence[x] + 1 /\ fence[x] + 1 <= attempts[x] + 1 + MaxErasures
      BY SMT, <2>1, <3>1, <3>2
    <3>6. \A f \in Nat : f <= fence[x] \/ f = fence[x] + 1 => f <= fence[x] + 1
      BY SMT, <2>1
    <3> QED BY <3>3, <3>4, <3>5, <3>6
  <2>7. /\ status'[x] = "running" <=> lease'[x] # NoLease
        /\ lease'[x] <= expires'[x]
        /\ attempts'[x] <= fence'[x] /\ fence'[x] <= attempts'[x] + MaxErasures
    BY <2>2, <2>4, <2>6
  <2>8. \A f \in Fences :
          /\ attempt'[x][f] = "acquiring" <=> status'[x] = "running" /\ fence'[x] = f
          /\ attempt'[x][f] # "none" => f <= fence'[x]
    <3> TAKE f \in Fences
    <3>1. attempt'[x][f] = "acquiring" <=> f = fence[x] + 1
      BY <2>3
    <3>2. attempt'[x][f] # "none" => f <= fence[x] + 1
      BY <2>6
    <3> QED BY <2>2, <3>1, <3>2
  <2> QED BY <2>2, <2>5, <2>7, <2>8 DEF RowInv
<1>4. ASSUME NEW x \in Ops, x \notin swept \cup picked PROVE SameRow(x)
  BY SMT, <1>4 DEF ClaimOperationLease, SameRow, LedgerInv, LedgerTypeOK
<1>s. \A x \in Ops : RowStep(x)
  BY <1>a, <1>b, Zenon DEF RowStep, Finished, Unfinished
<1> QED BY <1>s, <1>1, <1>2, <1>3, <1>4, SameRowInv DEF LedgerStep, LedgerInv

\* The commit of a domain effect by the live claim, which expires some old successes.
LEMMA CommitLedger ==
  ASSUME LedgerInv, NEW o \in Ops, NEW f \in Fences, HoldsFence(o, f),
         NEW outcome \in {"succeeded", "blocked"}, NEW expired \in SUBSET Ops,
         o \notin expired, \A x \in expired : status[x] = "succeeded",
         CommitEffect(o, f, outcome, expired)
  PROVE  LedgerStep
<1>0. /\ status[o] = "running" /\ fence[o] = f
      /\ attempt[o][f] = "acquiring" /\ effects[o] = <<>>
  BY HolderFact
<1>a. /\ attempt' = [attempt EXCEPT ![o] = [attempt[o] EXCEPT ![f] = outcome]]
      /\ effects' = [effects EXCEPT ![o] = <<f>>]
  BY SMT, <1>0 DEF CommitEffect, LedgerInv, LedgerTypeOK
<1>1. LedgerTypeOK'
  <2>1. status' \in [Ops -> {"none"} \cup Unfinished \cup Finished]
    BY Zenon DEF CommitEffect, LedgerInv, LedgerTypeOK, Unfinished, Finished
  <2>2. [attempt[o] EXCEPT ![f] = outcome] \in [Fences -> AttemptStates]
    BY DEF LedgerInv, LedgerTypeOK, AttemptStates
  <2>3. attempt' \in [Ops -> [Fences -> AttemptStates]]
    BY <1>a, <2>2 DEF LedgerInv, LedgerTypeOK
  <2>4. effects' \in [Ops -> Seq(Fences)]
    BY SMT, <1>a DEF LedgerInv, LedgerTypeOK
  <2> QED BY <2>1, <2>3, <2>4, Zenon DEF CommitEffect, LedgerInv, LedgerTypeOK, NoLease
<1>2. RowInv(o)'
  <2>1. /\ status'[o] = outcome /\ lease'[o] = NoLease /\ fence'[o] = f
        /\ attempts'[o] = attempts[o]
        /\ expires'[o] = expires[o] /\ effects'[o] = <<f>> /\ expires[o] \in Nat
    BY <1>0, <1>a DEF CommitEffect, LedgerInv, LedgerTypeOK
  <2>2. \A g \in Fences : attempt'[o][g] = IF g = f THEN outcome ELSE attempt[o][g]
    BY <1>a DEF LedgerInv, LedgerTypeOK
  <2>3. \A g \in Fences : /\ attempt'[o][g] # "acquiring"
                          /\ attempt'[o][g] = "none" <=> attempt[o][g] = "none"
    BY SMT, <2>2, <1>0 DEF LedgerInv, RowInv
  <2>4. Counted(o)'
    BY <2>1, <2>3, CountKept DEF RowInv, LedgerInv
  <2> QED BY SMT, <2>1, <2>2, <2>3, <2>4, <1>0 DEF RowInv, LedgerInv, NoLease
<1>3. ASSUME NEW x \in Ops, x \in expired PROVE RowInv(x)'
  <2>1. /\ status'[x] = "expired" /\ lease'[x] = lease[x] /\ fence'[x] = fence[x]
        /\ attempts'[x] = attempts[x] /\ expires'[x] = expires[x]
        /\ effects'[x] = effects[x] /\ attempt'[x] = attempt[x]
    BY <1>3, <1>a DEF CommitEffect, LedgerInv, LedgerTypeOK
  <2>2. status[x] = "succeeded" /\ RowInv(x)
    BY <1>3 DEF LedgerInv
  <2>3. Counted(x)'
    BY <2>1, <2>2, CountKept DEF RowInv
  <2> QED BY <2>1, <2>2, <2>3, Zenon DEF RowInv, NoLease, Fences
<1>4. ASSUME NEW x \in Ops, x # o, x \notin expired PROVE SameRow(x)
  BY <1>4, <1>a DEF CommitEffect, SameRow, LedgerInv, LedgerTypeOK
<1>s. \A x \in Ops : RowStep(x)
  BY <1>0, Zenon DEF CommitEffect, RowStep, Finished, LedgerInv, LedgerTypeOK
<1> QED BY <1>s, <1>1, <1>2, <1>3, <1>4, SameRowInv DEF LedgerStep, LedgerInv

-----------------------------------------------------------------------------
(* The processes *)

\* A process that is working or failing remembers an operation and a granted fence.
LEMMA RunFact ==
  ASSUME NEW r \in Runs, r.pc \in {"working", "failing"}
  PROVE  r.op \in Ops /\ r.fence \in Fences /\ [r EXCEPT !.pc = "failing"] \in Runs
BY SMT DEF Runs, Idle

\* What a process remembers keeps its type when one process changes state.
LEMMA RunsFact ==
  ASSUME NEW R \in [Actors -> Runs], NEW a \in Actors
  PROVE  /\ [R EXCEPT ![a] = Idle] \in [Actors -> Runs]
         /\ \A o \in Ops, f \in Fences : [R EXCEPT ![a] = Working(o, f)] \in [Actors -> Runs]
         /\ R[a].pc = "working" => [R EXCEPT ![a].pc = "failing"] \in [Actors -> Runs]
<1>1. Idle \in Runs /\ \A o \in Ops, f \in Fences : Working(o, f) \in Runs
  BY DEF Runs, Working
<1>2. R[a].pc = "working" => [R[a] EXCEPT !.pc = "failing"] \in Runs
  BY RunFact
<1> HIDE DEF Runs, Idle, Working
<1> QED BY <1>1, <1>2

\* Retry delays are natural numbers.
LEMMA DelayFact ==
  ASSUME NEW o \in Ops, NEW f \in Fences
  PROVE  RetryDelay(o, f) \in Nat
<1>1. Earlier(f, 6) \in 1..6
  BY SMT, LedgerAssumption DEF Earlier, Fences
<1>2. <<1, 2, 4, 8, 16, 32>>[Earlier(f, 6)] \in Nat
  BY SMT, <1>1
<1>3. Backoff * <<1, 2, 4, 8, 16, 32>>[Earlier(f, 6)] \in Nat
  BY SMT, <1>2, LedgerAssumption
<1> QED BY <1>3, LedgerAssumption, EarlierFact, Zenon DEF RetryDelay

\* A row's lifetime ends at a natural number.
LEMMA LifetimeFact ==
  ASSUME LedgerInv
  PROVE  now + Retention \in Nat /\ 0 \in 0..MaxFence
BY SMT, LedgerAssumption, FencesFact DEF LedgerInv, LedgerTypeOK

\* Swept rows are unfinished and none of them can be claimed by the same pass.
LEMMA SweptFact ==
  /\ Swept \in SUBSET Ops
  /\ \A o \in Swept : status[o] \in Unfinished
  /\ \A o \in Ops : LedgerTypeOK /\ Claimable(o) => o \notin Swept
BY SMT, LedgerAssumption DEF Swept, Claimable, LedgerTypeOK

\* Both completions of a root attempt preserve the invariant of the tables.
LEMMA CompleteLedger ==
  ASSUME LedgerInv, NEW o \in Ops, NEW f \in Fences,
         CompleteJob(o, f) \/ CompleteRequest(o, f)
  PROVE  LedgerStep
<1>1. CASE CompleteJob(o, f)
  <2>1. PICK S \in SUBSET Sweepable(o) : CommitEffect(o, f, "succeeded", S)
    BY <1>1, Zenon DEF CompleteJob
  <2>2. S \in SUBSET Ops /\ o \notin S /\ \A x \in S : status[x] = "succeeded"
    BY Zenon DEF Sweepable
  <2> QED BY <2>1, <2>2, <1>1, CommitLedger, Zenon DEF CompleteJob
<1>2. CASE CompleteRequest(o, f)
  <2>1. PICK outcome \in {"succeeded", "blocked"} : CommitEffect(o, f, outcome, {})
    BY <1>2 DEF CompleteRequest
  <2> QED BY SMT, <2>1, <1>2, CommitLedger DEF CompleteRequest
<1> QED BY <1>1, <1>2

\* Every step of the dispatchers preserves the invariant and treats every row as asked.
LEMMA NextInv ==
  ASSUME Inv, Next
  PROVE  Inv' /\ \A o \in Ops : RowStep(o)
<1> USE DEF Inv, TypeOK
<1>0. Inv' <=> LedgerInv' /\ run' \in [Actors -> Runs] /\ sub' \in [Actors -> Runs]
  BY DEF LedgerInv, Runs, Fences, Idle
<1> SUFFICES LedgerStep /\ run' \in [Actors -> Runs] /\ sub' \in [Actors -> Runs]
  BY <1>0 DEF LedgerStep
<1>1. CASE Tick
  BY <1>1, TickLedger DEF Tick
<1>2. ASSUME NEW t \in DOMAIN policy, ChangePolicy(t)
      PROVE  LedgerStep /\ run' \in [Actors -> Runs] /\ sub' \in [Actors -> Runs]
  BY <1>2, PolicyLedger DEF ChangePolicy
<1>3. ASSUME NEW o \in Ops, CallerStep(o)
      PROVE  LedgerStep /\ run' \in [Actors -> Runs] /\ sub' \in [Actors -> Runs]
  <2>1. CASE Submit(o)
    <3>1. now + Retention \in Nat /\ 0 \in 0..MaxFence
      BY LifetimeFact, Zenon
    <3> QED BY <2>1, <3>1, InsertRowLedger DEF Submit, AdmitJob, AdmitRequest
  <2>2. CASE Cancel(o)
    BY <2>2, CancelLedger DEF Cancel
  <2>3. CASE Resume(o)
    BY <2>3, ResumeLedger DEF Resume
  <2> QED BY <1>3, <2>1, <2>2, <2>3 DEF CallerStep
<1>4. ASSUME NEW a \in Actors, ActorStep(a)
      PROVE  LedgerStep /\ run' \in [Actors -> Runs] /\ sub' \in [Actors -> Runs]
  <2>0. run[a] \in Runs /\ sub[a] \in Runs
    OBVIOUS
  <2>1. CASE Poll(a)
    <3>a. nestedFence \in [Ops -> 0..MaxFence]
      BY DEF LedgerInv, LedgerTypeOK
    <3>1. CASE ClaimNothing /\ run' = run
      BY <2>1, <3>1, <3>a, SweptFact, ClaimLedger DEF ClaimNothing, Poll
    <3>2. ASSUME NEW o \in Ops, ClaimJob(o), run' = [run EXCEPT ![a] = Working(o, NextFence(o))]
          PROVE  LedgerStep /\ run' \in [Actors -> Runs]
      <4>1. Claimable(o)
        BY <3>2, Zenon DEF ClaimJob, JobEligible
      <4>2. o \notin Swept
        BY <4>1, SweptFact DEF LedgerInv
      <4>3. ClaimOperationLease(Swept, {o}) /\ nestedFence' = nestedFence
        BY <3>2 DEF ClaimJob
      <4>4. LedgerStep
        BY <4>2, <4>3, <3>a, SweptFact, ClaimLedger
      <4> QED BY <4>1, <4>4, <3>2, GrantFact, RunsFact, Zenon DEF NextFence
    <3> QED BY <2>1, <3>1, <3>2 DEF Poll
  <2>2. CASE Heartbeat(a)
    BY <2>0, <2>2, RunFact, RenewLedger, Zenon DEF Heartbeat
  <2>3. CASE Complete(a)
    BY <2>0, <2>3, RunFact, RunsFact, CompleteLedger, Zenon DEF Complete, Busy
  <2>4. CASE CompleteUnheard(a)
    BY <2>0, <2>4, RunFact, RunsFact, CompleteLedger DEF CompleteUnheard, Busy
  <2>5. CASE GiveUp(a)
    BY <2>5, StutterLedger, RunsFact DEF GiveUp, Busy
  <2>6. CASE ReportFailure(a)
    <3>1. run[a].op \in Ops /\ run[a].fence \in Fences
      BY <2>0, <2>6, RunFact, Zenon DEF ReportFailure
    <3>2. RetryDelay(run[a].op, run[a].fence) \in Nat
      BY <3>1, DelayFact
    <3>3. LedgerStep
      BY <2>6, <3>1, <3>2, FailLedger, StutterLedger DEF ReportFailure
    <3> QED BY <2>6, <3>3, RunsFact, Zenon DEF ReportFailure
  <2>7. CASE Crash(a)
    BY <2>7, StutterLedger, RunsFact, Zenon DEF Crash
  <2>8. CASE PulseChild(a)
    BY <2>0, <2>8, RunFact, RenewLedger, Zenon DEF PulseChild
  <2>9. CASE CompleteChild(a)
    <3>1. sub[a].op \in Ops /\ sub[a].fence \in Fences
      BY <2>0, <2>9, RunFact, Zenon DEF CompleteChild
    <3>2. /\ HoldsFence(sub[a].op, sub[a].fence)
          /\ CommitEffect(sub[a].op, sub[a].fence, "succeeded", {})
      BY <2>9 DEF CompleteChild, CompleteNestedRequest
    <3>3. LedgerStep
      BY SMT, <3>1, <3>2, CommitLedger
    <3> QED BY <2>9, <3>3, RunsFact, Zenon DEF CompleteChild
  <2>10. CASE GiveUpChild(a)
    BY <2>10, StutterLedger, RunsFact DEF GiveUpChild
  <2>11. CASE ReportChildFailure(a)
    <3>1. sub[a].op \in Ops /\ sub[a].fence \in Fences
      BY <2>0, <2>11, RunFact, Zenon DEF ReportChildFailure
    <3>2. RetryDelay(sub[a].op, sub[a].fence) \in Nat
      BY <3>1, DelayFact
    <3>3. LedgerStep
      BY <2>11, <3>1, <3>2, FailLedger, StutterLedger, Zenon DEF ReportChildFailure
    <3> QED BY <2>11, <3>3, RunsFact, Zenon DEF ReportChildFailure
  <2> QED BY <1>4, <2>1, <2>2, <2>3, <2>4, <2>5, <2>6, <2>7, <2>8, <2>9, <2>10, <2>11 DEF ActorStep
<1>5. ASSUME NEW a \in Actors, NEW o \in Ops, ActorOpStep(a, o)
      PROVE  LedgerStep /\ run' \in [Actors -> Runs] /\ sub' \in [Actors -> Runs]
  <2>a. run[a] \in Runs /\ nestedFence \in [Ops -> 0..MaxFence]
    BY DEF LedgerInv, LedgerTypeOK
  <2>1. CASE StartRequest(a, o)
    <3>1. Claimable(o) /\ ClaimOperationLease({}, {o}) /\ nestedFence' = nestedFence
      BY <2>1, Zenon DEF StartRequest, ClaimRequest, ClaimOperationLease
    <3>2. LedgerStep
      BY SMT, <3>1, <2>a, ClaimLedger
    <3> QED BY <2>1, <3>1, <3>2, GrantFact, RunsFact, Zenon DEF StartRequest, NextFence
  <2>2. CASE AdmitChild(a, o)
    <3>1. run[a].fence \in Fences /\ ParentOf[o] \in Ops
      BY <2>2, <2>a, RunFact, Zenon DEF AdmitChild, Busy
    <3>2. run[a].fence \in 0..MaxFence
      BY <3>1, FencesFact, Zenon
    <3>3. now + Retention \in Nat
      BY LifetimeFact, Zenon
    <3>4. Earlier(now + Retention, expires[ParentOf[o]]) \in Nat
      <4>1. expires[ParentOf[o]] \in Nat
        BY <3>1 DEF LedgerInv, LedgerTypeOK
      <4> QED BY <3>3, <4>1, EarlierFact, Zenon
    <3> QED BY <2>2, <3>2, <3>4, InsertRowLedger, Zenon DEF AdmitChild, AdmitNestedRequest
  <2>3. CASE StartChild(a, o)
    <3>1. run[a].fence \in Fences
      BY <2>3, <2>a, RunFact, Zenon DEF StartChild, Busy
    <3>2. /\ Claimable(o) /\ ClaimOperationLease({}, {o})
          /\ nestedFence' = [nestedFence EXCEPT ![o] = run[a].fence]
      BY <2>3, Zenon DEF StartChild, ClaimNestedRequest, ClaimOperationLease
    <3>3. nestedFence' \in [Ops -> 0..MaxFence]
      BY <3>1, <3>2, <2>a, FencesFact
    <3>4. LedgerStep
      BY SMT, <3>2, <3>3, ClaimLedger
    <3> QED BY <2>3, <3>2, <3>4, GrantFact, RunsFact, Zenon DEF StartChild, NextFence
  <2> QED BY <1>5, <2>1, <2>2, <2>3 DEF ActorOpStep
<1>6. ASSUME NEW roots \in SUBSET Ops, DeleteDocument(roots)
      PROVE  LedgerStep /\ run' \in [Actors -> Runs] /\ sub' \in [Actors -> Runs]
  BY <1>6, EraseLedger DEF DeleteDocument
<1> QED BY <1>1, <1>2, <1>3, <1>4, <1>5, <1>6 DEF Next

\* The invariant holds in every state of every behaviour.
LEMMA InvHolds == Spec => []Inv
<1>1. Init => Inv
  <2>1. Init => LedgerInv
    BY InitLedger DEF Init
  <2>2. Init => run \in [Actors -> Runs] /\ sub \in [Actors -> Runs]
    BY DEF Init, Runs
  <2> QED BY <2>1, <2>2 DEF Inv, TypeOK, LedgerInv
<1>2. Inv /\ [Next]_vars => Inv'
  <2>1. Inv /\ UNCHANGED vars => Inv'
    BY StutterLedger DEF LedgerStep, Inv, TypeOK, LedgerInv, vars, Runs, Idle, Fences
  <2> QED BY <2>1, NextInv
<1> QED BY <1>1, <1>2, PTL DEF Spec

-----------------------------------------------------------------------------
(* The theorems *)

\* Every row keeps its type, and a process only ever remembers granted fences.
THEOREM TypeCorrect == Spec => []TypeOK
BY InvHolds, PTL DEF Inv

\* No transition ever violates the schema's row constraints.
THEOREM ConstraintsHold == Spec => []RowConstraints
<1>1. Inv => RowConstraints
  BY RowInvariants DEF Inv
<1> QED BY <1>1, InvHolds, PTL

\* The attempt table and the operation table always agree.
THEOREM LedgersAgree == Spec => []AttemptLedger
<1>1. Inv => AttemptLedger
  BY RowInvariants DEF Inv
<1> QED BY <1>1, InvHolds, PTL

\* An operation's domain effect is committed at most once, by the attempt that ended it,
\* whatever crashes, lapsed leases, reclaims and lost replies happen.
THEOREM EffectAtMostOnce == Spec => []EffectOnce
<1>1. Inv => EffectOnce
  BY RowInvariants DEF Inv
<1> QED BY <1>1, InvHolds, PTL

\* No late report, cancellation or reclaim overturns an outcome.
THEOREM OutcomesAreFinal == Spec => FinishedIsFinal
<1>1. Inv /\ [Next]_vars =>
        [\A o \in Ops : status[o] \in Finished /\ status'[o] # status[o] =>
           \/ status[o] = "cancelled" /\ status'[o] = "pending" /\ Mode[o] = "request"
           \/ status[o] = "succeeded" /\ status'[o] = "expired"]_vars
  BY NextInv DEF RowStep
<1> QED BY <1>1, InvHolds, PTL DEF Spec, FinishedIsFinal

\* A lease that ran out is never extended, only replaced under a new fence.
THEOREM LapsedLeasesStayLapsed == Spec => LapsedLeaseStaysLapsed
<1>1. Inv /\ [Next]_vars =>
        [\A o \in Ops :
           status[o] = "running" /\ ~Live(o) /\ status'[o] = "running" =>
             lease'[o] = lease[o] \/ fence'[o] = fence[o] + 1]_vars
  BY NextInv DEF RowStep
<1> QED BY <1>1, InvHolds, PTL DEF Spec, LapsedLeaseStaysLapsed

------------------------------------------------------------------------------
(***************************************************************************)
(* Overlap and nesting.  A transition of the tables does one of five       *)
(* things to a row: it leaves it, opens or drops it, commits its effect,   *)
(* or hands it to a new claim (Still, Dropped, Committed, Claimed).  One   *)
(* lemma per transition says which rows; StepRows collects them for the    *)
(* steps of Dispatch, with what the processes remember afterwards.  The    *)
(* theorems below and in TaskProof follow from that classification.        *)
(***************************************************************************)

\* The row is as it was, except that its lease may have been renewed or run out.
Still(o) ==
  /\ status'[o] = status[o] /\ fence'[o] = fence[o] /\ effects'[o] = effects[o]
  /\ nestedFence'[o] = nestedFence[o]
  /\ Live(o)' => Live(o)

\* The row is not live any more, and nothing was committed for it: admission,
\* resumption, failure, cancellation, erasure, sweep, or expiry of an old success.
Dropped(o) ==
  /\ effects'[o] = effects[o] /\ status'[o] # "running"
  /\ \/ status[o] \in {"none", "cancelled"} /\ status'[o] = "pending"
     \/ status[o] \in Unfinished /\ status'[o] \in {"pending", "retry"}
     \/ status[o] \in Unfinished /\ status'[o] \in Finished
     \/ status[o] = "succeeded" /\ status'[o] = "expired"

Committed(o) ==
  /\ Live(o) /\ effects[o] = <<>>
  /\ effects'[o] # <<>> /\ fence'[o] = fence[o] /\ status'[o] \in Finished

Claimed(o) ==
  /\ Claimable(o)
  /\ status'[o] = "running" /\ fence'[o] = fence[o] + 1 /\ effects'[o] = effects[o]

\* Only o may be opened by the step.
OpensOnly(o) == \A x \in Ops : Still(x) \/ (x = o /\ Dropped(x))

\* Rows may be left alone or closed, and o, if any, committed.
Closes(x) == Still(x) \/ (Dropped(x) /\ (status'[x] \in Unfinished => status[x] \in Unfinished))

-----------------------------------------------------------------------------
(* What each transition does to the rows *)

\* A step of a process that touches no table leaves every row.
LEMMA StutterRows ==
  ASSUME UNCHANGED <<now, rows, attempt, policy, effects>>
  PROVE  \A x \in Ops : Still(x)
BY DEF Still, Live, rows

\* The clock only ends leases.
LEMMA TickRows ==
  ASSUME LedgerInv, now' = now + 1, UNCHANGED <<rows, attempt, policy, effects>>
  PROVE  \A x \in Ops : Still(x)
BY SMT DEF Still, Live, rows, LedgerInv, LedgerTypeOK

\* An insertion opens one row and leaves the others.
LEMMA InsertRows ==
  ASSUME LedgerInv, NEW o \in Ops, NEW until, NEW pf, status[o] = "none", InsertRow(o, until, pf)
  PROVE  OpensOnly(o) /\ Dropped(o)
<1>1. \A x \in Ops : x # o => Still(x)
  BY DEF InsertRow, Still, Live, LedgerInv, LedgerTypeOK
<1>2. Dropped(o)
  BY DEF InsertRow, Dropped, LedgerInv, LedgerTypeOK
<1> QED BY <1>1, <1>2 DEF OpensOnly

\* A resumption opens one row and leaves the others.
LEMMA ResumeRows ==
  ASSUME LedgerInv, NEW o \in Ops, ResumeRequest(o)
  PROVE  OpensOnly(o) /\ Dropped(o)
<1>1. \A x \in Ops : x # o => Still(x)
  BY DEF ResumeRequest, Still, Live, LedgerInv, LedgerTypeOK
<1>2. Dropped(o)
  BY DEF ResumeRequest, Dropped, LedgerInv, LedgerTypeOK, Unfinished
<1> QED BY <1>1, <1>2 DEF OpensOnly

\* A renewal makes no row live that was not.
LEMMA RenewRows ==
  ASSUME LedgerInv, NEW o \in Ops, NEW f, RenewOperationLease(o, f)
  PROVE  \A x \in Ops : Still(x)
BY DEF RenewOperationLease, HoldsFence, Still, Live, LedgerInv, LedgerTypeOK

\* A failure report closes its row or leaves it to a retry.
LEMMA FailRows ==
  ASSUME LedgerInv, NEW o \in Ops, NEW f, NEW permanent, NEW delay,
         FailOperationLease(o, f, permanent, delay)
  PROVE  \A x \in Ops : Closes(x)
<1>1. \A x \in Ops : x # o => Still(x)
  BY DEF FailOperationLease, Still, Live, LedgerInv, LedgerTypeOK
<1>2. FailureState(o, permanent) \in {"blocked", "failed", "retry"}
  BY DEF FailureState
<1>3. status[o] = "running" /\ status'[o] = FailureState(o, permanent)
  BY DEF FailOperationLease, HoldsFence, Live, LedgerInv, LedgerTypeOK
<1>4. fence'[o] = fence[o] /\ effects'[o] = effects[o]
  BY DEF FailOperationLease
<1>5. Dropped(o)
  BY <1>2, <1>3, <1>4 DEF Dropped, Unfinished, Finished
<1>6. status[o] \in Unfinished
  BY <1>3 DEF Unfinished
<1> QED BY <1>1, <1>5, <1>6 DEF Closes

\* A cancellation closes its row.
LEMMA CancelRows ==
  ASSUME LedgerInv, NEW o \in Ops, CancelOperation(o)
  PROVE  \A x \in Ops : Closes(x)
<1>1. \A x \in Ops : x # o => Still(x)
  BY DEF CancelOperation, Still, Live, LedgerInv, LedgerTypeOK
<1>2. Dropped(o) /\ status[o] \in Unfinished
  BY DEF CancelOperation, Dropped, LedgerInv, LedgerTypeOK, Finished
<1> QED BY <1>1, <1>2 DEF Closes

\* An erasure closes the open rows it locked and leaves the others.
LEMMA EraseRows ==
  ASSUME LedgerInv, NEW roots, NEW missed, EraseOwnedRuns(roots, missed)
  PROVE  \A x \in Ops : Closes(x)
<1> TAKE x \in Ops
<1>1. CASE x \in Erased(roots, missed)
  <2>1. status[x] \in Unfinished /\ status'[x] = "cancelled" /\ effects'[x] = effects[x]
    BY <1>1 DEF EraseOwnedRuns, Erased
  <2> QED BY <2>1 DEF Closes, Dropped, Finished
<1>2. CASE x \notin Erased(roots, missed)
  BY <1>2 DEF EraseOwnedRuns, Closes, Still, Live
<1> QED BY <1>1, <1>2

\* A claim closes the swept rows and hands out the picked ones.
LEMMA ClaimRows ==
  ASSUME LedgerInv, NEW swept \in SUBSET Ops, NEW picked \in SUBSET Ops,
         swept \cap picked = {}, \A o \in swept : status[o] \in Unfinished,
         ClaimOperationLease(swept, picked),
         \A o \in Ops : o \notin picked => nestedFence'[o] = nestedFence[o]
  PROVE  \A x \in Ops : IF x \in picked THEN Claimed(x) ELSE Closes(x)
<1> TAKE x \in Ops
<1>1. CASE x \in picked
  BY <1>1 DEF ClaimOperationLease, NextFence, Claimed
<1>2. CASE x \in swept
  <2>1. SweptStatus(x) \in {"expired", "failed"}
    BY DEF SweptStatus
  <2>2. /\ status'[x] = SweptStatus(x) /\ fence'[x] = fence[x] /\ effects'[x] = effects[x]
        /\ status[x] \in Unfinished /\ x \notin picked
    BY <1>2 DEF ClaimOperationLease
  <2> QED BY <2>1, <2>2 DEF Closes, Dropped, Finished
<1>3. CASE x \notin swept \cup picked
  BY <1>3 DEF ClaimOperationLease, Closes, Still, Live
<1> QED BY <1>1, <1>2, <1>3

\* The claim of one row, with the sweep of the queue or without.
LEMMA ClaimOneRow ==
  ASSUME LedgerInv, NEW o \in Ops, NEW swept, swept = {} \/ swept = Swept,
         ClaimOperationLease(swept, {o}),
         \A x \in Ops : x # o => nestedFence'[x] = nestedFence[x]
  PROVE  Claimed(o) /\ \A x \in Ops : x # o => Closes(x)
<1>1. Claimable(o) /\ LedgerTypeOK
  BY DEF ClaimOperationLease, LedgerInv
<1>2. swept \in SUBSET Ops /\ (\A x \in swept : status[x] \in Unfinished) /\ o \notin swept
  BY <1>1, SweptFact
<1>3. {o} \in SUBSET Ops /\ swept \cap {o} = {}
  BY <1>2
<1>4. \A x \in Ops : x \notin {o} => nestedFence'[x] = nestedFence[x]
  OBVIOUS
<1>5. \A x \in Ops : IF x \in {o} THEN Claimed(x) ELSE Closes(x)
  BY <1>2, <1>3, <1>4, ClaimRows, Zenon
<1> QED BY <1>5

\* A pass of the queue that claims nothing only closes rows.
LEMMA ClaimNoRow ==
  ASSUME LedgerInv, ClaimNothing
  PROVE  \A x \in Ops : Closes(x)
<1>1. Swept \in SUBSET Ops /\ \A x \in Swept : status[x] \in Unfinished
  BY SweptFact
<1>2. {} \in SUBSET Ops /\ Swept \cap {} = {} /\ ClaimOperationLease(Swept, {})
  BY DEF ClaimNothing
<1>3. \A x \in Ops : IF x \in {} THEN Claimed(x) ELSE Closes(x)
  BY <1>1, <1>2, ClaimRows, Zenon DEF ClaimNothing
<1> QED BY <1>3

\* A commit finishes its row and may expire old successes.
LEMMA CommitRows ==
  ASSUME LedgerInv, NEW o \in Ops, NEW f \in Fences, HoldsFence(o, f),
         NEW outcome \in {"succeeded", "blocked"}, NEW expired \in SUBSET Ops,
         o \notin expired, \A x \in expired : status[x] = "succeeded",
         CommitEffect(o, f, outcome, expired)
  PROVE  \A x \in Ops : IF x = o THEN Committed(x) ELSE Closes(x)
<1>0. effects[o] = <<>> /\ effects' = [effects EXCEPT ![o] = <<f>>]
  <2>1. effects[o] = <<>>
    BY HolderFact
  <2> QED BY SMT, <2>1 DEF CommitEffect
<1>1. Committed(o)
  <2>1. status'[o] \in Finished /\ fence'[o] = fence[o]
    BY DEF CommitEffect, Finished
  <2>2. effects'[o] = <<f>> /\ <<f>> # <<>>
    BY <1>0 DEF LedgerInv, LedgerTypeOK
  <2> QED BY <1>0, <2>1, <2>2, Zenon DEF Committed, HoldsFence
<1>2. ASSUME NEW x \in Ops, x # o PROVE Closes(x)
  <2>1. fence'[x] = fence[x] /\ effects'[x] = effects[x]
    BY <1>0, <1>2 DEF CommitEffect, LedgerInv, LedgerTypeOK
  <2>2. CASE x \in expired
    <3>1. status[x] = "succeeded" /\ status'[x] = "expired"
      BY <1>2, <2>2 DEF CommitEffect
    <3> QED BY <2>1, <3>1 DEF Closes, Dropped, Unfinished
  <2>3. CASE x \notin expired
    BY <1>2, <2>1, <2>3 DEF CommitEffect, Closes, Still, Live, LedgerInv, LedgerTypeOK
  <2> QED BY <2>2, <2>3
<1> QED BY <1>1, <1>2

-----------------------------------------------------------------------------
(* What each step of Dispatch does to the rows and to the claims *)

\* A process keeps its claim, marks it failing or drops it.
Kept(R, S) ==
  \A a \in Actors : \/ S[a] = Idle
                    \/ R[a] # Idle /\ S[a].op = R[a].op /\ S[a].fence = R[a].fence

\* Some process remembers the live claim of o.
Holds(a, o) ==
  \/ run[a].op = o /\ HoldsFence(o, run[a].fence)
  \/ sub[a].op = o /\ HoldsFence(o, sub[a].fence)

\* No process gets a claim it did not have.
NoNewClaim == Kept(run, run') /\ Kept(sub, sub')

\* A step that opens o: an admission or a resumption.
Opening(o) ==
  /\ OpensOnly(o) /\ Dropped(o) /\ NoNewClaim
  /\ \/ AdmitJob(o) \/ AdmitRequest(o) \/ ResumeRequest(o)
     \/ \E pf \in Fences : AdmitNestedRequest(o, pf)

\* A step that hands o to a: as its root attempt, or as the child of that attempt.
Claiming(a, o) ==
  /\ Claimed(o) /\ \A x \in Ops : x # o => Closes(x)
  /\ Mode[o] = "queued" => ScheduleIdle(o)
  /\ \/ /\ ParentOf[o] = NoOp /\ run[a] = Idle /\ ExecutionCapacity(TenantOf[o])
        /\ run' = [run EXCEPT ![a] = Working(o, fence[o] + 1)] /\ sub' = sub
     \/ /\ ParentOf[o] = run[a].op /\ run[a].pc = "working"
        /\ nestedFence'[o] = run[a].fence /\ HoldsFence(run[a].op, run[a].fence)'
        /\ sub' = [sub EXCEPT ![a] = Working(o, fence[o] + 1)] /\ run' = run

\* A step in which a commits the effect of o; the effect of a child under the live
\* claim of its parent.
Committing(a, o) ==
  /\ Committed(o) /\ \A x \in Ops : x # o => Closes(x)
  /\ NoNewClaim
  /\ Holds(a, o)
  /\ ParentOf[o] # NoOp => sub[a].op = o /\ HoldsFence(ParentOf[o], run[a].fence)

Quiet == NoNewClaim /\ \A x \in Ops : Closes(x)

\* What each step of Dispatch is, seen from the rows.
RowsMove ==
  \/ Quiet
  \/ \E o \in Ops : Opening(o)
  \/ \E a \in Actors, o \in Ops : Claiming(a, o) \/ Committing(a, o)

\* Dropping a claim, marking it failing or leaving it gives no new one.
LEMMA KeptFact ==
  ASSUME NEW R \in [Actors -> Runs], NEW a \in Actors
  PROVE  /\ Kept(R, R)
         /\ Kept(R, [R EXCEPT ![a] = Idle])
         /\ R[a].pc = "working" => Kept(R, [R EXCEPT ![a].pc = "failing"])
BY SMT DEF Kept, Runs, Idle

\* A child's row is never one of the queue's.
LEMMA QueuedIsRoot ==
  ASSUME NEW o \in Ops, Mode[o] = "queued" \/ o \in Sweeps
  PROVE  ParentOf[o] = NoOp
BY LedgerAssumption

\* A completion of a root attempt is the commit of its effect.
LEMMA CompleteRows ==
  ASSUME LedgerInv, NEW o \in Ops, NEW f \in Fences,
         CompleteJob(o, f) \/ CompleteRequest(o, f)
  PROVE  /\ \A x \in Ops : IF x = o THEN Committed(x) ELSE Closes(x)
         /\ ParentOf[o] = NoOp /\ HoldsFence(o, f)
<1>1. CASE CompleteJob(o, f)
  <2>1. PICK S \in SUBSET Sweepable(o) : CommitEffect(o, f, "succeeded", S)
    BY <1>1 DEF CompleteJob
  <2>2. S \in SUBSET Ops /\ o \notin S /\ \A x \in S : status[x] = "succeeded"
    BY DEF Sweepable
  <2>3. HoldsFence(o, f) /\ o \in Sweeps
    BY <1>1 DEF CompleteJob
  <2> QED BY <2>1, <2>2, <2>3, CommitRows, QueuedIsRoot
<1>2. CASE CompleteRequest(o, f)
  <2>1. PICK outcome \in {"succeeded", "blocked"} : CommitEffect(o, f, outcome, {})
    BY <1>2 DEF CompleteRequest
  <2>2. HoldsFence(o, f) /\ ParentOf[o] = NoOp
    BY <1>2 DEF CompleteRequest
  <2> QED BY SMT, <2>1, <2>2, CommitRows
<1> QED BY <1>1, <1>2

\* Every step of Dispatch moves the rows in one of these ways.
LEMMA StepRows ==
  ASSUME Inv, Next
  PROVE  RowsMove
<1>t. run \in [Actors -> Runs] /\ sub \in [Actors -> Runs] /\ LedgerInv
  BY DEF Inv, TypeOK
<1>k. UNCHANGED <<run, sub>> => NoNewClaim
  BY DEF NoNewClaim, Kept
<1>q. (\A x \in Ops : Still(x)) => \A x \in Ops : Closes(x)
  BY DEF Closes
<1>1. CASE Tick
  BY <1>1, <1>t, <1>k, <1>q, TickRows DEF Tick, RowsMove, Quiet
<1>2. ASSUME NEW t \in DOMAIN policy, ChangePolicy(t) PROVE RowsMove
  <2>1. \A x \in Ops : Still(x)
    BY <1>2 DEF ChangePolicy, SetPolicy, Still, Live, rows
  <2> QED BY <1>2, <2>1, <1>k, <1>q DEF ChangePolicy, RowsMove, Quiet
<1>3. ASSUME NEW o \in Ops, CallerStep(o) PROVE RowsMove
  <2>1. CASE Submit(o)
    <3>1. OpensOnly(o) /\ Dropped(o)
      BY <2>1, <1>t, InsertRows DEF Submit, AdmitJob, AdmitRequest
    <3> QED BY <2>1, <3>1, <1>k, Zenon DEF Submit, RowsMove, Opening
  <2>2. CASE Cancel(o)
    BY <2>2, <1>t, <1>k, CancelRows DEF Cancel, RowsMove, Quiet
  <2>3. CASE Resume(o)
    BY <2>3, <1>t, <1>k, ResumeRows, Zenon DEF Resume, RowsMove, Opening
  <2> QED BY <1>3, <2>1, <2>2, <2>3 DEF CallerStep
<1>4. ASSUME NEW a \in Actors, ActorStep(a) PROVE RowsMove
  <2>r. /\ run[a].pc \in {"working", "failing"} => run[a].op \in Ops /\ run[a].fence \in Fences
        /\ sub[a].pc \in {"working", "failing"} => sub[a].op \in Ops /\ sub[a].fence \in Fences
    BY <1>t, RunFact, Zenon
  <2>f. /\ run' = [run EXCEPT ![a] = Idle] => Kept(run, run')
        /\ run[a].pc = "working" /\ run' = [run EXCEPT ![a].pc = "failing"] => Kept(run, run')
        /\ sub' = [sub EXCEPT ![a] = Idle] => Kept(sub, sub')
        /\ sub[a].pc = "working" /\ sub' = [sub EXCEPT ![a].pc = "failing"] => Kept(sub, sub')
        /\ run' = run => Kept(run, run')
        /\ sub' = sub => Kept(sub, sub')
    BY <1>t, KeptFact, Zenon
  <2>s. UNCHANGED <<now, rows, attempt, policy, effects>> => \A x \in Ops : Closes(x)
    BY <1>q, StutterRows
  <2>1. CASE Poll(a)
    <3>1. CASE ClaimNothing /\ run' = run
      BY <2>1, <3>1, <1>t, <2>f, ClaimNoRow, Zenon DEF Poll, RowsMove, Quiet, NoNewClaim
    <3>2. ASSUME NEW o \in Ops, ClaimJob(o), run' = [run EXCEPT ![a] = Working(o, NextFence(o))]
          PROVE  RowsMove
      <4>1. Mode[o] = "queued" /\ ScheduleIdle(o) /\ ExecutionCapacity(TenantOf[o])
        BY <3>2, Zenon DEF ClaimJob, JobEligible, ExecutionCapacity
      <4>2. Claimed(o) /\ \A x \in Ops : x # o => Closes(x)
        BY <3>2, <1>t, ClaimOneRow, Zenon DEF ClaimJob
      <4>3. Claiming(a, o)
        BY <4>1, <4>2, <3>2, <2>1, QueuedIsRoot, Zenon DEF Claiming, Poll, NextFence
      <4> QED BY <4>3 DEF RowsMove
    <3> QED BY <2>1, <3>1, <3>2 DEF Poll
  <2>2. CASE Heartbeat(a)
    BY <2>r, <2>2, <1>t, <1>k, <1>q, RenewRows, Zenon DEF Heartbeat, RowsMove, Quiet
  <2>3. ASSUME Busy(a), sub' = sub, Kept(run, run'),
               CompleteJob(run[a].op, run[a].fence) \/ CompleteRequest(run[a].op, run[a].fence)
        PROVE  RowsMove
    <3>1. run[a].op \in Ops /\ run[a].fence \in Fences
      BY <2>3, <2>r DEF Busy
    <3>2. Committing(a, run[a].op)
      BY <2>3, <3>1, <1>t, <2>f, CompleteRows, Zenon DEF Committing, Holds, NoNewClaim
    <3> QED BY <3>1, <3>2, Zenon DEF RowsMove
  <2>4. CASE Complete(a)
    BY <2>4, <2>3, <2>f, Zenon DEF Complete
  <2>5. CASE CompleteUnheard(a)
    BY <2>5, <2>3, <2>f, Zenon DEF CompleteUnheard, Busy
  <2>6. CASE GiveUp(a)
    BY <2>6, <2>f, <2>s, Zenon DEF GiveUp, Busy, RowsMove, Quiet, NoNewClaim
  <2>7. CASE ReportFailure(a)
    <3>1. \A x \in Ops : Closes(x)
      BY <2>7, <2>r, <2>s, <1>t, FailRows, Zenon DEF ReportFailure
    <3> QED BY <2>7, <3>1, <2>f, Zenon DEF ReportFailure, RowsMove, Quiet, NoNewClaim
  <2>8. CASE Crash(a)
    BY <2>8, <2>f, <2>s, Zenon DEF Crash, RowsMove, Quiet, NoNewClaim
  <2>9. CASE PulseChild(a)
    BY <2>r, <2>9, <1>t, <1>k, <1>q, RenewRows, Zenon DEF PulseChild, RowsMove, Quiet
  <2>10. CASE CompleteChild(a)
    <3>1. sub[a].op \in Ops /\ sub[a].fence \in Fences
      BY <2>10, <2>r, Zenon DEF CompleteChild
    <3>2. /\ HoldsFence(sub[a].op, sub[a].fence)
          /\ HoldsFence(ParentOf[sub[a].op], run[a].fence)
          /\ CommitEffect(sub[a].op, sub[a].fence, "succeeded", {})
      BY <2>10 DEF CompleteChild, CompleteNestedRequest
    <3>3. \A x \in Ops : IF x = sub[a].op THEN Committed(x) ELSE Closes(x)
      BY SMT, <3>1, <3>2, <1>t, CommitRows
    <3>4. Committing(a, sub[a].op)
      BY <2>10, <3>1, <3>2, <3>3, <2>f, Zenon DEF CompleteChild, Committing, Holds, NoNewClaim
    <3> QED BY <3>1, <3>4, Zenon DEF RowsMove
  <2>11. CASE GiveUpChild(a)
    BY <2>11, <2>f, <2>s, Zenon DEF GiveUpChild, RowsMove, Quiet, NoNewClaim
  <2>12. CASE ReportChildFailure(a)
    <3>1. \A x \in Ops : Closes(x)
      BY <2>12, <2>r, <2>s, <1>t, FailRows, Zenon DEF ReportChildFailure
    <3> QED BY <2>12, <3>1, <2>f, Zenon DEF ReportChildFailure, RowsMove, Quiet, NoNewClaim
  <2> QED BY <1>4, <2>1, <2>2, <2>4, <2>5, <2>6, <2>7, <2>8, <2>9, <2>10, <2>11, <2>12
          DEF ActorStep
<1>5. ASSUME NEW a \in Actors, NEW o \in Ops, ActorOpStep(a, o) PROVE RowsMove
  <2>1. CASE StartRequest(a, o)
    <3>1. /\ ClaimOperationLease({}, {o}) /\ nestedFence' = nestedFence
          /\ Mode[o] = "request" /\ ParentOf[o] = NoOp /\ ExecutionCapacity(TenantOf[o])
      BY <2>1, Zenon DEF StartRequest, ClaimRequest
    <3>2. Claimed(o) /\ \A x \in Ops : x # o => Closes(x)
      BY <3>1, <1>t, ClaimOneRow, Zenon
    <3>3. Claiming(a, o)
      BY <2>1, <3>1, <3>2 DEF StartRequest, Claiming, NextFence
    <3> QED BY <3>3 DEF RowsMove
  <2>2. CASE AdmitChild(a, o)
    <3>1. OpensOnly(o) /\ Dropped(o)
      BY <2>2, <1>t, InsertRows DEF AdmitChild, AdmitNestedRequest
    <3>2. run[a].fence \in Fences
      BY <2>2, <1>t, RunFact, Zenon DEF AdmitChild, Busy
    <3> QED BY <2>2, <3>1, <3>2, <1>k, Zenon DEF AdmitChild, RowsMove, Opening
  <2>3. CASE StartChild(a, o)
    <3>1. /\ ClaimOperationLease({}, {o}) /\ ParentOf[o] = run[a].op /\ ParentOf[o] # NoOp
          /\ HoldsFence(ParentOf[o], run[a].fence)
          /\ nestedFence' = [nestedFence EXCEPT ![o] = run[a].fence]
      BY <2>3, Zenon DEF StartChild, ClaimNestedRequest
    <3>2. /\ \A x \in Ops : x # o => nestedFence'[x] = nestedFence[x]
          /\ nestedFence'[o] = run[a].fence
      BY <3>1, <1>t DEF LedgerInv, LedgerTypeOK
    <3>3. Claimed(o) /\ \A x \in Ops : x # o => Closes(x)
      BY <3>1, <3>2, <1>t, ClaimOneRow, Zenon
    <3>4. HoldsFence(run[a].op, run[a].fence)'
      <4>1. ParentOf[o] \in Ops /\ ParentOf[o] # o
        BY <3>1, LedgerAssumption
      <4> QED BY <2>3, <3>1, <4>1 DEF ClaimOperationLease, HoldsFence, Live, StartChild
    <3>5. Claiming(a, o)
      BY <2>3, <3>1, <3>2, <3>3, <3>4, QueuedIsRoot DEF StartChild, Claiming, Busy, NextFence
    <3> QED BY <3>5 DEF RowsMove
  <2> QED BY <1>5, <2>1, <2>2, <2>3 DEF ActorOpStep
<1>6. ASSUME NEW roots \in SUBSET Ops, DeleteDocument(roots) PROVE RowsMove
  <2>1. \A x \in Ops : Closes(x)
    BY <1>6, <1>t, EraseRows DEF DeleteDocument
  <2> QED BY <1>6, <2>1, <1>k DEF DeleteDocument, RowsMove, Quiet
<1> QED BY <1>1, <1>2, <1>3, <1>4, <1>5, <1>6 DEF Next

-----------------------------------------------------------------------------
(* Overlap *)

\* Only an admission or a resumption opens a row.
LEMMA OnlyOpeningOpens ==
  ASSUME RowsMove, NEW x \in Ops, status'[x] \in Unfinished, status[x] \notin Unfinished
  PROVE  Opening(x)
<1>1. ~Closes(x) /\ ~Committed(x) /\ ~Claimed(x) /\ ~Still(x)
  BY DEF Closes, Committed, Claimed, Still, Claimable, Unfinished, Finished
<1>2. ~Quiet /\ \A a \in Actors, o \in Ops : ~Claiming(a, o) /\ ~Committing(a, o)
  BY <1>1, Zenon DEF Quiet, Claiming, Committing
<1>3. \A o \in Ops : Opening(o) => x = o
  BY <1>1, Zenon DEF Opening, OpensOnly
<1> QED BY <1>2, <1>3, Zenon DEF RowsMove

\* Only a claim makes a row live.
LEMMA OnlyClaimingEnlivens ==
  ASSUME RowsMove, NEW x \in Ops, Live(x)', ~Live(x)
  PROVE  \E a \in Actors : Claiming(a, x)
<1>1. ~Closes(x) /\ ~Committed(x) /\ ~Dropped(x) /\ ~Still(x)
  BY DEF Closes, Committed, Dropped, Still, Live, Finished
<1>2. ~Quiet /\ \A o \in Ops : ~Opening(o)
  BY <1>1, Zenon DEF Quiet, Opening, OpensOnly
<1>3. \A a \in Actors, o \in Ops : ~Committing(a, o) /\ (Claiming(a, o) => x = o)
  BY <1>1, Zenon DEF Claiming, Committing
<1> QED BY <1>2, <1>3, Zenon DEF RowsMove

\* A child's row is opened only while no sibling of it is open.
LEMMA ChildOpening ==
  ASSUME NEW c \in Ops, ParentOf[c] # NoOp, Opening(c)
  PROVE  NoUnfinishedSibling(c)
<1>1. ~AdmitJob(c) /\ ~AdmitRequest(c)
  BY QueuedIsRoot DEF AdmitJob, AdmitRequest
<1> QED BY <1>1, Zenon DEF Opening, ResumeRequest, AdmitNestedRequest

\* A scheduled row is opened only by admitJob.
LEMMA ScheduledOpening ==
  ASSUME NEW o \in Ops, ScheduleOf[o] # NoSchedule, Opening(o)
  PROVE  AdmitJob(o)
<1>1. Mode[o] = "queued" /\ ParentOf[o] = NoOp
  BY ScheduleAssumption, QueuedIsRoot
<1>2. ~AdmitRequest(o) /\ ~ResumeRequest(o) /\ \A pf \in Fences : ~AdmitNestedRequest(o, pf)
  BY <1>1 DEF AdmitRequest, ResumeRequest, AdmitNestedRequest
<1> QED BY <1>2, Zenon DEF Opening

\* The three overlap properties, each inductive next to the others.
OverlapInv == OneLivePerSchedule /\ NoSkippedOverlap /\ OneChildPerParent

\* Every step preserves them.
LEMMA NextOverlap ==
  ASSUME OverlapInv, RowsMove
  PROVE  OverlapInv'
<1>1. OneLivePerSchedule'
  <2>0. ASSUME NEW o \in Ops, NEW p \in Ops, o # p, ScheduleOf[o] = ScheduleOf[p],
               ScheduleOf[o] # NoSchedule, Live(o)', ~Live(o)
        PROVE  ~Live(p)'
    <3>1. PICK a \in Actors : Claiming(a, o)
      BY <2>0, OnlyClaimingEnlivens
    <3>2. Mode[o] = "queued"
      BY <2>0, ScheduleAssumption
    <3>3. ScheduleIdle(o) /\ Closes(p)
      BY <2>0, <3>1, <3>2 DEF Claiming
    <3>4. ~Live(p)
      BY <2>0, <3>3 DEF ScheduleIdle, Live
    <3> QED BY <3>3, <3>4 DEF Closes, Still, Dropped, Live
  <2>1. ASSUME NEW o \in Ops, NEW p \in Ops, o # p, ScheduleOf[o] = ScheduleOf[p],
               ScheduleOf[o] # NoSchedule
        PROVE  ~(Live(o)' /\ Live(p)')
    <3>1. ~(Live(o) /\ Live(p))
      BY <2>1 DEF OverlapInv, OneLivePerSchedule
    <3> QED BY <2>1, <3>1, <2>0
  <2> QED BY <2>1, Zenon DEF OneLivePerSchedule
<1>2. NoSkippedOverlap'
  <2>0. ASSUME NEW o \in Ops, NEW p \in Ops, o # p, ScheduleOf[o] = ScheduleOf[p],
               ScheduleOf[o] \in SkipOverlap, status'[o] \in Unfinished,
               status[o] \notin Unfinished
        PROVE  status'[p] \notin Unfinished
    <3>1. Opening(o)
      BY <2>0, OnlyOpeningOpens
    <3>2. ScheduleOf[o] # NoSchedule
      BY <2>0, ScheduleAssumption
    <3>3. status[p] \notin Unfinished
      BY <2>0, <3>1, <3>2, ScheduledOpening DEF AdmitJob, ActiveSchedule
    <3>4. Still(p)
      BY <2>0, <3>1 DEF Opening, OpensOnly
    <3> QED BY <3>3, <3>4 DEF Still
  <2>1. ASSUME NEW o \in Ops, NEW p \in Ops, o # p, ScheduleOf[o] = ScheduleOf[p],
               ScheduleOf[o] \in SkipOverlap
        PROVE  ~(status'[o] \in Unfinished /\ status'[p] \in Unfinished)
    <3>1. ~(status[o] \in Unfinished /\ status[p] \in Unfinished)
      BY <2>1 DEF OverlapInv, NoSkippedOverlap
    <3> QED BY <2>1, <3>1, <2>0
  <2> QED BY <2>1, Zenon DEF NoSkippedOverlap, Unfinished
<1>3. OneChildPerParent'
  <2>0. ASSUME NEW c \in Ops, NEW d \in Ops, c # d, ParentOf[c] = ParentOf[d],
               ParentOf[c] # NoOp, status'[c] \in Unfinished, status[c] \notin Unfinished
        PROVE  status'[d] \notin Unfinished
    <3>1. Opening(c)
      BY <2>0, OnlyOpeningOpens
    <3>2. NoUnfinishedSibling(c)
      BY <2>0, <3>1, ChildOpening
    <3>3. status[d] \notin Unfinished
      BY <2>0, <3>2 DEF NoUnfinishedSibling, Children, Unfinished
    <3>4. Still(d)
      BY <2>0, <3>1 DEF Opening, OpensOnly
    <3> QED BY <3>3, <3>4 DEF Still
  <2>1. ASSUME NEW c \in Ops, NEW d \in Ops, c # d, ParentOf[c] = ParentOf[d],
               ParentOf[c] # NoOp
        PROVE  ~(status'[c] \in Unfinished /\ status'[d] \in Unfinished)
    <3>1. ~(status[c] \in Unfinished /\ status[d] \in Unfinished)
      BY <2>1 DEF OverlapInv, OneChildPerParent
    <3> QED BY <2>1, <3>1, <2>0
  <2> QED BY <2>1, Zenon DEF OneChildPerParent, Unfinished
<1> QED BY <1>1, <1>2, <1>3 DEF OverlapInv

\* The three overlap properties hold in every state of every behaviour.
LEMMA OverlapHolds == Spec => []OverlapInv
<1>1. Init => OverlapInv
  BY DEF Init, LedgerInit, OverlapInv, OneLivePerSchedule, NoSkippedOverlap,
         OneChildPerParent, Live, Unfinished
<1>2. Inv /\ OverlapInv /\ [Next]_vars => OverlapInv'
  <2>1. OverlapInv /\ UNCHANGED vars => OverlapInv'
    BY Zenon DEF OverlapInv, OneLivePerSchedule, NoSkippedOverlap, OneChildPerParent,
           Live, Unfinished, vars, rows
  <2> QED BY <2>1, StepRows, NextOverlap
<1> QED BY <1>1, <1>2, InvHolds, PTL DEF Spec

\* At most one operation of a schedule is live at a time, whatever crashes and lapses.
THEOREM ScheduleRunsOne == Spec => []OneLivePerSchedule
BY OverlapHolds, PTL DEF OverlapInv

\* A schedule whose overlap policy is "skip" never has two unfinished operations.
THEOREM SkippedNeverOverlap == Spec => []NoSkippedOverlap
BY OverlapHolds, PTL DEF OverlapInv

\* A report never has two unfinished children.
THEOREM ChildrenTakeTurns == Spec => []OneChildPerParent
BY OverlapHolds, PTL DEF OverlapInv

-----------------------------------------------------------------------------
(* Nesting *)

\* What a process remembers is a root attempt and, inside it, a child of that root.
NestInv ==
  \A a \in Actors :
    /\ run[a] # Idle => ParentOf[run[a].op] = NoOp
    /\ sub[a] # Idle => run[a].pc = "working" /\ ParentOf[sub[a].op] = run[a].op

\* The nesting of one process, over what it remembers.
Nested(r, s) ==
  /\ r # Idle => ParentOf[r.op] = NoOp
  /\ s # Idle => r.pc = "working" /\ ParentOf[s.op] = r.op

\* Every step preserves the nesting.
LEMMA NextNest ==
  ASSUME Inv, NestInv, Next
  PROVE  NestInv'
<1>t. run \in [Actors -> Runs] /\ sub \in [Actors -> Runs]
  BY DEF Inv, TypeOK
<1>n. \A b \in Actors : Nested(run[b], sub[b])
  BY DEF NestInv, Nested
<1>p. (\A b \in Actors : Nested(run'[b], sub'[b])) => NestInv'
  BY DEF NestInv, Nested, Idle
<1>0. CASE UNCHANGED <<run, sub>>
  BY <1>0, <1>n, <1>p
<1>1. ASSUME NEW a \in Actors, ActorStep(a) PROVE NestInv'
  <2>1. CASE Poll(a)
    <3>1. sub[a] = Idle
      BY SMT, <2>1, <1>n DEF Poll, Nested, Idle
    <3>2. ASSUME NEW o \in Ops, ClaimJob(o), run' = [run EXCEPT ![a] = Working(o, NextFence(o))]
          PROVE  NestInv'
      <4>1. ParentOf[o] = NoOp
        BY <3>2, QueuedIsRoot DEF ClaimJob, JobEligible
      <4>2. Nested(Working(o, NextFence(o)), Idle)
        BY <4>1 DEF Nested, Working
      <4> QED BY <2>1, <3>1, <3>2, <4>2, <1>t, <1>n, <1>p DEF Poll
    <3> QED BY <2>1, <3>2, <1>0 DEF Poll
  <2>2. CASE Heartbeat(a) \/ PulseChild(a)
    BY <2>2, <1>0 DEF Heartbeat, PulseChild
  <2>3. CASE Complete(a)
    BY <2>3, <1>t, <1>n, <1>p DEF Complete, Busy, Nested
  <2>4. CASE CompleteUnheard(a) \/ GiveUp(a)
    <3>1. /\ sub[a] = Idle /\ run' = [run EXCEPT ![a].pc = "failing"] /\ sub' = sub
          /\ run[a].pc = "working"
      BY <2>4 DEF CompleteUnheard, GiveUp, Busy
    <3>2. run[a] # Idle
      BY SMT, <3>1 DEF Idle
    <3>3. run'[a].op = run[a].op
      BY SMT, <3>1, <1>t DEF Runs, Idle
    <3>4. Nested(run'[a], sub'[a])
      BY <3>1, <3>2, <3>3, <1>n DEF Nested
    <3> QED BY <3>1, <3>4, <1>t, <1>n, <1>p
  <2>5. CASE ReportFailure(a)
    <3>1. sub[a] = Idle
      BY <2>5, <1>n DEF ReportFailure, Nested
    <3> QED BY <2>5, <3>1, <1>t, <1>n, <1>p DEF ReportFailure, Nested
  <2>6. CASE Crash(a)
    BY <2>6, <1>t, <1>n, <1>p DEF Crash, Nested
  <2>7. CASE CompleteChild(a) \/ ReportChildFailure(a)
    <3>1. sub' = [sub EXCEPT ![a] = Idle] /\ run' = run
      BY <2>7, Zenon DEF CompleteChild, ReportChildFailure
    <3> QED BY <3>1, <1>t, <1>n, <1>p DEF Nested
  <2>8. CASE GiveUpChild(a)
    <3>1. sub' = [sub EXCEPT ![a].pc = "failing"] /\ run' = run /\ sub[a].pc = "working"
      BY <2>8 DEF GiveUpChild
    <3>2. sub[a] # Idle
      BY SMT, <3>1 DEF Idle
    <3>3. sub'[a].op = sub[a].op
      BY SMT, <3>1, <1>t DEF Runs, Idle
    <3>4. Nested(run'[a], sub'[a])
      BY <3>1, <3>2, <3>3, <1>n DEF Nested
    <3> QED BY <3>1, <3>4, <1>t, <1>n, <1>p
  <2> QED BY <1>1, <2>1, <2>2, <2>3, <2>4, <2>5, <2>6, <2>7, <2>8 DEF ActorStep
<1>2. ASSUME NEW a \in Actors, NEW o \in Ops, ActorOpStep(a, o) PROVE NestInv'
  <2>1. CASE StartRequest(a, o)
    <3>1. sub[a] = Idle /\ ParentOf[o] = NoOp
      BY SMT, <2>1, <1>n DEF StartRequest, ClaimRequest, Nested, Idle
    <3>2. Nested(Working(o, NextFence(o)), Idle)
      BY <3>1 DEF Nested, Working
    <3> QED BY <2>1, <3>1, <3>2, <1>t, <1>n, <1>p DEF StartRequest
  <2>2. CASE AdmitChild(a, o)
    BY <2>2, <1>0 DEF AdmitChild
  <2>3. CASE StartChild(a, o)
    <3>1. run[a].pc = "working" /\ ParentOf[o] = run[a].op
      BY <2>3 DEF StartChild, Busy
    <3>2. Nested(run[a], Working(o, NextFence(o)))
      BY <3>1, <1>n DEF Nested, Working
    <3> QED BY <2>3, <3>2, <1>t, <1>n, <1>p DEF StartChild
  <2> QED BY <1>2, <2>1, <2>2, <2>3 DEF ActorOpStep
<1> QED BY <1>0, <1>1, <1>2 DEF Next, Tick, ChangePolicy, CallerStep, Submit, Cancel, Resume,
       DeleteDocument

\* The nesting holds in every state of every behaviour.
LEMMA NestHolds == Spec => []NestInv
<1>1. Init => NestInv
  BY DEF Init, NestInv
<1>2. NestInv /\ UNCHANGED vars => NestInv'
  BY Zenon DEF NestInv, vars, Idle
<1> QED BY <1>1, <1>2, NextNest, InvHolds, PTL DEF Spec

\* A child publishes only under the live claim of its parent that started it, before
\* the parent has published anything.
THEOREM ChildrenPublishUnderParent == Spec => ChildPublishesUnderParent
<1> DEFINE P(c) == /\ effects[ParentOf[c]] = <<>>
                   /\ \E a \in Actors :
                        /\ run[a].op = ParentOf[c]
                        /\ sub[a].op = c
                        /\ HoldsFence(ParentOf[c], run[a].fence)
<1>1. ASSUME Inv, NestInv, RowsMove, NEW c \in Ops, effects'[c] # effects[c], ParentOf[c] # NoOp
      PROVE  P(c)
  <2>1. PICK a \in Actors : Committing(a, c)
    <3>1. ~Closes(c) /\ ~Claimed(c) /\ ~Dropped(c) /\ ~Still(c)
      BY <1>1 DEF Closes, Claimed, Dropped, Still
    <3> QED BY <1>1, <3>1, Zenon DEF RowsMove, Quiet, Opening, OpensOnly, Claiming, Committing
  <2>2. sub[a].op = c /\ HoldsFence(ParentOf[c], run[a].fence)
    BY <1>1, <2>1 DEF Committing
  <2>3. sub[a] # Idle
    BY SMT, <2>2, LedgerAssumption DEF Idle
  <2>4. run[a].op = ParentOf[c] /\ run[a].pc = "working"
    BY <1>1, <2>2, <2>3 DEF NestInv
  <2>5. run[a].fence \in Fences /\ ParentOf[c] \in Ops
    BY <1>1, <2>4, RunFact DEF Inv, TypeOK
  <2>6. effects[ParentOf[c]] = <<>>
    BY <1>1, <2>2, <2>5, HolderFact DEF Inv
  <2> QED BY <2>2, <2>4, <2>6
<1>2. Inv /\ NestInv /\ [Next]_vars =>
        [\A c \in Ops : effects'[c] # effects[c] /\ ParentOf[c] # NoOp => P(c)]_vars
  BY <1>1, StepRows
<1> QED BY <1>2, InvHolds, NestHolds, PTL DEF Spec, ChildPublishesUnderParent

=============================================================================
