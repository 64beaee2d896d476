---------------------------- MODULE SchedulesProof ----------------------------
(***************************************************************************)
(* The cursor of a schedule stays on its recurrence, decides every         *)
(* occurrence once and leaves a record of each; a routed stream runs each  *)
(* due time once.  For any schedules, recurrences, limits and clock.       *)
(*                                                                         *)
(* A tick's two loops are followed pass by pass, each of which keeps the   *)
(* invariants of ScheduleStepsProof.                                       *)
(***************************************************************************)
EXTENDS ScheduleStepsProof, FiniteSetTheorems, WellFoundedInduction

\* Zenon does the first-order steps; a step beyond it cites SMT.
USE Zenon

(* Loops *)

\* A nonempty set of numbers has a least one.
LEMMA Least ==
  ASSUME NEW S \in SUBSET Nat, S # {}
  PROVE  \E m \in S : \A k \in Nat : k < m => k \notin S
<1> DEFINE R == {ss \in Nat \X Nat : ss[1] < ss[2]}
<1>1. IsWellFoundedOn(R, Nat)
  BY NatLessThanWellFounded DEF OpToRel
<1>2. \A k, m \in Nat : k < m => <<k, m>> \in R
  OBVIOUS
<1> HIDE DEF R
<1>3. PICK m \in S : \A k \in S : ~(<<k, m>> \in R)
  BY <1>1, WFMin
<1> QED BY <1>2, <1>3

\* The values a loop goes through in n steps from b.
LoopRuns(T, step, b, n) ==
  {h \in [0 .. n -> T] : h[0] = b /\ \A i \in 1 .. n : h[i] = step[i][h[i - 1]]}

\* A loop whose steps stay in T has its values in T.
LEMMA LoopExists ==
  ASSUME NEW T, NEW step \in [Nat -> [T -> T]], NEW b \in T, NEW n \in Nat
  PROVE  LoopRuns(T, step, b, n) # {}
<1> DEFINE S == {m \in Nat : LoopRuns(T, step, b, m) = {}}
<1> SUFFICES ASSUME S # {} PROVE FALSE
  OBVIOUS
<1>1. PICK m \in S : \A k \in Nat : k < m => k \notin S
  BY Least, S \in SUBSET Nat
<1>2. m # 0
  <2>1. [i \in 0 .. 0 |-> b] \in LoopRuns(T, step, b, 0)
    BY SMT DEF LoopRuns
  <2> QED BY <2>1
<1>3. m - 1 \in Nat /\ m - 1 \notin S
  <2>1. m \in Nat
    OBVIOUS
  <2> HIDE DEF S
  <2> QED BY SMT, <1>1, <1>2, <2>1
<1>4. PICK h : h \in LoopRuns(T, step, b, m - 1)
  BY <1>3
<1> DEFINE k == [i \in 0 .. m |-> IF i = m THEN step[m][h[m - 1]] ELSE h[i]]
<1>5. h \in [0 .. m - 1 -> T] /\ h[0] = b /\ \A i \in 1 .. m - 1 : h[i] = step[i][h[i - 1]]
  BY <1>4 DEF LoopRuns
<1>6. step[m] \in [T -> T] /\ h[m - 1] \in T
  BY SMT, <1>3, <1>5
<1>7. k \in [0 .. m -> T]
  BY SMT, <1>5, <1>6
<1>8. k[0] = b /\ \A i \in 1 .. m : k[i] = step[i][k[i - 1]]
  BY SMT, <1>2, <1>3, <1>5
<1>9. k \in LoopRuns(T, step, b, m)
  BY <1>7, <1>8 DEF LoopRuns
<1> QED BY <1>9

\* A loop whose every step stays in T ends in T.
LEMMA LoopStays ==
  ASSUME NEW T, NEW N \in Nat, NEW f, f[0] \in T,
         \A n \in 1 .. N : f[n - 1] \in T => f[n] \in T
  PROVE  f[N] \in T
<1> DEFINE S == {n \in Nat : n <= N /\ f[n] \notin T}
<1> SUFFICES ASSUME S # {} PROVE FALSE
  BY SMT
<1>1. PICK m \in S : \A k \in Nat : k < m => k \notin S
  BY Least, S \in SUBSET Nat
<1>2. m \in Nat /\ m # 0 /\ m <= N /\ f[m] \notin T
  OBVIOUS
<1>3. m - 1 \in Nat /\ m - 1 < m /\ m - 1 <= N /\ m \in 1 .. N
  BY SMT, <1>2
<1>4. f[m - 1] \in T
  BY <1>1, <1>3
<1> QED BY <1>2, <1>3, <1>4

-----------------------------------------------------------------------------
(* The loops of a tick *)

\* A tick of one schedule keeps the invariants.
LEMMA TickScheduleStays ==
  ASSUME FixedInv, sched \in [Ids -> ScheduleType], NEW t \in Passing, NEW s \in Ids,
         sched[s].enabled
  PROVE  TickSchedule(t, s) \in Passing
<1> DEFINE N == Maximum(t.sched[s].spec) + 1
           b == WithLoop(t)
           F(f) == [n \in 0..N |-> IF n = 0 THEN b ELSE DecideOccurrence(f[n - 1], s)]
           step == [n \in Nat |-> [u \in Passing |-> DecideOccurrence(u, s)]]
<1>1. TickSchedule(t, s) = (CHOOSE f : f = F(f))[N]
  BY DEF TickSchedule, WithLoop
<1>2. N \in Nat
  <2>1. t.sched[s].spec \in SpecType
    BY PassingFacts, SpecFacts
  <2> QED BY SMT, <2>1 DEF SpecType, Maximum
<1>3. b \in Passing
  <2>1. t \in TableRecords /\ TablesInv(t.sched, t.occ, t.ops, t.admitted)
        /\ Progress(t.sched, t.occ) /\ OnlyOpens(t.ops)
    BY PassingFacts
  <2>2. b \in TableRecords /\ b.sched = t.sched /\ b.occ = t.occ /\ b.ops = t.ops
        /\ b.admitted = t.admitted
    BY <2>1, UpdateStart
  <2>3. /\ TablesInv(b.sched, b.occ, b.ops, b.admitted) /\ Progress(b.sched, b.occ)
        /\ OnlyOpens(b.ops)
    BY <2>1, <2>2
  <2> HIDE DEF b
  <2> QED BY <2>2, <2>3 DEF Passing
<1>4. \A u \in Passing : DecideOccurrence(u, s) \in Passing
  BY DecideStays
<1>5. step \in [Nat -> [Passing -> Passing]]
  BY <1>4
<1> HIDE DEF N, b
<1>6. PICK h : h \in LoopRuns(Passing, step, b, N)
  <2> HIDE DEF step
  <2>1. LoopRuns(Passing, step, b, N) # {}
    BY <1>2, <1>3, <1>5, LoopExists
  <2> QED BY <2>1
<1>7. h \in [0..N -> Passing] /\ h[0] = b /\ \A i \in 1..N : h[i] = step[i][h[i - 1]]
  BY <1>6 DEF LoopRuns
<1>8. \A i \in 1..N : i \in Nat /\ i - 1 \in 0..N /\ h[i - 1] \in Passing
  BY SMT, <1>2, <1>7
<1>9. \A i \in 1..N : h[i] = DecideOccurrence(h[i - 1], s)
  BY <1>7, <1>8
<1>10. h = F(h)
  <2>1. \A i \in 0..N : i # 0 => i \in 1..N
    BY SMT, <1>2
  <2>2. \A i \in 0..N : h[i] = IF i = 0 THEN b ELSE DecideOccurrence(h[i - 1], s)
    BY <1>7, <1>9, <2>1
  <2> QED BY <1>7, <2>2
<1> DEFINE k == CHOOSE f : f = F(f)
<1>11. k = F(k)
  BY <1>10
<1> HIDE DEF k
<1>12. k[0] = b /\ \A i \in 1..N : k[i] = DecideOccurrence(k[i - 1], s)
  <2>1. 0 \in 0..N /\ \A i \in 1..N : i \in 0..N /\ i # 0
    BY SMT, <1>2
  <2> QED BY <1>11, <2>1
<1>13. k[N] \in Passing
  <2>1. k[0] \in Passing /\ \A i \in 1..N : k[i - 1] \in Passing => k[i] \in Passing
    BY <1>3, <1>4, <1>12
  <2> QED BY <1>2, <2>1, LoopStays
<1> QED BY <1>1, <1>13 DEF k

\* A tick of the schedules in an order keeps the invariants.
LEMMA TickInOrderStays ==
  ASSUME FixedInv, sched \in [Ids -> ScheduleType], Tables \in Passing, NEW N \in Nat,
         NEW L \in SUBSET Ids, \A s \in L : sched[s].enabled, NEW order \in [1..N -> L]
  PROVE  TickInOrder(order, N) \in Passing
<1> DEFINE F(f) == [n \in 0..N |-> IF n = 0 THEN Tables ELSE TickSchedule(f[n - 1], order[n])]
           step == [n \in Nat |-> [u \in Passing |->
                      IF n \in 1..N THEN TickSchedule(u, order[n]) ELSE u]]
<1>1. TickInOrder(order, N) = (CHOOSE f : f = F(f))[N]
  BY DEF TickInOrder
<1>2. \A n \in 1..N, u \in Passing : TickSchedule(u, order[n]) \in Passing
  <2> SUFFICES ASSUME NEW n \in 1..N, NEW u \in Passing
               PROVE  TickSchedule(u, order[n]) \in Passing
    OBVIOUS
  <2>1. order[n] \in Ids /\ sched[order[n]].enabled
    OBVIOUS
  <2> QED BY <2>1, TickScheduleStays
<1>3. step \in [Nat -> [Passing -> Passing]]
  BY <1>2
<1>4. PICK h : h \in LoopRuns(Passing, step, Tables, N)
  <2> HIDE DEF step
  <2>1. LoopRuns(Passing, step, Tables, N) # {}
    BY <1>3, LoopExists
  <2> QED BY <2>1
<1>5. h \in [0..N -> Passing] /\ h[0] = Tables /\ \A i \in 1..N : h[i] = step[i][h[i - 1]]
  BY <1>4 DEF LoopRuns
<1>6. \A i \in 1..N : i \in Nat /\ i - 1 \in 0..N /\ h[i - 1] \in Passing
  BY SMT, <1>5
<1>7. \A i \in 1..N : h[i] = TickSchedule(h[i - 1], order[i])
  BY <1>5, <1>6
<1>8. h = F(h)
  <2>1. \A i \in 0..N : i # 0 => i \in 1..N
    BY SMT
  <2>2. \A i \in 0..N : h[i] = IF i = 0 THEN Tables ELSE TickSchedule(h[i - 1], order[i])
    BY <1>5, <1>7, <2>1
  <2> QED BY <1>5, <2>2
<1> DEFINE k == CHOOSE f : f = F(f)
<1>9. k = F(k)
  BY <1>8
<1> HIDE DEF k
<1>10. k[0] = Tables /\ \A i \in 1..N : k[i] = TickSchedule(k[i - 1], order[i])
  <2>1. 0 \in 0..N /\ \A i \in 1..N : i \in 0..N /\ i # 0
    BY SMT
  <2> QED BY <1>9, <2>1
<1>11. k[N] \in Passing
  <2>1. k[0] \in Passing /\ \A i \in 1..N : k[i - 1] \in Passing => k[i] \in Passing
    BY <1>2, <1>10
  <2> QED BY <2>1, LoopStays
<1> QED BY <1>1, <1>11 DEF k

\* A tick starts from the tables of the state.
LEMMA TablesPassing ==
  ASSUME SchedulesInv
  PROVE  Tables \in Passing
<1>1. /\ Tables.sched = sched /\ Tables.occ = occ /\ Tables.ops = ops
      /\ Tables.admitted = admitted
  BY DEF Tables
<1>2. TablesInv(sched, occ, ops, admitted) /\ TablesType(sched, occ, ops, admitted)
  BY DEF SchedulesInv, TablesInv
<1>3. Tables \in TableRecords
  <2>1. 0 \in Nat /\ FALSE \in BOOLEAN
    BY SMT
  <2> QED BY <1>2, <2>1 DEF Tables, TableRecords, TablesType
<1>4. Progress(sched, occ)
  <2>1. \A x \in Ids : sched[x].next <= sched[x].next
        /\ \A d : OnGrid(sched[x].spec, d) /\ sched[x].next <= d => ~(d < sched[x].next)
    <3> SUFFICES ASSUME NEW x \in Ids
                 PROVE  sched[x].next <= sched[x].next
                        /\ \A d : OnGrid(sched[x].spec, d) /\ sched[x].next <= d
                                    => ~(d < sched[x].next)
      OBVIOUS
    <3>1. sched[x].next \in Int
      BY <1>2, SpecFacts DEF TablesType
    <3> QED BY SMT, <3>1 DEF OnGrid
  <2> QED BY <2>1 DEF Progress
<1>5. TablesInv(Tables.sched, Tables.occ, Tables.ops, Tables.admitted)
      /\ Progress(Tables.sched, Tables.occ) /\ OnlyOpens(Tables.ops)
  BY <1>1, <1>2, <1>4 DEF OnlyOpens
<1> QED BY <1>3, <1>5 DEF Passing

\* What a tick of the clock leaves behind.
LEMMA TickLeaves ==
  ASSUME SchedulesInv, NEW L \in SUBSET Ids, TickSchedules(L)
  PROVE  /\ TablesInv(sched', occ', ops', admitted') /\ Progress(sched', occ')
         /\ OnlyOpens(ops') /\ UNCHANGED <<now, route, bound, checkpoint>>
<1>1. PICK order \in [1..Cardinality(L) -> L] :
        /\ sched' = TickInOrder(order, Cardinality(L)).sched
        /\ occ' = TickInOrder(order, Cardinality(L)).occ
        /\ ops' = TickInOrder(order, Cardinality(L)).ops
        /\ admitted' = TickInOrder(order, Cardinality(L)).admitted
  BY DEF TickSchedules
<1>2. Cardinality(L) \in Nat
  BY ScheduleAssumption, FS_Subset, FS_CardinalityType
<1>3. \A s \in L : sched[s].enabled
  BY DEF TickSchedules, Due
<1>4. FixedInv /\ sched \in [Ids -> ScheduleType]
  BY DEF SchedulesInv, TablesInv, TablesType
<1> DEFINE u == TickInOrder(order, Cardinality(L))
<1>5. u \in Passing
  BY <1>2, <1>3, <1>4, TablesPassing, TickInOrderStays
<1> HIDE DEF u
<1>6. TablesInv(u.sched, u.occ, u.ops, u.admitted) /\ Progress(u.sched, u.occ)
      /\ OnlyOpens(u.ops)
  BY <1>5 DEF Passing
<1>7. sched' = u.sched /\ occ' = u.occ /\ ops' = u.ops /\ admitted' = u.admitted
  BY <1>1 DEF u
<1> QED BY <1>6, <1>7 DEF TickSchedules

\* A tick decides occurrences.
LEMMA TickSchedulesInv ==
  ASSUME SchedulesInv, NEW L \in SUBSET Ids, TickSchedules(L)
  PROVE  SchedulesInv'
<1>1. /\ TablesInv(sched', occ', ops', admitted') /\ Progress(sched', occ')
      /\ UNCHANGED <<now, route, bound, checkpoint>>
  BY TickLeaves
<1>2. sched \in [Ids -> ScheduleType] /\ sched' \in [Ids -> ScheduleType] /\ FixedInv
  BY <1>1 DEF SchedulesInv, TablesInv, TablesType
<1>3. \A s \in Ids : sched[s].revision <= sched'[s].revision
  <2>1. \A s \in Ids : sched'[s].revision = sched[s].revision /\ sched[s].revision \in Int
    BY SMT, <1>1, <1>2, ScheduleAssumption DEF Progress, ScheduleType, Revisions
  <2> QED BY SMT, <2>1
<1> QED BY <1>1, <1>2, <1>3, SameRoutes, SameFixed DEF SchedulesInv

-----------------------------------------------------------------------------
(* The invariant and what follows from it *)

\* No schedule has been created yet.
LEMMA SchedulesStart ==
  ASSUME Init
  PROVE  SchedulesInv
<1>1. 0 \in Revisions /\ 0 \in 0..MaxTime /\ 0 \in 0..MaxGeneration /\ 0 \in Int /\ ~(0 > 0)
      /\ 0 <= MaxRevision + 0 /\ 0 <= 0
  BY SMT, ScheduleAssumption DEF Revisions
<1>2. /\ now = 0 /\ occ = {} /\ ops = {} /\ admitted = {} /\ checkpoint = 0
      /\ bound = [s \in Ids |-> 0] /\ route.generation = 0 /\ route.state = "none"
  BY DEF Init
<1>3. route \in RouteType
  BY <1>1 DEF Init, RouteType
<1>4. ASSUME NEW s \in Ids
      PROVE  /\ sched[s] \in ScheduleType /\ sched[s].revision = 0 /\ sched[s].definition = 0
             /\ sched[s].enabled = FALSE /\ sched[s].retired = FALSE
  <2>1. FirstDefinition[s] \in Definitions
    BY ScheduleAssumption
  <2>2. sched[s] = [revision |-> 0, enabled |-> FALSE, retired |-> FALSE,
                    spec |-> FirstDefinition[s], previous |-> 0, next |-> 0, definition |-> 0]
    BY DEF Init
  <2>3. FALSE \in BOOLEAN
    OBVIOUS
  <2> QED BY SMT, <1>1, <2>1, <2>2, <2>3 DEF ScheduleType
<1>5. sched \in [Ids -> ScheduleType]
  <2>1. sched = [s \in Ids |-> sched[s]]
    BY DEF Init
  <2> QED BY <1>4, <2>1
<1>6. FixedInv
  BY <1>1, <1>2, <1>3, <1>4 DEF FixedInv, RouteInv
<1>7. \A s \in Ids : CursorInv(sched[s])
  BY <1>1, <1>2, <1>4 DEF CursorInv
<1>8. RowsInv(sched, occ) /\ OpsInv(sched, occ, ops) /\ StreamInv(occ, ops, admitted)
  BY <1>1, <1>2 DEF RowsInv, OpsInv, StreamInv
<1>9. TablesType(sched, occ, ops, admitted)
  BY <1>2, <1>5 DEF TablesType
<1> QED BY <1>6, <1>7, <1>8, <1>9 DEF SchedulesInv, TablesInv

\* Every step keeps the invariant.
LEMMA SchedulesStep ==
  ASSUME SchedulesInv, [Next]_vars
  PROVE  SchedulesInv'
<1>1. CASE Tick
  BY <1>1, TickInv
<1>2. ASSUME NEW s \in Ids, CreateSchedule(s) PROVE SchedulesInv'
  BY <1>2, CreateScheduleInv
<1>3. ASSUME NEW s \in Ids, SetSchedule(s) \/ RetireSchedule(s) PROVE SchedulesInv'
  BY <1>3, SetScheduleInv
<1>4. ASSUME NEW s \in Ids, NEW d \in Definitions, ReplaceSchedule(s, d) PROVE SchedulesInv'
  BY <1>4, ReplaceScheduleInv
<1>5. ASSUME NEW s \in Ids, NEW k \in Keys, FireSchedule(s, k) PROVE SchedulesInv'
  BY <1>5, FireScheduleInv
<1>6. ASSUME NEW s \in Ids, NEW k \in Keys, ReplayFire(s, k) PROVE SchedulesInv'
  BY <1>6, ReplayFireInv
<1>7. ASSUME NEW L \in SUBSET Ids, TickSchedules(L) PROVE SchedulesInv'
  BY <1>7, TickSchedulesInv
<1>8. ASSUME NEW o \in ops, ClaimJob(o) \/ Release(o) \/ Close(o) PROVE SchedulesInv'
  BY <1>8, RunInv
<1>9. CASE CompleteImport
  BY <1>9, CompleteImportInv
<1>10. ASSUME NEW t \in 0..MaxTime, Cutover(t) PROVE SchedulesInv'
  BY <1>10, CutoverInv
<1>11. CASE Rollback
  BY <1>11, RollbackInv
<1>12. CASE UNCHANGED vars
  <2>1. /\ now' = now /\ sched' = sched /\ occ' = occ /\ ops' = ops /\ route' = route
        /\ bound' = bound /\ admitted' = admitted /\ checkpoint' = checkpoint
    BY <1>12 DEF vars
  <2>2. FixedInv /\ TablesInv(sched, occ, ops, admitted)
    BY DEF SchedulesInv
  <2>3. FixedInv'
    BY <2>1, <2>2 DEF FixedInv, RouteInv
  <2>4. TablesInv(sched', occ', ops', admitted')
    BY <2>1, <2>2
  <2> QED BY <2>1, <2>3, <2>4, SameRoutes DEF SchedulesInv
<1> QED BY <1>1, <1>2, <1>3, <1>4, <1>5, <1>6, <1>7, <1>8, <1>9, <1>10, <1>11, <1>12 DEF Next

\* The inductive invariant holds in every state of every behaviour.
THEOREM SchedulesInvariant == Spec => []SchedulesInv
  BY SchedulesStart, SchedulesStep, PTL DEF Spec

\* What the cursor columns of an existing schedule say.
LEMMA CursorFacts ==
  ASSUME SchedulesInv, NEW s \in Ids, Exists(s)
  PROVE  /\ IsInterval(sched[s].spec) /\ OnGrid(sched[s].spec, sched[s].next)
         /\ sched[s].next \in Int /\ sched[s].previous \in Int
         /\ sched[s].spec.every \in Nat \ {0}
         /\ sched[s].next = sched[s].previous + sched[s].spec.every
<1>1. sched[s] \in ScheduleType /\ CursorInv(sched[s])
  BY DEF SchedulesInv, TablesInv, TablesType
<1> QED BY <1>1, SpecFacts DEF CursorInv, Exists

\* The tables of schedules, occurrences and operations keep their columns' types, a
\* retired schedule is disabled and a cursor runs forward, in every behaviour of the edits,
\* ticks, fires, claims and route changes.
THEOREM ScheduleTypes == Spec => []TypeOK
<1>1. SchedulesInv => TypeOK
  <2> SUFFICES ASSUME SchedulesInv PROVE TypeOK
    OBVIOUS
  <2>1. FixedInv /\ TablesInv(sched, occ, ops, admitted)
    BY DEF SchedulesInv
  <2>2. \A s \in Ids : sched[s].retired => ~sched[s].enabled
    BY <2>1 DEF TablesInv, CursorInv
  <2>3. ASSUME NEW s \in Ids, Exists(s) PROVE sched[s].previous < sched[s].next
    BY SMT, <2>3, CursorFacts
  <2> QED BY <2>1, <2>2, <2>3 DEF FixedInv, TablesInv, TablesType, TypeOK
<1> QED BY <1>1, SchedulesInvariant, PTL

\* A cursor spans two neighbouring occurrences of its own definition, whether it was
\* created, caught up, skipped ahead or redefined: an interval never drifts.
THEOREM CursorsStayOnGrid == Spec => []CursorOnGrid
<1>1. SchedulesInv => CursorOnGrid
  <2> SUFFICES ASSUME SchedulesInv, NEW s \in Ids, Exists(s)
               PROVE  Occurrences(sched[s].spec, sched[s].previous + 1, sched[s].next)
                        = {sched[s].next}
    BY DEF CursorOnGrid
  <2> DEFINE spec == sched[s].spec
             p == sched[s].previous
             n == sched[s].next
  <2>1. /\ IsInterval(spec) /\ OnGrid(spec, n) /\ n \in Int /\ p \in Int
        /\ spec.every \in Nat \ {0} /\ n = p + spec.every
    BY CursorFacts
  <2> HIDE DEF spec, p, n
  <2>2. n \in Occurrences(spec, p + 1, n)
    BY SMT, <2>1 DEF Occurrences, OnGrid
  <2>3. ASSUME NEW t \in Occurrences(spec, p + 1, n) PROVE t = n
    <3>1. t \in Int /\ p + 1 <= t /\ t <= n /\ OnGrid(spec, t)
      BY SMT, <2>1 DEF Occurrences, OnGrid
    <3>2. t < n => t + spec.every <= n
      BY <2>1, <3>1, GridGap
    <3> QED BY SMT, <2>1, <3>1, <3>2
  <2> QED BY <2>2, <2>3 DEF spec, p, n
<1> QED BY <1>1, SchedulesInvariant, PTL

\* No occurrence is decided twice by the clock: its cursor is ahead of every operation and
\* row it left, through ticks that stop half way, pauses, redefinitions and rollbacks.
THEOREM CursorsStayAhead == Spec => []CursorAhead
<1>1. SchedulesInv => CursorAhead
  BY DEF SchedulesInv, TablesInv, RowsInv, RowInv, OpsInv, CursorAhead, ClockOps, ClockRows
<1> QED BY <1>1, SchedulesInvariant, PTL

\* Within one definition the windows of the clock's rows never overlap, however ticks,
\* skips and pauses fall.
THEOREM WindowsNeverOverlap == Spec => []WindowsDisjoint
<1>1. SchedulesInv => WindowsDisjoint
  BY DEF SchedulesInv, TablesInv, RowsInv, Disjoint, WindowsDisjoint, ClockRows
<1> QED BY <1>1, SchedulesInvariant, PTL

\* A routed stream runs a due time once, across both routes, cutovers, rollbacks and the
\* prior schedule's own recorded work.
THEOREM StreamRunsOnce == Spec => []StreamOnce
<1>1. SchedulesInv => StreamOnce
  <2> SUFFICES ASSUME SchedulesInv, NEW o \in ops, NEW p \in ops, o # p, o.generation > 0,
                      o.due = p.due
               PROVE  p.generation = 0 /\ (p.sched = Prior => ~HasRow(p))
    BY DEF StreamOnce
  <2>1. StreamInv(occ, ops, admitted) /\ p \in OperationType
    BY DEF SchedulesInv, TablesInv, TablesType
  <2>2. p.generation \in Nat
    BY <2>1, OperationColumns
  <2>3. ~(p.generation > 0)
    BY <2>1 DEF StreamInv
  <2>4. p.generation = 0
    BY SMT, <2>2, <2>3
  <2>5. p.sched = Prior => \A r \in occ : ~RowOf(r, p)
    BY <2>1, <2>4 DEF StreamInv
  <2>6. HasRow(p) => \E r \in occ : RowOf(r, p)
    <3> SUFFICES ASSUME HasRow(p) PROVE \E r \in occ : RowOf(r, p)
      OBVIOUS
    <3>1. PICK r \in occ : [sched |-> p.sched, key |-> p.key, due |-> p.due]
                             = [sched |-> r.sched, key |-> r.key, due |-> r.due]
      BY DEF HasRow
    <3>2. p.sched = r.sched /\ p.key = r.key /\ p.due = r.due
      BY SMT, <3>1
    <3> QED BY <3>2 DEF RowOf
  <2> QED BY <2>4, <2>5, <2>6
<1> QED BY <1>1, SchedulesInvariant, PTL

\* Only a tick or a redefinition moves a cursor.
LEMMA CursorStays ==
  ASSUME SchedulesInv, [Next]_vars, \A L \in SUBSET Ids : ~TickSchedules(L),
         NEW s \in Ids, Exists(s), sched'[s].definition = sched[s].definition
  PROVE  sched'[s].next = sched[s].next
<1>1. FixedInv /\ sched \in [Ids -> ScheduleType] /\ \A x \in Ids : CursorInv(sched[x])
  BY DEF SchedulesInv, TablesInv, TablesType
<1>2. CASE UNCHANGED sched
  BY <1>2
<1>3. ASSUME NEW x \in Ids, CreateSchedule(x) PROVE sched'[s].next = sched[s].next
  <2>1. x # s
    BY <1>3 DEF CreateSchedule
  <2> QED BY <1>1, <1>3, <2>1 DEF CreateSchedule
<1>4. ASSUME NEW x \in Ids, SetSchedule(x) \/ RetireSchedule(x)
      PROVE  sched'[s].next = sched[s].next
  BY SMT, <1>1, <1>4 DEF SetSchedule, RetireSchedule, ScheduleType
<1>5. ASSUME NEW x \in Ids, NEW d \in Definitions, ReplaceSchedule(x, d)
      PROVE  sched'[s].next = sched[s].next
  <2> DEFINE b == [sched[x] EXCEPT !.revision = @ + 1]
             e == ScheduleTimes(b, d)
  <2>1. sched' = [sched EXCEPT ![x] = e]
    BY <1>5 DEF ReplaceSchedule
  <2>2. sched[x] \in ScheduleType /\ sched[x].definition \in Nat
    BY <1>1, SpecFacts
  <2>3. b.definition = sched[x].definition /\ DOMAIN b = DOMAIN sched[x]
    BY <2>2 DEF ScheduleType
  <2>4. e.definition = sched[x].definition + 1
    BY <2>2 DEF ScheduleTimes, ScheduleType
  <2> HIDE DEF e, b
  <2>5. sched[x].definition + 1 # sched[x].definition
    BY SMT, <2>2
  <2>6. x # s
    BY <1>1, <2>1, <2>4, <2>5
  <2> QED BY <1>1, <2>1, <2>6
<1>6. ASSUME NEW y, sched' = SwitchTo(y), route.generation < MaxGeneration
      PROVE  sched'[s].next = sched[s].next
  <2>1. route.generation \in Nat
    BY <1>1, RouteColumns
  <2>2. Switched(sched[s], sched'[s])
    BY <1>1, <1>6, <2>1, SwitchFacts DEF CursorInv
  <2> QED BY <2>2 DEF Switched
<1>7. \/ UNCHANGED sched
      \/ \E x \in Ids : CreateSchedule(x) \/ SetSchedule(x) \/ RetireSchedule(x)
      \/ \E x \in Ids : \E d \in Definitions : ReplaceSchedule(x, d)
      \/ \E y : sched' = SwitchTo(y) /\ route.generation < MaxGeneration
  BY DEF Next, vars, Tick, FireSchedule, ReplayFire, ClaimJob, Release, Close, CompleteImport,
         Cutover, Rollback
<1> QED BY <1>2, <1>3, <1>4, <1>5, <1>6, <1>7

\* A cursor passes a due time only when a row accounts for it, or a manual run holds the
\* place of the row that would: whatever a tick decides, nothing is passed over silently.
THEOREM CursorsLeaveRecords == Spec => CursorLeavesARecord
<1> DEFINE A == \A s \in Ids :
       Exists(s) /\ sched'[s].definition = sched[s].definition =>
         \A d \in PassedOver(s) :
           \/ Covered(s, d)'
           \/ \E r \in occ : r.sched = s /\ r.key # Clock /\ r.due \in PassedOver(s) /\ r.due < d
<1>1. ASSUME SchedulesInv, [Next]_vars PROVE A
  <2> SUFFICES ASSUME NEW s \in Ids, Exists(s), sched'[s].definition = sched[s].definition,
                      NEW d \in PassedOver(s)
               PROVE  \/ Covered(s, d)'
                      \/ \E r \in occ : /\ r.sched = s /\ r.key # Clock
                                        /\ r.due \in PassedOver(s) /\ r.due < d
    OBVIOUS
  <2>1. sched[s].next \in Int /\ now \in Int
    BY <1>1, CursorFacts, RouteColumns DEF SchedulesInv
  <2>2. /\ OnGrid(sched[s].spec, d) /\ d \in Int /\ sched[s].next <= d /\ d <= now
        /\ sched'[s].next > d
    BY SMT, <2>1 DEF PassedOver, Occurrences, OnGrid
  <2>3. PICK L \in SUBSET Ids : TickSchedules(L)
    <3>1. sched'[s].next # sched[s].next
      BY SMT, <2>1, <2>2
    <3> QED BY <1>1, <3>1, CursorStays
  <2>4. Progress(sched', occ') /\ TablesInv(sched', occ', ops', admitted')
    BY <1>1, <2>3, TickLeaves
  <2>5. sched'[s].next \in Int
    BY <2>4, SpecFacts DEF TablesInv, TablesType
  <2>6. d < sched'[s].next
    BY SMT, <2>2, <2>5
  <2>7. Accounted(occ', s, d)
    BY <2>2, <2>4, <2>6 DEF Progress
  <2>8. CASE \E r \in occ' : r.sched = s /\ r.due <= d /\ d <= r.through
    BY <2>8 DEF Covered
  <2>9. ASSUME NEW r \in occ, r.sched = s, r.key # Clock, OnGrid(sched[s].spec, r.due),
               sched[s].next <= r.due, r.due < d
        PROVE  r.due \in PassedOver(s)
    BY SMT, <2>1, <2>2, <2>5, <2>9 DEF PassedOver, Occurrences, OnGrid
  <2> QED BY <2>7, <2>8, <2>9 DEF Accounted
<1>2. Spec => [][A]_vars
  <2>1. SchedulesInv /\ [Next]_vars => [A]_vars
    BY <1>1
  <2> HIDE DEF A
  <2> QED BY <2>1, SchedulesInvariant, PTL DEF Spec
<1> QED BY <1>2 DEF CursorLeavesARecord

\* Work admitted under one routing of a stream never starts under a later one.
THEOREM StaleRoutesNeverStart == Spec => StaleRouteNeverStarts
<1> DEFINE A == \A o \in ops :
       o.state = "open" /\ [o EXCEPT !.state = "leased"] \in ops' \ ops /\ bound[o.sched] > 0
         => o.generation = route.generation
<1>1. ASSUME SchedulesInv, [Next]_vars PROVE A
  <2> SUFFICES ASSUME NEW o \in ops, [o EXCEPT !.state = "leased"] \in ops' \ ops,
                      bound[o.sched] > 0
               PROVE  o.generation = route.generation
    OBVIOUS
  <2> DEFINE e == [o EXCEPT !.state = "leased"]
  <2>1. o \in OperationType /\ ops \in SUBSET OperationType /\ StreamInv(occ, ops, admitted)
        /\ FixedInv
    BY <1>1 DEF SchedulesInv, TablesInv, TablesType
  <2>2. /\ e.state = "leased" /\ e.sched = o.sched /\ e.revision = o.revision
        /\ e.generation = o.generation
    BY <2>1 DEF OperationType
  <2>3. e \in ops' \ ops
    OBVIOUS
  <2> HIDE DEF e
  <2>4. ASSUME NEW L \in SUBSET Ids, TickSchedules(L) PROVE FALSE
    BY <1>1, <2>2, <2>3, <2>4, TickLeaves DEF OnlyOpens
  <2>5. ASSUME NEW s \in Ids, NEW k \in Keys, FireSchedule(s, k) PROVE FALSE
    <3>1. Operation(s, k, sched[s], now, now).state = "open"
      BY DEF Operation
    <3> QED BY <2>2, <2>3, <2>5, <3>1 DEF FireSchedule
  <2>6. ASSUME NEW p \in ops, Release(p) \/ Close(p) PROVE FALSE
    <3>1. /\ [p EXCEPT !.state = "open"].state = "open"
          /\ [p EXCEPT !.state = "closed"].state = "closed"
      BY <2>1 DEF OperationType
    <3> QED BY <2>2, <2>3, <2>6, <3>1 DEF Release, Close
  <2>7. PICK p \in ops : ClaimJob(p)
    BY <1>1, <2>3, <2>4, <2>5, <2>6
       DEF Next, vars, Tick, CreateSchedule, SetSchedule, ReplaceSchedule, RetireSchedule,
           ReplayFire, CompleteImport, Cutover, Rollback
  <2>8. e = [p EXCEPT !.state = "leased"]
    BY <2>3, <2>7 DEF ClaimJob
  <2>9. p.sched = o.sched /\ p.revision = o.revision
    <3>1. [p EXCEPT !.state = "leased"].sched = p.sched
          /\ [p EXCEPT !.state = "leased"].revision = p.revision
      BY <2>1 DEF OperationType
    <3> QED BY <2>2, <2>8, <3>1
  <2>10. o.sched \in Ids /\ o.generation \in Nat /\ o.revision \in Nat /\ route.generation \in Nat
         /\ bound[o.sched] \in Nat
    BY <2>1, OperationColumns, RouteColumns
  <2>11. bound[o.sched] = o.revision
    <3>1. bound[o.sched] # 0
      BY SMT, <2>10
    <3> QED BY <2>7, <2>9, <3>1 DEF ClaimJob, Claimable, OnActiveRoute
  <2>12. o.sched \in Routed
    <3>1. bound[o.sched] # 0
      BY SMT, <2>10
    <3> QED BY <2>1, <2>10, <3>1 DEF FixedInv, RouteInv
  <2>13. o.generation <= route.generation
         /\ (o.generation < route.generation => o.revision < bound[o.sched])
    BY <2>1, <2>12 DEF StreamInv
  <2> QED BY SMT, <2>10, <2>11, <2>13
<1>2. Spec => [][A]_vars
  <2>1. SchedulesInv /\ [Next]_vars => [A]_vars
    BY <1>1
  <2> HIDE DEF A
  <2> QED BY <2>1, SchedulesInvariant, PTL DEF Spec
<1> QED BY <1>2 DEF StaleRouteNeverStarts

=============================================================================
