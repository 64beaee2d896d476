--------------------------- MODULE ReadAttemptsProof ---------------------------
(***************************************************************************)
(* The executor's journal never calls a running statement settled, and the *)
(* executor implements SourceAttempt: for any operations, processes and    *)
(* number of attempts.                                                     *)
(***************************************************************************)
EXTENDS ReadAttempts, TLAPS

\* Zenon does the first-order steps; a step beyond it cites SMT.
USE Zenon

At(r, o, n) == r.op = o /\ r.number = n

\* No two processes execute one attempt, and an attempt somebody executes is kept.
Exclusive ==
  \A a, b \in Actors :
    reader[a] # NoReader /\ At(reader[b], reader[a].op, reader[a].number) => a = b

Held ==
  \A a \in Actors : reader[a] # NoReader => Row(a).status # "absent" /\ Row(a).age # "old"

\* What a process may rely on in each phase of its read d: r is its row, v the source's state.
Knows(d, r, v) ==
  /\ d.phase = "begun" => v = "none" /\ ~r.identity
  /\ d.phase = "opened" => v \in {"open", "ended"}
  /\ d.phase = "submitted" /\ v = "open" => Open(r) /\ r.identity
  /\ d.phase = "ended" =>
       /\ d.outcome \in Outcomes
       /\ d.outcome # "uncertain" => v # "running"
       /\ d.outcome = "succeeded" => v = "ended"

\* What a controller saw stays true until it writes it down, however late.
Sees(c, r, v) ==
  /\ r.status # "absent" /\ r.age # "old"
  /\ c.remote = "stopped" => r.identity /\ v \notin {"open", "running"}
  /\ c.remote = "not_issued" => ~r.identity /\ (r.age # "fresh" \/ r.status \notin Unfinished)

\* Later attempts exist only over attempts that are settled.
InOrder ==
  \A o \in Ops, k, n \in Numbers :
    k < n /\ journal[o][n].status # "absent" => ~Open(journal[o][k])

\* Only a settled attempt is left alone for a day.
OldIsSettled ==
  \A o \in Ops, n \in Numbers : journal[o][n].age = "old" => Settled(journal[o][n])

ReadInv ==
  /\ ReadTypeOK
  /\ Exclusive
  /\ Held
  /\ \A a \in Actors : reader[a] # NoReader => Knows(reader[a], Row(a), Native(a))
  /\ \A c \in control : Sees(c, journal[c.op][c.number], native[c.op][c.number])
  /\ RunningIsUnsettled
  /\ InOrder
  /\ OldIsSettled

-----------------------------------------------------------------------------

\* The initial states satisfy the invariant.
LEMMA InitReadInv == ReadInit => ReadInv
<1> SUFFICES ASSUME ReadInit PROVE ReadInv
  OBVIOUS
<1>1. ReadTypeOK
  BY DEF ReadInit, ReadTypeOK, Rows, Absent, RemoteStates, Ages, Readers, NoReader
<1>2. Exclusive /\ Held /\ InOrder /\ OldIsSettled
  BY DEF ReadInit, Exclusive, Held, InOrder, OldIsSettled, Absent, Open, Unfinished
<1>3. RunningIsUnsettled
  BY DEF ReadInit, RunningIsUnsettled
<1> QED
  BY <1>1, <1>2, <1>3 DEF ReadInv, ReadInit

Natives == {"none", "open", "running", "ended"}
Observations == [op : Ops, number : Numbers, remote : {"not_issued", "stopped"}]
Busy == [op : Ops, number : Numbers, phase : Phases, remote : RemoteStates,
         outcome : Outcomes \cup {"none", "lost"}]

\* A settled attempt is not open.
LEMMA SettledClosed == ASSUME NEW r, Settled(r) PROVE ~Open(r) /\ r.status # "absent"
BY DEF Settled, Open, Outcomes, Retryable, Unfinished

\* A process in some phase executes an attempt, which the journal has.
LEMMA ReaderType ==
  ASSUME ReadInv, NEW a \in Actors, reader[a] # NoReader
  PROVE  /\ reader[a] \in Busy
         /\ reader[a].op \in Ops /\ reader[a].number \in Numbers
         /\ Row(a) \in Rows /\ Row(a).status # "absent" /\ Row(a).age # "old"
         /\ Native(a) \in Natives
         /\ Knows(reader[a], Row(a), Native(a))
BY SMT DEF ReadInv, ReadTypeOK, Readers, NoReader, Held, Row, Native, Natives, Busy

\* An attempt's row and state, and what is known of it.
LEMMA AttemptType ==
  ASSUME ReadInv, NEW o \in Ops, NEW n \in Numbers
  PROVE  /\ journal[o][n] \in Rows /\ native[o][n] \in Natives
         /\ native[o][n] = "running" => Open(journal[o][n]) /\ journal[o][n].identity
         /\ journal[o][n].age = "old" => Settled(journal[o][n])
         /\ \A c \in control : At(c, o, n) => Sees(c, journal[o][n], native[o][n])
         /\ \A b \in Actors : reader[b] # NoReader /\ At(reader[b], o, n) =>
              /\ Knows(reader[b], journal[o][n], native[o][n])
              /\ journal[o][n].status # "absent" /\ journal[o][n].age # "old"
BY ReaderType DEF ReadInv, ReadTypeOK, RunningIsUnsettled, OldIsSettled, Natives, At, Row, Native

\* How SourceAttempt lets an attempt move on, or stay.
Moves(x, y) ==
  \/ y = x
  \/ x = "ready" /\ y = "running"
  \/ x \in {"ready", "running"} /\ y = "over"
  \/ x = "over" /\ y = "succeeded"
  \/ x \in {"ready", "over"} /\ y = "retryable"

\* The invariant is kept by a step that SourceAttempt allows.
Kept == ReadInv' /\ [Promise!AttemptNext]_AttemptPhase

\* A step that makes r and v of one attempt, and changes nobody else's.
ChangesOne(o, n, r, v) ==
  /\ r \in Rows /\ v \in Natives
  /\ journal' = [journal EXCEPT ![o][n] = r]
  /\ native' = [native EXCEPT ![o][n] = v]
  /\ reader' \in [Actors -> Readers]
  /\ \A b \in Actors : reader'[b] # NoReader =>
       /\ reader[b] # NoReader
       /\ reader'[b].op = reader[b].op /\ reader'[b].number = reader[b].number
       /\ ~At(reader[b], o, n) => reader'[b] = reader[b]
       /\ At(reader[b], o, n) => Knows(reader'[b], r, v) /\ r.age # "old"
  /\ control' \subseteq Observations
  /\ \A c \in control' : IF At(c, o, n) THEN Sees(c, r, v) ELSE c \in control
  /\ r.status = "absent" <=> journal[o][n].status = "absent"
  /\ Open(r) => Open(journal[o][n])
  /\ r.age = "old" => Settled(r)
  /\ v = "running" => Open(r) /\ r.identity
  /\ Moves(PhaseOf(journal[o][n], native[o][n]), PhaseOf(r, v))

\* The phase of an attempt that is not settled is the source's.
LEMMA OpenPhase ==
  ASSUME NEW r, NEW v, Open(r)
  PROVE  PhaseOf(r, v) = IF v = "running" THEN "running" ELSE IF v = "ended" THEN "over" ELSE "ready"
BY DEF PhaseOf, Open, Unfinished, Retryable

\* The phase of any other attempt is its receipt's.
LEMMA ClosedPhase ==
  ASSUME NEW r, NEW v
  PROVE  /\ r.status = "absent" => PhaseOf(r, v) = "absent"
         /\ r.status = "succeeded" => PhaseOf(r, v) = "succeeded"
         /\ r.status \in Retryable => PhaseOf(r, v) = "retryable"
BY DEF PhaseOf, Open, Unfinished, Retryable

\* A function of attempts that differs at one attempt.
LEMMA Pointwise ==
  ASSUME NEW S, NEW f \in [Ops -> [Numbers -> S]], NEW g \in [Ops -> [Numbers -> S]],
         NEW o \in Ops, NEW n \in Numbers, NEW y \in S,
         \A p \in Ops, k \in Numbers : g[p][k] = IF p = o /\ k = n THEN y ELSE f[p][k]
  PROVE  g = [f EXCEPT ![o][n] = y]
<1>1. ASSUME NEW p \in Ops PROVE g[p] = [f EXCEPT ![o][n] = y][p]
  <2>1. CASE p = o
    BY SMT, <2>1
  <2>2. CASE p # o
    BY SMT, <2>2
  <2> QED
    BY <2>1, <2>2
<1> QED
  BY <1>1

\* Phases are those of SourceAttempt.
LEMMA PhaseType ==
  /\ \A r, v : PhaseOf(r, v) \in Promise!Phases
  /\ AttemptPhase \in [Ops -> [Numbers -> Promise!Phases]]
  /\ AttemptPhase' \in [Ops -> [Numbers -> Promise!Phases]]
<1>1. \A r, v : PhaseOf(r, v) \in Promise!Phases
  BY DEF PhaseOf, Promise!Phases, Promise!Verdicts
<1> QED
  BY <1>1 DEF AttemptPhase

\* Such a step keeps the invariant if whoever deals with that attempt may still rely on
\* what it knows, and the row was not reopened.
LEMMA OneAttempt ==
  ASSUME ReadInv, NEW o \in Ops, NEW n \in Numbers, NEW r, NEW v, ChangesOne(o, n, r, v)
  PROVE  Kept
<1> USE DEF ChangesOne
<1>1. ReadTypeOK'
  BY DEF ReadInv, ReadTypeOK, Natives, Observations
<1>2. /\ journal'[o][n] = r /\ native'[o][n] = v
      /\ \A p \in Ops, k \in Numbers : p # o \/ k # n =>
           journal'[p][k] = journal[p][k] /\ native'[p][k] = native[p][k]
  BY DEF ReadInv, ReadTypeOK
<1>3. Exclusive'
  <2> SUFFICES ASSUME NEW a \in Actors, NEW b \in Actors, reader'[a] # NoReader,
                      At(reader'[b], reader'[a].op, reader'[a].number)
               PROVE  a = b
    BY DEF Exclusive
  <2>1. reader'[b] # NoReader
    <3>1. reader[a].op \in Ops /\ reader'[a].op = reader[a].op
      BY ReaderType
    <3> QED
      BY SMT, <3>1, ReadAssumption DEF At, NoReader
  <2> QED
    BY <2>1 DEF ReadInv, Exclusive, At
<1>4. Held'
  BY SMT, <1>2, ReaderType DEF Held, Row, At
<1>5. ASSUME NEW a \in Actors, reader'[a] # NoReader
      PROVE  Knows(reader[a], Row(a), Native(a))'
  BY SMT, <1>2, <1>5, ReaderType DEF Row, Native, At
<1>6. ASSUME NEW c \in control'
      PROVE  Sees(c, journal'[c.op][c.number], native'[c.op][c.number])
  BY SMT, <1>2, <1>6 DEF At, ReadInv, ReadTypeOK, Observations
<1>7. RunningIsUnsettled'
  BY SMT, <1>2 DEF RunningIsUnsettled, ReadInv
<1>8. InOrder'
  <2> SUFFICES ASSUME NEW p \in Ops, NEW k \in Numbers, NEW m \in Numbers, k < m,
                      journal'[p][m].status # "absent"
               PROVE  ~Open(journal'[p][k])
    BY DEF InOrder
  <2>1. journal[p][m].status # "absent"
    BY <1>2
  <2>2. ~Open(journal[p][k])
    BY <2>1 DEF ReadInv, InOrder
  <2> QED
    BY SMT, <1>2, <2>2
<1>9. OldIsSettled'
  BY SMT, <1>2 DEF OldIsSettled, ReadInv
<1>10. [Promise!AttemptNext]_AttemptPhase
  <2> DEFINE x == PhaseOf(journal[o][n], native[o][n])
  <2> DEFINE y == PhaseOf(r, v)
  <2>1. AttemptPhase[o][n] = x
    BY DEF AttemptPhase
  <2>2. AttemptPhase' = [AttemptPhase EXCEPT ![o][n] = y]
    <3>1. \A p \in Ops, k \in Numbers :
            AttemptPhase'[p][k] = IF p = o /\ k = n THEN y ELSE AttemptPhase[p][k]
      BY SMT, <1>2 DEF AttemptPhase
    <3> QED
      BY SMT, <3>1, PhaseType, Pointwise
  <2>3. y = x => AttemptPhase' = AttemptPhase
    BY SMT, <2>1, <2>2 DEF AttemptPhase
  <2> HIDE DEF x, y
  <2>4. ASSUME y # x PROVE Promise!AttemptStep(o, n)
    <3> USE DEF Promise!AttemptStep, Promise!Move
    <3>1. CASE x = "ready" /\ y = "running"
      BY <2>1, <2>2, <3>1 DEF Promise!Issue
    <3>2. CASE x \in {"ready", "running"} /\ y = "over"
      BY <2>1, <2>2, <3>2 DEF Promise!End
    <3>3. CASE x = "over" /\ y = "succeeded"
      BY <2>1, <2>2, <3>3 DEF Promise!Succeed
    <3>4. CASE x \in {"ready", "over"} /\ y = "retryable"
      BY <2>1, <2>2, <3>4 DEF Promise!Fail
    <3>5. Moves(x, y)
      BY DEF x, y
    <3> QED
      BY <2>4, <3>1, <3>2, <3>3, <3>4, <3>5 DEF Moves
  <2> QED
    BY <2>3, <2>4 DEF Promise!AttemptNext, Promise!Numbers, Numbers
<1> QED
  BY <1>1, <1>3, <1>4, <1>5, <1>6, <1>7, <1>8, <1>9, <1>10 DEF ReadInv, Kept

\* A step of process a in its own attempt, which makes it d, r and v.
OwnStep(a, d, r, v) ==
  /\ d \in Busy /\ d.op = reader[a].op /\ d.number = reader[a].number
  /\ r \in Rows /\ r.age = Row(a).age /\ r.status # "absent"
  /\ v \in Natives
  /\ journal' = [journal EXCEPT ![reader[a].op][reader[a].number] = r]
  /\ native' = [native EXCEPT ![reader[a].op][reader[a].number] = v]
  /\ reader' = [reader EXCEPT ![a] = d]
  /\ control' = control
  /\ Knows(d, r, v)
  /\ \A c \in control : Sees(c, Row(a), Native(a)) => Sees(c, r, v)
  /\ Open(r) => Open(Row(a))
  /\ v = "running" => Open(r) /\ r.identity
  /\ Moves(PhaseOf(Row(a), Native(a)), PhaseOf(r, v))

\* Such a step keeps the invariant.
LEMMA OwnStepInv ==
  ASSUME ReadInv, NEW a \in Actors, reader[a] # NoReader, NEW d, NEW r, NEW v,
         OwnStep(a, d, r, v)
  PROVE  Kept
<1> DEFINE o == reader[a].op
<1> DEFINE n == reader[a].number
<1>1. o \in Ops /\ n \in Numbers /\ Row(a).age # "old" /\ Row(a).status # "absent"
  BY ReaderType
<1>2. reader' \in [Actors -> Readers]
  BY DEF OwnStep, ReadInv, ReadTypeOK, Readers, Busy
<1>3. ASSUME NEW b \in Actors, reader'[b] # NoReader
      PROVE  /\ reader[b] # NoReader
             /\ reader'[b].op = reader[b].op /\ reader'[b].number = reader[b].number
             /\ ~At(reader[b], o, n) => reader'[b] = reader[b]
             /\ At(reader[b], o, n) => Knows(reader'[b], r, v) /\ r.age # "old"
  <2>1. CASE b = a
    BY <1>1, <2>1 DEF OwnStep, At, ReadInv, ReadTypeOK
  <2>2. CASE b # a
    BY <1>3, <2>2 DEF OwnStep, ReadInv, ReadTypeOK, Exclusive
  <2> QED
    BY <2>1, <2>2
<1>4. \A c \in control' : IF At(c, o, n) THEN Sees(c, r, v) ELSE c \in control
  BY DEF OwnStep, ReadInv, At, Row, Native
<1>5. ChangesOne(o, n, r, v)
  BY <1>1, <1>2, <1>3, <1>4 
  DEF OwnStep, ChangesOne, Row, Native, ReadInv, ReadTypeOK, Observations
<1> QED
  BY <1>1, <1>5, OneAttempt

-----------------------------------------------------------------------------
(* The processes *)

\* Rewriting what is there changes nothing.
LEMMA Rewritten ==
  ASSUME ReadInv, NEW o \in Ops, NEW n \in Numbers
  PROVE  /\ journal = [journal EXCEPT ![o][n] = journal[o][n]]
         /\ native = [native EXCEPT ![o][n] = native[o][n]]
BY DEF ReadInv, ReadTypeOK

\* Opening the tagged transaction keeps the invariant.
LEMMA OpenNativeInv == ASSUME ReadInv, NEW a \in Actors, OpenNative(a) PROVE Kept
<1> DEFINE d == [reader[a] EXCEPT !.phase = "opened"]
<1>1. reader[a] # NoReader /\ Native(a) = "none" /\ ~Row(a).identity
  BY SMT, ReaderType DEF OpenNative, NoReader, Knows
<1>2. d \in Busy /\ d.op = reader[a].op /\ d.number = reader[a].number /\ d.phase = "opened"
  BY <1>1, ReaderType DEF Busy, Phases
<1>3. journal' = [journal EXCEPT ![reader[a].op][reader[a].number] = Row(a)]
  BY <1>1, ReaderType, Rewritten DEF OpenNative, Row
<1>4. Knows(d, Row(a), "open")
  BY <1>2 DEF Knows
<1>5. \A c \in control : Sees(c, Row(a), Native(a)) => Sees(c, Row(a), "open")
  BY <1>1 DEF Sees
<1>m. Moves(PhaseOf(Row(a), Native(a)), PhaseOf(Row(a), "open"))
  BY <1>1 DEF Moves, PhaseOf
<1>6. OwnStep(a, d, Row(a), "open")
  BY <1>m, <1>1, <1>2, <1>3, <1>4, <1>5, ReaderType
  DEF OpenNative, SetPhase, SetNative, OwnStep, Natives
<1> QED
  BY <1>1, <1>6, OwnStepInv

\* Journalling the native identity keeps the invariant, reply heard or not.
LEMMA SubmitInv == ASSUME ReadInv, NEW a \in Actors, Submit(a) PROVE Kept
<1> DEFINE r == [Row(a) EXCEPT !.status = "dispatching", !.identity = TRUE, !.remote = "running"]
<1>1. /\ reader[a] # NoReader /\ Native(a) \in {"open", "ended"}
      /\ Row(a).status = "accepted" /\ Row(a).age = "fresh" /\ ~Row(a).identity
  BY SMT, ReaderType DEF Submit, NoReader, Knows, MayDispatch
<1>2. PICK p \in {"opened", "submitted"} : reader' = [reader EXCEPT ![a].phase = p]
  <2>1. reader = [reader EXCEPT ![a].phase = "opened"]
    BY <1>1, ReaderType DEF Submit, ReadInv, ReadTypeOK, Busy
  <2> QED
    BY <2>1 DEF Submit, SetPhase
<1> DEFINE d == [reader[a] EXCEPT !.phase = p]
<1>3. d \in Busy /\ d.op = reader[a].op /\ d.number = reader[a].number /\ d.phase = p
  BY <1>1, ReaderType DEF Busy, Phases
<1>4. r \in Rows /\ r.age = Row(a).age /\ r.status = "dispatching" /\ r.identity
  BY <1>1, ReaderType DEF Rows, Unfinished, RemoteStates
<1>5. native' = [native EXCEPT ![reader[a].op][reader[a].number] = Native(a)]
  BY SMT, <1>1, ReaderType, Rewritten DEF Submit, Native
<1>6. Knows(d, r, Native(a)) /\ Open(r) /\ Open(Row(a))
  BY <1>1, <1>3, <1>4 DEF Knows, Open, Unfinished
<1>7. \A c \in control : Sees(c, Row(a), Native(a)) => Sees(c, r, Native(a))
  BY <1>1, <1>4 DEF Sees, Unfinished
<1>m. Moves(PhaseOf(Row(a), Native(a)), PhaseOf(r, Native(a)))
  BY <1>1, <1>4 DEF Moves, PhaseOf, Open, Unfinished, Retryable
<1>8. OwnStep(a, d, r, Native(a))
  BY <1>m, <1>1, <1>2, <1>3, <1>4, <1>5, <1>6, <1>7, ReaderType
  DEF Submit, SetRow, OwnStep, Row
<1> QED
  BY <1>1, <1>8, OwnStepInv

\* Starting the statement keeps the invariant.
LEMMA DeclareInv == ASSUME ReadInv, NEW a \in Actors, Declare(a) PROVE Kept
<1> DEFINE d == [reader[a] EXCEPT !.phase = "declared"]
<1>1. reader[a] # NoReader /\ Native(a) = "open" /\ Open(Row(a)) /\ Row(a).identity
  BY SMT, ReaderType DEF Declare, NoReader, Knows
<1>2. d \in Busy /\ d.op = reader[a].op /\ d.number = reader[a].number /\ d.phase = "declared"
  BY <1>1, ReaderType DEF Busy, Phases
<1>3. journal' = [journal EXCEPT ![reader[a].op][reader[a].number] = Row(a)]
  BY SMT, <1>1, ReaderType, Rewritten DEF Declare, Row
<1>4. Knows(d, Row(a), "running")
  BY <1>2 DEF Knows
<1>5. \A c \in control : Sees(c, Row(a), Native(a)) => Sees(c, Row(a), "running")
  BY <1>1 DEF Sees
<1>m. Moves(PhaseOf(Row(a), Native(a)), PhaseOf(Row(a), "running"))
  BY SMT, <1>1 DEF Moves, PhaseOf
<1>6. OwnStep(a, d, Row(a), "running")
  BY <1>m, <1>1, <1>2, <1>3, <1>4, <1>5, ReaderType
  DEF Declare, SetPhase, SetNative, OwnStep, Natives
<1> QED
  BY <1>1, <1>6, OwnStepInv

\* Journalling that it runs keeps the invariant.
LEMMA AcknowledgeInv == ASSUME ReadInv, NEW a \in Actors, Acknowledge(a) PROVE Kept
<1> DEFINE d == [reader[a] EXCEPT !.phase = "fetching"]
<1> DEFINE r == [Row(a) EXCEPT !.status = "running"]
<1>1. reader[a] # NoReader /\ Row(a).status = "dispatching"
  BY SMT DEF Acknowledge, NoReader, MayDispatch
<1>2. d \in Busy /\ d.op = reader[a].op /\ d.number = reader[a].number /\ d.phase = "fetching"
  BY <1>1, ReaderType DEF Busy, Phases
<1>3. r \in Rows /\ r.age = Row(a).age /\ r.status = "running" /\ r.identity = Row(a).identity
  BY <1>1, ReaderType DEF Rows, Unfinished
<1>4. native' = [native EXCEPT ![reader[a].op][reader[a].number] = Native(a)]
  BY <1>1, ReaderType, Rewritten DEF Acknowledge, Native
<1>5. Native(a) = "running" => Row(a).identity
  BY <1>1, ReaderType DEF ReadInv, RunningIsUnsettled, Row, Native
<1>6. Knows(d, r, Native(a)) /\ Open(r) /\ Open(Row(a))
  BY <1>1, <1>2, <1>3 DEF Knows, Open, Unfinished
<1>7. \A c \in control : Sees(c, Row(a), Native(a)) => Sees(c, r, Native(a))
  BY <1>1, <1>3 DEF Sees, Unfinished
<1>m. Moves(PhaseOf(Row(a), Native(a)), PhaseOf(r, Native(a)))
  BY <1>1, <1>3 DEF Moves, PhaseOf, Open, Unfinished, Retryable
<1>8. OwnStep(a, d, r, Native(a))
  BY <1>m, <1>1, <1>2, <1>3, <1>4, <1>5, <1>6, <1>7, ReaderType
  DEF Acknowledge, SetRow, SetPhase, OwnStep, Row
<1> QED
  BY <1>1, <1>8, OwnStepInv

\* The deferred rollback keeps the invariant.
LEMMA RollbackInv ==
  ASSUME ReadInv, NEW a \in Actors, NEW x \in Outcomes, Rollback(a, x) PROVE Kept
<1> DEFINE m == IF Issued(a) THEN "stopped" ELSE "not_issued"
<1> DEFINE d == [reader[a] EXCEPT !.phase = "ended", !.outcome = x, !.remote = m]
<1> DEFINE v == IF Native(a) = "none" THEN "none" ELSE "ended"
<1>1. reader[a] # NoReader
  BY SMT DEF Rollback, Issued, NoReader
<1>2. /\ d \in Busy /\ d.op = reader[a].op /\ d.number = reader[a].number
      /\ d.phase = "ended" /\ d.outcome = x
  BY <1>1, ReaderType DEF Busy, Phases, RemoteStates
<1>3. journal' = [journal EXCEPT ![reader[a].op][reader[a].number] = Row(a)]
  BY <1>1, ReaderType, Rewritten DEF Rollback, Row
<1>4. x = "succeeded" => v = "ended"
  BY DEF Rollback, MayEnd, Outcomes, Retryable
<1>5. Knows(d, Row(a), v)
  BY <1>2, <1>4 DEF Knows
<1>6. \A c \in control : Sees(c, Row(a), Native(a)) => Sees(c, Row(a), v)
  BY DEF Sees
<1>m. Moves(PhaseOf(Row(a), Native(a)), PhaseOf(Row(a), v))
  BY SMT, <1>1, ReaderType DEF Moves, PhaseOf, Natives
<1>7. OwnStep(a, d, Row(a), v)
  BY <1>m, <1>1, <1>2, <1>3, <1>5, <1>6, ReaderType DEF Rollback, SetNative, OwnStep, Natives
<1> QED
  BY <1>1, <1>7, OwnStepInv

\* A lost source keeps the invariant: what is not seen to have ended is uncertain.
LEMMA LoseSourceInv == ASSUME ReadInv, NEW a \in Actors, LoseSource(a) PROVE Kept
<1>1. /\ reader[a] # NoReader
      /\ reader[a].phase = "opened" => Native(a) # "running"
  BY SMT, ReaderType DEF LoseSource, Issued, NoReader, Knows
<1>2. PICK seen \in BOOLEAN :
       /\ seen => Native(a) = "ended"
       /\ reader' = [reader EXCEPT ![a].phase = "ended",
            ![a].outcome = IF Issued(a) /\ ~seen THEN "uncertain" ELSE "failed",
            ![a].remote = IF ~Issued(a) THEN "not_issued" ELSE IF seen THEN "stopped" ELSE "unknown"]
  BY DEF LoseSource
<1> DEFINE x == IF Issued(a) /\ ~seen THEN "uncertain" ELSE "failed"
<1> DEFINE m == IF ~Issued(a) THEN "not_issued" ELSE IF seen THEN "stopped" ELSE "unknown"
<1> DEFINE d == [reader[a] EXCEPT !.phase = "ended", !.outcome = x, !.remote = m]
<1>3. x \in Outcomes /\ m \in RemoteStates
  BY DEF Outcomes, Retryable, RemoteStates
<1>4. /\ d \in Busy /\ d.op = reader[a].op /\ d.number = reader[a].number
      /\ d.phase = "ended" /\ d.outcome = x
  BY <1>1, <1>3, ReaderType DEF Busy, Phases
<1>5. /\ journal' = [journal EXCEPT ![reader[a].op][reader[a].number] = Row(a)]
      /\ native' = [native EXCEPT ![reader[a].op][reader[a].number] = Native(a)]
  BY SMT, <1>1, ReaderType, Rewritten DEF LoseSource, Row, Native
<1>6. Knows(d, Row(a), Native(a))
  <2>1. x # "uncertain" => Native(a) # "running"
    BY <1>1, <1>2 DEF LoseSource
  <2> QED
    BY SMT, <1>3, <1>4, <2>1 DEF Knows
<1>7. Native(a) = "running" => Open(Row(a)) /\ Row(a).identity
  BY <1>1, ReaderType DEF ReadInv, RunningIsUnsettled, Row, Native
<1>m. Moves(PhaseOf(Row(a), Native(a)), PhaseOf(Row(a), Native(a)))
  BY DEF Moves
<1>n. reader' = [reader EXCEPT ![a] = d]
  BY <1>2
<1>o. Row(a) \in Rows /\ Row(a).status # "absent" /\ Native(a) \in Natives /\ control' = control
  BY <1>1, ReaderType DEF LoseSource
<1>8. OwnStep(a, d, Row(a), Native(a))
  <2> HIDE DEF d
  <2> QED
    BY <1>m, <1>n, <1>o, <1>4, <1>5, <1>6, <1>7 DEF OwnStep
<1> QED
  BY <1>1, <1>8, OwnStepInv

\* Sealing a row types it, keeps its identity, and opens nothing.
LEMMA SealedRow ==
  ASSUME NEW r \in Rows, NEW x \in Outcomes, NEW m \in RemoteStates
  PROVE  LET s == Sealed(r, x, m) IN
         /\ s \in Rows /\ s.identity = r.identity /\ s.age = r.age
         /\ s.status \in Outcomes
         /\ s.status = "uncertain" <=> x = "uncertain"
         /\ s.status = "succeeded" => x = "succeeded"
BY DEF Sealed, Rows, Outcomes, Retryable

\* The executor's seal keeps the invariant, accepted or refused, heard or not.
LEMMA FinishReadInv == ASSUME ReadInv, NEW a \in Actors, FinishRead(a) PROVE Kept
<1> DEFINE s == Sealed(Row(a), reader[a].outcome, reader[a].remote)
<1>1. /\ reader[a] # NoReader /\ reader[a].outcome \in Outcomes
      /\ reader[a].remote \in RemoteStates
      /\ reader[a].outcome # "uncertain" => Native(a) # "running"
  BY SMT, ReaderType DEF FinishRead, NoReader, Knows, Busy
<1>2. PICK r \in {s, Row(a)}, x \in Outcomes \cup {"lost"} :
        /\ journal' = [journal EXCEPT ![reader[a].op][reader[a].number] = r]
        /\ reader' = [reader EXCEPT ![a].phase = "reported", ![a].outcome = x]
        /\ r # Row(a) => r = s /\ MaySeal(Row(a))
  <2>1. s.status \in Outcomes
    BY <1>1, ReaderType, SealedRow
  <2>2. journal = [journal EXCEPT ![reader[a].op][reader[a].number] = Row(a)]
    BY <1>1, ReaderType, Rewritten DEF Row
  <2> QED
    BY <2>1, <2>2 DEF FinishRead, SetRow
<1> DEFINE d == [reader[a] EXCEPT !.phase = "reported", !.outcome = x]
<1>3. d \in Busy /\ d.op = reader[a].op /\ d.number = reader[a].number /\ d.phase = "reported"
  BY <1>1, ReaderType DEF Busy, Phases
<1>4. native' = [native EXCEPT ![reader[a].op][reader[a].number] = Native(a)]
  BY SMT, <1>1, ReaderType, Rewritten DEF FinishRead, Native
<1>5. /\ r \in Rows /\ r.identity = Row(a).identity /\ r.age = Row(a).age
      /\ r.status # "absent"
      /\ r.status \in Unfinished => Row(a).status \in Unfinished
      /\ Open(r) => Open(Row(a))
  <2>1. CASE r = Row(a)
    BY <1>1, <2>1, ReaderType
  <2>2. CASE r # Row(a)
    <3>1. r = s /\ Open(Row(a))
      BY <1>2, <2>2 DEF MaySeal
    <3>2. s \in Rows /\ s.identity = Row(a).identity /\ s.age = Row(a).age /\ s.status \in Outcomes
      BY <1>1, ReaderType, SealedRow
    <3> QED
      BY <3>1, <3>2 DEF Outcomes, Retryable, Unfinished
  <2> QED
    BY <2>1, <2>2
<1>6. Native(a) = "running" => Open(r) /\ r.identity
  <2>1. Native(a) = "running" => Open(Row(a)) /\ Row(a).identity
    BY <1>1, ReaderType DEF ReadInv, RunningIsUnsettled, Row, Native
  <2>2. Native(a) = "running" => s.status = "uncertain"
    BY <1>1, ReaderType, SealedRow
  <2> QED
    BY <1>2, <1>5, <2>1, <2>2 DEF Open
<1>7. Knows(d, r, Native(a))
  BY <1>3 DEF Knows
<1>8. \A c \in control : Sees(c, Row(a), Native(a)) => Sees(c, r, Native(a))
  BY <1>5 DEF Sees
<1>m. Moves(PhaseOf(Row(a), Native(a)), PhaseOf(r, Native(a)))
  <2>1. CASE r = Row(a)
    BY <2>1 DEF Moves
  <2>2. CASE r # Row(a)
    <3>1. r = s /\ Open(Row(a))
      BY <1>2, <2>2 DEF MaySeal
    <3>2. /\ r.status \in Outcomes
          /\ r.status = "uncertain" <=> reader[a].outcome = "uncertain"
          /\ r.status = "succeeded" => reader[a].outcome = "succeeded"
      BY <1>1, <3>1, ReaderType, SealedRow
    <3>3. reader[a].outcome = "succeeded" => Native(a) = "ended"
      BY <1>1, ReaderType DEF FinishRead, Knows
    <3>4. CASE r.status = "uncertain"
      BY SMT, <3>1, <3>4, OpenPhase DEF Moves, Open
    <3>5. CASE r.status = "succeeded"
      BY <3>1, <3>2, <3>3, <3>5, OpenPhase, ClosedPhase DEF Moves
    <3>6. CASE r.status \in Retryable
      <4>1. Native(a) # "running"
        BY <1>1, <3>2, <3>6 DEF Retryable
      <4>2. PhaseOf(r, Native(a)) = "retryable"
        BY <3>6, ClosedPhase
      <4> QED
        BY <3>1, <4>1, <4>2, OpenPhase DEF Moves
    <3> QED
      BY <3>2, <3>4, <3>5, <3>6 DEF Outcomes
  <2> QED
    BY <2>1, <2>2
<1>9. OwnStep(a, d, r, Native(a))
  BY <1>m, <1>1, <1>2, <1>3, <1>4, <1>5, <1>6, <1>7, <1>8, ReaderType DEF FinishRead, OwnStep
<1> QED
  BY <1>1, <1>9, OwnStepInv

\* A process that crashes or is done leaves its attempt as it is.
LEMMA ForgetInv == ASSUME ReadInv, NEW a \in Actors, Forget(a) PROVE Kept
<1> DEFINE o == reader[a].op
<1> DEFINE n == reader[a].number
<1>1. reader[a] # NoReader /\ o \in Ops /\ n \in Numbers
  BY ReaderType DEF Forget
<1>2. /\ journal' = [journal EXCEPT ![o][n] = journal[o][n]]
      /\ native' = [native EXCEPT ![o][n] = native[o][n]]
  BY <1>1, Rewritten DEF Forget
<1>3. reader' \in [Actors -> Readers]
  BY DEF Forget, ReadInv, ReadTypeOK, Readers
<1>4. \A b \in Actors : reader'[b] # NoReader => b # a /\ reader'[b] = reader[b]
  BY DEF Forget, ReadInv, ReadTypeOK
<1>5. \A b \in Actors : b # a => ~At(reader[b], o, n)
  BY <1>1 DEF ReadInv, Exclusive
<1>6. ChangesOne(o, n, journal[o][n], native[o][n])
  <2>1. control' \subseteq Observations
    BY DEF Forget, ReadInv, ReadTypeOK, Observations
  <2>2. \A c \in control' : IF At(c, o, n) THEN Sees(c, journal[o][n], native[o][n]) ELSE c \in control
    BY <1>1, AttemptType DEF Forget
  <2> QED
    BY <1>1, <1>2, <1>3, <1>4, <1>5, <2>1, <2>2, AttemptType DEF ChangesOne, Moves
<1> QED
  BY <1>1, <1>6, OneAttempt

-----------------------------------------------------------------------------
(* The source, the clock, and controllers *)

\* A step of somebody else in one attempt, which makes it r and v.
OtherStep(o, n, r, v) ==
  /\ r \in Rows /\ v \in Natives
  /\ journal' = [journal EXCEPT ![o][n] = r]
  /\ native' = [native EXCEPT ![o][n] = v]
  /\ reader' = reader
  /\ control' \subseteq control
  /\ \A b \in Actors : reader[b] # NoReader /\ At(reader[b], o, n) =>
       r.age # "old" /\ (Knows(reader[b], journal[o][n], native[o][n]) => Knows(reader[b], r, v))
  /\ \A c \in control' : At(c, o, n) => Sees(c, r, v)
  /\ r.status = "absent" <=> journal[o][n].status = "absent"
  /\ Open(r) => Open(journal[o][n])
  /\ r.age = "old" => Settled(r)
  /\ v = "running" => Open(r) /\ r.identity
  /\ Moves(PhaseOf(journal[o][n], native[o][n]), PhaseOf(r, v))

\* Such a step keeps the invariant.
LEMMA OtherStepInv ==
  ASSUME ReadInv, NEW o \in Ops, NEW n \in Numbers, NEW r, NEW v, OtherStep(o, n, r, v)
  PROVE  Kept
<1>1. ASSUME NEW b \in Actors, reader[b] # NoReader, At(reader[b], o, n)
      PROVE  Knows(reader[b], r, v) /\ r.age # "old"
  BY <1>1, ReaderType DEF OtherStep, At, Row, Native
<1>2. ChangesOne(o, n, r, v)
  BY <1>1 DEF OtherStep, ChangesOne, ReadInv, ReadTypeOK, Observations
<1> QED
  BY <1>2, OneAttempt

\* The end of a backend keeps the invariant.
LEMMA NativeEndsInv ==
  ASSUME ReadInv, NEW o \in Ops, NEW n \in Numbers, NativeEnds(o, n) PROVE Kept
<1>1. journal' = [journal EXCEPT ![o][n] = journal[o][n]]
  BY Rewritten DEF NativeEnds
<1>2. \A c \in control : At(c, o, n) => Sees(c, journal[o][n], "ended")
  BY AttemptType DEF Sees
<1>3. \A b \in Actors : reader[b] # NoReader /\ At(reader[b], o, n) =>
        /\ journal[o][n].age # "old"
        /\ Knows(reader[b], journal[o][n], "ended")
  BY AttemptType DEF Knows, NativeEnds
<1>m. Moves(PhaseOf(journal[o][n], native[o][n]), PhaseOf(journal[o][n], "ended"))
  BY SMT DEF NativeEnds, Moves, PhaseOf
<1>4. OtherStep(o, n, journal[o][n], "ended")
  BY <1>m, <1>1, <1>2, <1>3, AttemptType DEF NativeEnds, SetNative, OtherStep, Natives
<1> QED
  BY <1>4, OtherStepInv

\* A recorded cancellation keeps the invariant.
LEMMA CancelReadInv ==
  ASSUME ReadInv, NEW o \in Ops, NEW n \in Numbers, CancelRead(o, n) PROVE Kept
<1> DEFINE r == [journal[o][n] EXCEPT !.cancel = TRUE]
<1>1. native' = [native EXCEPT ![o][n] = native[o][n]]
  BY Rewritten DEF CancelRead
<1>2. /\ r \in Rows /\ r.status = journal[o][n].status /\ r.age = journal[o][n].age
      /\ r.identity = journal[o][n].identity
  BY AttemptType DEF Rows
<1>3. (Open(r) <=> Open(journal[o][n])) /\ (Settled(r) <=> Settled(journal[o][n]))
  BY <1>2 DEF Open, Settled
<1>4. \A c \in control : At(c, o, n) => Sees(c, r, native[o][n])
  BY <1>2, AttemptType DEF Sees
<1>5. \A b \in Actors : reader[b] # NoReader /\ At(reader[b], o, n) =>
        r.age # "old" /\ Knows(reader[b], r, native[o][n])
  BY SMT, <1>2, <1>3, AttemptType DEF Knows
<1>m. Moves(PhaseOf(journal[o][n], native[o][n]), PhaseOf(r, native[o][n]))
  BY <1>2, <1>3 DEF Moves, PhaseOf
<1>6. OtherStep(o, n, r, native[o][n])
  BY <1>m, <1>1, <1>2, <1>3, <1>4, <1>5, AttemptType DEF CancelRead, SetRow, OtherStep
<1> QED
  BY <1>6, OtherStepInv

\* The clock keeps the invariant: nobody deals with an attempt that a day has passed over.
LEMMA TimePassesInv ==
  ASSUME ReadInv, NEW o \in Ops, NEW n \in Numbers, TimePasses(o, n) PROVE Kept
<1>1. PICK age \in Ages :
        /\ SetRow(o, n, [journal[o][n] EXCEPT !.age = age])
        /\ age # "fresh" /\ journal[o][n].status # "absent"
        /\ age = "old" => Untouched(o, n) /\ Settled(journal[o][n])
  BY DEF TimePasses, Ages, Unfinished, Settled, Outcomes, Retryable
<1> DEFINE r == [journal[o][n] EXCEPT !.age = age]
<1>2. native' = [native EXCEPT ![o][n] = native[o][n]]
  BY Rewritten DEF TimePasses
<1>3. /\ r \in Rows /\ r.status = journal[o][n].status /\ r.age = age
      /\ r.identity = journal[o][n].identity
  BY AttemptType DEF Rows
<1>4. (Open(r) <=> Open(journal[o][n])) /\ (Settled(r) <=> Settled(journal[o][n]))
  BY <1>3 DEF Open, Settled
<1>5. \A c \in control : At(c, o, n) => Sees(c, r, native[o][n])
  BY <1>1, <1>3, AttemptType DEF Sees, Untouched, At
<1>6. \A b \in Actors : reader[b] # NoReader /\ At(reader[b], o, n) =>
        r.age # "old" /\ Knows(reader[b], r, native[o][n])
  <2> SUFFICES ASSUME NEW b \in Actors, reader[b] # NoReader, At(reader[b], o, n)
               PROVE  r.age # "old" /\ Knows(reader[b], r, native[o][n])
    OBVIOUS
  <2>1. r.age # "old"
    BY <1>1, <1>3 DEF Untouched, At
  <2>2. Knows(reader[b], journal[o][n], native[o][n])
    BY AttemptType
  <2> QED
    BY <1>3, <1>4, <2>1, <2>2 DEF Knows
<1>m. Moves(PhaseOf(journal[o][n], native[o][n]), PhaseOf(r, native[o][n]))
  BY <1>3, <1>4 DEF Moves, PhaseOf
<1>7. OtherStep(o, n, r, native[o][n])
  BY <1>m, <1>1, <1>2, <1>3, <1>4, <1>5, <1>6, AttemptType DEF TimePasses, SetRow, OtherStep
<1> QED
  BY <1>7, OtherStepInv

\* A controller that looks at the source keeps the invariant.
LEMMA ObserveControlInv ==
  ASSUME ReadInv, NEW o \in Ops, NEW n \in Numbers, ObserveControl(o, n) PROVE Kept
<1> DEFINE r == journal[o][n]
<1>1. PICK m \in {"not_issued", "stopped"} :
        /\ control' = control \cup {[op |-> o, number |-> n, remote |-> m]}
        /\ m = "not_issued" => ~r.identity
        /\ m = "stopped" => r.identity /\ native[o][n] \notin {"open", "running"}
  BY DEF ObserveControl
<1>2. /\ r.status # "absent" /\ (r.age # "fresh" \/ r.status \notin Unfinished)
      /\ Open(r) /\ r.age # "old"
  <2>1. r.status # "absent" /\ (r.age # "fresh" \/ r.status \notin Unfinished) /\ Open(r)
    BY AttemptType DEF ObserveControl, Presented, Rows, Unfinished, Open
  <2> QED
    BY <2>1, AttemptType, SettledClosed
<1>0. journal' = journal /\ native' = native /\ reader' = reader
  BY DEF ObserveControl
<1>3. ReadTypeOK' /\ Exclusive' /\ Held' /\ RunningIsUnsettled' /\ InOrder' /\ OldIsSettled'
  BY SMT, <1>0, <1>1
  DEF ReadInv, ReadTypeOK, Exclusive, Held, RunningIsUnsettled, InOrder, OldIsSettled, Row
<1>4. \A a \in Actors : (reader[a] # NoReader => Knows(reader[a], Row(a), Native(a)))'
  BY DEF ObserveControl, ReadInv, Row, Native
<1>5. ASSUME NEW c \in control' PROVE Sees(c, journal'[c.op][c.number], native'[c.op][c.number])
  <2>1. CASE c \in control
    BY <1>0, <2>1 DEF ReadInv
  <2>2. CASE c = [op |-> o, number |-> n, remote |-> m]
    BY <1>0, <1>1, <1>2, <2>2 DEF Sees
  <2> QED
    BY <1>1, <1>5, <2>1, <2>2
<1>6. AttemptPhase' = AttemptPhase
  BY <1>0 DEF AttemptPhase
<1> QED
  BY <1>3, <1>4, <1>5, <1>6 DEF ReadInv, Kept

\* A reconciliation keeps the invariant although its observation is old.
LEMMA ReconcileInv == ASSUME ReadInv, NEW c \in control, Reconcile(c) PROVE Kept
<1> DEFINE o == c.op
<1> DEFINE n == c.number
<1> DEFINE s == Sealed(journal[o][n], "interrupted", c.remote)
<1>1. /\ o \in Ops /\ n \in Numbers /\ c.remote \in {"not_issued", "stopped"}
      /\ Sees(c, journal[o][n], native[o][n]) /\ At(c, o, n)
  BY DEF ReadInv, ReadTypeOK, At
<1>2. native' = [native EXCEPT ![o][n] = native[o][n]] /\ reader' = reader
  BY <1>1, Rewritten DEF Reconcile
<1>3. PICK r \in {s, journal[o][n]} :
        /\ journal' = [journal EXCEPT ![o][n] = r]
        /\ r # journal[o][n] => r = s /\ Open(journal[o][n])
  BY <1>1, Rewritten DEF Reconcile, SetRow, MaySeal
<1>4. /\ s \in Rows /\ s.identity = journal[o][n].identity /\ s.age = journal[o][n].age
      /\ s.status \in Retryable
  <2>1. "interrupted" \in Outcomes /\ c.remote \in RemoteStates
    BY <1>1 DEF Outcomes, Retryable, RemoteStates
  <2>2. journal[o][n] \in Rows
    BY <1>1, AttemptType
  <2>3. s \in Rows /\ s.identity = journal[o][n].identity /\ s.age = journal[o][n].age
    BY <2>1, <2>2, SealedRow
  <2>4. s.status = "interrupted"
    BY <2>2 DEF Sealed, Rows
  <2> QED
    BY <2>3, <2>4 DEF Retryable
<1>5. native[o][n] # "running"
  BY <1>1, AttemptType DEF Sees
<1>6. /\ r \in Rows /\ r.identity = journal[o][n].identity /\ r.age = journal[o][n].age
      /\ r.status # "absent"
      /\ r.status \in Unfinished => journal[o][n].status \in Unfinished
      /\ Open(r) => r = journal[o][n]
  <2>1. journal[o][n] \in Rows /\ journal[o][n].status # "absent" /\ journal[o][n].age # "old"
    BY <1>1, AttemptType DEF Sees
  <2> HIDE DEF s, o, n
  <2>2. CASE r = journal[o][n]
    BY <2>1, <2>2
  <2>3. CASE r # journal[o][n]
    <3>1. r = s
      BY <1>3, <2>3
    <3> QED
      BY <1>4, <2>1, <3>1 DEF Retryable, Unfinished, Open
  <2> QED
    BY <2>2, <2>3
<1>7. \A d \in control' : At(d, o, n) => Sees(d, r, native[o][n])
  BY <1>1, <1>6, AttemptType DEF Sees, Reconcile
<1>8. ASSUME NEW b \in Actors, reader[b] # NoReader, At(reader[b], o, n)
      PROVE  r.age # "old" /\ Knows(reader[b], r, native[o][n])
  <2>1. ~(reader[b].phase = "submitted" /\ native[o][n] = "open")
    BY SMT, <1>1, <1>8, AttemptType DEF Knows, Sees
  <2>2. Knows(reader[b], journal[o][n], native[o][n]) /\ journal[o][n].age # "old"
    BY <1>1, <1>8, AttemptType
  <2> HIDE DEF o, n
  <2> QED
    BY <1>6, <2>1, <2>2 DEF Knows
<1>m. Moves(PhaseOf(journal[o][n], native[o][n]), PhaseOf(r, native[o][n]))
  <2>1. CASE r = journal[o][n]
    BY <2>1 DEF Moves
  <2>2. CASE r # journal[o][n]
    <3>1. Open(journal[o][n]) /\ r.status \in Retryable
      BY <1>3, <1>4, <2>2
    <3>2. PhaseOf(r, native[o][n]) = "retryable"
      BY <3>1, ClosedPhase
    <3> QED
      BY <1>5, <3>1, <3>2, OpenPhase DEF Moves
  <2> QED
    BY <2>1, <2>2
<1>9. OtherStep(o, n, r, native[o][n])
  BY <1>m, <1>1, <1>2, <1>3, <1>5, <1>6, <1>7, <1>8, AttemptType DEF Reconcile, OtherStep, Sees
<1> QED
  BY <1>1, <1>9, OtherStepInv

-----------------------------------------------------------------------------
(* BeginRead *)

\* What BeginRead leaves of an attempt: everything, unless it was settled a day ago.
LEMMA CollectedRow ==
  ASSUME ReadInv, NEW o \in Ops, NEW n \in Numbers
  PROVE  /\ Collected[o][n] = journal[o][n] \/ Collected[o][n] = Absent
         /\ Collected[o][n] # journal[o][n] =>
              Settled(journal[o][n]) /\ journal[o][n].age = "old"
         /\ Collected[o][n].status = "absent" =>
              journal[o][n].status = "absent" \/ (Settled(journal[o][n]) /\ journal[o][n].age = "old")
BY DEF Collected

\* Journalling an attempt keeps the invariant.
LEMMA BeginReadInv ==
  ASSUME ReadInv, NEW a \in Actors, NEW o \in Ops, NEW n \in Numbers, BeginRead(a, o, n)
  PROVE  Kept
<1> DEFINE d == [NoReader EXCEPT !.op = o, !.number = n, !.phase = "begun"]
<1>1. /\ reader[a] = NoReader /\ control' = control
      /\ journal' = [Collected EXCEPT ![o][n] = Accepted]
      /\ native' = [native EXCEPT ![o][n] = "none"]
      /\ reader' = [reader EXCEPT ![a] = d]
  BY DEF BeginRead, SetNative
<1>2. /\ d \in Busy /\ d.op = o /\ d.number = n /\ d.phase = "begun"
      /\ Accepted \in Rows /\ Absent \in Rows
      /\ Accepted.status = "accepted" /\ ~Accepted.identity /\ Accepted.age = "fresh"
      /\ Absent.status = "absent" /\ ~Open(Absent) /\ Open(Accepted)
  BY DEF NoReader, Busy, Phases, RemoteStates, Accepted, Absent, Rows, Unfinished, Ages, Open
<1> HIDE DEF d
<1>3. /\ journal'[o][n] = Accepted /\ native'[o][n] = "none"
      /\ \A p \in Ops, k \in Numbers : p # o \/ k # n =>
           journal'[p][k] = Collected[p][k] /\ native'[p][k] = native[p][k]
  BY <1>1 DEF Collected, ReadInv, ReadTypeOK
<1>4. \A k \in Numbers : k >= n => Collected[o][k].status = "absent"
  BY DEF BeginRead, MayBegin
<1>5. reader'[a] = d /\ \A b \in Actors : b # a => reader'[b] = reader[b]
  BY <1>1 DEF ReadInv, ReadTypeOK
<1>6. ASSUME NEW b \in Actors, reader[b] # NoReader
      PROVE  /\ b # a /\ ~At(reader[b], o, n)
             /\ journal'[reader[b].op][reader[b].number] = Row(b)
             /\ native'[reader[b].op][reader[b].number] = Native(b)
  <2>1. Collected[reader[b].op][reader[b].number] = Row(b)
    BY <1>6, ReaderType, CollectedRow DEF Row
  <2>2. ~At(reader[b], o, n)
    BY SMT, <1>4, <1>6, <2>1, ReaderType DEF At, Numbers
  <2> QED
    BY <1>1, <1>3, <1>6, <2>1, <2>2, ReaderType DEF At, Native
<1>7. ASSUME NEW c \in control
      PROVE  /\ journal'[c.op][c.number] = journal[c.op][c.number]
             /\ native'[c.op][c.number] = native[c.op][c.number]
  <2>1. c.op \in Ops /\ c.number \in Numbers
    BY DEF ReadInv, ReadTypeOK
  <2>2. Sees(c, journal[c.op][c.number], native[c.op][c.number])
    BY DEF ReadInv
  <2>3. Collected[c.op][c.number] = journal[c.op][c.number]
    BY <2>1, <2>2, CollectedRow DEF Sees
  <2>4. ~At(c, o, n)
    BY SMT, <1>4, <2>1, <2>2, <2>3 DEF At, Numbers, Sees
  <2> QED
    BY <1>3, <2>1, <2>3, <2>4 DEF At
<1>8. ReadTypeOK'
  <2>1. Collected \in [Ops -> [Numbers -> Rows]]
    BY <1>2 DEF Collected, ReadInv, ReadTypeOK
  <2> QED
    BY <1>1, <1>2, <2>1 DEF ReadInv, ReadTypeOK, Readers, Busy
<1>9. Exclusive' /\ Held'
  <2>1. ASSUME NEW x \in Actors, NEW y \in Actors, reader'[x] # NoReader,
               At(reader'[y], reader'[x].op, reader'[x].number)
        PROVE  x = y
    <3>1. reader'[x].op \in Ops
      BY <1>2, <1>5, <2>1, ReaderType
    <3>2. reader'[y] # NoReader
      BY SMT, <2>1, <3>1, ReadAssumption DEF At, NoReader
    <3>3. CASE x = a /\ y # a
      BY <1>2, <1>5, <1>6, <2>1, <3>2, <3>3
    <3>4. CASE x # a /\ y = a
      BY <1>2, <1>5, <1>6, <2>1, <3>4 DEF At
    <3>5. CASE x # a /\ y # a
      BY <1>5, <2>1, <3>5 DEF ReadInv, Exclusive
    <3> QED
      BY <3>3, <3>4, <3>5
  <2>2. ASSUME NEW b \in Actors, reader'[b] # NoReader
        PROVE  Row(b)'.status # "absent" /\ Row(b)'.age # "old"
    <3>1. CASE b = a
      BY <1>2, <1>3, <1>5, <3>1 DEF Row
    <3>2. CASE b # a
      <4>1. reader'[b] = reader[b] /\ reader[b] # NoReader
        BY <1>5, <2>2, <3>2
      <4>2. Row(b)' = Row(b)
        BY <1>6, <4>1 DEF Row
      <4> QED
        BY <4>1, <4>2, ReaderType
    <3> QED
      BY <3>1, <3>2
  <2> QED
    BY <2>1, <2>2 DEF Exclusive, Held
<1>10. ASSUME NEW b \in Actors, reader'[b] # NoReader
       PROVE  Knows(reader[b], Row(b), Native(b))'
  <2>1. CASE b = a
    BY <1>2, <1>3, <1>5, <2>1 DEF Knows, Row, Native
  <2>2. CASE b # a
    BY <1>5, <1>6, <1>10, <2>2, ReaderType DEF Row, Native
  <2> QED
    BY <2>1, <2>2
<1>11. \A c \in control' : Sees(c, journal'[c.op][c.number], native'[c.op][c.number])
  BY <1>1, <1>7 DEF ReadInv
<1>12. RunningIsUnsettled'
  BY SMT, <1>3, CollectedRow, SettledClosed, AttemptType DEF RunningIsUnsettled
<1>13. InOrder'
  <2> SUFFICES ASSUME NEW p \in Ops, NEW k \in Numbers, NEW m \in Numbers, k < m,
                      journal'[p][m].status # "absent", Open(journal'[p][k])
               PROVE  FALSE
    BY DEF InOrder
  <2>1. CASE p = o
    <3>1. m <= n
      BY SMT, <1>3, <1>4, <2>1 DEF Numbers
    <3>2. k # n /\ Collected[o][k] = journal[o][k] /\ Open(journal[o][k])
      BY SMT, <1>2, <1>3, <2>1, <3>1, CollectedRow DEF Numbers
    <3>3. n > 1 /\ n - 1 \in Numbers /\ k <= n - 1
      BY SMT, <3>1, ReadAssumption DEF Numbers
    <3>4. journal[o][n - 1] = Collected[o][n - 1] /\ Settled(journal[o][n - 1])
      BY SMT, <1>2, <3>3, CollectedRow
      DEF BeginRead, MayBegin, Presented, Settled, Outcomes, Retryable, Unfinished
    <3> QED
      BY SMT, <3>2, <3>3, <3>4, SettledClosed DEF ReadInv, InOrder, Numbers
  <2>2. CASE p # o
    <3>1. journal[p][m].status # "absent" /\ Open(journal[p][k])
      BY SMT, <1>2, <1>3, <2>2, CollectedRow
    <3> QED
      BY <3>1 DEF ReadInv, InOrder
  <2> QED
    BY <2>1, <2>2
<1>14. OldIsSettled'
  <2>1. ASSUME NEW p \in Ops, NEW k \in Numbers, Collected[p][k].age = "old"
        PROVE  Settled(Collected[p][k])
    <3>1. Collected[p][k] # Absent
      BY SMT, <2>1 DEF Absent
    <3> QED
      BY <2>1, <3>1, CollectedRow, AttemptType
  <2> QED
    BY <1>2, <1>3, <2>1 DEF OldIsSettled
<1>15. Promise!Begin(o, n)
  <2> DEFINE kept == {q \in Ops \X Numbers : Collected[q[1]][q[2]] = journal[q[1]][q[2]]}
  <2> DEFINE left == [p \in Ops |-> [k \in Numbers |->
                   IF AttemptPhase[p][k] \in Promise!Verdicts /\ <<p, k>> \notin kept
                   THEN "absent" ELSE AttemptPhase[p][k]]]
  <2>1. ASSUME NEW p \in Ops, NEW k \in Numbers
        PROVE  left[p][k] = PhaseOf(Collected[p][k], native[p][k])
    <3>1. AttemptPhase[p][k] = PhaseOf(journal[p][k], native[p][k])
      BY DEF AttemptPhase
    <3>2. CASE Collected[p][k] = journal[p][k]
      BY <3>1, <3>2
    <3>3. CASE Collected[p][k] # journal[p][k]
      <4>1. Settled(journal[p][k]) /\ Collected[p][k] = Absent
        BY <3>3, CollectedRow
      <4>2. AttemptPhase[p][k] \in Promise!Verdicts
        BY <3>1, <4>1, ClosedPhase DEF Settled, Outcomes, Promise!Verdicts
      <4>3. PhaseOf(Collected[p][k], native[p][k]) = "absent"
        BY <1>2, <4>1, ClosedPhase
      <4> QED
        BY <3>3, <4>2, <4>3
    <3> QED
      BY <3>2, <3>3
  <2> HIDE DEF left
  <2>2. \A k \in Numbers : k >= n => left[o][k] = "absent"
    BY SMT, <1>4, <2>1, ClosedPhase
  <2>3. n > 1 => left[o][n - 1] = "retryable"
    <3>1. ASSUME n > 1 PROVE Collected[o][n - 1].status \in Retryable /\ n - 1 \in Numbers
      BY SMT, <3>1, ReadAssumption
      DEF BeginRead, MayBegin, Presented, Retryable, Numbers, Unfinished
    <3> QED
      BY SMT, <2>1, <3>1, ClosedPhase
  <2>4. AttemptPhase' = [left EXCEPT ![o][n] = "ready"]
    <3>1. PhaseOf(Accepted, "none") = "ready"
      BY <1>2, OpenPhase
    <3>2. \A p \in Ops, k \in Numbers :
            AttemptPhase'[p][k] = IF p = o /\ k = n THEN "ready" ELSE left[p][k]
      BY <1>3, <2>1, <3>1 DEF AttemptPhase
    <3>3. left \in [Ops -> [Numbers -> Promise!Phases]] /\ "ready" \in Promise!Phases
      BY PhaseType DEF left, Promise!Phases
    <3> QED
      BY SMT, <3>2, <3>3, PhaseType, Pointwise
  <2>5. kept \in SUBSET (Ops \X Numbers)
    OBVIOUS
  <2> QED
    BY <2>2, <2>3, <2>4, <2>5 DEF Promise!Begin, Promise!Numbers, Numbers, left
<1> QED
  BY <1>8, <1>9, <1>10, <1>11, <1>12, <1>13, <1>14, <1>15
  DEF ReadInv, Kept, Promise!AttemptNext, Promise!Numbers, Numbers

-----------------------------------------------------------------------------
(* The theorems *)

\* Every step keeps the invariant, and is one SourceAttempt allows.
LEMMA NextReadInv == ReadInv /\ [ReadNext]_readVars => Kept
<1> SUFFICES ASSUME ReadInv, [ReadNext]_readVars PROVE Kept
  OBVIOUS
<1>1. ASSUME NEW a \in Actors, NEW o \in Ops, NEW n \in Numbers, BeginRead(a, o, n) PROVE Kept
  BY <1>1, BeginReadInv
<1>2. ASSUME NEW a \in Actors, ReadStep(a) PROVE Kept
  BY <1>2, OpenNativeInv, SubmitInv, DeclareInv, AcknowledgeInv, RollbackInv, LoseSourceInv,
     FinishReadInv DEF ReadStep
<1>3. ASSUME NEW a \in Actors, Forget(a) PROVE Kept
  BY <1>3, ForgetInv
<1>4. CASE SourceStep
  BY <1>4, NativeEndsInv, TimePassesInv, CancelReadInv, ObserveControlInv, ReconcileInv
  DEF SourceStep
<1>5. CASE UNCHANGED readVars
  <2>1. ReadInv'
    BY <1>5 DEF readVars, ReadInv, ReadTypeOK, Exclusive, Held, Row, Native, RunningIsUnsettled,
                InOrder, OldIsSettled
  <2>2. AttemptPhase' = AttemptPhase
    BY <1>5 DEF readVars, AttemptPhase
  <2> QED
    BY <2>1, <2>2 DEF Kept
<1> QED
  BY <1>1, <1>2, <1>3, <1>4, <1>5 DEF ReadNext

\* Every receipt and every reader stays within its type, whatever races.
THEOREM ReadTypes == ReadSpec => []ReadTypeOK
<1>1. ReadInv => ReadTypeOK
  BY DEF ReadInv
<1>2. Kept => ReadInv'
  BY DEF Kept
<1> QED
  BY <1>1, <1>2, InitReadInv, NextReadInv, PTL DEF ReadSpec

\* While the warehouse runs an attempt's statement, its receipt is not settled: the
\* executor's seals and every reconciliation, however stale its observation, are right.
THEOREM RunningUnsettled == ReadSpec => []RunningIsUnsettled
<1>1. ReadInv => RunningIsUnsettled
  BY DEF ReadInv
<1>2. Kept => ReadInv'
  BY DEF Kept
<1> QED
  BY <1>1, <1>2, InitReadInv, NextReadInv, PTL DEF ReadSpec

\* The executor implements SourceAttempt.
THEOREM ExecutorKeepsPromise == ReadSpec => ImplementsSourceAttempt
<1>1. ReadInit => Promise!AttemptInit
  <2>1. ReadInit => \A o \in Ops, n \in Numbers : PhaseOf(journal[o][n], native[o][n]) = "absent"
    BY SMT, ClosedPhase DEF ReadInit, Absent
  <2> QED
    BY <2>1 DEF Promise!AttemptInit, AttemptPhase, Promise!Numbers, Numbers
<1>2. Kept => ReadInv' /\ [Promise!AttemptNext]_AttemptPhase
  BY DEF Kept
<1> QED
  BY <1>1, <1>2, InitReadInv, NextReadInv, PTL
  DEF ReadSpec, ImplementsSourceAttempt, Promise!AttemptSpec

\* What a step may do to a receipt: a settled one stays, a cancelled one does not succeed.
Receipted(r, s) ==
  /\ Settled(r) /\ r.age # "old" => s.status = r.status /\ s.remote = r.remote
  /\ Open(r) /\ r.cancel => s.status # "succeeded"

AllReceipted == \A o \in Ops, n \in Numbers : Receipted(journal[o][n], journal'[o][n])

\* A step that rewrites one row as it may treats all rows as it may.
LEMMA OneReceipt ==
  ASSUME ReadInv, NEW o \in Ops, NEW n \in Numbers, NEW r, SetRow(o, n, r),
         Receipted(journal[o][n], r)
  PROVE  AllReceipted
<1>1. ASSUME NEW p \in Ops, NEW k \in Numbers
      PROVE  journal'[p][k] = IF p = o /\ k = n THEN r ELSE journal[p][k]
  BY DEF SetRow, ReadInv, ReadTypeOK
<1>2. \A x : Receipted(x, x)
  BY DEF Receipted, Open, Unfinished
<1> QED
  BY <1>1, <1>2 DEF AllReceipted

\* Sealing an open row respects its cancellation.
LEMMA SealReceipted ==
  ASSUME NEW r \in Rows, MaySeal(r), NEW x \in Outcomes, NEW m
  PROVE  Receipted(r, Sealed(r, x, m))
<1>1. ~Settled(r)
  BY SettledClosed DEF MaySeal
<1>2. r.cancel => Sealed(r, x, m).status # "succeeded"
  BY DEF Sealed, Rows
<1> QED
  BY <1>1, <1>2 DEF Receipted

\* Every step treats every receipt so.
LEMMA StepReceipted == ASSUME ReadInv, [ReadNext]_readVars PROVE AllReceipted
<1>1. CASE journal' = journal
  BY <1>1 DEF AllReceipted, Receipted, Open, Unfinished
<1>2. ASSUME NEW a \in Actors, NEW o \in Ops, NEW n \in Numbers, BeginRead(a, o, n)
      PROVE  AllReceipted
  <2> SUFFICES ASSUME NEW p \in Ops, NEW k \in Numbers
               PROVE  Receipted(journal[p][k], journal'[p][k])
    BY DEF AllReceipted
  <2>1. journal'[p][k] = IF p = o /\ k = n THEN Accepted ELSE Collected[p][k]
    BY <1>2 DEF BeginRead, Collected
  <2>2. p = o /\ k = n => Collected[p][k].status = "absent"
    BY SMT, <1>2, ReadAssumption DEF BeginRead, MayBegin, Numbers
  <2>3. CASE p = o /\ k = n
    <3>1. journal[p][k].status = "absent" \/ (Settled(journal[p][k]) /\ journal[p][k].age = "old")
      BY <2>2, <2>3, CollectedRow
    <3> QED
      BY <3>1, SettledClosed
      DEF Receipted, Open, Settled, Outcomes, Retryable, Unfinished
  <2>4. CASE ~(p = o /\ k = n)
    <3>1. journal'[p][k] = journal[p][k] \/ (journal'[p][k] = Absent /\ Settled(journal[p][k]) /\ journal[p][k].age = "old")
      BY <2>1, <2>4, CollectedRow
    <3> QED
      BY SMT, <3>1 DEF Receipted, Open, Unfinished, Absent
  <2> QED
    BY <2>3, <2>4
<1>3. ASSUME NEW a \in Actors, Submit(a) \/ Acknowledge(a) PROVE AllReceipted
  <2>1. reader[a] # NoReader /\ Row(a).status \in Unfinished /\ ~Row(a).cancel
    BY SMT, <1>3 DEF Submit, Acknowledge, NoReader, MayDispatch, Unfinished
  <2>2. \A r : Receipted(Row(a), r)
    BY <2>1 DEF Receipted, Settled, Outcomes, Retryable, Unfinished
  <2> QED
    BY <1>3, <2>1, <2>2, ReaderType, OneReceipt DEF Submit, Acknowledge, Row
<1>4. ASSUME NEW a \in Actors, FinishRead(a) PROVE AllReceipted
  <2>1. reader[a] # NoReader /\ reader[a].outcome \in Outcomes
    BY SMT, <1>4, ReaderType DEF FinishRead, NoReader, Knows
  <2> QED
    BY <1>1, <1>4, <2>1, ReaderType, SealReceipted, OneReceipt DEF FinishRead, Row
<1>5. ASSUME NEW o \in Ops, NEW n \in Numbers, TimePasses(o, n) \/ CancelRead(o, n)
      PROVE  AllReceipted
  <2>1. PICK r \in Rows : /\ SetRow(o, n, r) /\ r.status = journal[o][n].status
                          /\ r.remote = journal[o][n].remote
    <3> DEFINE q == journal[o][n]
    <3>1. /\ [q EXCEPT !.cancel = TRUE] \in Rows
          /\ [q EXCEPT !.cancel = TRUE].status = q.status
          /\ [q EXCEPT !.cancel = TRUE].remote = q.remote
      BY AttemptType DEF Rows
    <3>2. ASSUME NEW age \in Ages
          PROVE  /\ [q EXCEPT !.age = age] \in Rows
                 /\ [q EXCEPT !.age = age].status = q.status
                 /\ [q EXCEPT !.age = age].remote = q.remote
      BY AttemptType DEF Rows
    <3>3. CASE CancelRead(o, n)
      BY <3>1, <3>3 DEF CancelRead
    <3>4. CASE TimePasses(o, n)
      <4>1. PICK age \in Ages : SetRow(o, n, [q EXCEPT !.age = age])
        BY <3>4 DEF TimePasses, Ages
      <4> QED
        BY <3>2, <4>1
    <3> QED
      BY <1>5, <3>3, <3>4
  <2> QED
    BY <2>1, OneReceipt DEF Receipted, Open, Unfinished
<1>6. ASSUME NEW c \in control, Reconcile(c) PROVE AllReceipted
  <2>1. c.op \in Ops /\ c.number \in Numbers /\ "interrupted" \in Outcomes
    BY DEF ReadInv, ReadTypeOK, Outcomes, Retryable
  <2> QED
    BY <1>1, <1>6, <2>1, AttemptType, SealReceipted, OneReceipt DEF Reconcile
<1>7. ASSUME NEW a \in Actors, ReadStep(a) PROVE AllReceipted
  <2>1. \/ Submit(a) \/ Acknowledge(a) \/ FinishRead(a) \/ journal' = journal
    BY <1>7 DEF ReadStep, OpenNative, Declare, Rollback, LoseSource
  <2> QED
    BY <1>1, <1>3, <1>4, <2>1
<1>8. CASE SourceStep
  <2>1. ASSUME NEW o \in Ops, NEW n \in Numbers, NativeEnds(o, n) \/ ObserveControl(o, n)
        PROVE  journal' = journal
    BY <2>1 DEF NativeEnds, ObserveControl
  <2> QED
    BY <1>1, <1>5, <1>6, <1>8, <2>1 DEF SourceStep
<1>9. ASSUME NEW a \in Actors, Forget(a) PROVE AllReceipted
  BY <1>1, <1>9 DEF Forget
<1>10. CASE UNCHANGED readVars
  BY <1>1, <1>10 DEF readVars
<1> QED
  BY <1>2, <1>7, <1>8, <1>9, <1>10 DEF ReadNext

\* A settled receipt keeps its outcome until retention forgets it, whoever comes late.
THEOREM ReceiptsStay == ReadSpec => ReceiptsAreFinal
<1>1. ReadInv /\ [ReadNext]_readVars =>
        [\A o \in Ops, n \in Numbers :
           Settled(journal[o][n]) /\ journal[o][n].age # "old" =>
             /\ journal'[o][n].status = journal[o][n].status
             /\ journal'[o][n].remote = journal[o][n].remote]_readVars
  BY StepReceipted DEF AllReceipted, Receipted
<1>2. Kept => ReadInv'
  BY DEF Kept
<1> QED
  BY <1>1, <1>2, InitReadInv, NextReadInv, PTL DEF ReadSpec, ReceiptsAreFinal

\* A read whose cancellation is recorded is never sealed as a success.
THEOREM CancellationWins == ReadSpec => CancelledNeverSucceeds
<1>1. ReadInv /\ [ReadNext]_readVars =>
        [\A o \in Ops, n \in Numbers :
           Open(journal[o][n]) /\ journal[o][n].cancel =>
             journal'[o][n].status # "succeeded"]_readVars
  BY StepReceipted DEF AllReceipted, Receipted
<1>2. Kept => ReadInv'
  BY DEF Kept
<1> QED
  BY <1>1, <1>2, InitReadInv, NextReadInv, PTL DEF ReadSpec, CancelledNeverSucceeds

\* The warehouse never runs two attempts of one operation at a time, whoever retried and
\* whatever the first attempt's process believes.
OneNativePerOperation ==
  \A o \in Ops, m, n \in Numbers :
    native[o][m] = "running" /\ native[o][n] = "running" => m = n

\* The warehouse runs one attempt of an operation at a time.
THEOREM RunsAlone == ReadSpec => []OneNativePerOperation
<1>1. ReadInv => OneNativePerOperation
  <2> SUFFICES ASSUME ReadInv, NEW o \in Ops, NEW m \in Numbers, NEW n \in Numbers,
                      native[o][m] = "running", native[o][n] = "running", m < n
               PROVE  FALSE
    BY SMT, ReadAssumption DEF OneNativePerOperation, Numbers
  <2>1. Open(journal[o][m]) /\ Open(journal[o][n])
    BY AttemptType
  <2> QED
    BY <2>1 DEF ReadInv, InOrder, Open, Unfinished
<1>2. Kept => ReadInv'
  BY DEF Kept
<1> QED
  BY <1>1, <1>2, InitReadInv, NextReadInv, PTL DEF ReadSpec

=============================================================================
