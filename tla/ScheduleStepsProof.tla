------------------------- MODULE ScheduleStepsProof -------------------------
(***************************************************************************)
(* The inductive invariant of Schedules, and that it is kept by every edit *)
(* of a schedule, manual fire, claim and route change, and by every single *)
(* decision of a tick.                                                     *)
(*                                                                         *)
(* The invariants speak of tables sc, oc, jb and ad (sched, occ, ops and   *)
(* admitted), because a tick passes through tables that no state shows.    *)
(***************************************************************************)
EXTENDS Schedules, RecurrenceProof

\* Zenon does the first-order steps; a step beyond it cites SMT.
USE Zenon

AdmissionType == [due : Int, generation : 0..MaxGeneration, sched : Ids]
RouteType ==
  [active : Ids \cup {NoRoute}, other : Ids \cup {NoRoute},
   state : {"none", "active", "rolled_back"}, generation : 0..MaxGeneration, resumeAfter : Int]

\* A schedule's row: its cursor spans two neighbouring occurrences of its definition.
CursorInv(c) ==
  /\ c.retired => ~c.enabled
  /\ c.enabled \/ c.retired => c.revision > 0
  /\ c.definition <= c.revision
  /\ c.revision <= MaxRevision + route.generation
  /\ c.revision > 0 => OnGrid(c.spec, c.next) /\ c.next = c.previous + c.spec.every

\* A row of the clock ends before the cursor, and within a definition before its window.
RowInv(c, r) ==
  /\ r.due <= r.through /\ r.through <= now
  /\ r.definition <= c.definition
  /\ r.key = Clock =>
       /\ r.through < c.next
       /\ r.definition = c.definition => r.through <= c.previous

Disjoint(r, q) ==
  r.key = Clock /\ q.key = Clock /\ r.sched = q.sched /\ r.definition = q.definition /\ r # q
    => r.through <= q.start \/ q.through <= r.start

RowsInv(sc, oc) ==
  /\ \A r \in oc : RowInv(sc[r.sched], r)
  /\ \A r, q \in oc : Disjoint(r, q)

KeyType == Keys \cup {Clock}

RowOf(r, o) == r.sched = o.sched /\ r.key = o.key /\ r.due = o.due

\* Operations are not early; the clock's are behind the cursor, each due time once; a
\* manual run's row has an operation; an operation with a row was queued; and a schedule
\* that was not edited since it admitted an operation is still enabled.
OpsInv(sc, oc, jb) ==
  /\ \A o \in jb : o.due <= now /\ (o.key = Clock => o.due < sc[o.sched].next)
  /\ \A o, p \in jb : o.key = Clock /\ p.key = Clock /\ o.sched = p.sched /\ o.due = p.due => o = p
  /\ \A r \in oc : r.key # Clock => \E o \in jb : o.sched = r.sched /\ o.key = r.key
  /\ \A o \in jb, r \in oc : RowOf(r, o) => r.disposition = "queued"
  /\ \A o \in jb :
       /\ o.revision <= sc[o.sched].revision
       /\ o.revision = sc[o.sched].revision => sc[o.sched].enabled

\* Operations of a routed stream: one for each admitted due time; the prior schedule's
\* recorded ones lie before the boundary; those of earlier routings are of a revision the
\* route no longer binds.
StreamInv(oc, jb, ad) ==
  /\ \A o \in jb : o.generation <= route.generation
  /\ \A o \in jb : o.generation > 0 => \E a \in ad : a.due = o.due
  /\ \A o, p \in jb : o.generation > 0 /\ p.generation > 0 /\ o.due = p.due => o = p
  /\ \A o, p \in jb : o.generation > 0 /\ p.generation = 0 /\ p.sched = Prior /\ o.due = p.due
       => \A r \in oc : ~RowOf(r, p)
  /\ route.generation > 0 =>
       \A p \in jb, r \in oc : p.generation = 0 /\ p.sched = Prior /\ RowOf(r, p)
         => p.due <= route.resumeAfter
  /\ \A o \in jb : o.sched \in Routed /\ o.generation < route.generation
       => o.revision < bound[o.sched]
  /\ \A o \in jb : o.generation > 0 /\ o.generation = route.generation => o.sched = route.active

RouteInv ==
  /\ route \in RouteType
  /\ checkpoint \in Int /\ (checkpoint > 0 => Target \in Ids)
  /\ \A s \in Ids : bound[s] = 0 <=> s \notin Routed \/ route.generation = 0
  /\ \A s \in Ids : bound[s] <= sched[s].revision
  /\ route.generation = 0 => route.state = "none"
  /\ route.generation > 0 =>
       /\ {Prior, Target} \subseteq Ids
       /\ route.active # route.other /\ {route.active, route.other} = {Prior, Target}

TablesType(sc, oc, jb, ad) ==
  /\ sc \in [Ids -> ScheduleType] /\ oc \in SUBSET OccurrenceType
  /\ jb \in SUBSET OperationType /\ ad \in SUBSET AdmissionType

TablesInv(sc, oc, jb, ad) ==
  /\ TablesType(sc, oc, jb, ad)
  /\ \A s \in Ids : CursorInv(sc[s])
  /\ RowsInv(sc, oc) /\ OpsInv(sc, oc, jb) /\ StreamInv(oc, jb, ad)

\* The columns no step of this module may leave without: the clock and the routes.
FixedInv == now \in 0..MaxTime /\ bound \in [Ids -> Revisions] /\ RouteInv

SchedulesInv == FixedInv /\ TablesInv(sched, occ, ops, admitted)

-----------------------------------------------------------------------------
(* One decision of the clock *)

\* sn is sc with the cursor of s moved.
Moved(sc, sn, s) ==
  /\ \A x \in Ids :
       /\ sn[x].revision = sc[x].revision /\ sn[x].enabled = sc[x].enabled
       /\ sn[x].retired = sc[x].retired /\ sn[x].spec = sc[x].spec
       /\ sn[x].definition = sc[x].definition
  /\ \A x \in Ids \ {s} : sn[x] = sc[x]

\* A decision of the clock up to the time of r: the row may find its place taken.
Decided(sc, sn, s, r) ==
  /\ Moved(sc, sn, s)
  /\ r.sched = s /\ r.key = Clock /\ r.definition = sc[s].definition
  /\ r.due = sc[s].next /\ r.start = sc[s].previous
  /\ r.due <= r.through /\ r.through <= now
  /\ sn[s].previous = r.through
  /\ sn[s].next = r.through + sc[s].spec.every
  /\ OnGrid(sc[s].spec, r.through)

\* Columns of a schedule row.
LEMMA SpecFacts ==
  ASSUME NEW c \in ScheduleType
  PROVE  /\ c.spec \in SpecType /\ IsInterval(c.spec)
         /\ c.revision \in Nat /\ c.definition \in Nat /\ c.next \in Int /\ c.previous \in Int
         /\ c.enabled \in BOOLEAN /\ c.retired \in BOOLEAN /\ c.spec.every \in Nat \ {0}
<1>1. c.spec \in Definitions /\ c.revision \in Revisions /\ c.definition \in Revisions
      /\ c.next \in Int /\ c.previous \in Int /\ c.enabled \in BOOLEAN /\ c.retired \in BOOLEAN
  BY DEF ScheduleType
<1>2. c.spec \in SpecType
  BY <1>1, ScheduleAssumption
<1>3. c.spec.every \in Nat \ {0} /\ c.spec.anchor \in Nat
  BY <1>2 DEF SpecType
<1> QED BY SMT, <1>1, <1>2, <1>3, ScheduleAssumption DEF Revisions, IsInterval

\* Columns of an operation, and of the clock and the route.
LEMMA OperationColumns ==
  ASSUME NEW o \in OperationType
  PROVE  o.sched \in Ids /\ o.due \in Int /\ o.revision \in Nat /\ o.generation \in Nat
  BY SMT, ScheduleAssumption DEF OperationType, Revisions

\* Columns of the clock, the route and the bindings.
LEMMA RouteColumns ==
  ASSUME FixedInv
  PROVE  /\ now \in Int /\ now <= now /\ route.generation \in Nat /\ route.resumeAfter \in Int
         /\ \A s \in Ids : bound[s] \in Nat
  BY SMT, ScheduleAssumption DEF FixedInv, RouteInv, RouteType, Revisions

\* A route change takes the next generation.
LEMMA NextGeneration ==
  ASSUME FixedInv, route.generation < MaxGeneration
  PROVE  /\ route.generation + 1 \in Nat /\ route.generation + 1 \in 0..MaxGeneration
         /\ route.generation + 1 > 0
  BY SMT, RouteColumns, ScheduleAssumption

\* Every number is at most itself.
LEMMA Reflexive == \A a \in Int : a <= a
  BY SMT

\* Every definition is at most itself.
LEMMA DefinitionFacts ==
  \A c \in ScheduleType : c.definition \in Nat /\ c.definition <= c.definition
<1>1. \A c \in ScheduleType : c.definition \in Nat
  BY SpecFacts
<1> QED BY SMT, <1>1

\* What lies below a number, or below its successor, is not it.
LEMMA Below ==
  \A a, b, n \in Nat : /\ a < b => a <= b /\ a # b
                       /\ n = b + 1 /\ a <= b => a < n /\ a <= n /\ a # n
  BY SMT

\* A decision keeps every cursor on its grid.
LEMMA CursorsDecided ==
  ASSUME NEW sc \in [Ids -> ScheduleType], NEW sn \in [Ids -> ScheduleType], NEW s \in Ids,
         NEW r \in OccurrenceType, \A x \in Ids : CursorInv(sc[x]),
         sc[s].enabled, Decided(sc, sn, s, r)
  PROVE  /\ \A x \in Ids : CursorInv(sn[x])
         /\ sc[s].previous < sc[s].next /\ sc[s].next < sn[s].next
         /\ sc[s].previous <= sn[s].previous
<1>1. sc[s] \in ScheduleType /\ sn[s] \in ScheduleType
  OBVIOUS
<1>2. IsInterval(sc[s].spec) /\ sc[s].next \in Int /\ sc[s].previous \in Int
      /\ sc[s].spec.every \in Nat \ {0}
  BY <1>1, SpecFacts
<1>3. r.through \in Int /\ r.due \in Int
  BY DEF OccurrenceType
<1>4. SpecNext(sc[s].spec, r.through) = r.through + sc[s].spec.every
  BY <1>2, NextOfOccurrence DEF Decided
<1>5. OnGrid(sc[s].spec, sn[s].next)
  BY SMT, <1>2, <1>3, <1>4, IntervalNeighbours DEF Decided
<1>6. CursorInv(sn[s])
  BY <1>2, <1>3, <1>5 DEF Decided, Moved, CursorInv
<1>7. \A x \in Ids : CursorInv(sn[x])
  BY <1>6 DEF Decided, Moved
<1>8. sc[s].next = sc[s].previous + sc[s].spec.every
  BY DEF CursorInv
<1> QED BY SMT, <1>2, <1>3, <1>7, <1>8 DEF Decided

\* The row of a decision starts where the rows before it end.
LEMMA RowsDecided ==
  ASSUME NEW sc \in [Ids -> ScheduleType], NEW sn \in [Ids -> ScheduleType],
         NEW oc \in SUBSET OccurrenceType, NEW s \in Ids, NEW r \in OccurrenceType,
         NEW on \in SUBSET (oc \cup {r}), now \in Int,
         RowsInv(sc, oc), Decided(sc, sn, s, r),
         sc[s].previous < sc[s].next, sc[s].next < sn[s].next, sc[s].previous <= sn[s].previous
  PROVE  RowsInv(sn, on)
<1>1. /\ sc[s].next \in Int /\ sc[s].previous \in Int /\ sn[s].next \in Int
      /\ sn[s].previous \in Int /\ sc[s].spec.every \in Nat \ {0} /\ sc[s].definition \in Nat
  BY SpecFacts
<1>2. \A q \in oc \cup {r} :
        q.sched \in Ids /\ q.due \in Int /\ q.through \in Int /\ q.start \in Int
  BY DEF OccurrenceType
<1>3. RowInv(sn[r.sched], r)
  BY SMT, <1>1, <1>2 DEF Decided, Moved, RowInv
<1>4. ASSUME NEW q \in oc PROVE RowInv(sn[q.sched], q)
  <2>1. RowInv(sc[q.sched], q) /\ q.sched \in Ids
    BY <1>2 DEF RowsInv
  <2>2. CASE q.sched = s
    BY SMT, <1>1, <1>2, <2>1, <2>2 DEF Decided, Moved, RowInv
  <2>3. CASE q.sched # s
    BY <2>1, <2>3 DEF Decided, Moved
  <2> QED BY <2>2, <2>3
<1>5. ASSUME NEW q \in oc PROVE Disjoint(r, q) /\ Disjoint(q, r)
  <2>1. RowInv(sc[q.sched], q)
    BY DEF RowsInv
  <2>2. r.sched = q.sched /\ q.key = Clock /\ r.definition = q.definition => q.through <= r.start
    BY <1>1, <1>2, <2>1 DEF Decided, RowInv
  <2> QED BY <2>2 DEF Disjoint
<1>6. Disjoint(r, r)
  BY DEF Disjoint
<1> QED BY <1>3, <1>4, <1>5, <1>6 DEF RowsInv

\* A decision that admits nothing.
LEMMA OpsSkipped ==
  ASSUME NEW sc \in [Ids -> ScheduleType], NEW sn \in [Ids -> ScheduleType],
         NEW oc \in SUBSET OccurrenceType, NEW jb \in SUBSET OperationType, NEW s \in Ids,
         NEW r \in OccurrenceType, NEW on \in SUBSET (oc \cup {r}), Moved(sc, sn, s),
         OpsInv(sc, oc, jb), sc[s].next < sn[s].next,
         r.sched = s, r.key = Clock, r.due = sc[s].next
  PROVE  /\ OpsInv(sn, on, jb)
         /\ \A o \in jb : ~RowOf(r, o)
<1>1. \A x \in Ids : sc[x].next \in Int /\ sn[x].next \in Int
  BY SpecFacts
<1>2. \A o \in jb : o.sched \in Ids /\ o.due \in Int
  BY DEF OperationType
<1>3. \A o \in jb : ~RowOf(r, o)
  BY SMT, <1>1, <1>2 DEF OpsInv, RowOf
<1>4. \A o \in jb : o.due <= now /\ (o.key = Clock => o.due < sn[o.sched].next)
  BY SMT, <1>1, <1>2 DEF OpsInv, Moved
<1>5. \A o \in jb :
        /\ o.revision <= sn[o.sched].revision
        /\ o.revision = sn[o.sched].revision => sn[o.sched].enabled
  BY <1>2 DEF OpsInv, Moved
<1>6. \A q \in on : q.key # Clock => \E o \in jb : o.sched = q.sched /\ o.key = q.key
  BY DEF OpsInv
<1>7. \A o \in jb, q \in on : RowOf(q, o) => q.disposition = "queued"
  BY <1>3 DEF OpsInv
<1> QED BY <1>3, <1>4, <1>5, <1>6, <1>7 DEF OpsInv

\* A new operation x, with the row r of the same key that may find its place taken.
LEMMA OpsAdmitted ==
  ASSUME NEW sn \in [Ids -> ScheduleType], NEW oc \in SUBSET OccurrenceType,
         NEW jb \in SUBSET OperationType, NEW r \in OccurrenceType,
         NEW on \in SUBSET (oc \cup {r}), NEW x \in OperationType,
         OpsInv(sn, oc, jb), RowOf(r, x), r.disposition = "queued",
         \A q \in oc \ {r} : ~RowOf(q, x), x.due <= now,
         x.key = Clock => x.due < sn[x.sched].next,
         \A o \in jb : ~(o.key = Clock /\ RowOf(r, o)),
         x.revision = sn[x.sched].revision, sn[x.sched].enabled
  PROVE  OpsInv(sn, on, jb \cup {x})
<1>1. x.revision \in Int
  BY SMT, ScheduleAssumption DEF OperationType, Revisions
<1>2. \A o \in jb \cup {x} : o.due <= now /\ (o.key = Clock => o.due < sn[o.sched].next)
  BY DEF OpsInv
<1>3. \A o, p \in jb \cup {x} :
        o.key = Clock /\ p.key = Clock /\ o.sched = p.sched /\ o.due = p.due => o = p
  BY SMT DEF OpsInv, RowOf
<1>4. \A q \in on : q.key # Clock => \E o \in jb \cup {x} : o.sched = q.sched /\ o.key = q.key
  <2>1. x.sched = r.sched /\ x.key = r.key
    BY DEF RowOf
  <2>2. \A q \in oc : q.key # Clock => \E o \in jb : o.sched = q.sched /\ o.key = q.key
    BY DEF OpsInv
  <2> QED BY <2>1, <2>2
<1>5. ASSUME NEW o \in jb \cup {x}, NEW q \in on, RowOf(q, o) PROVE q.disposition = "queued"
  <2>1. CASE q = r
    BY <2>1
  <2>2. CASE q # r
    <3>1. q \in oc \ {r} /\ o \in jb
      BY <1>5, <2>2
    <3> QED BY <1>5, <3>1 DEF OpsInv
  <2> QED BY <2>1, <2>2
<1>6. \A o \in jb \cup {x} :
        /\ o.revision <= sn[o.sched].revision
        /\ o.revision = sn[o.sched].revision => sn[o.sched].enabled
  BY SMT, <1>1 DEF OpsInv
<1> QED BY <1>2, <1>3, <1>4, <1>5, <1>6 DEF OpsInv

\* Rows of no operation, and more admissions, change nothing for the stream.
LEMMA StreamSkipped ==
  ASSUME NEW oc, NEW jb, NEW ad, NEW r, NEW on \in SUBSET (oc \cup {r}),
         NEW an, ad \subseteq an, StreamInv(oc, jb, ad), \A o \in jb : ~RowOf(r, o)
  PROVE  StreamInv(on, jb, an)
  BY DEF StreamInv

RouteGeneration(s) == IF bound[s] = 0 THEN 0 ELSE route.generation

\* A new operation x of schedule s, admitted under the route's conditions.
LEMMA StreamAdmitted ==
  ASSUME FixedInv, NEW oc, NEW jb \in SUBSET OperationType, NEW ad, NEW x \in OperationType,
         NEW an, ad \subseteq an, StreamInv(oc, jb, ad), NEW c,
         x.generation = RouteGeneration(x.sched),
         x.generation > 0 => \E a \in an : a.due = x.due,
         AdmitCutoverOccurrence(ad, x.sched, c, x.due)
  PROVE  StreamInv(oc, jb \cup {x}, an)
<1>1. x.sched \in Ids /\ x.due \in Int /\ route.generation \in Nat /\ route.resumeAfter \in Int
  BY RouteColumns, OperationColumns
<1>2. \A o \in jb \cup {x} : o.generation \in Nat /\ o.due \in Int
  BY OperationColumns
<1>3. bound[x.sched] = 0 <=> x.sched \notin Routed \/ route.generation = 0
  BY <1>1 DEF FixedInv, RouteInv
<1>4. x.generation > 0 =>
        /\ x.generation = route.generation /\ route.active = x.sched
        /\ x.due > route.resumeAfter /\ \A a \in ad : a.due # x.due
  BY SMT, <1>1, <1>3 DEF AdmitCutoverOccurrence, OnActiveRoute, RouteGeneration
<1>5. x.generation = 0 => route.generation = 0 \/ (x.sched \notin Routed /\ x.sched # Prior)
  BY <1>1, <1>3, ScheduleAssumption DEF Routed, RouteGeneration
<1>6. x.generation > 0 => \A o \in jb : o.generation > 0 => o.due # x.due
  BY <1>4 DEF StreamInv
<1>7. \A o \in jb \cup {x} : o.generation <= route.generation
  BY SMT, <1>1, <1>2, <1>4 DEF StreamInv
<1>8. \A o, p \in jb \cup {x} : o.generation > 0 /\ p.generation > 0 /\ o.due = p.due => o = p
  BY <1>6 DEF StreamInv
<1>9. \A o, p \in jb \cup {x} :
        o.generation > 0 /\ p.generation = 0 /\ p.sched = Prior /\ o.due = p.due
          => \A q \in oc : ~RowOf(q, p)
  <2> SUFFICES ASSUME NEW o \in jb \cup {x}, NEW p \in jb \cup {x}, NEW q \in oc,
                      o.generation > 0, p.generation = 0, p.sched = Prior, o.due = p.due,
                      RowOf(q, p)
               PROVE  FALSE
    OBVIOUS
  <2>1. route.generation > 0
    BY SMT, <1>1, <1>2, <1>7
  <2>2. p \in jb
    BY SMT, <1>5, <2>1
  <2>3. p.due <= route.resumeAfter
    BY <2>1, <2>2 DEF StreamInv
  <2>4. o = x
    BY <2>2 DEF StreamInv
  <2> QED BY SMT, <1>1, <1>2, <1>4, <2>3, <2>4
<1>10. route.generation > 0 =>
         \A p \in jb \cup {x}, q \in oc : p.generation = 0 /\ p.sched = Prior /\ RowOf(q, p)
           => p.due <= route.resumeAfter
  BY SMT, <1>5 DEF StreamInv
<1>11. \A o \in jb \cup {x} : o.sched \in Routed /\ o.generation < route.generation
         => o.revision < bound[o.sched]
  BY SMT, <1>1, <1>2, <1>3, <1>4, <1>5 DEF StreamInv
<1>12. \A o \in jb \cup {x} : o.generation > 0 /\ o.generation = route.generation
         => o.sched = route.active
  BY <1>4 DEF StreamInv
<1>13. \A o \in jb \cup {x} : o.generation > 0 => \E a \in an : a.due = o.due
  BY DEF StreamInv
<1> QED BY <1>7, <1>8, <1>9, <1>10, <1>11, <1>12, <1>13 DEF StreamInv

-----------------------------------------------------------------------------
(* What a tick has accounted for *)

\* In the rows oc, or by the exception for a manual run's row that was there before.
Accounted(oc, x, d) ==
  \/ \E r \in oc : r.sched = x /\ r.due <= d /\ d <= r.through
  \/ \E r \in occ : /\ r.sched = x /\ r.key # Clock /\ OnGrid(sched[x].spec, r.due)
                    /\ sched[x].next <= r.due /\ r.due < d

\* From the tables of the current state a tick has only moved cursors forward, over
\* occurrences it accounted for, and added rows of the clock.
Progress(sc, oc) ==
  /\ occ \subseteq oc
  /\ \A r \in oc \ occ : r.key = Clock
  /\ \A x \in Ids :
       /\ sc[x].revision = sched[x].revision /\ sc[x].enabled = sched[x].enabled
       /\ sc[x].spec = sched[x].spec /\ sc[x].definition = sched[x].definition
       /\ sched[x].next <= sc[x].next
       /\ \A d : OnGrid(sched[x].spec, d) /\ sched[x].next <= d /\ d < sc[x].next
                   => Accounted(oc, x, d)

\* An insert keeps the rows, and adds its own unless one of that due time is there.
LEMMA InsertFacts ==
  ASSUME NEW oc, NEW r
  PROVE  /\ oc \subseteq InsertOccurrence(oc, r)
         /\ InsertOccurrence(oc, r) \in SUBSET (oc \cup {r})
         /\ r \in InsertOccurrence(oc, r) \/ \E q \in oc : q.sched = r.sched /\ q.due = r.due
  BY DEF InsertOccurrence

\* A decision accounts for everything it moves the cursor over.
LEMMA ProgressDecided ==
  ASSUME NEW sc \in [Ids -> ScheduleType], NEW sn \in [Ids -> ScheduleType],
         NEW oc \in SUBSET OccurrenceType, NEW s \in Ids, NEW r \in OccurrenceType,
         sched \in [Ids -> ScheduleType],
         RowsInv(sc, oc), CursorInv(sc[s]), sc[s].enabled, Decided(sc, sn, s, r), Progress(sc, oc),
         sc[s].next < sn[s].next
  PROVE  Progress(sn, InsertOccurrence(oc, r))
<1> DEFINE on == InsertOccurrence(oc, r)
<1>1. oc \subseteq on /\ on \in SUBSET (oc \cup {r})
      /\ (r \in on \/ \E q \in oc : q.sched = r.sched /\ q.due = r.due)
  BY InsertFacts
<1> HIDE DEF on
<1>2. occ \subseteq on /\ \A q \in on \ occ : q.key = Clock
  BY <1>1 DEF Progress, Decided
<1>3. ASSUME NEW x \in Ids, NEW d, Accounted(oc, x, d) PROVE Accounted(on, x, d)
  BY <1>1, <1>3 DEF Accounted
<1>4. /\ IsInterval(sc[s].spec) /\ sc[s].next \in Int /\ sn[s].next \in Int
      /\ sched[s].next \in Int /\ sc[s].spec.every \in Nat \ {0}
  BY SpecFacts
<1>5. r.due \in Int /\ r.through \in Int
  BY DEF OccurrenceType
<1>6. OnGrid(sc[s].spec, sc[s].next) /\ sc[s].spec = sched[s].spec /\ sched[s].next <= sc[s].next
  BY DEF CursorInv, Progress
<1>7. ASSUME NEW d, OnGrid(sched[s].spec, d), sched[s].next <= d, d < sn[s].next
      PROVE  Accounted(on, s, d)
  <2>1. d \in Int
    BY <1>7 DEF OnGrid
  <2>2. CASE d < sc[s].next
    BY <1>3, <1>7, <2>2 DEF Progress
  <2>3. CASE ~(d < sc[s].next)
    <3>1. d <= r.through
      <4>1. r.through < d => r.through + sc[s].spec.every <= d
        BY <1>4, <1>6, <1>7, GridGap DEF Decided
      <4> QED BY SMT, <1>4, <1>5, <1>7, <2>1, <4>1 DEF Decided
    <3>2. r.due <= d
      BY SMT, <1>4, <2>1, <2>3 DEF Decided
    <3>3. CASE r \in on
      BY <3>1, <3>2, <3>3 DEF Accounted, Decided
    <3>4. CASE r \notin on
      <4>1. PICK q \in oc : q.sched = s /\ q.due = sc[s].next
        BY <1>1, <3>4 DEF Decided
      <4>2. RowInv(sc[s], q) /\ q.through \in Int
        BY <4>1 DEF RowsInv, OccurrenceType
      <4>3. CASE d = q.due
        <5>1. q \in on /\ q.due <= d /\ d <= q.through
          BY SMT, <1>1, <1>4, <4>1, <4>2, <4>3 DEF RowInv
        <5> QED BY <4>1, <5>1 DEF Accounted
      <4>4. CASE d # q.due
        <5>1. q.key # Clock
          BY SMT, <1>4, <4>1, <4>2 DEF RowInv
        <5>2. q \in occ
          BY <5>1 DEF Progress
        <5>3. q.due < d
          BY SMT, <1>4, <2>1, <2>3, <4>1, <4>4
        <5> QED BY <1>6, <4>1, <5>1, <5>2, <5>3 DEF Accounted
      <4> QED BY <4>3, <4>4
    <3> QED BY <3>3, <3>4
  <2> QED BY <2>2, <2>3
<1>8. ASSUME NEW x \in Ids
      PROVE  /\ sn[x].revision = sched[x].revision /\ sn[x].enabled = sched[x].enabled
             /\ sn[x].spec = sched[x].spec /\ sn[x].definition = sched[x].definition
             /\ sched[x].next <= sn[x].next
  <2>1. CASE x = s
    BY SMT, <1>4, <1>6, <2>1 DEF Progress, Decided, Moved
  <2>2. CASE x # s
    BY SMT, <2>2 DEF Progress, Decided, Moved
  <2> QED BY <2>1, <2>2
<1>9. ASSUME NEW x \in Ids \ {s}, NEW d,
             OnGrid(sched[x].spec, d), sched[x].next <= d, d < sn[x].next
      PROVE  Accounted(on, x, d)
  BY <1>3, <1>9 DEF Progress, Decided, Moved
<1>10. \A x \in Ids : \A d :
         OnGrid(sched[x].spec, d) /\ sched[x].next <= d /\ d < sn[x].next => Accounted(on, x, d)
  BY <1>7, <1>9
<1>11. Progress(sn, on)
  BY <1>2, <1>8, <1>10 DEF Progress
<1> QED BY <1>11 DEF on

-----------------------------------------------------------------------------
(* One pass of the loop *)

TableRecords ==
  [sched : [Ids -> ScheduleType], occ : SUBSET OccurrenceType, ops : SUBSET OperationType,
   admitted : SUBSET AdmissionType, processed : Nat, stop : BOOLEAN]

OnlyOpens(jb) == \A o \in jb \ ops : o.state = "open"

\* The tables a tick of the current state may have in hand.
Passing ==
  {t \in TableRecords : /\ TablesInv(t.sched, t.occ, t.ops, t.admitted)
                        /\ Progress(t.sched, t.occ) /\ OnlyOpens(t.ops)}

\* An admission adds the due time of a bound schedule and removes nothing.
LEMMA AdmissionFacts ==
  ASSUME FixedInv, NEW ad \in SUBSET AdmissionType, NEW s \in Ids, NEW due \in Int
  PROVE  /\ Admission(ad, s, due) \in SUBSET AdmissionType
         /\ ad \subseteq Admission(ad, s, due)
         /\ bound[s] # 0 => \E a \in Admission(ad, s, due) : a.due = due
<1>1. [due |-> due, generation |-> route.generation, sched |-> s] \in AdmissionType
  BY DEF FixedInv, RouteInv, RouteType, AdmissionType
<1> QED BY SMT, <1>1 DEF Admission

\* Columns of a new occurrence row.
LEMMA OccurrenceFacts ==
  ASSUME NEW s \in Ids, NEW key \in KeyType, NEW c \in ScheduleType, NEW due \in Int,
         NEW start \in Int, NEW through \in Int,
         NEW disposition \in Dispositions,
         NEW r, r = Occurrence(s, key, c, due, start, through, disposition)
  PROVE  /\ r \in OccurrenceType
         /\ r.sched = s /\ r.key = key /\ r.due = due /\ r.start = start /\ r.through = through
         /\ r.disposition = disposition /\ r.definition = c.definition
<1>1. c.definition \in Revisions
  BY DEF ScheduleType
<1> QED BY <1>1 DEF Occurrence, OccurrenceType, KeyType

\* Columns of a new operation.
LEMMA OperationFacts ==
  ASSUME FixedInv, NEW s \in Ids, NEW key \in KeyType, NEW c \in ScheduleType,
         NEW due \in Int, NEW start \in Int, NEW x, x = Operation(s, key, c, due, start)
  PROVE  /\ x \in OperationType
         /\ x.sched = s /\ x.key = key /\ x.due = due /\ x.revision = c.revision
         /\ x.generation = RouteGeneration(s) /\ x.state = "open"
<1>1. c.definition \in Revisions /\ c.revision \in Revisions
  BY DEF ScheduleType
<1>2. RouteGeneration(s) \in 0..MaxGeneration
  BY SMT, ScheduleAssumption DEF FixedInv, RouteInv, RouteType, RouteGeneration
<1> QED BY <1>1, <1>2 DEF Operation, OperationType, RouteGeneration, KeyType

\* Moving a cursor changes one row, and only its two times.
LEMMA MovedFacts ==
  ASSUME NEW sc \in [Ids -> ScheduleType], NEW s \in Ids, NEW p \in Int, NEW n \in Int, NEW sn,
         sn = MoveCursor(sc, s, p, n)
  PROVE  /\ sn \in [Ids -> ScheduleType] /\ Moved(sc, sn, s)
         /\ sn[s].previous = p /\ sn[s].next = n
<1>1. sc[s] \in ScheduleType
  OBVIOUS
<1>2. sn = [x \in Ids |-> IF x = s THEN [sc[s] EXCEPT !.previous = p, !.next = n] ELSE sc[x]]
  BY DEF MoveCursor
<1>3. [sc[s] EXCEPT !.previous = p, !.next = n] \in ScheduleType
  BY <1>1 DEF ScheduleType
<1>4. sn[s] = [sc[s] EXCEPT !.previous = p, !.next = n] /\ \A x \in Ids \ {s} : sn[x] = sc[x]
  BY <1>2
<1>5. /\ sn[s].revision = sc[s].revision /\ sn[s].enabled = sc[s].enabled
      /\ sn[s].retired = sc[s].retired /\ sn[s].spec = sc[s].spec
      /\ sn[s].definition = sc[s].definition /\ sn[s].previous = p /\ sn[s].next = n
  BY <1>1, <1>4 DEF ScheduleType
<1> QED BY <1>2, <1>3, <1>4, <1>5 DEF Moved

MoreAdmissions(ad, an) == ad \subseteq an /\ an \in SUBSET AdmissionType

\* A decision of the clock that admits no operation keeps the invariants; r is its row and
\* an the admissions afterwards.
LEMMA DecisionStays ==
  ASSUME FixedInv, sched \in [Ids -> ScheduleType], NEW sc, NEW oc, NEW jb, NEW ad,
         TablesInv(sc, oc, jb, ad), Progress(sc, oc), NEW s \in Ids, sc[s].enabled,
         NEW r \in OccurrenceType, NEW sn \in [Ids -> ScheduleType], Decided(sc, sn, s, r),
         NEW an, MoreAdmissions(ad, an)
  PROVE  /\ TablesInv(sn, InsertOccurrence(oc, r), jb, an) /\ Progress(sn, InsertOccurrence(oc, r))
         /\ \A o \in jb : ~RowOf(r, o)
         /\ sc[s].next < sn[s].next
<1> DEFINE on == InsertOccurrence(oc, r)
<1>1. TablesType(sc, oc, jb, ad) /\ RowsInv(sc, oc) /\ OpsInv(sc, oc, jb) /\ StreamInv(oc, jb, ad)
      /\ \A x \in Ids : CursorInv(sc[x])
  BY DEF TablesInv
<1>2. sc \in [Ids -> ScheduleType] /\ oc \in SUBSET OccurrenceType
      /\ jb \in SUBSET OperationType
  BY <1>1 DEF TablesType
<1>3. now \in Int
  BY RouteColumns
<1>4. Moved(sc, sn, s) /\ r.sched = s /\ r.key = Clock /\ r.due = sc[s].next
  BY DEF Decided
<1>5. on \in SUBSET (oc \cup {r}) /\ on \in SUBSET OccurrenceType
  BY SMT, <1>2, InsertFacts
<1>6. /\ \A x \in Ids : CursorInv(sn[x])
      /\ sc[s].previous < sc[s].next /\ sc[s].next < sn[s].next
      /\ sc[s].previous <= sn[s].previous
  BY <1>1, <1>2, CursorsDecided
<1>7. RowsInv(sn, on)
  BY <1>1, <1>2, <1>3, <1>5, <1>6, RowsDecided
<1>8. Progress(sn, on)
  BY <1>1, <1>2, <1>6, ProgressDecided
<1>9. OpsInv(sn, on, jb) /\ \A o \in jb : ~RowOf(r, o)
  BY <1>1, <1>2, <1>4, <1>5, <1>6, OpsSkipped
<1>10. StreamInv(on, jb, an)
  BY <1>1, <1>5, <1>9, StreamSkipped DEF MoreAdmissions
<1>11. TablesType(sn, on, jb, an)
  BY <1>2, <1>5 DEF TablesType, MoreAdmissions
<1> QED BY <1>6, <1>7, <1>8, <1>9, <1>10, <1>11 DEF TablesInv

\* The operation a decision admits is the clock's only one of its due time.
LEMMA AdmissionStays ==
  ASSUME FixedInv, NEW sn, NEW oc \in SUBSET OccurrenceType, NEW on, NEW jb, NEW ad, NEW an,
         TablesInv(sn, on, jb, ad), NEW r \in OccurrenceType, on \in SUBSET (oc \cup {r}),
         r.disposition = "queued", r.key = Clock, \A o \in jb : ~RowOf(r, o),
         NEW x \in OperationType, NEW c, RowOf(r, x), \A q \in oc : ~RowOf(q, x),
         x.due <= now, x.due < sn[x.sched].next,
         x.revision = sn[x.sched].revision, sn[x.sched].enabled,
         x.generation = RouteGeneration(x.sched), AdmitCutoverOccurrence(ad, x.sched, c, x.due),
         an \in SUBSET AdmissionType, ad \subseteq an,
         bound[x.sched] # 0 => \E a \in an : a.due = x.due
  PROVE  TablesInv(sn, on, jb \cup {x}, an)
<1>1. TablesType(sn, on, jb, ad) /\ RowsInv(sn, on) /\ OpsInv(sn, on, jb) /\ StreamInv(on, jb, ad)
      /\ \A s \in Ids : CursorInv(sn[s])
  BY DEF TablesInv
<1>2. sn \in [Ids -> ScheduleType] /\ jb \in SUBSET OperationType /\ on \in SUBSET OccurrenceType
  BY <1>1 DEF TablesType
<1>3. OpsInv(sn, on, jb \cup {x})
  <2>1. on \in SUBSET (on \cup {r}) /\ \A q \in on \ {r} : ~RowOf(q, x)
    OBVIOUS
  <2> QED BY <1>1, <1>2, <2>1, OpsAdmitted
<1>4. x.generation > 0 => \E a \in an : a.due = x.due
  BY SMT DEF RouteGeneration
<1>5. StreamInv(on, jb \cup {x}, an)
  BY <1>1, <1>2, <1>4, StreamAdmitted
<1>6. TablesType(sn, on, jb \cup {x}, an)
  BY <1>2 DEF TablesType
<1> QED BY <1>1, <1>3, <1>5, <1>6 DEF TablesInv

\* Updates of the tables in a tick's hand.
WithCursor(t, x, k) == [t EXCEPT !.sched = x, !.processed = k]
WithSkip(t, y, x) == [t EXCEPT !.occ = y, !.sched = x, !.stop = TRUE]
WithRows(t, y) == [t EXCEPT !.occ = y]
WithOps(t, z) == [t EXCEPT !.ops = z]
WithAdmitted(t, w) == [t EXCEPT !.admitted = w]
WithStop(t) == [t EXCEPT !.stop = TRUE]
WithLoop(t) == [t EXCEPT !.processed = 0, !.stop = FALSE]

\* They keep its type.
LEMMA UpdateCursor ==
  ASSUME NEW t \in TableRecords, NEW x \in [Ids -> ScheduleType], NEW k \in Nat,
         NEW u, u = WithCursor(t, x, k)
  PROVE  /\ u \in TableRecords
         /\ u.sched = x /\ u.occ = t.occ /\ u.ops = t.ops /\ u.admitted = t.admitted
  BY DEF TableRecords, WithCursor

\* A table record with its rows and cursors replaced.
LEMMA UpdateSkip ==
  ASSUME NEW t \in TableRecords, NEW y \in SUBSET OccurrenceType, NEW x \in [Ids -> ScheduleType],
         NEW u, u = WithSkip(t, y, x)
  PROVE  /\ u \in TableRecords
         /\ u.sched = x /\ u.occ = y /\ u.ops = t.ops /\ u.admitted = t.admitted
  BY DEF TableRecords, WithSkip

\* A table record with its rows replaced.
LEMMA UpdateRows ==
  ASSUME NEW t \in TableRecords, NEW y \in SUBSET OccurrenceType,
         NEW u, u = WithRows(t, y)
  PROVE  /\ u \in TableRecords
         /\ u.sched = t.sched /\ u.occ = y /\ u.ops = t.ops /\ u.admitted = t.admitted
  BY DEF TableRecords, WithRows

\* A table record with its operations replaced.
LEMMA UpdateOps ==
  ASSUME NEW t \in TableRecords, NEW z \in SUBSET OperationType,
         NEW u, u = WithOps(t, z)
  PROVE  /\ u \in TableRecords
         /\ u.sched = t.sched /\ u.occ = t.occ /\ u.ops = z /\ u.admitted = t.admitted
  BY DEF TableRecords, WithOps

\* A table record with its admissions replaced.
LEMMA UpdateAdmitted ==
  ASSUME NEW t \in TableRecords, NEW w \in SUBSET AdmissionType,
         NEW u, u = WithAdmitted(t, w)
  PROVE  /\ u \in TableRecords
         /\ u.sched = t.sched /\ u.occ = t.occ /\ u.ops = t.ops /\ u.admitted = w
  BY DEF TableRecords, WithAdmitted

\* A table record whose loop has ended.
LEMMA UpdateStop ==
  ASSUME NEW t \in TableRecords, NEW u, u = WithStop(t)
  PROVE  /\ u \in TableRecords
         /\ u.sched = t.sched /\ u.occ = t.occ /\ u.ops = t.ops /\ u.admitted = t.admitted
  BY DEF TableRecords, WithStop

\* A table record whose loop begins.
LEMMA UpdateStart ==
  ASSUME NEW t \in TableRecords, NEW u, u = WithLoop(t)
  PROVE  /\ u \in TableRecords
         /\ u.sched = t.sched /\ u.occ = t.occ /\ u.ops = t.ops /\ u.admitted = t.admitted
  BY DEF TableRecords, WithLoop

\* The tables after each kind of decision.
LEMMA AdvanceShape ==
  ASSUME NEW t \in TableRecords, NEW s \in Ids, NEW u, u = Advance(t, s),
         SpecNext(t.sched[s].spec, t.sched[s].next) \in Int
  PROVE  /\ u \in TableRecords
         /\ u.sched = MoveCursor(t.sched, s, t.sched[s].next,
                                 SpecNext(t.sched[s].spec, t.sched[s].next))
         /\ u.occ = t.occ /\ u.ops = t.ops /\ u.admitted = t.admitted
<1> DEFINE sn == MoveCursor(t.sched, s, t.sched[s].next,
                            SpecNext(t.sched[s].spec, t.sched[s].next))
<1>1. t.sched \in [Ids -> ScheduleType] /\ t.processed \in Nat
  BY DEF TableRecords
<1>2. t.sched[s].next \in Int
  <2>1. t.sched[s] \in ScheduleType
    BY <1>1
  <2> QED BY <2>1, SpecFacts
<1>3. sn \in [Ids -> ScheduleType] /\ t.processed + 1 \in Nat
  <2>1. t.processed + 1 \in Nat
    BY SMT, <1>1
  <2> QED BY SMT, <1>1, <1>2, <2>1, MovedFacts
<1>4. u = WithCursor(t, sn, t.processed + 1)
  BY DEF Advance, WithCursor
<1> HIDE DEF sn
<1>5. u \in TableRecords /\ u.sched = sn /\ u.occ = t.occ /\ u.ops = t.ops
      /\ u.admitted = t.admitted
  BY SMT, <1>3, <1>4, UpdateCursor
<1> QED BY <1>5 DEF sn

\* The tables after missed occurrences are skipped.
LEMMA SkipShape ==
  ASSUME NEW t \in TableRecords, NEW s \in Ids, NEW u, u = SkipMissed(t, s),
         Occurrence(s, Clock, t.sched[s], t.sched[s].next, t.sched[s].previous,
                    SpecPrevious(t.sched[s].spec, now), "missed_skipped") \in OccurrenceType,
         SpecPrevious(t.sched[s].spec, now) \in Int, SpecNext(t.sched[s].spec, now) \in Int
  PROVE  /\ u \in TableRecords
         /\ u.sched = MoveCursor(t.sched, s, SpecPrevious(t.sched[s].spec, now),
                                 SpecNext(t.sched[s].spec, now))
         /\ u.occ = InsertOccurrence(t.occ,
                      Occurrence(s, Clock, t.sched[s], t.sched[s].next, t.sched[s].previous,
                                 SpecPrevious(t.sched[s].spec, now), "missed_skipped"))
         /\ u.ops = t.ops /\ u.admitted = t.admitted
<1> DEFINE r == Occurrence(s, Clock, t.sched[s], t.sched[s].next, t.sched[s].previous,
                           SpecPrevious(t.sched[s].spec, now), "missed_skipped")
           sn == MoveCursor(t.sched, s, SpecPrevious(t.sched[s].spec, now),
                            SpecNext(t.sched[s].spec, now))
           on == InsertOccurrence(t.occ, r)
<1>1. t.sched \in [Ids -> ScheduleType] /\ t.occ \in SUBSET OccurrenceType
  BY DEF TableRecords
<1>2. sn \in [Ids -> ScheduleType]
  BY SMT, <1>1, MovedFacts
<1>3. on \in SUBSET OccurrenceType
  BY SMT, <1>1, InsertFacts
<1>4. u = WithSkip(t, on, sn)
  BY DEF SkipMissed, WithSkip
<1> HIDE DEF sn, on
<1>5. u \in TableRecords /\ u.sched = sn /\ u.occ = on /\ u.ops = t.ops
      /\ u.admitted = t.admitted
  BY SMT, <1>2, <1>3, <1>4, UpdateSkip
<1> QED BY <1>5 DEF sn, on

\* The tables after one occurrence is recorded.
LEMMA RecordShape ==
  ASSUME NEW t \in TableRecords, NEW s \in Ids, NEW disposition,
         NEW u, u = Record(t, s, disposition),
         NEW r, r = Occurrence(s, Clock, t.sched[s], t.sched[s].next, t.sched[s].previous,
                               t.sched[s].next, disposition),
         r \in OccurrenceType
  PROVE  /\ u \in TableRecords
         /\ u.sched = t.sched /\ u.occ = InsertOccurrence(t.occ, r)
         /\ u.ops = t.ops /\ u.admitted = t.admitted
<1> DEFINE on == InsertOccurrence(t.occ, r)
<1>1. t.occ \in SUBSET OccurrenceType
  BY DEF TableRecords
<1>2. on \in SUBSET OccurrenceType
  BY SMT, <1>1, InsertFacts
<1>3. u = WithRows(t, on)
  BY DEF Record, WithRows
<1> HIDE DEF on
<1>4. u \in TableRecords /\ u.sched = t.sched /\ u.occ = on /\ u.ops = t.ops
      /\ u.admitted = t.admitted
  BY SMT, <1>2, <1>3, UpdateRows
<1> QED BY <1>4 DEF on

\* What the invariants of a pass say of the schedule at hand.
LEMMA PassingFacts ==
  ASSUME FixedInv, NEW t \in Passing, NEW s \in Ids, sched[s].enabled
  PROVE  /\ t \in TableRecords /\ TablesInv(t.sched, t.occ, t.ops, t.admitted)
         /\ Progress(t.sched, t.occ) /\ OnlyOpens(t.ops)
         /\ t.sched \in [Ids -> ScheduleType] /\ t.sched[s] \in ScheduleType /\ t.sched[s].enabled
         /\ t.occ \in SUBSET OccurrenceType /\ t.ops \in SUBSET OperationType
         /\ t.admitted \in SUBSET AdmissionType
         /\ IsInterval(t.sched[s].spec) /\ OnGrid(t.sched[s].spec, t.sched[s].next)
         /\ t.sched[s].next \in Int /\ t.sched[s].previous \in Int /\ now \in Int
         /\ t.sched[s].next + t.sched[s].spec.every \in Int
         /\ SpecNext(t.sched[s].spec, t.sched[s].next) = t.sched[s].next + t.sched[s].spec.every
<1>1. t \in TableRecords /\ TablesInv(t.sched, t.occ, t.ops, t.admitted)
      /\ Progress(t.sched, t.occ) /\ OnlyOpens(t.ops)
  BY DEF Passing
<1>2. TablesType(t.sched, t.occ, t.ops, t.admitted) /\ CursorInv(t.sched[s])
  BY <1>1 DEF TablesInv
<1>3. /\ t.sched \in [Ids -> ScheduleType] /\ t.sched[s] \in ScheduleType
      /\ t.occ \in SUBSET OccurrenceType /\ t.ops \in SUBSET OperationType
      /\ t.admitted \in SUBSET AdmissionType
  BY <1>2 DEF TablesType
<1>4. t.sched[s].enabled
  BY <1>1 DEF Progress
<1>5. /\ IsInterval(t.sched[s].spec) /\ t.sched[s].next \in Int /\ t.sched[s].previous \in Int
      /\ t.sched[s].spec.every \in Nat \ {0}
  BY <1>3, SpecFacts
<1>6. OnGrid(t.sched[s].spec, t.sched[s].next)
  BY <1>2, <1>4 DEF CursorInv
<1>7. SpecNext(t.sched[s].spec, t.sched[s].next) = t.sched[s].next + t.sched[s].spec.every
  BY <1>5, <1>6, NextOfOccurrence
<1>8. now \in Int /\ t.sched[s].next + t.sched[s].spec.every \in Int
  BY SMT, <1>5 DEF FixedInv
<1> QED BY <1>1, <1>3, <1>4, <1>5, <1>6, <1>7, <1>8

\* A decision up to an occurrence that has come.
LEMMA Decides ==
  ASSUME FixedInv, NEW t \in Passing, NEW s \in Ids, sched[s].enabled,
         NEW through \in Int, OnGrid(t.sched[s].spec, through),
         t.sched[s].next <= through, through <= now,
         NEW disposition \in Dispositions,
         NEW n \in Int, n = through + t.sched[s].spec.every
  PROVE  LET r == Occurrence(s, Clock, t.sched[s], t.sched[s].next, t.sched[s].previous, through,
                             disposition)
             sn == MoveCursor(t.sched, s, through, n)
         IN  /\ r \in OccurrenceType /\ sn \in [Ids -> ScheduleType]
             /\ Decided(t.sched, sn, s, r)
             /\ r.disposition = disposition
<1> DEFINE r == Occurrence(s, Clock, t.sched[s], t.sched[s].next, t.sched[s].previous, through,
                           disposition)
           sn == MoveCursor(t.sched, s, through, n)
<1>1. t.sched \in [Ids -> ScheduleType] /\ t.sched[s] \in ScheduleType
      /\ t.sched[s].next \in Int /\ t.sched[s].previous \in Int
  BY PassingFacts
<1>2. Clock \in KeyType
  BY DEF KeyType
<1>3. /\ r \in OccurrenceType
      /\ r.sched = s /\ r.key = Clock /\ r.due = t.sched[s].next /\ r.start = t.sched[s].previous
      /\ r.through = through /\ r.disposition = disposition
      /\ r.definition = t.sched[s].definition
  BY SMT, <1>1, <1>2, OccurrenceFacts
<1>4. /\ sn \in [Ids -> ScheduleType] /\ Moved(t.sched, sn, s)
      /\ sn[s].previous = through /\ sn[s].next = n
  BY SMT, <1>1, MovedFacts
<1> QED BY <1>3, <1>4 DEF Decided

\* A decision of one occurrence, on tables v with the cursors and rows of t.
LEMMA OneDecided ==
  ASSUME FixedInv, NEW t \in Passing, NEW s \in Ids, sched[s].enabled, t.sched[s].next <= now,
         NEW v \in TableRecords, v.sched = t.sched, v.occ = t.occ, NEW disposition \in Dispositions,
         NEW u, u = Advance(Record(v, s, disposition), s)
  PROVE  \E r \in OccurrenceType, sn \in [Ids -> ScheduleType] :
           /\ Decided(t.sched, sn, s, r) /\ r.disposition = disposition
           /\ r.due = t.sched[s].next /\ r.key = Clock /\ r.sched = s
           /\ u \in TableRecords /\ u.sched = sn /\ u.occ = InsertOccurrence(t.occ, r)
           /\ u.ops = v.ops /\ u.admitted = v.admitted
<1> DEFINE c == t.sched[s]
           r == Occurrence(s, Clock, c, c.next, c.previous, c.next, disposition)
           n == SpecNext(c.spec, c.next)
           sn == MoveCursor(t.sched, s, c.next, n)
           w == Record(v, s, disposition)
<1>1. /\ OnGrid(c.spec, c.next) /\ c.next \in Int /\ now \in Int /\ n \in Int
      /\ n = c.next + c.spec.every
  BY PassingFacts
<1>2. c.next <= c.next
  BY <1>1, Reflexive
<1>3. r \in OccurrenceType /\ sn \in [Ids -> ScheduleType] /\ Decided(t.sched, sn, s, r)
      /\ r.disposition = disposition
  <2> HIDE DEF n
  <2> QED BY SMT, <1>1, <1>2, Decides
<1>4. w \in TableRecords /\ w.sched = v.sched /\ w.occ = InsertOccurrence(v.occ, r)
      /\ w.ops = v.ops /\ w.admitted = v.admitted
  BY SMT, <1>3, RecordShape
<1>5. u \in TableRecords /\ u.sched = sn /\ u.occ = w.occ /\ u.ops = w.ops
      /\ u.admitted = w.admitted
  BY SMT, <1>1, <1>4, AdvanceShape
<1>6. r.due = c.next /\ r.key = Clock /\ r.sched = s
  BY DEF Occurrence
<1> HIDE DEF w, sn, n, r
<1> QED BY SMT, <1>3, <1>4, <1>5, <1>6

\* A decision that admits nothing keeps the invariants.
LEMMA AdvanceStays ==
  ASSUME FixedInv, sched \in [Ids -> ScheduleType], NEW t \in Passing, NEW s \in Ids,
         sched[s].enabled, t.sched[s].next <= now,
         NEW v \in TableRecords, v.sched = t.sched, v.occ = t.occ, v.ops = t.ops,
         MoreAdmissions(t.admitted, v.admitted), NEW disposition \in Dispositions,
         NEW u, u = Advance(Record(v, s, disposition), s)
  PROVE  u \in Passing
<1>1. PICK r \in OccurrenceType, sn \in [Ids -> ScheduleType] :
        /\ Decided(t.sched, sn, s, r)
        /\ u \in TableRecords /\ u.sched = sn /\ u.occ = InsertOccurrence(t.occ, r)
        /\ u.ops = v.ops /\ u.admitted = v.admitted
  BY SMT, OneDecided
<1>2. /\ TablesInv(t.sched, t.occ, t.ops, t.admitted) /\ Progress(t.sched, t.occ)
      /\ t.sched[s].enabled /\ OnlyOpens(t.ops)
  BY PassingFacts
<1>3. TablesInv(sn, InsertOccurrence(t.occ, r), t.ops, v.admitted)
      /\ Progress(sn, InsertOccurrence(t.occ, r))
  BY SMT, <1>1, <1>2, DecisionStays
<1>4. /\ TablesInv(u.sched, u.occ, u.ops, u.admitted) /\ Progress(u.sched, u.occ)
      /\ OnlyOpens(u.ops)
  BY <1>1, <1>2, <1>3
<1> QED BY <1>1, <1>4 DEF Passing

\* Giving up everything up to now keeps the invariants.
LEMMA SkipStays ==
  ASSUME FixedInv, sched \in [Ids -> ScheduleType], NEW t \in Passing, NEW s \in Ids,
         sched[s].enabled, t.sched[s].next <= now, NEW u, u = SkipMissed(t, s)
  PROVE  u \in Passing
<1> DEFINE c == t.sched[s]
           p == SpecPrevious(c.spec, now)
           n == SpecNext(c.spec, now)
           r == Occurrence(s, Clock, c, c.next, c.previous, p, "missed_skipped")
           sn == MoveCursor(t.sched, s, p, n)
<1>1. /\ t \in TableRecords /\ TablesInv(t.sched, t.occ, t.ops, t.admitted)
      /\ Progress(t.sched, t.occ) /\ c.enabled /\ IsInterval(c.spec)
      /\ OnGrid(c.spec, c.next) /\ c.next \in Int /\ now \in Int
      /\ t.admitted \in SUBSET AdmissionType /\ OnlyOpens(t.ops)
  BY PassingFacts
<1>2. p \in Int /\ n = p + c.spec.every /\ OnGrid(c.spec, n)
  BY <1>1, IntervalNeighbours
<1>3. OnGrid(c.spec, p) /\ c.next <= p /\ p <= now
  BY <1>1, IntervalPrevious
<1>4. n \in Int
  BY <1>2 DEF OnGrid
<1>5. "missed_skipped" \in Dispositions
  BY DEF Dispositions
<1>6. r \in OccurrenceType /\ sn \in [Ids -> ScheduleType] /\ Decided(t.sched, sn, s, r)
  <2> HIDE DEF p, n
  <2> QED BY <1>1, <1>2, <1>3, <1>4, <1>5, Decides
<1>7. u \in TableRecords /\ u.sched = sn /\ u.occ = InsertOccurrence(t.occ, r) /\ u.ops = t.ops
      /\ u.admitted = t.admitted
  BY <1>1, <1>2, <1>4, <1>6, SkipShape
<1>8. MoreAdmissions(t.admitted, t.admitted)
  BY <1>1 DEF MoreAdmissions
<1> HIDE DEF sn, n, r, p
<1>9. TablesInv(sn, InsertOccurrence(t.occ, r), t.ops, t.admitted)
      /\ Progress(sn, InsertOccurrence(t.occ, r))
  BY SMT, <1>1, <1>6, <1>8, DecisionStays
<1>10. /\ TablesInv(u.sched, u.occ, u.ops, u.admitted) /\ Progress(u.sched, u.occ)
       /\ OnlyOpens(u.ops)
  BY <1>1, <1>7, <1>9
<1> QED BY <1>7, <1>10 DEF Passing

\* Admitting the clock's operation keeps the invariants.
LEMMA AdmitStays ==
  ASSUME FixedInv, sched \in [Ids -> ScheduleType], NEW t \in Passing, NEW s \in Ids,
         sched[s].enabled, t.sched[s].next <= now,
         AdmitCutoverOccurrence(t.admitted, s, t.sched[s], t.sched[s].next),
         NEW v \in TableRecords, v.sched = t.sched, v.occ = t.occ, v.ops = t.ops,
         v.admitted = Admission(t.admitted, s, t.sched[s].next),
         NEW u, u = Advance(AdmitOccurrence(v, s), s)
  PROVE  u \in Passing
<1> DEFINE c == t.sched[s]
           x == Operation(s, Clock, c, c.next, c.previous)
           w == WithOps(v, v.ops \cup {x})
           an == Admission(t.admitted, s, c.next)
<1>1. /\ TablesInv(t.sched, t.occ, t.ops, t.admitted) /\ Progress(t.sched, t.occ)
      /\ c \in ScheduleType /\ c.enabled /\ c.next \in Int /\ c.previous \in Int
      /\ t.occ \in SUBSET OccurrenceType /\ t.ops \in SUBSET OperationType
      /\ t.admitted \in SUBSET AdmissionType /\ OnlyOpens(t.ops)
  BY PassingFacts
<1>2. Clock \in KeyType
  BY DEF KeyType
<1>3. /\ x \in OperationType
      /\ x.sched = s /\ x.key = Clock /\ x.due = c.next /\ x.revision = c.revision
      /\ x.generation = RouteGeneration(s) /\ x.state = "open"
  <2>1. x = Operation(s, Clock, c, c.next, c.previous)
    OBVIOUS
  <2> HIDE DEF x, c
  <2> QED BY SMT, <1>1, <1>2, <2>1, OperationFacts
<1>4. u = Advance(Record(w, s, "queued"), s)
  BY DEF AdmitOccurrence, WithOps
<1> HIDE DEF x
<1>5. v.ops \cup {x} \in SUBSET OperationType
  BY <1>1, <1>3
<1>6. /\ w \in TableRecords /\ w.sched = t.sched /\ w.occ = t.occ /\ w.ops = t.ops \cup {x}
      /\ w.admitted = an
  BY SMT, <1>5, UpdateOps
<1> HIDE DEF w
<1>7. "queued" \in Dispositions
  BY DEF Dispositions
<1>8. PICK r \in OccurrenceType, sn \in [Ids -> ScheduleType] :
        /\ Decided(t.sched, sn, s, r) /\ r.disposition = "queued"
        /\ r.due = c.next /\ r.key = Clock /\ r.sched = s
        /\ u \in TableRecords /\ u.sched = sn /\ u.occ = InsertOccurrence(t.occ, r)
        /\ u.ops = w.ops /\ u.admitted = w.admitted
  BY SMT, <1>4, <1>6, <1>7, OneDecided
<1>9. MoreAdmissions(t.admitted, t.admitted)
  BY <1>1 DEF MoreAdmissions
<1> DEFINE on == InsertOccurrence(t.occ, r)
<1>10. /\ TablesInv(sn, on, t.ops, t.admitted) /\ Progress(sn, on)
       /\ \A o \in t.ops : ~RowOf(r, o)
       /\ c.next < sn[s].next
  BY SMT, <1>1, <1>8, <1>9, DecisionStays
<1>11. on \in SUBSET (t.occ \cup {r})
  BY InsertFacts
<1> HIDE DEF on
<1>12. RowOf(r, x)
  BY <1>3, <1>8 DEF RowOf
<1>13. \A q \in t.occ : ~RowOf(q, x)
  <2> SUFFICES ASSUME NEW q \in t.occ, q.sched = s, q.key = Clock, q.due = c.next PROVE FALSE
    BY <1>3 DEF RowOf
  <2>1. RowInv(c, q)
    BY <1>1 DEF TablesInv, RowsInv
  <2>2. q.through \in Int
    BY <1>1 DEF OccurrenceType
  <2> QED BY SMT, <1>1, <2>1, <2>2 DEF RowInv
<1>14. sn[s].revision = c.revision /\ sn[s].enabled
  BY <1>1, <1>8 DEF Decided, Moved
<1>15. an \in SUBSET AdmissionType /\ t.admitted \subseteq an
       /\ (bound[s] # 0 => \E a \in an : a.due = c.next)
  BY SMT, <1>1, AdmissionFacts
<1> HIDE DEF an
<1>a. /\ x.due <= now /\ x.due < sn[x.sched].next /\ x.revision = sn[x.sched].revision
      /\ sn[x.sched].enabled
      /\ x.generation = RouteGeneration(x.sched)
      /\ AdmitCutoverOccurrence(t.admitted, x.sched, c, x.due)
      /\ bound[x.sched] # 0 => \E a \in an : a.due = x.due
  BY <1>3, <1>10, <1>14, <1>15
<1> HIDE DEF c
<1>16. TablesInv(sn, on, t.ops \cup {x}, an)
  BY <1>1, <1>3, <1>8, <1>10, <1>11, <1>12, <1>13, <1>15, <1>a, AdmissionStays
<1>17. TablesInv(u.sched, u.occ, u.ops, u.admitted) /\ Progress(u.sched, u.occ)
  BY <1>6, <1>8, <1>10, <1>16 DEF on
<1>18. OnlyOpens(u.ops)
  BY <1>1, <1>3, <1>6, <1>8 DEF OnlyOpens
<1> QED BY <1>8, <1>17, <1>18 DEF Passing

\* One pass of the loop keeps the invariants.
LEMMA DecideStays ==
  ASSUME FixedInv, sched \in [Ids -> ScheduleType], NEW t \in Passing, NEW s \in Ids,
         sched[s].enabled
  PROVE  DecideOccurrence(t, s) \in Passing
<1> DEFINE c == t.sched[s]
           an == Admission(t.admitted, s, c.next)
           v == WithAdmitted(t, an)
           d == DecideOccurrence(t, s)
           A == t.stop \/ c.next > now
           B == (c.spec.missed = "skip" /\ now - c.next > Grace) \/ t.processed >= Maximum(c.spec)
           C == AdmitCutoverOccurrence(t.admitted, s, c, c.next)
           D == ActiveSchedule(t.ops, s) /\ c.spec.overlap = "skip"
           E == QueueFull(t.ops)
<1>1. d = IF A THEN t ELSE IF B THEN SkipMissed(t, s)
          ELSE IF ~C THEN Advance(Record(t, s, "cutover_fenced"), s)
          ELSE IF D THEN Advance(Record(v, s, "overlap_skipped"), s)
          ELSE IF E THEN WithStop(v) ELSE Advance(AdmitOccurrence(v, s), s)
  BY DEF DecideOccurrence, WithAdmitted, WithStop
<1>2. /\ t \in TableRecords /\ t.admitted \in SUBSET AdmissionType /\ c.next \in Int /\ now \in Int
      /\ TablesInv(t.sched, t.occ, t.ops, t.admitted) /\ Progress(t.sched, t.occ)
      /\ OnlyOpens(t.ops)
  BY PassingFacts
<1>3. an \in SUBSET AdmissionType /\ t.admitted \subseteq an
  BY SMT, <1>2, AdmissionFacts
<1>4. /\ v \in TableRecords /\ v.sched = t.sched /\ v.occ = t.occ /\ v.ops = t.ops
      /\ v.admitted = an
  <2> HIDE DEF an
  <2> QED BY SMT, <1>2, <1>3, UpdateAdmitted
<1>5. MoreAdmissions(t.admitted, an) /\ MoreAdmissions(t.admitted, t.admitted)
  BY <1>2, <1>3 DEF MoreAdmissions
<1>6. {"cutover_fenced", "overlap_skipped"} \subseteq Dispositions
  BY DEF Dispositions
<1>7. ~A => c.next <= now
  BY SMT, <1>2
<1> SUFFICES d \in Passing
  OBVIOUS
<1> HIDE DEF d, A, B, C, D, E, an, v
<1>8. CASE A
  BY <1>1, <1>8
<1>9. CASE ~A /\ B
  <2>1. d = SkipMissed(t, s)
    BY <1>1, <1>9
  <2> QED BY <1>7, <1>9, <2>1, SkipStays
<1>10. CASE ~A /\ ~B /\ ~C
  <2>1. d = Advance(Record(t, s, "cutover_fenced"), s)
    BY <1>1, <1>10
  <2> QED BY <1>2, <1>5, <1>6, <1>7, <1>10, <2>1, AdvanceStays
<1>11. CASE ~A /\ ~B /\ C /\ D
  <2>1. d = Advance(Record(v, s, "overlap_skipped"), s)
    BY <1>1, <1>11
  <2> QED BY <1>4, <1>5, <1>6, <1>7, <1>11, <2>1, AdvanceStays
<1>12. CASE ~A /\ ~B /\ C /\ ~D /\ E
  <2>1. d = WithStop(v)
    BY <1>1, <1>12
  <2>2. /\ d \in TableRecords /\ d.sched = t.sched /\ d.occ = t.occ /\ d.ops = t.ops
        /\ d.admitted = an
    BY SMT, <1>4, <2>1, UpdateStop
  <2>3. TablesType(t.sched, t.occ, t.ops, an)
    BY <1>2, <1>3 DEF TablesInv, TablesType
  <2>4. StreamInv(t.occ, t.ops, an)
    BY <1>2, <1>3 DEF TablesInv, StreamInv
  <2>5. TablesInv(t.sched, t.occ, t.ops, an)
    BY <1>2, <2>3, <2>4 DEF TablesInv
  <2>6. /\ TablesInv(d.sched, d.occ, d.ops, d.admitted) /\ Progress(d.sched, d.occ)
        /\ OnlyOpens(d.ops)
    BY <1>2, <2>2, <2>5
  <2> QED BY <2>2, <2>6 DEF Passing
<1>13. CASE ~A /\ ~B /\ C /\ ~D /\ ~E
  <2>1. d = Advance(AdmitOccurrence(v, s), s)
    BY <1>1, <1>13
  <2>2. AdmitCutoverOccurrence(t.admitted, s, t.sched[s], t.sched[s].next)
    BY <1>13 DEF C
  <2>3. v.admitted = Admission(t.admitted, s, t.sched[s].next)
    BY <1>4 DEF an
  <2> QED BY <1>4, <1>7, <1>13, <2>1, <2>2, <2>3, AdmitStays
<1> QED BY <1>8, <1>9, <1>10, <1>11, <1>12, <1>13

-----------------------------------------------------------------------------
(* The other steps *)

\* With the clock and the routes in place, the tables' invariants carry over.
LEMMA SameRoutes ==
  ASSUME UNCHANGED <<now, route, bound>>, TablesInv(sched', occ', ops', admitted')
  PROVE  TablesInv(sched, occ, ops, admitted)'
<1>1. now' = now /\ route' = route /\ bound' = bound
  OBVIOUS
<1>2. TablesType(sched, occ, ops, admitted)'
  BY DEF TablesInv, TablesType
<1>3. (\A s \in Ids : CursorInv(sched[s]))'
  BY <1>1 DEF TablesInv, CursorInv
<1>4. RowsInv(sched, occ)'
  BY <1>1 DEF TablesInv, RowsInv, RowInv, Disjoint
<1>5. OpsInv(sched, occ, ops)'
  BY <1>1 DEF TablesInv, OpsInv, RowOf
<1>6. StreamInv(occ, ops, admitted)'
  BY <1>1 DEF TablesInv, StreamInv, RowOf
<1> QED BY <1>2, <1>3, <1>4, <1>5, <1>6 DEF TablesInv

\* The clock and the routes in place, and no revision lowered.
LEMMA SameFixed ==
  ASSUME FixedInv, UNCHANGED <<now, route, bound, checkpoint>>,
         sched \in [Ids -> ScheduleType], sched' \in [Ids -> ScheduleType],
         \A s \in Ids : sched[s].revision <= sched'[s].revision
  PROVE  FixedInv'
<1>1. \A s \in Ids : bound[s] \in Int /\ sched[s].revision \in Int /\ sched'[s].revision \in Int
  BY SMT, ScheduleAssumption DEF FixedInv, ScheduleType, Revisions
<1>2. \A s \in Ids : bound'[s] <= sched'[s].revision
  BY SMT, <1>1 DEF FixedInv, RouteInv
<1> QED BY <1>2 DEF FixedInv, RouteInv

\* The clock runs on.
LEMMA TickInv ==
  ASSUME SchedulesInv, Tick
  PROVE  SchedulesInv'
<1>1. now \in Int /\ now' \in 0..MaxTime /\ now <= now' /\ now' \in Int
  BY SMT, ScheduleAssumption DEF SchedulesInv, FixedInv, Tick
<1>2. /\ sched' = sched /\ occ' = occ /\ ops' = ops /\ route' = route /\ bound' = bound
      /\ admitted' = admitted /\ checkpoint' = checkpoint
  BY DEF Tick
<1>3. TablesInv(sched, occ, ops, admitted) /\ TablesType(sched, occ, ops, admitted)
  BY DEF SchedulesInv, TablesInv
<1>4. FixedInv'
  BY <1>1, <1>2 DEF SchedulesInv, FixedInv, RouteInv
<1>5. (\A s \in Ids : CursorInv(sched[s]))'
  BY <1>2, <1>3 DEF TablesInv, CursorInv
<1>6. RowsInv(sched, occ)'
  <2>1. ASSUME NEW r \in occ PROVE RowInv(sched[r.sched], r)'
    <3>1. RowInv(sched[r.sched], r) /\ r.through \in Int
      BY <1>3 DEF TablesInv, TablesType, RowsInv, OccurrenceType
    <3>2. r.through <= now'
      BY SMT, <1>1, <3>1 DEF RowInv
    <3> QED BY <1>2, <3>1, <3>2 DEF RowInv
  <2>2. \A r, q \in occ : Disjoint(r, q)
    BY <1>3 DEF TablesInv, RowsInv
  <2> QED BY <1>2, <2>1, <2>2 DEF RowsInv, Disjoint
<1>7. OpsInv(sched, occ, ops)'
  <2>1. \A o \in ops : o.due <= now'
    <3>1. \A o \in ops : o.due \in Int /\ o.due <= now
      BY <1>3 DEF TablesInv, TablesType, OpsInv, OperationType
    <3> QED BY SMT, <1>1, <3>1
  <2> QED BY <1>2, <1>3, <2>1 DEF TablesInv, OpsInv, RowOf
<1>8. StreamInv(occ, ops, admitted)'
  BY <1>2, <1>3 DEF TablesInv, StreamInv, RowOf
<1>9. TablesType(sched, occ, ops, admitted)'
  BY <1>2, <1>3 DEF TablesType
<1> QED BY <1>4, <1>5, <1>6, <1>7, <1>8, <1>9 DEF SchedulesInv, TablesInv

-----------------------------------------------------------------------------
(* Editing a schedule *)

\* What an edit does to a schedule's row: a newer revision, with the same cursor or with a
\* newer definition's cursor ahead of the clock.
Edited(c, d) ==
  /\ d \in ScheduleType /\ CursorInv(d) /\ c.revision < d.revision
  /\ \/ d.next = c.next /\ d.previous = c.previous /\ d.definition = c.definition
     \/ now < d.next /\ c.definition < d.definition

\* An edit keeps every invariant.
LEMMA EditInv ==
  ASSUME SchedulesInv, NEW s \in Ids, NEW d, Edited(sched[s], d),
         sched' = [sched EXCEPT ![s] = d],
         UNCHANGED <<now, occ, ops, route, bound, admitted, checkpoint>>
  PROVE  SchedulesInv'
<1>1. FixedInv /\ TablesInv(sched, occ, ops, admitted) /\ TablesType(sched, occ, ops, admitted)
  BY DEF SchedulesInv, TablesInv
<1>2. /\ sched \in [Ids -> ScheduleType] /\ occ \in SUBSET OccurrenceType
      /\ ops \in SUBSET OperationType /\ admitted \in SUBSET AdmissionType /\ d \in ScheduleType
  BY <1>1 DEF TablesType, Edited
<1>3. /\ sched' \in [Ids -> ScheduleType] /\ sched'[s] = d
      /\ \A x \in Ids : x # s => sched'[x] = sched[x]
  BY <1>2
<1> DEFINE c == sched[s]
<1>4. /\ c.revision \in Nat /\ c.definition \in Nat /\ c.next \in Int /\ c.previous \in Int
      /\ d.revision \in Nat /\ d.definition \in Nat /\ d.next \in Int /\ d.previous \in Int
  BY <1>2, SpecFacts
<1>5. now \in Int /\ \A x \in Ids : sched[x].revision \in Nat
  BY <1>1, <1>2, RouteColumns, SpecFacts
<1>6. /\ \A r \in occ : r.sched \in Ids /\ r.through \in Int /\ r.definition \in Nat
      /\ \A o \in ops : o.sched \in Ids /\ o.due \in Int /\ o.revision \in Nat
  BY SMT, <1>2, ScheduleAssumption DEF OccurrenceType, OperationType, Revisions
<1>7. \A x \in Ids : CursorInv(sched'[x])
  BY <1>1, <1>3 DEF TablesInv, Edited
<1>8. RowsInv(sched', occ)
  <2>1. ASSUME NEW r \in occ PROVE RowInv(sched'[r.sched], r)
    <3>1. RowInv(sched[r.sched], r)
      BY <1>1 DEF TablesInv, RowsInv
    <3>2. CASE r.sched = s
      <4>1. RowInv(c, r) /\ r.through \in Int /\ r.definition \in Nat
        BY <1>6, <3>1, <3>2
      <4> HIDE DEF c
      <4>2. RowInv(d, r)
        BY SMT, <1>4, <1>5, <4>1 DEF RowInv, Edited, c
      <4> QED BY <1>3, <3>2, <4>2
    <3>3. CASE r.sched # s
      BY <1>3, <1>6, <3>1, <3>3
    <3> QED BY <3>2, <3>3
  <2>2. \A r, q \in occ : Disjoint(r, q)
    BY <1>1 DEF TablesInv, RowsInv
  <2> QED BY <2>1, <2>2 DEF RowsInv
<1>9. OpsInv(sched', occ, ops)
  <2>1. OpsInv(sched, occ, ops)
    BY <1>1 DEF TablesInv
  <2>2. ASSUME NEW o \in ops
        PROVE  /\ o.due <= now /\ (o.key = Clock => o.due < sched'[o.sched].next)
               /\ o.revision <= sched'[o.sched].revision
               /\ o.revision = sched'[o.sched].revision => sched'[o.sched].enabled
    <3>1. /\ o.due <= now /\ (o.key = Clock => o.due < sched[o.sched].next)
          /\ o.revision <= sched[o.sched].revision
          /\ o.revision = sched[o.sched].revision => sched[o.sched].enabled
      BY <2>1 DEF OpsInv
    <3>2. CASE o.sched = s
      <4>1. /\ o.due <= now /\ (o.key = Clock => o.due < c.next) /\ o.revision <= c.revision
            /\ o.due \in Int /\ o.revision \in Nat
        BY <1>6, <3>1, <3>2
      <4> HIDE DEF c
      <4>2. (o.key = Clock => o.due < d.next) /\ o.revision < d.revision
        BY SMT, <1>4, <1>5, <4>1 DEF Edited, c
      <4>3. o.revision <= d.revision /\ o.revision # d.revision
        BY SMT, <1>4, <4>1, <4>2
      <4> QED BY <1>3, <3>1, <3>2, <4>2, <4>3
    <3>3. CASE o.sched # s
      BY <1>3, <1>6, <3>1, <3>3
    <3> QED BY <3>2, <3>3
  <2> QED BY <2>1, <2>2 DEF OpsInv
<1>10. TablesInv(sched', occ', ops', admitted')
  <2>1. StreamInv(occ, ops, admitted) /\ TablesType(sched', occ, ops, admitted)
    BY <1>1, <1>2, <1>3 DEF TablesInv, TablesType
  <2>2. TablesInv(sched', occ, ops, admitted)
    BY <1>7, <1>8, <1>9, <2>1 DEF TablesInv
  <2> QED BY <2>2
<1>11. \A x \in Ids : sched[x].revision <= sched'[x].revision
  <2>1. c.revision < d.revision
    BY DEF Edited
  <2> HIDE DEF c
  <2>2. c.revision <= d.revision
    BY SMT, <1>4, <2>1
  <2>3. \A x \in Ids : sched[x].revision <= sched[x].revision
    BY SMT, <1>5
  <2> QED BY <1>3, <2>2, <2>3 DEF c
<1> QED BY <1>1, <1>2, <1>3, <1>10, <1>11, SameRoutes, SameFixed DEF SchedulesInv

\* A cursor computed afresh lies around the clock.
LEMMA TimesEdited ==
  ASSUME FixedInv, NEW c \in ScheduleType, NEW b \in ScheduleType, NEW d \in Definitions,
         c.revision < b.revision, b.revision <= MaxRevision, ~b.retired,
         b.definition = c.definition, c.definition < b.revision
  PROVE  Edited(c, ScheduleTimes(b, d))
<1> DEFINE t == ScheduleTimes(b, d)
<1>1. IsInterval(d) /\ now \in Int /\ route.generation \in Nat
  <2>1. d.every \in Nat \ {0} /\ d.anchor \in Nat
    BY ScheduleAssumption DEF SpecType
  <2>2. now \in Int /\ route.generation \in Nat
    BY RouteColumns
  <2> QED BY <2>1, <2>2 DEF IsInterval
<1>2. /\ OnGrid(d, SpecNext(d, now)) /\ now < SpecNext(d, now) /\ SpecPrevious(d, now) \in Int
      /\ SpecNext(d, now) = SpecPrevious(d, now) + d.every
  BY <1>1, IntervalNeighbours
<1>3. SpecNext(d, now) \in Int
  BY <1>2 DEF OnGrid
<1>4. /\ b.revision \in Nat /\ c.revision \in Nat /\ b.definition \in Nat /\ c.definition \in Nat
  BY SpecFacts
<1>5. /\ b.definition + 1 \in Revisions /\ c.definition < b.definition + 1
      /\ b.definition + 1 <= b.revision /\ b.revision > 0
      /\ b.revision <= MaxRevision + route.generation
  BY SMT, <1>1, <1>4, ScheduleAssumption DEF Revisions
<1>6. /\ t.spec = d /\ t.previous = SpecPrevious(d, now) /\ t.next = SpecNext(d, now)
      /\ t.definition = b.definition + 1 /\ t.revision = b.revision
      /\ t.enabled = b.enabled /\ t.retired = b.retired
  BY DEF ScheduleTimes, ScheduleType
<1>7. t \in ScheduleType
  BY <1>2, <1>3, <1>5 DEF ScheduleTimes, ScheduleType
<1> HIDE DEF t
<1>8. CursorInv(t)
  BY <1>2, <1>5, <1>6 DEF CursorInv
<1>9. Edited(c, t)
  BY <1>2, <1>5, <1>6, <1>7, <1>8 DEF Edited
<1> QED BY <1>9 DEF t

\* CreateSchedule starts a row's cursor.
LEMMA CreateScheduleInv ==
  ASSUME SchedulesInv, NEW s \in Ids, CreateSchedule(s)
  PROVE  SchedulesInv'
<1> DEFINE b == [sched[s] EXCEPT !.revision = 1, !.enabled = (s # Target)]
<1>1. FixedInv /\ sched[s] \in ScheduleType /\ CursorInv(sched[s])
  BY DEF SchedulesInv, TablesInv, TablesType
<1>2. sched[s].revision \in Nat /\ sched[s].definition \in Nat
  BY <1>1, SpecFacts
<1>3. sched[s].revision = 0 /\ sched[s].definition = 0
  BY SMT, <1>1, <1>2 DEF CreateSchedule, Exists, CursorInv
<1>4. ~sched[s].retired
  BY SMT, <1>1, <1>3 DEF CursorInv
<1>5. 1 \in Revisions /\ 1 <= MaxRevision /\ 0 < 1
  BY SMT, ScheduleAssumption DEF Revisions
<1>6. /\ b \in ScheduleType /\ b.revision = 1 /\ b.retired = sched[s].retired
      /\ b.definition = sched[s].definition
  BY <1>1, <1>5 DEF ScheduleType
<1>7. FirstDefinition[s] \in Definitions
  BY ScheduleAssumption
<1>8. /\ sched' = [sched EXCEPT ![s] = ScheduleTimes(b, FirstDefinition[s])]
      /\ UNCHANGED <<now, occ, ops, route, bound, admitted, checkpoint>>
  BY DEF CreateSchedule
<1> HIDE DEF b
<1>9. Edited(sched[s], ScheduleTimes(b, FirstDefinition[s]))
  BY <1>1, <1>3, <1>4, <1>5, <1>6, <1>7, TimesEdited
<1> QED BY <1>8, <1>9, EditInv

\* ReplaceSchedule restarts it under a newer definition.
LEMMA ReplaceScheduleInv ==
  ASSUME SchedulesInv, NEW s \in Ids, NEW d \in Definitions, ReplaceSchedule(s, d)
  PROVE  SchedulesInv'
<1> DEFINE b == [sched[s] EXCEPT !.revision = @ + 1]
<1>1. FixedInv /\ sched[s] \in ScheduleType /\ CursorInv(sched[s])
  BY DEF SchedulesInv, TablesInv, TablesType
<1>2. sched[s].revision \in Nat /\ sched[s].definition \in Nat
  BY <1>1, SpecFacts
<1>3. ~sched[s].retired /\ sched[s].revision < MaxRevision
  BY DEF ReplaceSchedule, Usable
<1>4. /\ sched[s].revision + 1 \in Revisions /\ sched[s].revision + 1 <= MaxRevision
      /\ sched[s].revision < sched[s].revision + 1 /\ sched[s].definition < sched[s].revision + 1
  BY SMT, <1>1, <1>2, <1>3, ScheduleAssumption DEF Revisions, CursorInv
<1>5. /\ b \in ScheduleType /\ b.revision = sched[s].revision + 1 /\ b.retired = sched[s].retired
      /\ b.definition = sched[s].definition
  BY <1>1, <1>4 DEF ScheduleType
<1>6. sched' = [sched EXCEPT ![s] = ScheduleTimes(b, d)]
  BY DEF ReplaceSchedule
<1>7. UNCHANGED <<now, occ, ops, route, bound, admitted, checkpoint>>
  BY DEF ReplaceSchedule
<1> HIDE DEF b
<1>8. Edited(sched[s], ScheduleTimes(b, d))
  BY <1>1, <1>3, <1>4, <1>5, TimesEdited
<1> QED BY <1>6, <1>7, <1>8, EditInv

\* A row with a newer revision, the same cursor and another switch.
LEMMA SwitchEdited ==
  ASSUME NEW c \in ScheduleType, NEW d \in ScheduleType, CursorInv(c), c.revision > 0,
         d.revision = c.revision + 1, d.revision <= MaxRevision + route.generation,
         d.spec = c.spec, d.next = c.next, d.previous = c.previous,
         d.definition = c.definition, d.retired => ~d.enabled
  PROVE  Edited(c, d)
<1>1. c.revision \in Nat /\ c.definition \in Nat
  BY SpecFacts
<1>2. c.revision < d.revision /\ d.definition <= d.revision /\ d.revision > 0
  BY SMT, <1>1 DEF CursorInv
<1>3. CursorInv(d)
  BY <1>2 DEF CursorInv
<1> QED BY <1>2, <1>3 DEF Edited

\* SetSchedule and RetireSchedule leave the cursor alone.
LEMMA SetScheduleInv ==
  ASSUME SchedulesInv, NEW s \in Ids, SetSchedule(s) \/ RetireSchedule(s)
  PROVE  SchedulesInv'
<1> DEFINE c == sched[s]
<1>1. FixedInv /\ c \in ScheduleType /\ CursorInv(c) /\ sched \in [Ids -> ScheduleType]
  BY DEF SchedulesInv, TablesInv, TablesType
<1>2. c.revision \in Nat /\ c.enabled \in BOOLEAN /\ route.generation \in Nat
  <2>1. route.generation \in Nat
    BY <1>1, RouteColumns
  <2> QED BY <1>1, <2>1, SpecFacts
<1>3. ~c.retired /\ c.revision < MaxRevision /\ c.revision > 0
  BY DEF SetSchedule, RetireSchedule, Usable, Exists
<1>4. c.revision + 1 \in Revisions /\ c.revision + 1 <= MaxRevision + route.generation
  BY SMT, <1>2, <1>3, ScheduleAssumption DEF Revisions
<1>5. UNCHANGED <<now, occ, ops, route, bound, admitted, checkpoint>>
  BY DEF SetSchedule, RetireSchedule
<1>6. CASE SetSchedule(s)
  <2> DEFINE d == [c EXCEPT !.revision = c.revision + 1, !.enabled = ~c.enabled]
  <2>1. /\ d \in ScheduleType /\ d.revision = c.revision + 1 /\ d.spec = c.spec
        /\ d.next = c.next /\ d.previous = c.previous /\ d.definition = c.definition
        /\ d.retired = c.retired
    BY <1>1, <1>2, <1>4 DEF ScheduleType
  <2>2. sched' = [sched EXCEPT ![s] = d]
    BY <1>1, <1>6 DEF SetSchedule
  <2> HIDE DEF d, c
  <2>3. Edited(c, d)
    BY <1>1, <1>3, <1>4, <2>1, SwitchEdited
  <2> QED BY <1>5, <2>2, <2>3, EditInv DEF c
<1>7. CASE RetireSchedule(s)
  <2> DEFINE d == [c EXCEPT !.revision = c.revision + 1, !.enabled = FALSE, !.retired = TRUE]
  <2>1. /\ d \in ScheduleType /\ d.revision = c.revision + 1 /\ d.spec = c.spec
        /\ d.next = c.next /\ d.previous = c.previous /\ d.definition = c.definition
        /\ d.enabled = FALSE
    BY <1>1, <1>4 DEF ScheduleType
  <2>2. sched' = [sched EXCEPT ![s] = d]
    BY <1>1, <1>7 DEF RetireSchedule
  <2> HIDE DEF d, c
  <2>3. Edited(c, d)
    BY <1>1, <1>3, <1>4, <2>1, SwitchEdited
  <2> QED BY <1>5, <2>2, <2>3, EditInv DEF c
<1> QED BY <1>6, <1>7

-----------------------------------------------------------------------------
(* Running operations and manual fires *)

\* An operation in another state.
Restated(o, p) ==
  /\ p.sched = o.sched /\ p.key = o.key /\ p.due = o.due /\ p.revision = o.revision
  /\ p.generation = o.generation

\* An operation that only opens or closes keeps the invariant.
LEMMA RestateInv ==
  ASSUME SchedulesInv, NEW o \in ops, NEW p \in OperationType, Restated(o, p),
         ops' = (ops \ {o}) \cup {p},
         UNCHANGED <<now, sched, occ, route, bound, admitted, checkpoint>>
  PROVE  SchedulesInv'
<1>1. FixedInv /\ TablesInv(sched, occ, ops, admitted) /\ TablesType(sched, occ, ops, admitted)
  BY DEF SchedulesInv, TablesInv
<1> DEFINE jb == (ops \ {o}) \cup {p}
<1>2. TablesType(sched, occ, jb, admitted)
  BY <1>1 DEF TablesType
<1>3. PICK f \in [jb -> ops] : /\ f[p] = o /\ \A x \in jb : x # p => f[x] = x
  <2>1. [x \in jb |-> IF x = p THEN o ELSE x] \in [jb -> ops]
    OBVIOUS
  <2> QED BY <2>1
<1> HIDE DEF jb
<1>4. \A x \in jb : f[x] \in ops /\ Restated(f[x], x)
  BY <1>3 DEF Restated
<1>5. \A x, y \in jb : f[x] = f[y] => x = y
  BY <1>3 DEF jb
<1>6. \A x \in ops : \E y \in jb : y.sched = x.sched /\ y.key = x.key
  BY DEF jb, Restated
<1>7. OpsInv(sched, occ, jb)
  <2>1. OpsInv(sched, occ, ops)
    BY <1>1 DEF TablesInv
  <2>2. \A x \in jb :
          /\ x.due <= now /\ (x.key = Clock => x.due < sched[x.sched].next)
          /\ x.revision <= sched[x.sched].revision
          /\ x.revision = sched[x.sched].revision => sched[x.sched].enabled
    BY SMT, <1>4, <2>1 DEF OpsInv, Restated
  <2>3. \A x, y \in jb : x.key = Clock /\ y.key = Clock /\ x.sched = y.sched /\ x.due = y.due
          => x = y
    BY SMT, <1>4, <1>5, <2>1 DEF OpsInv, Restated
  <2>4. \A r \in occ : r.key # Clock => \E x \in jb : x.sched = r.sched /\ x.key = r.key
    BY SMT, <1>6, <2>1 DEF OpsInv
  <2>5. \A x \in jb, r \in occ : RowOf(r, x) => r.disposition = "queued"
    BY SMT, <1>4, <2>1 DEF OpsInv, Restated, RowOf
  <2> QED BY <2>2, <2>3, <2>4, <2>5 DEF OpsInv
<1>8. StreamInv(occ, jb, admitted)
  <2>1. StreamInv(occ, ops, admitted)
    BY <1>1 DEF TablesInv
  <2>2. \A x \in jb :
          /\ x.generation <= route.generation
          /\ x.generation > 0 => \E a \in admitted : a.due = x.due
          /\ x.sched \in Routed /\ x.generation < route.generation => x.revision < bound[x.sched]
          /\ x.generation > 0 /\ x.generation = route.generation => x.sched = route.active
    BY SMT, <1>4, <2>1 DEF StreamInv, Restated
  <2>3. \A x, y \in jb : x.generation > 0 /\ y.generation > 0 /\ x.due = y.due => x = y
    BY SMT, <1>4, <1>5, <2>1 DEF StreamInv, Restated
  <2>4. \A x \in jb, r \in occ : RowOf(r, x) <=> RowOf(r, f[x])
    BY <1>4 DEF Restated, RowOf
  <2>5. \A x, y \in jb : x.generation > 0 /\ y.generation = 0 /\ y.sched = Prior /\ x.due = y.due
          => \A r \in occ : ~RowOf(r, y)
    BY SMT, <1>4, <2>1, <2>4 DEF StreamInv, Restated
  <2>6. route.generation > 0 =>
          \A x \in jb, r \in occ : x.generation = 0 /\ x.sched = Prior /\ RowOf(r, x)
            => x.due <= route.resumeAfter
    BY SMT, <1>4, <2>1, <2>4 DEF StreamInv, Restated
  <2> QED BY <2>2, <2>3, <2>5, <2>6 DEF StreamInv
<1>9. TablesInv(sched', occ', ops', admitted')
  <2>1. TablesInv(sched, occ, jb, admitted)
    BY <1>1, <1>2, <1>7, <1>8 DEF TablesInv
  <2> QED BY <2>1 DEF jb
<1>10. FixedInv'
  BY <1>1 DEF FixedInv, RouteInv
<1> QED BY <1>9, <1>10, SameRoutes DEF SchedulesInv

\* Claims, releases and closes change an operation's state only.
LEMMA RunInv ==
  ASSUME SchedulesInv, NEW o \in ops, ClaimJob(o) \/ Release(o) \/ Close(o)
  PROVE  SchedulesInv'
<1>1. PICK v \in {"open", "leased", "closed"} :
        /\ ops' = (ops \ {o}) \cup {[o EXCEPT !.state = v]}
        /\ UNCHANGED <<now, sched, occ, route, bound, admitted, checkpoint>>
  BY DEF ClaimJob, Release, Close
<1> DEFINE p == [o EXCEPT !.state = v]
<1>2. o \in OperationType
  BY DEF SchedulesInv, TablesInv, TablesType
<1>3. p \in OperationType /\ Restated(o, p)
  BY <1>2 DEF OperationType, Restated
<1>4. ops' = (ops \ {o}) \cup {p}
  BY <1>1
<1> HIDE DEF p
<1> QED BY <1>1, <1>3, <1>4, RestateInv

\* A replayed fire may add an admission.
LEMMA ReplayFireInv ==
  ASSUME SchedulesInv, NEW s \in Ids, NEW k \in Keys, ReplayFire(s, k)
  PROVE  SchedulesInv'
<1> DEFINE an == Admission(admitted, s, now)
<1>1. FixedInv /\ TablesInv(sched, occ, ops, admitted) /\ TablesType(sched, occ, ops, admitted)
  BY DEF SchedulesInv, TablesInv
<1>2. now \in Int
  BY <1>1, RouteColumns
<1>3. admitted \subseteq an /\ an \in SUBSET AdmissionType
  BY <1>1, <1>2, AdmissionFacts DEF TablesType
<1>4. /\ sched' = sched /\ occ' = occ /\ ops' = ops /\ admitted' = an
      /\ UNCHANGED <<now, route, bound, checkpoint>>
  BY DEF ReplayFire
<1> HIDE DEF an
<1>5. StreamInv(occ, ops, an)
  BY <1>1, <1>3 DEF TablesInv, StreamInv
<1>6. TablesInv(sched, occ, ops, an)
  BY <1>1, <1>3, <1>5 DEF TablesInv, TablesType
<1>7. TablesInv(sched', occ', ops', admitted')
  BY <1>4, <1>6
<1>8. FixedInv'
  BY <1>1, <1>4 DEF FixedInv, RouteInv
<1> QED BY <1>4, <1>7, <1>8, SameRoutes DEF SchedulesInv

\* An import batch names the target's revision.
LEMMA CompleteImportInv ==
  ASSUME SchedulesInv, CompleteImport
  PROVE  SchedulesInv'
<1>1. FixedInv /\ TablesInv(sched, occ, ops, admitted) /\ TablesType(sched, occ, ops, admitted)
  BY DEF SchedulesInv, TablesInv
<1>2. /\ sched' = sched /\ occ' = occ /\ ops' = ops /\ admitted' = admitted
      /\ now' = now /\ route' = route /\ bound' = bound /\ checkpoint' = sched[Target].revision
      /\ Target \in Ids
  BY DEF CompleteImport
<1>3. checkpoint' \in Int
  <2>1. sched[Target].revision \in Nat
    BY <1>1, <1>2, SpecFacts DEF TablesType
  <2> QED BY SMT, <1>2, <2>1
<1>4. FixedInv'
  BY <1>1, <1>2, <1>3 DEF FixedInv, RouteInv
<1>5. TablesInv(sched', occ', ops', admitted')
  BY <1>1, <1>2
<1> QED BY <1>2, <1>4, <1>5, SameRoutes DEF SchedulesInv

\* A manual fire admits an operation of its own key, and a row unless its instant has one.
LEMMA FireScheduleInv ==
  ASSUME SchedulesInv, NEW s \in Ids, NEW k \in Keys, FireSchedule(s, k)
  PROVE  SchedulesInv'
<1> DEFINE c == sched[s]
           x == Operation(s, k, c, now, now)
           r == Occurrence(s, k, c, now, now, now, "queued")
           on == InsertOccurrence(occ, r)
           an == Admission(admitted, s, now)
<1>1. FixedInv /\ TablesInv(sched, occ, ops, admitted)
  BY DEF SchedulesInv, TablesInv
<1>2. /\ sched \in [Ids -> ScheduleType] /\ occ \in SUBSET OccurrenceType
      /\ ops \in SUBSET OperationType /\ admitted \in SUBSET AdmissionType /\ c \in ScheduleType
  BY <1>1 DEF TablesInv, TablesType
<1>3. now \in Int /\ now <= now
  BY <1>1, RouteColumns
<1>4. k \in KeyType /\ k # Clock
  BY ScheduleAssumption DEF KeyType
<1>5. "queued" \in Dispositions
  BY DEF Dispositions
<1>6. /\ sched' = sched /\ occ' = on /\ ops' = ops \cup {x} /\ admitted' = an
      /\ UNCHANGED <<now, route, bound, checkpoint>>
  BY DEF FireSchedule
<1>7. c.enabled /\ AdmitCutoverOccurrence(admitted, s, c, now)
      /\ \A o \in ops : ~(o.sched = s /\ o.key = k)
  BY DEF FireSchedule
<1>a. /\ x = Operation(s, k, c, now, now) /\ on = InsertOccurrence(occ, r)
      /\ r = Occurrence(s, k, c, now, now, now, "queued") /\ an = Admission(admitted, s, now)
  OBVIOUS
<1> HIDE DEF c, x, r, on, an
<1>8. /\ x \in OperationType /\ x.sched = s /\ x.key = k /\ x.due = now
      /\ x.revision = c.revision /\ x.generation = RouteGeneration(s)
  BY SMT, <1>1, <1>2, <1>3, <1>4, <1>a, OperationFacts
<1>9. /\ r \in OccurrenceType /\ r.sched = s /\ r.key = k /\ r.due = now /\ r.through = now
      /\ r.disposition = "queued" /\ r.definition = c.definition
  BY SMT, <1>2, <1>3, <1>4, <1>5, <1>a, OccurrenceFacts
<1>10. on \in SUBSET (occ \cup {r})
  BY SMT, <1>a, InsertFacts
<1>11. /\ an \in SUBSET AdmissionType /\ admitted \subseteq an
       /\ bound[s] # 0 => \E a \in an : a.due = now
  BY <1>1, <1>2, <1>3, <1>a, AdmissionFacts
<1>12. RowsInv(sched, on)
  <2>1. RowsInv(sched, occ)
    BY <1>1 DEF TablesInv
  <2>2. RowInv(c, r)
    <3>1. c.definition <= c.definition
      BY <1>2, DefinitionFacts
    <3> QED BY <1>3, <1>4, <1>9, <3>1 DEF RowInv
  <2>3. \A q \in occ \cup {r} : RowInv(sched[q.sched], q)
    BY <1>9, <2>1, <2>2 DEF RowsInv, c
  <2>4. \A q, p \in occ \cup {r} : Disjoint(q, p)
    BY <1>4, <1>9, <2>1 DEF RowsInv, Disjoint
  <2> QED BY <1>10, <2>3, <2>4 DEF RowsInv
<1>13. RowOf(r, x)
  BY <1>8, <1>9 DEF RowOf
<1>14. OpsInv(sched, occ, ops) /\ StreamInv(occ, ops, admitted)
  BY <1>1 DEF TablesInv
<1>15. \A q \in occ : ~RowOf(q, x)
  BY <1>4, <1>7, <1>8, <1>14 DEF OpsInv, RowOf
<1>16. \A o \in ops : ~RowOf(r, o)
  BY <1>7, <1>9 DEF RowOf
<1>17. OpsInv(sched, on, ops \cup {x})
  <2>1. x.revision = sched[x.sched].revision /\ sched[x.sched].enabled /\ x.due <= now
    BY <1>3, <1>7, <1>8 DEF c
  <2>2. \A q \in occ \ {r} : ~RowOf(q, x)
    BY <1>15
  <2>3. x.key = Clock => x.due < sched[x.sched].next
    BY <1>4, <1>8
  <2>4. \A o \in ops : ~(o.key = Clock /\ RowOf(r, o))
    BY <1>16
  <2> QED BY <1>2, <1>8, <1>9, <1>10, <1>13, <1>14, <2>1, <2>2, <2>3, <2>4, OpsAdmitted
<1>18. StreamInv(on, ops \cup {x}, an)
  <2>1. StreamInv(on, ops, admitted)
    BY <1>10, <1>14, <1>16, admitted \subseteq admitted, StreamSkipped
  <2>2. x.generation > 0 => \E a \in an : a.due = x.due
    BY SMT, <1>8, <1>11 DEF RouteGeneration
  <2>3. /\ AdmitCutoverOccurrence(admitted, x.sched, c, x.due)
        /\ x.generation = RouteGeneration(x.sched)
    BY <1>7, <1>8
  <2> QED BY <1>1, <1>2, <1>8, <1>11, <2>1, <2>2, <2>3, StreamAdmitted
<1>19. TablesType(sched, on, ops \cup {x}, an)
  BY <1>2, <1>8, <1>9, <1>10, <1>11 DEF TablesType
<1>20. TablesInv(sched, on, ops \cup {x}, an)
  BY <1>1, <1>12, <1>17, <1>18, <1>19 DEF TablesInv
<1>21. TablesInv(sched', occ', ops', admitted')
  BY <1>6, <1>20
<1>22. FixedInv'
  BY <1>1, <1>6 DEF FixedInv, RouteInv
<1> QED BY <1>6, <1>21, <1>22, SameRoutes DEF SchedulesInv

-----------------------------------------------------------------------------
(* Routing a stream *)

\* A switch leaves a schedule's row alone, or changes its revision and its switch.
Switched(c, d) ==
  /\ d.spec = c.spec /\ d.next = c.next /\ d.previous = c.previous
  /\ d.definition = c.definition /\ d.retired = c.retired
  /\ d = c \/ d.revision = c.revision + 1

\* Columns of a switched row: its revision never falls.
LEMMA SwitchedRow ==
  ASSUME NEW c \in ScheduleType, NEW d \in ScheduleType, Switched(c, d)
  PROVE  /\ c.revision \in Nat /\ d.revision \in Nat /\ c.definition \in Nat
         /\ c.revision <= d.revision
<1>1. c.revision \in Nat /\ d.revision \in Nat /\ c.definition \in Nat
  BY SpecFacts
<1> QED BY SMT, <1>1 DEF Switched

\* The cursor of a switched row, one generation later.
LEMMA SwitchedCursor ==
  ASSUME NEW c \in ScheduleType, NEW d \in ScheduleType, Switched(c, d), CursorInv(c),
         route.generation \in Nat, d # c => c.revision > 0 /\ ~c.retired
  PROVE  /\ d.retired => ~d.enabled
         /\ d.enabled \/ d.retired => d.revision > 0
         /\ d.definition <= d.revision
         /\ d.revision <= MaxRevision + (route.generation + 1)
         /\ d.revision > 0 => OnGrid(d.spec, d.next) /\ d.next = d.previous + d.spec.every
<1>1. c.revision \in Nat /\ d.revision \in Nat /\ c.definition \in Nat
  BY SwitchedRow
<1>2. CASE d = c
  <2>1. d.revision <= MaxRevision + (route.generation + 1)
    BY SMT, <1>1, <1>2, ScheduleAssumption DEF CursorInv
  <2> QED BY <1>2, <2>1 DEF CursorInv
<1>3. CASE d # c
  <2>1. /\ d.revision <= MaxRevision + (route.generation + 1) /\ d.revision > 0
        /\ d.definition <= d.revision
    BY SMT, <1>1, <1>3, ScheduleAssumption DEF CursorInv, Switched
  <2> QED BY <1>3, <2>1 DEF CursorInv, Switched
<1> QED BY <1>2, <1>3

\* SwitchTo enables one routed schedule, pauses the other and leaves the rest.
LEMMA SwitchFacts ==
  ASSUME sched \in [Ids -> ScheduleType], route.generation \in Nat,
         route.generation < MaxGeneration, NEW s,
         \A x \in Ids : sched[x].revision <= MaxRevision + route.generation
  PROVE  /\ SwitchTo(s) \in [Ids -> ScheduleType]
         /\ \A x \in Ids :
              /\ Switched(sched[x], SwitchTo(s)[x])
              /\ x \notin Routed => SwitchTo(s)[x] = sched[x]
              /\ x \in Routed /\ sched[x].enabled # (x = s)
                   => SwitchTo(s)[x].revision = sched[x].revision + 1
<1>1. ASSUME NEW x \in Ids
      PROVE  /\ SwitchTo(s)[x] \in ScheduleType /\ Switched(sched[x], SwitchTo(s)[x])
             /\ x \notin Routed => SwitchTo(s)[x] = sched[x]
             /\ x \in Routed /\ sched[x].enabled # (x = s)
                  => SwitchTo(s)[x].revision = sched[x].revision + 1
  <2> DEFINE c == sched[x]
             d == [c EXCEPT !.revision = c.revision + 1, !.enabled = (x = s)]
  <2>1. c \in ScheduleType /\ c.revision \in Nat /\ c.revision <= MaxRevision + route.generation
    BY SpecFacts
  <2>2. c.revision + 1 \in Revisions
    <3> HIDE DEF c
    <3> QED BY SMT, <2>1, ScheduleAssumption DEF Revisions
  <2>3. d \in ScheduleType /\ Switched(c, d) /\ d.revision = c.revision + 1 /\ Switched(c, c)
    BY <2>1, <2>2 DEF ScheduleType, Switched
  <2>4. SwitchTo(s)[x] = IF x \in Routed /\ c.enabled # (x = s) THEN d ELSE c
    BY DEF SwitchTo
  <2> HIDE DEF c, d
  <2>5. CASE x \in Routed /\ c.enabled # (x = s)
    <3>1. SwitchTo(s)[x] = d
      BY <2>4, <2>5
    <3> QED BY <2>3, <2>5, <3>1 DEF c
  <2>6. CASE ~(x \in Routed /\ c.enabled # (x = s))
    <3>1. SwitchTo(s)[x] = c
      BY <2>4, <2>6
    <3> QED BY <2>1, <2>3, <2>6, <3>1 DEF c
  <2> QED BY <2>5, <2>6
<1>2. SwitchTo(s) = [x \in Ids |-> SwitchTo(s)[x]]
  BY DEF SwitchTo
<1>3. SwitchTo(s) \in [Ids -> ScheduleType]
  BY <1>1, <1>2
<1> QED BY <1>1, <1>3

\* A route change: every operation of the stream is of a revision no longer bound, and
\* what the prior schedule recorded lies before the boundary.
LEMMA RouteChangeInv ==
  ASSUME SchedulesInv, route.generation < MaxGeneration, NEW s, sched' = SwitchTo(s),
         bound' = [x \in Ids |-> IF x \in Routed THEN sched'[x].revision ELSE bound[x]],
         route' \in RouteType, route'.generation = route.generation + 1,
         {Prior, Target} \subseteq Ids, route'.active # route'.other,
         {route'.active, route'.other} = {Prior, Target},
         \A x \in Routed : sched[x].revision > 0,
         \A x \in Ids : sched[x].retired => sched'[x] = sched[x],
         \A o \in ops : o.sched \in Routed => o.revision < sched'[o.sched].revision,
         \A p \in ops, r \in occ : p.sched = Prior /\ RowOf(r, p) /\ p.generation = 0
           => p.due <= route'.resumeAfter,
         UNCHANGED <<now, occ, ops, admitted, checkpoint>>
  PROVE  SchedulesInv'
<1>1. FixedInv /\ TablesInv(sched, occ, ops, admitted)
  BY DEF SchedulesInv, TablesInv
<1>2. /\ sched \in [Ids -> ScheduleType] /\ occ \in SUBSET OccurrenceType
      /\ ops \in SUBSET OperationType /\ admitted \in SUBSET AdmissionType
      /\ \A x \in Ids : CursorInv(sched[x])
  BY <1>1 DEF TablesInv, TablesType
<1>3. /\ now' = now /\ occ' = occ /\ ops' = ops /\ admitted' = admitted
      /\ checkpoint' = checkpoint
  OBVIOUS
<1>4. route.generation \in Nat /\ route'.generation > 0 /\ route'.generation \in Nat
  BY <1>1, RouteColumns, NextGeneration
<1>5. /\ sched' \in [Ids -> ScheduleType]
      /\ \A x \in Ids : /\ Switched(sched[x], sched'[x])
                        /\ x \notin Routed => sched'[x] = sched[x]
  BY <1>2, <1>4, SwitchFacts DEF CursorInv
<1>6. \A x \in Ids :
        /\ sched[x].revision \in Nat /\ sched'[x].revision \in Nat
        /\ sched[x].revision <= sched'[x].revision
  BY <1>2, <1>5, SwitchedRow
<1>7. FixedInv'
  <2>1. now' \in 0..MaxTime
    BY <1>1, <1>3 DEF FixedInv
  <2>2. ASSUME NEW x \in Ids
        PROVE  /\ bound'[x] \in Revisions /\ bound'[x] <= sched'[x].revision
               /\ bound'[x] = 0 <=> x \notin Routed \/ route'.generation = 0
    <3>1. /\ bound[x] \in Revisions /\ bound[x] <= sched[x].revision
          /\ bound[x] = 0 <=> x \notin Routed \/ route.generation = 0
          /\ sched'[x].revision \in Revisions
      BY <1>1, <1>5 DEF FixedInv, RouteInv, ScheduleType
    <3>2. CASE x \in Routed
      <4>1. bound'[x] = sched'[x].revision /\ sched[x].revision > 0
        BY <3>2
      <4> QED BY SMT, <1>4, <1>6, <3>1, <3>2, <4>1
    <3>3. CASE x \notin Routed
      <4>1. bound'[x] = bound[x] /\ sched'[x] = sched[x]
        BY <1>5, <3>3
      <4> QED BY <3>1, <3>3, <4>1
    <3> QED BY <3>2, <3>3
  <2>3. bound' \in [Ids -> Revisions]
    BY <2>2
  <2>4. checkpoint' \in Int /\ (checkpoint' > 0 => Target \in Ids)
    BY <1>1, <1>3 DEF FixedInv, RouteInv
  <2>5. route'.generation # 0
    BY SMT, <1>4
  <2> QED BY <2>1, <2>2, <2>3, <2>4, <2>5 DEF FixedInv, RouteInv
<1>8. (\A x \in Ids : CursorInv(sched[x]))'
  <2> SUFFICES ASSUME NEW x \in Ids PROVE CursorInv(sched[x])'
    OBVIOUS
  <2> DEFINE c == sched[x]
             d == sched'[x]
  <2>1. CursorInv(c) /\ Switched(c, d) /\ c \in ScheduleType /\ d \in ScheduleType
    BY <1>2, <1>5
  <2>2. d # c => x \in Routed
    BY <1>5
  <2>3. d # c => c.revision > 0 /\ ~c.retired
    BY <2>2
  <2> HIDE DEF c, d
  <2>4. /\ d.retired => ~d.enabled
        /\ d.enabled \/ d.retired => d.revision > 0
        /\ d.definition <= d.revision
        /\ d.revision <= MaxRevision + route'.generation
        /\ d.revision > 0 => OnGrid(d.spec, d.next) /\ d.next = d.previous + d.spec.every
    BY <1>4, <2>1, <2>3, SwitchedCursor
  <2> QED BY <2>4 DEF CursorInv, c, d
<1>9. RowsInv(sched, occ)'
  <2>1. \A r \in occ : r.sched \in Ids /\ RowInv(sched[r.sched], r)
    BY <1>1, <1>2 DEF TablesInv, RowsInv, OccurrenceType
  <2>2. \A r \in occ : RowInv(sched[r.sched], r)'
    BY <1>3, <1>5, <2>1 DEF RowInv, Switched
  <2>3. \A r, q \in occ : Disjoint(r, q)
    BY <1>1 DEF TablesInv, RowsInv
  <2> QED BY <1>3, <2>2, <2>3 DEF RowsInv, Disjoint
<1>10. OpsInv(sched, occ, ops)'
  <2>1. OpsInv(sched, occ, ops) /\ \A o \in ops : o.sched \in Ids /\ o.revision \in Nat
    BY <1>1, <1>2, OperationColumns DEF TablesInv
  <2>2. ASSUME NEW o \in ops
        PROVE  /\ o.due <= now /\ (o.key = Clock => o.due < sched'[o.sched].next)
               /\ o.revision <= sched'[o.sched].revision
               /\ o.revision = sched'[o.sched].revision => sched'[o.sched].enabled
    <3>1. o.due <= now /\ (o.key = Clock => o.due < sched'[o.sched].next)
      BY <1>5, <2>1 DEF OpsInv, Switched
    <3>2. CASE o.sched \in Routed
      <4>1. o.revision < sched'[o.sched].revision /\ o.sched \in Ids
        BY <2>1, <3>2
      <4>2. o.revision <= sched'[o.sched].revision /\ o.revision # sched'[o.sched].revision
        BY <1>6, <2>1, <4>1, Below
      <4> QED BY <3>1, <4>2
    <3>3. CASE o.sched \notin Routed
      BY <1>5, <2>1, <3>1, <3>3 DEF OpsInv
    <3> QED BY <3>2, <3>3
  <2> QED BY <1>3, <2>1, <2>2 DEF OpsInv, RowOf
<1>11. StreamInv(occ, ops, admitted)'
  <2>1. StreamInv(occ, ops, admitted)
    BY <1>1 DEF TablesInv
  <2>2. \A o \in ops : o.generation \in Nat /\ o.sched \in Ids
    BY <1>2, OperationColumns
  <2>3. \A o \in ops : o.generation <= route.generation
    BY <2>1 DEF StreamInv
  <2>4. \A o \in ops : o.generation <= route'.generation /\ o.generation # route'.generation
    BY <1>4, <2>2, <2>3, Below
  <2>5. \A o \in ops : o.sched \in Routed => o.revision < bound'[o.sched]
    BY <2>2
  <2>6. \A p \in ops, r \in occ : p.generation = 0 /\ p.sched = Prior /\ RowOf(r, p)
          => p.due <= route'.resumeAfter
    OBVIOUS
  <2> QED BY <1>3, <2>1, <2>4, <2>5, <2>6 DEF StreamInv, RowOf
<1>12. TablesType(sched, occ, ops, admitted)'
  BY <1>2, <1>3, <1>5 DEF TablesType
<1> QED BY <1>7, <1>8, <1>9, <1>10, <1>11, <1>12 DEF SchedulesInv, TablesInv

\* A cutover starts from an imported, paused target and an enabled prior schedule.
LEMMA CutoverInv ==
  ASSUME SchedulesInv, NEW resume \in 0..MaxTime, Cutover(resume)
  PROVE  SchedulesInv'
<1>1. FixedInv /\ TablesInv(sched, occ, ops, admitted)
  BY DEF SchedulesInv, TablesInv
<1>2. /\ sched \in [Ids -> ScheduleType] /\ occ \in SUBSET OccurrenceType
      /\ ops \in SUBSET OperationType /\ \A x \in Ids : CursorInv(sched[x])
  BY <1>1 DEF TablesInv, TablesType
<1>3. Target \in Ids
  BY <1>1 DEF FixedInv, RouteInv, Cutover
<1>4. {Prior, Target} \subseteq Ids /\ Prior # Target /\ Routed = {Prior, Target}
  <2>1. NoRoute \notin Ids /\ (Routed = {} \/ ({Prior, Target} \subseteq Ids /\ Prior # Target))
    BY ScheduleAssumption
  <2>2. Routed # {}
    BY <1>3, <2>1 DEF Routed
  <2>3. {Prior, Target} \subseteq Ids /\ Prior # Target
    BY <2>1, <2>2
  <2> QED BY <2>1, <2>3 DEF Routed
<1>5. /\ route.generation \in Nat /\ route.generation < MaxGeneration
      /\ route.generation + 1 \in 0..MaxGeneration /\ resume \in Int
  <2>1. route.generation < MaxGeneration
    BY DEF Cutover
  <2>2. resume \in Int
    BY SMT
  <2> QED BY <1>1, <2>1, <2>2, RouteColumns, NextGeneration
<1>6. /\ sched' = SwitchTo(Target)
      /\ bound' = [x \in Ids |-> IF x \in Routed THEN sched'[x].revision ELSE bound[x]]
      /\ UNCHANGED <<now, occ, ops, admitted, checkpoint>>
  BY DEF Cutover
<1>7. /\ route' \in RouteType /\ route'.generation = route.generation + 1
      /\ route'.active = Target /\ route'.other = Prior /\ route'.resumeAfter = resume
  BY <1>4, <1>5 DEF Cutover, RouteType
<1>8. /\ sched[Target].revision > 0 /\ sched[Prior].revision > 0
      /\ ~sched[Target].enabled /\ sched[Prior].enabled
      /\ ~sched[Target].retired /\ ~sched[Prior].retired
  BY DEF Cutover, Usable, Exists
<1>9. \A x \in Routed : sched[x].revision > 0
  BY <1>4, <1>8
<1>10. \A x \in Ids :
         /\ x \notin Routed => sched'[x] = sched[x]
         /\ x \in Routed => sched'[x].revision = sched[x].revision + 1
  <2>1. \A x \in Ids :
          /\ x \notin Routed => sched'[x] = sched[x]
          /\ x \in Routed /\ sched[x].enabled # (x = Target)
               => sched'[x].revision = sched[x].revision + 1
    BY <1>2, <1>5, <1>6, SwitchFacts DEF CursorInv
  <2>2. \A x \in Routed : sched[x].enabled # (x = Target)
    BY <1>4, <1>8
  <2> QED BY <2>1, <2>2
<1>11. \A x \in Ids : sched[x].retired => sched'[x] = sched[x]
  BY <1>4, <1>8, <1>10
<1>12. \A o \in ops : o.sched \in Routed => o.revision < sched'[o.sched].revision
  <2>1. ASSUME NEW o \in ops, o.sched \in Routed PROVE o.revision < sched'[o.sched].revision
    <3>1. o.sched \in Ids /\ o.revision \in Nat
      BY <1>2, OperationColumns
    <3>2. o.revision <= sched[o.sched].revision
      BY <1>1 DEF TablesInv, OpsInv
    <3>3. sched'[o.sched].revision = sched[o.sched].revision + 1 /\ sched[o.sched].revision \in Nat
      BY <1>2, <1>10, <2>1, <3>1, SpecFacts
    <3> QED BY SMT, <3>1, <3>2, <3>3
  <2> QED BY <2>1
<1>13. ASSUME NEW p \in ops, NEW r \in occ, p.sched = Prior, RowOf(r, p)
       PROVE  p.due <= resume
  <2>1. PICK m \in LastQueued : (\A q \in LastQueued : q.due <= m.due) /\ m.due <= resume
    BY DEF Cutover
  <2>2. r.disposition = "queued" /\ r.sched = Prior /\ r.due = p.due
    BY <1>1, <1>13 DEF TablesInv, OpsInv, RowOf
  <2>3. r \in LastQueued
    BY <2>2 DEF LastQueued
  <2>4. r.due <= m.due /\ r.due \in Int /\ m.due \in Int
    BY <1>2, <2>1, <2>3 DEF LastQueued, OccurrenceType
  <2> QED BY SMT, <1>5, <2>1, <2>2, <2>4
<1>14. \A p \in ops, r \in occ : p.sched = Prior /\ RowOf(r, p) /\ p.generation = 0
         => p.due <= route'.resumeAfter
  BY <1>7, <1>13
<1>15. route'.active # route'.other /\ {route'.active, route'.other} = {Prior, Target}
  BY <1>4, <1>7
<1> QED BY <1>4, <1>5, <1>6, <1>7, <1>9, <1>11, <1>12, <1>14, <1>15, RouteChangeInv

\* A rollback: work of the current routing is on the schedule that is left.
LEMMA RollbackInv ==
  ASSUME SchedulesInv, Rollback
  PROVE  SchedulesInv'
<1> DEFINE y == route.other
<1>1. FixedInv /\ TablesInv(sched, occ, ops, admitted)
  BY DEF SchedulesInv, TablesInv
<1>2. /\ sched \in [Ids -> ScheduleType] /\ occ \in SUBSET OccurrenceType
      /\ ops \in SUBSET OperationType /\ \A x \in Ids : CursorInv(sched[x])
  BY <1>1 DEF TablesInv, TablesType
<1>3. route \in RouteType /\ route.state = "active" /\ route.generation < MaxGeneration
  BY <1>1 DEF FixedInv, RouteInv, Rollback
<1>4. route.generation \in Nat /\ route.generation > 0 /\ route.generation + 1 \in 0..MaxGeneration
  <2>1. route.generation # 0
    BY <1>1, <1>3 DEF FixedInv, RouteInv
  <2>2. route.generation \in Nat /\ route.generation + 1 \in 0..MaxGeneration
    BY <1>1, <1>3, RouteColumns, NextGeneration
  <2> QED BY SMT, <2>1, <2>2
<1>5. /\ {Prior, Target} \subseteq Ids /\ route.active # y /\ {route.active, y} = {Prior, Target}
  BY <1>1, <1>4 DEF FixedInv, RouteInv
<1>6. Routed = {Prior, Target}
  BY <1>5, ScheduleAssumption DEF Routed
<1>7. /\ sched' = SwitchTo(y)
      /\ bound' = [x \in Ids |-> IF x \in Routed THEN sched'[x].revision ELSE bound[x]]
      /\ \A x \in Ids : sched[x].retired => sched'[x] = sched[x]
      /\ UNCHANGED <<now, occ, ops, admitted, checkpoint>>
  BY DEF Rollback
<1>8. /\ route' \in RouteType /\ route'.generation = route.generation + 1
      /\ route'.active = y /\ route'.other = route.active
      /\ route'.resumeAfter = route.resumeAfter
  <2>1. route' = [route EXCEPT !.active = y, !.other = route.active, !.state = "rolled_back",
                               !.generation = route.generation + 1]
    BY DEF Rollback
  <2> QED BY <1>3, <1>4, <2>1 DEF RouteType
<1> HIDE DEF y
<1>9. /\ \A x \in Ids : /\ bound[x] \in Nat /\ sched[x].revision \in Nat
                         /\ sched[x].enabled \in BOOLEAN
      /\ \A x \in Ids : bound[x] <= sched[x].revision
      /\ \A x \in Routed : bound[x] # 0 /\ x \in Ids
  <2>1. \A x \in Ids : bound[x] \in Nat
    BY <1>1, RouteColumns
  <2>2. \A x \in Ids : sched[x].revision \in Nat /\ sched[x].enabled \in BOOLEAN
    BY <1>2, SpecFacts
  <2>3. route.generation # 0
    BY SMT, <1>4
  <2> QED BY <1>1, <1>5, <1>6, <2>1, <2>2, <2>3 DEF FixedInv, RouteInv
<1>10. \A x \in Routed : sched[x].revision > 0
  BY SMT, <1>9
<1>11. \A x \in Ids : /\ x \in Routed /\ sched[x].enabled # (x = y)
                           => sched'[x].revision = sched[x].revision + 1
                      /\ Switched(sched[x], sched'[x])
  BY <1>2, <1>3, <1>4, <1>7, SwitchFacts DEF CursorInv
<1>12. ASSUME NEW o \in ops, o.sched \in Routed
       PROVE  o.revision < sched'[o.sched].revision
  <2> DEFINE x == o.sched
  <2>1. x \in Ids /\ o.revision \in Nat /\ o.generation \in Nat
    BY <1>2, OperationColumns
  <2>2. o.revision <= sched[x].revision /\ (o.revision = sched[x].revision => sched[x].enabled)
    BY <1>1 DEF TablesInv, OpsInv
  <2>3. /\ o.generation <= route.generation
        /\ o.generation < route.generation => o.revision < bound[x]
        /\ o.generation = route.generation => x = route.active
    <3>1. StreamInv(occ, ops, admitted)
      BY <1>1 DEF TablesInv
    <3>2. o.generation = route.generation => o.generation > 0
      BY <1>4
    <3> QED BY <1>12, <3>1, <3>2 DEF StreamInv
  <2>4. /\ sched[x].revision \in Nat /\ bound[x] \in Nat /\ bound[x] <= sched[x].revision
        /\ sched'[x].revision = sched[x].revision \/ sched'[x].revision = sched[x].revision + 1
    BY <1>9, <1>11, <2>1 DEF Switched
  <2>5. sched[x].enabled # (x = y) => sched'[x].revision = sched[x].revision + 1
    BY <1>11, <1>12, <2>1
  <2> HIDE DEF x
  <2>6. CASE sched'[x].revision = sched[x].revision + 1
    BY SMT, <2>1, <2>2, <2>4, <2>6 DEF x
  <2>7. CASE sched[x].enabled = (x = y)
    <3>1. CASE x = y
      <4>1. o.generation # route.generation
        BY <1>5, <2>3, <3>1
      <4>2. o.generation < route.generation
        BY SMT, <1>4, <2>1, <2>3, <4>1
      <4> QED BY SMT, <2>1, <2>3, <2>4, <4>2 DEF x
    <3>2. CASE x # y
      <4>1. o.revision # sched[x].revision
        BY <2>2, <2>7, <3>2
      <4> QED BY SMT, <2>1, <2>2, <2>4, <4>1 DEF x
    <3> QED BY <3>1, <3>2
  <2> QED BY <2>5, <2>6, <2>7
<1>13. \A p \in ops, r \in occ : p.sched = Prior /\ RowOf(r, p) /\ p.generation = 0
         => p.due <= route'.resumeAfter
  <2>1. StreamInv(occ, ops, admitted)
    BY <1>1 DEF TablesInv
  <2> QED BY <1>4, <1>8, <2>1 DEF StreamInv
<1>14. route'.active # route'.other /\ {route'.active, route'.other} = {Prior, Target}
  BY <1>5, <1>8
<1>15. \A o \in ops : o.sched \in Routed => o.revision < sched'[o.sched].revision
  BY <1>12
<1> QED BY <1>3, <1>5, <1>7, <1>8, <1>10, <1>13, <1>14, <1>15, RouteChangeInv

=============================================================================
