--------------------------- MODULE RecurrenceProof ---------------------------
(***************************************************************************)
(* When occurrences fall.  Next and Previous of an interval schedule are   *)
(* the neighbouring occurrences of any time, for every period and anchor;  *)
(* the binary search of Previous for cron expressions is exact for every   *)
(* calendar.                                                               *)
(***************************************************************************)
EXTENDS Recurrence, PreviousSearch, TLAPS

(* Intervals *)

\* t is an occurrence of the spec: a member of the reference set Occurrences.
OnGrid(spec, t) ==
  t \in Int /\ t >= spec.anchor /\ (t - spec.anchor) % spec.every = 0

IsInterval(spec) == spec.every \in Nat \ {0} /\ spec.anchor \in Nat

\* Every integer is a multiple of the step and a remainder.
LEMMA Division ==
  ASSUME NEW x \in Int, NEW e \in Nat \ {0}
  PROVE  \E k \in Int, r \in 0 .. e - 1 :
           k = x \div e /\ r = x % e /\ x = e * k + r /\ (x >= 0 => k >= 0)
<1>1. /\ x \div e \in Int /\ x % e \in 0 .. e - 1
      /\ x = e * (x \div e) + (x % e)
      /\ x >= 0 => x \div e >= 0
  OBVIOUS
<1> WITNESS x \div e \in Int, x % e \in 0 .. e - 1
<1> QED BY <1>1, Zenon

\* Arithmetic of the multiples of a step.
LEMMA Multiples ==
  ASSUME NEW e \in Nat \ {0}, NEW k \in Int
  PROVE  /\ e * k \in Int /\ (e * k) % e = 0 /\ k * e = e * k
         /\ e * (k + 1) = e * k + e
         /\ k >= 0 => e * k >= 0
  OBVIOUS

\* Different multiples are a whole step apart.
LEMMA MultiplesGrow ==
  ASSUME NEW e \in Nat \ {0}, NEW k \in Int, NEW m \in Int, k < m
  PROVE  e * k + e <= e * m
  OBVIOUS

\* The grid is the anchor and every whole number of steps after it.
LEMMA GridIsMultiples ==
  ASSUME NEW spec, IsInterval(spec), NEW t
  PROVE  OnGrid(spec, t) <=> \E k \in Nat : t = spec.anchor + spec.every * k
<1> USE DEF IsInterval
<1>1. ASSUME OnGrid(spec, t) PROVE \E k \in Nat : t = spec.anchor + spec.every * k
  <2>1. t - spec.anchor \in Int /\ t - spec.anchor >= 0 /\ (t - spec.anchor) % spec.every = 0
    BY <1>1 DEF OnGrid
  <2>2. PICK x \in Int : x = t - spec.anchor
    BY <2>1
  <2>3. PICK k \in Int, r \in 0 .. spec.every - 1 :
          /\ k = x \div spec.every /\ r = x % spec.every
          /\ x = spec.every * k + r /\ (x >= 0 => k >= 0)
    BY <2>2, Division
  <2>4. k \in Nat /\ r = 0 /\ spec.every * k \in Int
    BY <2>1, <2>2, <2>3, Multiples
  <2>5. x = spec.every * k
    BY <2>3, <2>4
  <2>6. t = spec.anchor + x
    BY <1>1, <2>2 DEF OnGrid
  <2> QED BY <2>4, <2>5, <2>6
<1>2. ASSUME NEW k \in Nat, t = spec.anchor + spec.every * k PROVE OnGrid(spec, t)
  <2>1. spec.every * k \in Int /\ spec.every * k >= 0 /\ (spec.every * k) % spec.every = 0
    BY Multiples
  <2>2. t - spec.anchor = spec.every * k
    BY <1>2, <2>1
  <2> QED BY <1>2, <2>1, <2>2 DEF OnGrid
<1> QED BY <1>1, <1>2

\* Neighbouring occurrences are one period apart.
LEMMA GridGap ==
  ASSUME NEW spec, IsInterval(spec), NEW c, NEW d, OnGrid(spec, c), OnGrid(spec, d), c < d
  PROVE  c + spec.every <= d
<1>1. PICK k \in Nat : c = spec.anchor + spec.every * k
  BY GridIsMultiples
<1>2. PICK m \in Nat : d = spec.anchor + spec.every * m
  BY GridIsMultiples
<1>3. spec.every * k \in Int /\ spec.every * m \in Int /\ spec.anchor \in Int /\ spec.every \in Int
  BY Multiples DEF IsInterval
<1>4. k < m
  <2>1. PICK x \in Int, y \in Int : x = spec.every * k /\ y = spec.every * m
    BY <1>3
  <2>2. x < y
    BY <1>1, <1>2, <1>3, <2>1
  <2>3. k = m => x = y
    BY <2>1
  <2>4. m < k => y + spec.every <= x
    BY <2>1, <1>3, MultiplesGrow DEF IsInterval
  <2> QED BY <2>2, <2>3, <2>4 DEF IsInterval
<1>5. spec.every * k + spec.every <= spec.every * m
  BY <1>4, MultiplesGrow DEF IsInterval
<1> QED BY <1>1, <1>2, <1>3, <1>5

\* Next of an interval schedule is the least occurrence strictly after a time, and
\* Previous lies one period before it.
THEOREM IntervalNeighbours ==
  ASSUME NEW spec, IsInterval(spec), NEW t \in Int
  PROVE  /\ OnGrid(spec, SpecNext(spec, t)) /\ t < SpecNext(spec, t)
         /\ \A d : OnGrid(spec, d) /\ t < d => SpecNext(spec, t) <= d
         /\ SpecPrevious(spec, t) \in Int
         /\ SpecNext(spec, t) = SpecPrevious(spec, t) + spec.every
<1> DEFINE e == spec.every
           a == spec.anchor
           q == (t - a) \div e
<1>1. a \in Int /\ e \in Nat \ {0} /\ t - a \in Int
  BY DEF IsInterval
<1>2. CASE t < a
  <2>1. SpecNext(spec, t) = a /\ SpecPrevious(spec, t) = a - e
    BY <1>2 DEF SpecNext, SpecPrevious
  <2>2. OnGrid(spec, a)
    <3>1. a = a + e * 0
      BY <1>1, Multiples
    <3> QED BY <3>1, GridIsMultiples
  <2>3. \A d : OnGrid(spec, d) => a <= d
    BY DEF OnGrid, IsInterval
  <2> QED BY <1>1, <1>2, <2>1, <2>2, <2>3
<1>3. CASE ~(t < a)
  <2>1. q \in Nat /\ t - a < e * q + e /\ e * q \in Int /\ e * q <= t - a
    <3>1. PICK x \in Int : x = t - a
      BY <1>1
    <3>2. x >= 0
      BY <1>1, <1>3, <3>1
    <3>3. PICK k \in Int, r \in 0 .. e - 1 :
            k = x \div e /\ r = x % e /\ x = e * k + r /\ (x >= 0 => k >= 0)
      BY <1>1, Division
    <3>4. k >= 0
      BY <3>2, <3>3
    <3>5. PICK y \in Int : y = e * k
      BY <1>1, Multiples
    <3>6. x < y + e /\ y <= x
      <4>1. x = y + r
        BY <3>3, <3>5
      <4> HIDE DEF e
      <4> QED BY <1>1, <4>1
    <3>7. q = k
      BY <3>1, <3>3
    <3> HIDE DEF q
    <3> QED BY <3>1, <3>4, <3>5, <3>6, <3>7
  <2>2. e * (q + 1) = e * q + e /\ q * e = e * q /\ (q + 1) * e = e * (q + 1)
    BY <1>1, <2>1, Multiples
  <2>3. SpecNext(spec, t) = a + (q + 1) * e /\ SpecPrevious(spec, t) = a + q * e
    BY <1>3 DEF SpecNext, SpecPrevious
  <2> HIDE DEF q
  <2>4. SpecNext(spec, t) = a + e * (q + 1) /\ SpecNext(spec, t) = a + (e * q + e)
        /\ SpecPrevious(spec, t) = a + e * q
    BY <2>2, <2>3
  <2>5. OnGrid(spec, SpecNext(spec, t))
    BY <2>1, <2>4, GridIsMultiples
  <2>6. t < SpecNext(spec, t)
    BY <1>1, <2>1, <2>4
  <2>7. ASSUME NEW d, OnGrid(spec, d), t < d PROVE SpecNext(spec, t) <= d
    <3>1. d \in Int /\ SpecNext(spec, t) \in Int
      BY <2>5, <2>7 DEF OnGrid
    <3>2. d < SpecNext(spec, t) => d + e <= SpecNext(spec, t)
      BY <2>5, <2>7, GridGap
    <3>3. ~(d < SpecNext(spec, t))
      <4> SUFFICES ASSUME d + e <= SpecNext(spec, t) PROVE FALSE
        BY <3>2
      <4> QED BY <1>1, <2>1, <2>4, <2>7, <3>1
    <3> QED BY <3>1, <3>3
  <2>8. SpecPrevious(spec, t) \in Int /\ SpecNext(spec, t) = SpecPrevious(spec, t) + e
    BY <1>1, <2>1, <2>4
  <2> QED BY <2>5, <2>6, <2>7, <2>8
<1> QED BY <1>2, <1>3

\* From the anchor on, Previous of an interval schedule is the greatest occurrence at or
\* before a time.
THEOREM IntervalPrevious ==
  ASSUME NEW spec, IsInterval(spec), NEW t \in Int, NEW c, OnGrid(spec, c), c <= t
  PROVE  /\ OnGrid(spec, SpecPrevious(spec, t))
         /\ c <= SpecPrevious(spec, t) /\ SpecPrevious(spec, t) <= t
<1> DEFINE n == SpecNext(spec, t)
           p == SpecPrevious(spec, t)
<1>1. OnGrid(spec, n) /\ t < n /\ p \in Int /\ n = p + spec.every
  BY IntervalNeighbours
<1> HIDE DEF n, p
<1>2. n \in Int /\ c \in Int /\ spec.every \in Nat \ {0}
  BY <1>1 DEF OnGrid, IsInterval
<1>3. c + spec.every <= n
  BY <1>1, <1>2, GridGap
<1>4. c <= p
  BY <1>1, <1>2, <1>3
<1>5. PICK m \in Nat : n = spec.anchor + spec.every * m
  BY <1>1, GridIsMultiples
<1>6. PICK k \in Nat : c = spec.anchor + spec.every * k
  BY GridIsMultiples
<1>7. m - 1 \in Nat /\ p = spec.anchor + spec.every * (m - 1)
  <2>1. spec.every * m \in Int /\ spec.every * k \in Int /\ spec.anchor \in Int
    BY <1>2, Multiples DEF IsInterval
  <2>2. m # 0
    <3>1. spec.every * 0 = 0 /\ spec.every * k >= 0
      BY <1>2, Multiples
    <3>2. PICK x \in Int : x = spec.every * k
      BY <2>1
    <3>3. m = 0 => n = spec.anchor
      BY <1>5, <2>1, <3>1
    <3> QED BY <1>2, <1>3, <1>6, <2>1, <3>1, <3>2, <3>3
  <2>3. m - 1 \in Nat /\ (m - 1) + 1 = m
    BY <2>2
  <2>4. spec.every * m = spec.every * (m - 1) + spec.every /\ spec.every * (m - 1) \in Int
    BY <1>2, <2>3, Multiples
  <2>5. PICK x \in Int : x = spec.every * (m - 1)
    BY <2>4
  <2>6. n = spec.anchor + (x + spec.every)
    BY <1>5, <2>4, <2>5
  <2>7. p = spec.anchor + x
    <3>1. PICK e \in Int, a \in Int : e = spec.every /\ a = spec.anchor
      BY <1>2, <2>1
    <3>2. p \in Int /\ p + e = a + (x + e)
      BY <1>1, <2>6, <3>1
    <3>3. p = a + x
      BY <3>2
    <3> QED BY <3>1, <3>3
  <2> QED BY <2>3, <2>5, <2>7
<1>8. OnGrid(spec, p)
  BY <1>7, GridIsMultiples
<1>9. p <= t
  <2>1. t < p => n <= p
    BY <1>8, IntervalNeighbours DEF n
  <2> QED BY <1>1, <1>2, <2>1
<1> QED BY <1>4, <1>8, <1>9 DEF p

\* Next of an occurrence is one period later.
LEMMA NextOfOccurrence ==
  ASSUME NEW spec, IsInterval(spec), NEW c, OnGrid(spec, c)
  PROVE  SpecNext(spec, c) = c + spec.every
<1>1. c \in Int
  BY DEF OnGrid
<1>2. OnGrid(spec, SpecNext(spec, c)) /\ c < SpecNext(spec, c)
      /\ SpecNext(spec, c) = SpecPrevious(spec, c) + spec.every /\ SpecPrevious(spec, c) \in Int
  BY <1>1, IntervalNeighbours
<1>3. c <= SpecPrevious(spec, c) /\ SpecPrevious(spec, c) <= c
  BY <1>1, IntervalPrevious
<1> QED BY <1>1, <1>2, <1>3

-----------------------------------------------------------------------------
(* Cron expressions *)

\* The inductive invariant: before the loop the bounds are the whole window, in the loop
\* they bracket the answer, and afterwards the answer is right.
SearchInv ==
  /\ SearchTypeOK
  /\ pc = "check" => lo = at - Window /\ hi = at
  /\ Bracketed
  /\ InvalidMeansNone
  /\ FoundIsPrevious

\* The search starts with the bracket around the answer.
LEMMA SearchInvInit == SearchInit => SearchInv
  BY SearchAssumption DEF SearchInit, SearchInv, SearchTypeOK, Bracketed, InvalidMeansNone, FoundIsPrevious

\* The midpoint lies in the lower half, so each pass shortens the interval.
LEMMA MidInRange ==
  ASSUME SearchTypeOK, lo < hi
  PROVE  Mid \in Int /\ lo <= Mid /\ Mid < hi
  BY DEF SearchTypeOK, Mid

\* Inside the window the library's horizon never hides an occurrence.
LEMMA NextByWithinWindow ==
  ASSUME SearchTypeOK, NEW t \in Int, at - Window <= t
  PROVE  NextBy(t, at) <=> \E x \in cal : t < x /\ x <= at
  BY SearchAssumption DEF SearchTypeOK, NextBy

\* Every halving keeps the bracket around the answer.
LEMMA SearchInvNext == SearchInv /\ [SearchNext]_searchVars => SearchInv'
<1> SUFFICES ASSUME SearchInv, [SearchNext]_searchVars PROVE SearchInv'
  OBVIOUS
<1> USE DEF SearchInv
<1>1. CASE CheckWindow
  <2>1. NextBy(lo, at) <=> \E x \in cal : lo < x /\ x <= at
    BY <1>1, NextByWithinWindow, SearchAssumption DEF CheckWindow, SearchTypeOK
  <2>2. CASE NextBy(lo, at)
    BY <1>1, <2>1, <2>2, SearchAssumption
       DEF CheckWindow, SearchTypeOK, Bracketed, InvalidMeansNone, FoundIsPrevious
  <2>3. CASE ~NextBy(lo, at)
    BY <1>1, <2>1, <2>3, SearchAssumption
       DEF CheckWindow, SearchTypeOK, Bracketed, InvalidMeansNone, FoundIsPrevious
  <2> QED BY <2>2, <2>3
<1>2. CASE Narrow
  <2>1. Mid \in Int /\ lo <= Mid /\ Mid < hi
    BY <1>2, MidInRange DEF Narrow
  <2>2. NextBy(Mid, at) <=> \E x \in cal : Mid < x /\ x <= at
    BY <1>2, <2>1, NextByWithinWindow, SearchAssumption DEF Narrow, SearchTypeOK, Bracketed
  <2>3. CASE NextBy(Mid, at)
    BY <1>2, <2>1, <2>2, <2>3, SearchAssumption
       DEF Narrow, SearchTypeOK, Bracketed, InvalidMeansNone, FoundIsPrevious
  <2>4. CASE ~NextBy(Mid, at)
    BY <1>2, <2>1, <2>2, <2>4, SearchAssumption
       DEF Narrow, SearchTypeOK, Bracketed, InvalidMeansNone, FoundIsPrevious
  <2> QED BY <2>3, <2>4
<1>3. CASE Verify
  <2>1. lo = hi /\ lo \in cal
    BY <1>3 DEF Verify, SearchTypeOK, Bracketed
  <2>2. IsPrevious(lo)
    BY <1>3, <2>1 DEF Verify, SearchTypeOK, Bracketed, IsPrevious
  <2>3. NextBy(lo - 1, lo)
    BY <2>1, SearchAssumption DEF NextBy, SearchTypeOK
  <2> QED
    BY <1>3, <2>2, <2>3
       DEF Verify, SearchTypeOK, Bracketed, InvalidMeansNone, FoundIsPrevious, IsPrevious
<1>4. CASE UNCHANGED searchVars
  BY <1>4 DEF searchVars, SearchTypeOK, Bracketed, InvalidMeansNone, FoundIsPrevious, IsPrevious
<1> QED BY <1>1, <1>2, <1>3, <1>4 DEF SearchNext

\* Whatever set of times a cron expression denotes, a time Previous returns is the last
\* occurrence at or before its argument.
THEOREM PreviousIsExact == SearchSpec => []FoundIsPrevious
<1>1. SearchInv => FoundIsPrevious
  BY DEF SearchInv
<1> QED BY SearchInvInit, SearchInvNext, <1>1, PTL DEF SearchSpec

\* Previous refuses only when the window of five years holds no occurrence at all.
THEOREM RefusalIsExact == SearchSpec => []InvalidMeansNone
<1>1. SearchInv => InvalidMeansNone
  BY DEF SearchInv
<1> QED BY SearchInvInit, SearchInvNext, <1>1, PTL DEF SearchSpec

======================================================================================================================================
