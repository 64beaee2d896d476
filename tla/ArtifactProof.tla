---------------------------- MODULE ArtifactProof ----------------------------
(***************************************************************************)
(* The frozen artifacts keep their types, limits, quota, budgets, copies   *)
(* and receipts, for any runs, processes, outputs, sizes and limits.       *)
(*                                                                         *)
(* Quotas and budgets are sums, so the module first proves what a sum over *)
(* a finite set does when one summand changes.  Then the inductive         *)
(* invariant ArtifactInv: one invariant per row, one per narrative, one    *)
(* per occurrence.  Most steps only write a row (Write) and are Quiet; the *)
(* others seal, complete, reserve or ask, and have a lemma of their own.   *)
(***************************************************************************)
EXTENDS FrozenArtifacts, FiniteSetTheorems, WellFoundedInduction, TLAPS

\* Zenon does the first-order steps; a step beyond it cites SMT.
USE Zenon

-----------------------------------------------------------------------------
(* Numbers *)

\* Zero and the successor.
LEMMA Numbers ==
  /\ 0 \in Nat /\ 0 <= 0
  /\ \A n \in Nat : n + 1 \in Nat /\ n + 0 = n /\ 0 <= n /\ 0 \in 0 .. n
BY SMT

\* Intervals from zero and from one.
LEMMA Intervals ==
  /\ \A n \in Nat : \A m \in 0 .. n : m \in Nat /\ m <= n
  /\ \A n \in Nat : \A m \in 1 .. n : m \in Nat /\ m \in 0 .. n
  /\ \A n \in Nat, m \in Nat : m <= n => m \in 0 .. n
BY SMT

\* What a counter may still reach.
LEMMA Steady ==
  /\ \A n \in Nat : \A m \in 0 .. n : m < n => m + 1 \in 0 .. n
  /\ \A n \in Nat, m \in Nat : m + 1 <= n => m + 1 \in 1 .. n
  /\ \A n \in Nat, m \in Nat : \A d \in {0, 1} : m + d <= n => m + d \in 0 .. n
BY SMT

\* The order of the numbers.
LEMMA Orders ==
  /\ \A m \in Nat, n \in Nat : m < n <=> ~(n <= m)
  /\ Nat \subseteq Int
  /\ \A k \in Int, m \in Int, n \in Int : k <= m /\ m <= n => k <= n
BY SMT

-----------------------------------------------------------------------------
(* Sums over finite sets *)

\* A nonempty set of numbers has a least one.
LEMMA Smallest ==
  ASSUME NEW S \in SUBSET Nat, S # {}
  PROVE  \E m \in S : \A k \in Nat : k < m => k \notin S
<1> DEFINE R == {ss \in Nat \X Nat : ss[1] < ss[2]}
<1>1. IsWellFoundedOn(R, Nat)
  BY NatLessThanWellFounded DEF OpToRel
<1>2. \A k, m \in Nat : k < m => <<k, m>> \in R
  OBVIOUS
<1> HIDE DEF R
<1>3. PICK m \in S : \A k \in S : ~(<<k, m>> \in R)
  BY <1>1, WFMin
<1> QED BY <1>2, <1>3

\* The element that a sum takes next from the set.
Pick(s) == CHOOSE x \in s : TRUE

\* Removing it makes a finite set smaller by one.
LEMMA Picking ==
  ASSUME NEW D, IsFiniteSet(D), NEW s \in SUBSET D, s # {}
  PROVE  /\ Pick(s) \in s /\ Pick(s) \in D /\ s \ {Pick(s)} \in SUBSET D
         /\ Cardinality(s) \in Nat /\ Cardinality(s) # 0
         /\ Cardinality(s \ {Pick(s)}) = Cardinality(s) - 1
<1>1. Pick(s) \in s
  BY DEF Pick
<1>2. IsFiniteSet(s)
  BY FS_Subset
<1>3. Cardinality(s) \in Nat /\ Cardinality(s) # 0
  BY <1>2, FS_CardinalityType, FS_EmptySet
<1> QED BY <1>1, <1>2, <1>3, FS_RemoveElement

\* A family of subsets that holds the empty set, and any set when it holds the set without
\* its next element, holds them all.
LEMMA BySubsets ==
  ASSUME NEW D, IsFiniteSet(D), NEW G, {} \in G,
         \A s \in SUBSET D : s # {} /\ s \ {Pick(s)} \in G => s \in G
  PROVE  \A s \in SUBSET D : s \in G
<1> DEFINE S == {n \in Nat : \E s \in SUBSET D : Cardinality(s) = n /\ s \notin G}
<1> SUFFICES ASSUME NEW t \in SUBSET D, t \notin G PROVE FALSE
  OBVIOUS
<1>1. Cardinality(t) \in S
  <2>1. IsFiniteSet(t)
    BY FS_Subset
  <2> QED BY <2>1, FS_CardinalityType
<1>2. PICK m \in S : \A k \in Nat : k < m => k \notin S
  BY <1>1, Smallest, S \in SUBSET Nat
<1>3. PICK s \in SUBSET D : Cardinality(s) = m /\ s \notin G
  OBVIOUS
<1>4. s # {} /\ s \ {Pick(s)} \notin G
  BY <1>3
<1>5. /\ s \ {Pick(s)} \in SUBSET D /\ Cardinality(s \ {Pick(s)}) = m - 1
      /\ m \in Nat /\ m # 0
  BY <1>3, <1>4, Picking
<1>6. m - 1 \in Nat /\ m - 1 < m
  BY <1>5, SMT
<1>7. m - 1 \in S
  BY <1>4, <1>5, <1>6
<1> QED BY <1>2, <1>6, <1>7

\* The equations of the partial sums of f.
SumStep(f, g) ==
  [s \in SUBSET DOMAIN f |-> IF s = {} THEN 0 ELSE f[Pick(s)] + g[s \ {Pick(s)}]]
Sums(f) == CHOOSE g : g = SumStep(f, g)

\* The subsets with at most n elements, and the partial sums over them.
Small(D, n) == {s \in SUBSET D : Cardinality(s) <= n}
SmallSums(D, f, n) ==
  {g \in [Small(D, n) -> Int] :
     \A s \in Small(D, n) : g[s] = IF s = {} THEN 0 ELSE f[Pick(s)] + g[s \ {Pick(s)}]}

\* There are partial sums up to any size.
LEMMA SmallSumsExist ==
  ASSUME NEW D, IsFiniteSet(D), NEW f \in [D -> Int], NEW n \in Nat
  PROVE  SmallSums(D, f, n) # {}
<1> DEFINE S == {m \in Nat : SmallSums(D, f, m) = {}}
<1> SUFFICES ASSUME S # {} PROVE FALSE
  OBVIOUS
<1>1. PICK m \in S : \A k \in Nat : k < m => k \notin S
  BY Smallest, S \in SUBSET Nat
<1>c. \A s \in SUBSET D : Cardinality(s) \in Nat /\ (Cardinality(s) = 0 => s = {})
  BY FS_Subset, FS_CardinalityType, FS_EmptySet
<1>2. m \in Nat /\ m # 0
  <2> DEFINE z == [s \in Small(D, 0) |-> 0]
  <2>1. \A s \in Small(D, 0) : s = {}
    BY <1>c, SMT DEF Small
  <2>2. z \in SmallSums(D, f, 0)
    BY <2>1, SMT DEF SmallSums
  <2> QED BY <2>2
<1>3. m - 1 \in Nat /\ m - 1 < m
  BY <1>2, SMT
<1>4. PICK h : h \in SmallSums(D, f, m - 1)
  BY <1>1, <1>3
<1>5. /\ h \in [Small(D, m - 1) -> Int]
      /\ \A s \in Small(D, m - 1) :
           h[s] = IF s = {} THEN 0 ELSE f[Pick(s)] + h[s \ {Pick(s)}]
  BY <1>4 DEF SmallSums
<1> DEFINE k == [s \in Small(D, m) |->
                   IF s = {} THEN 0 ELSE f[Pick(s)] + h[s \ {Pick(s)}]]
<1>6. ASSUME NEW s \in Small(D, m), s # {}
      PROVE  s \ {Pick(s)} \in Small(D, m - 1) /\ Pick(s) \in D
  <2>1. s \in SUBSET D /\ Cardinality(s) <= m
    BY DEF Small
  <2>2. Pick(s) \in s /\ s \ {Pick(s)} \in SUBSET D /\ Cardinality(s) \in Nat
        /\ Cardinality(s \ {Pick(s)}) = Cardinality(s) - 1
    BY <1>6, <2>1, Picking
  <2>3. Cardinality(s) - 1 <= m - 1
    BY <1>2, <2>1, <2>2, SMT
  <2> QED BY <2>1, <2>2, <2>3 DEF Small
<1>7. \A s \in Small(D, m - 1) : s \in Small(D, m) /\ k[s] = h[s]
  <2>1. \A s \in SUBSET D : Cardinality(s) <= m - 1 => Cardinality(s) <= m
    BY <1>2, <1>c, SMT
  <2>2. \A s \in Small(D, m - 1) : s \in Small(D, m)
    BY <2>1 DEF Small
  <2> QED BY <1>5, <2>2
<1>8. k \in [Small(D, m) -> Int]
  <2>1. \A i, j \in Int : i + j \in Int
    BY SMT
  <2>2. \A s \in Small(D, m) : s # {} => f[Pick(s)] \in Int /\ h[s \ {Pick(s)}] \in Int
    BY <1>5, <1>6
  <2>3. 0 \in Int
    BY SMT
  <2> QED BY <2>1, <2>2, <2>3
<1>9. \A s \in Small(D, m) : k[s] = IF s = {} THEN 0 ELSE f[Pick(s)] + k[s \ {Pick(s)}]
  BY <1>6, <1>7
<1>10. k \in SmallSums(D, f, m)
  BY <1>8, <1>9 DEF SmallSums
<1> QED BY <1>10

\* The partial sums satisfy their equations.
LEMMA SumEquations ==
  ASSUME NEW D, IsFiniteSet(D), NEW f \in [D -> Int]
  PROVE  \A s \in SUBSET D :
           Sums(f)[s] = IF s = {} THEN 0 ELSE f[Pick(s)] + Sums(f)[s \ {Pick(s)}]
<1>1. DOMAIN f = D
  OBVIOUS
<1> DEFINE n == Cardinality(D)
<1>2. n \in Nat
  BY FS_CardinalityType
<1>3. Small(D, n) = SUBSET D
  BY FS_Subset DEF Small
<1> HIDE DEF n
<1>4. PICK g : g \in SmallSums(D, f, n)
  <2>1. SmallSums(D, f, n) # {}
    BY <1>2, SmallSumsExist
  <2> QED BY <2>1
<1>5. g = SumStep(f, g)
  <2>1. g \in [SUBSET D -> Int]
        /\ \A s \in SUBSET D : g[s] = IF s = {} THEN 0 ELSE f[Pick(s)] + g[s \ {Pick(s)}]
    BY <1>3, <1>4 DEF SmallSums
  <2> QED BY <1>1, <2>1 DEF SumStep
<1>6. Sums(f) = SumStep(f, Sums(f))
  BY <1>5 DEF Sums
<1> QED BY <1>1, <1>6 DEF SumStep

\* The sum of a function on a finite set is taken one element after the other.
LEMMA SumNext ==
  ASSUME NEW D, IsFiniteSet(D), NEW f \in [D -> Int], NEW s \in SUBSET D, s # {}
  PROVE  Sums(f)[s] = f[Pick(s)] + Sums(f)[s \ {Pick(s)}]
<1>1. Sums(f)[s] = IF s = {} THEN 0 ELSE f[Pick(s)] + Sums(f)[s \ {Pick(s)}]
  BY SumEquations
<1> QED BY <1>1

\* It starts with nothing and ends with the whole.
LEMMA SumFacts ==
  ASSUME NEW D, IsFiniteSet(D), NEW f \in [D -> Int]
  PROVE  SumFunction(f) = Sums(f)[D] /\ Sums(f)[{}] = 0
<1>1. SumFunction(f) = Sums(f)[DOMAIN f]
  BY DEF SumFunction, SumFunctionOnSet, FoldFunctionOnSet, MapThenFoldSet, Sums, SumStep, Pick
<1>2. Sums(f)[{}] = IF {} = {} THEN 0 ELSE f[Pick({})] + Sums(f)[{} \ {Pick({})}]
  BY SumEquations, {} \in SUBSET D
<1> QED BY <1>1, <1>2

\* Partial sums of integers are integers.
LEMMA SumIntegers ==
  ASSUME NEW D, IsFiniteSet(D), NEW f \in [D -> Int]
  PROVE  \A s \in SUBSET D : Sums(f)[s] \in Int
<1> DEFINE G == {s \in SUBSET D : Sums(f)[s] \in Int}
<1>1. {} \in G
  <2>1. 0 \in Int
    BY SMT
  <2> QED BY <2>1, SumFacts
<1>2. ASSUME NEW s \in SUBSET D, s # {}, s \ {Pick(s)} \in G PROVE s \in G
  <2>1. f[Pick(s)] \in Int
    <3>1. Pick(s) \in D
      BY <1>2, Picking
    <3> QED BY <3>1
  <2>2. Sums(f)[s] = f[Pick(s)] + Sums(f)[s \ {Pick(s)}]
    BY <1>2, SumNext, SMT
  <2>3. \A i, j \in Int : i + j \in Int
    BY SMT
  <2> QED BY <1>2, <2>1, <2>2, <2>3
<1>3. \A s \in SUBSET D : s \in G
  <2> HIDE DEF G
  <2> QED BY <1>1, <1>2, BySubsets
<1> QED BY <1>3

\* A sum does not fall when its terms do not.
LEMMA SumMonotone ==
  ASSUME NEW D, IsFiniteSet(D), NEW f \in [D -> Int], NEW g \in [D -> Int],
         \A x \in D : f[x] <= g[x]
  PROVE  /\ SumFunction(f) \in Int /\ SumFunction(g) \in Int
         /\ SumFunction(f) <= SumFunction(g)
<1> DEFINE G == {s \in SUBSET D : Sums(f)[s] <= Sums(g)[s]}
<1>1. {} \in G
  <2>1. 0 <= 0
    BY SMT
  <2> QED BY <2>1, SumFacts
<1>2. ASSUME NEW s \in SUBSET D, s # {}, s \ {Pick(s)} \in G PROVE s \in G
  <2>1. /\ Pick(s) \in D /\ f[Pick(s)] \in Int /\ g[Pick(s)] \in Int
        /\ f[Pick(s)] <= g[Pick(s)]
    <3>1. Pick(s) \in D
      BY <1>2, Picking
    <3> QED BY <3>1
  <2>2. /\ Sums(f)[s] = f[Pick(s)] + Sums(f)[s \ {Pick(s)}]
        /\ Sums(g)[s] = g[Pick(s)] + Sums(g)[s \ {Pick(s)}]
    <3>1. Sums(f)[s] = f[Pick(s)] + Sums(f)[s \ {Pick(s)}]
      BY <1>2, SumNext, SMT
    <3>2. Sums(g)[s] = g[Pick(s)] + Sums(g)[s \ {Pick(s)}]
      BY <1>2, SumNext, SMT
    <3> QED BY <3>1, <3>2
  <2>3. Sums(f)[s \ {Pick(s)}] \in Int /\ Sums(g)[s \ {Pick(s)}] \in Int
    BY SumIntegers
  <2>4. Sums(f)[s \ {Pick(s)}] <= Sums(g)[s \ {Pick(s)}]
    BY <1>2
  <2>5. Sums(f)[s] <= Sums(g)[s]
    BY <2>1, <2>2, <2>3, <2>4, SMT
  <2> QED BY <2>5
<1>3. \A s \in SUBSET D : s \in G
  <2> HIDE DEF G
  <2> QED BY <1>1, <1>2, BySubsets
<1>4. D \in SUBSET D
  OBVIOUS
<1>5. SumFunction(f) = Sums(f)[D] /\ SumFunction(g) = Sums(g)[D]
  BY SumFacts
<1>6. Sums(f)[D] \in Int /\ Sums(g)[D] \in Int
  BY <1>4, SumIntegers
<1>7. Sums(f)[D] <= Sums(g)[D]
  BY <1>3, <1>4
<1> QED BY <1>5, <1>6, <1>7

\* A sum changes by what one of its terms changes.
LEMMA SumChange ==
  ASSUME NEW D, IsFiniteSet(D), NEW f \in [D -> Int], NEW g \in [D -> Int], NEW d \in D,
         \A x \in D : x # d => f[x] = g[x]
  PROVE  SumFunction(g) = SumFunction(f) + g[d] - f[d]
<1> DEFINE G == {s \in SUBSET D : Sums(g)[s] =
                   IF d \in s THEN Sums(f)[s] + g[d] - f[d] ELSE Sums(f)[s]}
<1>1. {} \in G
  BY SumFacts
<1>2. ASSUME NEW s \in SUBSET D, s # {}, s \ {Pick(s)} \in G PROVE s \in G
  <2>0. s # {}
    BY <1>2
  <2> DEFINE t == s \ {Pick(s)}
             x == Pick(s)
  <2>1. /\ x \in s /\ x \in D /\ f[x] \in Int /\ g[x] \in Int /\ (x # d => f[x] = g[x])
        /\ f[d] \in Int /\ g[d] \in Int /\ t \in SUBSET D
    <3>1. x \in s /\ x \in D
      BY <1>2, Picking
    <3> HIDE DEF x
    <3> QED BY <3>1
  <2>2. Sums(f)[s] = f[x] + Sums(f)[t] /\ Sums(g)[s] = g[x] + Sums(g)[t]
    BY <2>0, SumNext, SMT
  <2>3. Sums(f)[t] \in Int /\ Sums(g)[t] \in Int
    BY <2>1, SumIntegers
  <2>4. Sums(g)[t] = IF d \in t THEN Sums(f)[t] + g[d] - f[d] ELSE Sums(f)[t]
    BY <1>2
  <2>5. d \in s <=> d \in t \/ d = x
    BY <2>1
  <2>6. d \in t => d # x
    OBVIOUS
  <2> HIDE DEF t, x
  <2>7. Sums(g)[s] = IF d \in s THEN Sums(f)[s] + g[d] - f[d] ELSE Sums(f)[s]
    BY <2>1, <2>2, <2>3, <2>4, <2>5, <2>6, SMT
  <2> QED BY <1>2, <2>7
<1>3. \A s \in SUBSET D : s \in G
  <2> HIDE DEF G
  <2> QED BY <1>1, <1>2, BySubsets
<1>4. D \in SUBSET D
  OBVIOUS
<1>5. SumFunction(f) = Sums(f)[D] /\ SumFunction(g) = Sums(g)[D]
  BY SumFacts
<1>6. Sums(g)[D] = Sums(f)[D] + g[d] - f[d]
  BY <1>3, <1>4
<1> QED BY <1>5, <1>6

\* The sum of zeros.
LEMMA SumZeros ==
  ASSUME NEW D, IsFiniteSet(D)
  PROVE  SumFunction([x \in D |-> 0]) = 0
<1> DEFINE z == [x \in D |-> 0]
           G == {s \in SUBSET D : Sums(z)[s] = 0}
<1>1. z \in [D -> Int] /\ \A x \in D : z[x] = 0
  BY SMT
<1> HIDE DEF z
<1>2. {} \in G
  BY <1>1, SumFacts
<1>3. ASSUME NEW s \in SUBSET D, s # {}, s \ {Pick(s)} \in G PROVE s \in G
  <2>1. z[Pick(s)] = 0
    <3>1. Pick(s) \in D
      BY <1>3, Picking
    <3> QED BY <1>1, <3>1
  <2>2. Sums(z)[s] = z[Pick(s)] + Sums(z)[s \ {Pick(s)}]
    BY <1>1, <1>3, SumNext, SMT
  <2>3. 0 + 0 = 0
    BY SMT
  <2> QED BY <1>3, <2>1, <2>2, <2>3
<1>4. \A s \in SUBSET D : s \in G
  <2> HIDE DEF G
  <2> QED BY <1>2, <1>3, BySubsets
<1>5. D \in SUBSET D
  OBVIOUS
<1>6. SumFunction(z) = 0
  BY <1>1, <1>4, <1>5, SumFacts
<1> QED BY <1>6 DEF z

\* A sum of naturals is one.
LEMMA SumNaturals ==
  ASSUME NEW D, IsFiniteSet(D), NEW f \in [D -> Nat]
  PROVE  SumFunction(f) \in Nat
<1> DEFINE z == [x \in D |-> 0]
<1>1. z \in [D -> Int] /\ f \in [D -> Int] /\ \A x \in D : z[x] <= f[x]
  BY SMT
<1>2. SumFunction(z) = 0
  BY SumZeros
<1> HIDE DEF z
<1>3. SumFunction(f) \in Int /\ SumFunction(z) <= SumFunction(f)
  BY <1>1, SumMonotone
<1> QED BY <1>2, <1>3, SMT

-----------------------------------------------------------------------------
(* The inductive invariant *)

\* Artifacts that a copy may point to, now or later.
Settled == {"succeeded", "expired"}
\* Artifacts that no process writes to any more.
Closed == Terminal \cup {"expired"}
RowStates == {"absent", "sealed", "normalized", "expired"} \cup Terminal
Row == [state : RowStates, result : Nat, outs : [OutputSet -> OutputStates], retained : Nat,
        reserved : Nat, calls : Nat, observed : Nat, expires : Nat, from : Runs \cup {NoRun}]

\* One row of frozen_runs on its own: what each state says of the other columns.
RowInv(row) ==
  /\ row \in Row
  /\ row.state = "absent" => row = NoArtifact
  /\ row.state = "sealed" => row.result = 0 /\ row.outs = NoOutputs
  /\ row.state \in {"sealed", "normalized"} => row.reserved = MaxArtifactBytes
  /\ row.state \in {"normalized"} \cup Terminal => row.result # 0
  /\ row.state \in Closed => row.reserved = 0
  /\ row.from # NoRun => row.state \in Settled
  /\ row.retained = IF row.state \in {"absent", "expired"} THEN 0
                    ELSE ManifestBytes + row.result + AllOutputBytes(row.outs)
  /\ row.retained <= MaxArtifactBytes

\* What a copy was made from is settled for good.
CopyInv ==
  \A r \in Runs :
    art[r].from # NoRun =>
      /\ art[art[r].from].state \in Settled
      /\ art[r].observed = art[art[r].from].observed
      /\ art[r].expires <= art[art[r].from].expires

\* The rows of the tables, and what a process knows.
OpRow == [status : {"none", "pending", "running", "succeeded", "blocked", "failed", "cancelled"},
          fence : Nat, live : BOOLEAN, created : 0 .. MaxTime]
ReadRow(r) == [number : 0 .. QueryAttempts[r], at : 0 .. MaxTime,
               state : {"none", "open", "retryable", "succeeded"}]
DeliveryRow == [queries : 0 .. QueryLimit, calls : 0 .. CallLimit,
                query : {"pending", "succeeded"}, artifact : {"pending", "retained"},
                catalog : {"pending", "available", "unavailable"}]
Process == [run : Runs \cup {NoRun}, fence : Nat, step : Steps,
            known : [OutputSet -> OutputStates], number : Nat, used : 0 .. MaxCalls]

\* A process between the start of a narrative and its end.
Asking == {"model", "granted"}

\* The output a process works on, by what it knows.
First(known, i) ==
  known[Outputs[i]] \notin Final /\ \A j \in 1 .. i - 1 : known[Outputs[j]] \in Final
Asks(p, r, o) ==
  /\ p.run = r /\ p.step \in Asking
  /\ \E i \in 1 .. Len(Outputs) : First(p.known, i) /\ Outputs[i] = o

\* What a process remembers.
ProcInv(p) ==
  /\ p \in Process
  /\ p.step # "idle" => p.run \in Runs
  /\ p.step \notin Asking => p.used = 0
  /\ p.step = "reserved" => p.number \in 1 .. QueryAttempts[p.run]

\* Every variable has its type, with the invariant of every row and process.
StateTypeOK ==
  /\ now \in 1 .. MaxTime
  /\ scheduled \in SUBSET Runs
  /\ op \in [Runs -> OpRow]
  /\ DOMAIN art = Runs /\ \A r \in Runs : RowInv(art[r])
  /\ DOMAIN read = Runs /\ \A r \in Runs : read[r] \in ReadRow(r)
  /\ delivery \in [Runs -> DeliveryRow]
  /\ DOMAIN proc = Actors /\ \A a \in Actors : ProcInv(proc[a])
  /\ queried \in [Runs -> Nat]
  /\ called \in [Runs -> [Narratives -> Nat]]

Granted(r, o) == \E a \in Actors : proc[a].step = "granted" /\ Asks(proc[a], r, o)

\* A narrative has one process that asks for it, ever, and it asks within its count.
NarrativeInv(r, o) ==
  /\ called[r][o] <= MaxCalls
  /\ art[r].state # "expired" /\ art[r].outs[o] = "absent" => called[r][o] = 0
  /\ \A a \in Actors : Asks(proc[a], r, o) =>
       /\ art[r].state # "expired" => art[r].outs[o] # "absent"
       /\ called[r][o] + (IF proc[a].step = "granted" THEN 1 ELSE 0) <= proc[a].used
       /\ \A b \in Actors : Asks(proc[b], r, o) => a = b

\* Whoever asks, asks for a narrative.
AskInv ==
  /\ \A a \in Actors :
       proc[a].step \in Asking => \E o \in Narratives : Asks(proc[a], proc[a].run, o)
  /\ \A r \in Runs, o \in Narratives : NarrativeInv(r, o)

\* Calls made, and calls reserved that a process is about to make.
Grants(r) == {o \in Narratives : Granted(r, o)}
Credits(c, G) == [o \in Narratives |-> c[o] + (IF o \in G THEN 1 ELSE 0)]

\* Queries are numbered reservations; calls made and granted are within those reserved.
SpendInv ==
  /\ \A r \in Runs : queried[r] = read[r].number
  /\ \A r \in scheduled :
       /\ read[r].number <= delivery[r].queries
       /\ SumFunction(Credits(called[r], Grants(r))) <= delivery[r].calls
  /\ \A a \in Actors :
       proc[a].step = "reserved" /\ proc[a].run \in scheduled =>
         proc[a].number <= delivery[proc[a].run].queries

\* A delivery row is published once, with the completion of its run.
ReceiptInv ==
  \A r \in scheduled :
    /\ delivery[r].artifact = "retained" => delivery[r].catalog # "pending"
    /\ delivery[r].catalog = "available" <=> op[r].status = "succeeded"
    /\ delivery[r].catalog # "pending" => art[r].state \in Closed

\* The inductive invariant.
ArtifactInv ==
  StateTypeOK /\ CopyInv /\ TenantQuota /\ AskInv /\ SpendInv /\ ReceiptInv

-----------------------------------------------------------------------------
(* Bytes *)

\* The limits are numbers.
LEMMA Limits ==
  /\ MaxArtifactBytes \in Nat /\ ManifestBytes \in Nat /\ ManifestBytes <= MaxArtifactBytes
  /\ MaxTenantBytes \in Nat /\ MaxCalls \in Nat /\ Retention \in Nat
<1>1. ManifestBytes \in Nat
  BY SMT DEF ManifestBytes
<1> QED BY <1>1, ArtifactAssumption

\* The clock may show its first time.
LEMMA ClockStarts == 1 \in 1 .. MaxTime
BY ArtifactAssumption, SMT

\* There are finitely many outputs.
LEMMA OutputsFinite == IsFiniteSet(OutputSet)
<1> DEFINE n == Len(Outputs)
<1>1. n \in Nat
  BY ArtifactAssumption, SMT
<1>2. IsFiniteSet(1 .. n)
  BY <1>1, FS_Interval, SMT
<1>3. OutputSet = {Outputs[i] : i \in 1 .. n}
  BY DEF OutputSet
<1> DEFINE f == [i \in 1 .. n |-> Outputs[i]]
<1> HIDE DEF n
<1>4. f \in Surjection(1 .. n, OutputSet)
  BY <1>3 DEF Surjection
<1> QED BY <1>2, <1>4, FS_Surjection

\* The sizes of outputs are numbers.
LEMMA SizesAreNaturals ==
  ASSUME NEW outs \in [OutputSet -> OutputStates]
  PROVE  [o \in OutputSet |-> OutputBytes(outs[o])] \in [OutputSet -> Nat]
<1>1. \A s \in OutputStates : OutputBytes(s) \in Nat
  BY SMT DEF OutputBytes, OutputStates, Final
<1> QED BY <1>1

\* Stored bytes are a natural number.
LEMMA BytesAreNatural ==
  ASSUME NEW outs \in [OutputSet -> OutputStates]
  PROVE  AllOutputBytes(outs) \in Nat
<1> DEFINE f == [o \in OutputSet |-> OutputBytes(outs[o])]
<1>1. f \in [OutputSet -> Nat]
  BY SizesAreNaturals
<1>2. AllOutputBytes(outs) = SumFunction(f)
  BY DEF AllOutputBytes
<1> HIDE DEF f
<1> QED BY <1>1, <1>2, OutputsFinite, SumNaturals

\* An artifact without outputs stores nothing.
LEMMA NoOutputsFacts ==
  /\ NoOutputs \in [OutputSet -> OutputStates] /\ AllOutputBytes(NoOutputs) = 0
  /\ \A o \in OutputSet : NoOutputs[o] = "absent"
<1>1. NoOutputs \in [OutputSet -> OutputStates] /\ \A o \in OutputSet : NoOutputs[o] = "absent"
  BY DEF NoOutputs, OutputStates
<1>2. [o \in OutputSet |-> OutputBytes(NoOutputs[o])] = [o \in OutputSet |-> 0]
  BY <1>1 DEF OutputBytes
<1>3. SumFunction([o \in OutputSet |-> 0]) = 0
  BY OutputsFinite, SumZeros
<1> QED BY <1>1, <1>2, <1>3 DEF AllOutputBytes

\* Replacing one output changes the total by the difference of the two sizes.
LEMMA BytesChange ==
  ASSUME NEW outs \in [OutputSet -> OutputStates], NEW o \in OutputSet, NEW s \in OutputStates
  PROVE  /\ [outs EXCEPT ![o] = s] \in [OutputSet -> OutputStates]
         /\ AllOutputBytes([outs EXCEPT ![o] = s]) =
              AllOutputBytes(outs) + OutputBytes(s) - OutputBytes(outs[o])
         /\ OutputBytes(s) \in Nat /\ OutputBytes(outs[o]) \in Nat
<1> DEFINE new == [outs EXCEPT ![o] = s]
           f == [x \in OutputSet |-> OutputBytes(outs[x])]
           g == [x \in OutputSet |-> OutputBytes(new[x])]
<1>1. new \in [OutputSet -> OutputStates] /\ new[o] = s
      /\ \A x \in OutputSet : x # o => new[x] = outs[x]
  OBVIOUS
<1> HIDE DEF new
<1>2. f \in [OutputSet -> Nat] /\ g \in [OutputSet -> Nat]
  BY <1>1, SizesAreNaturals
<1>3. f[o] = OutputBytes(outs[o]) /\ g[o] = OutputBytes(s)
      /\ \A x \in OutputSet : x # o => f[x] = g[x]
  BY <1>1
<1>4. AllOutputBytes(outs) = SumFunction(f) /\ AllOutputBytes(new) = SumFunction(g)
  BY DEF AllOutputBytes
<1> HIDE DEF f, g
<1>5. f \in [OutputSet -> Int] /\ g \in [OutputSet -> Int] /\ f[o] \in Nat /\ g[o] \in Nat
  BY <1>2, SMT
<1>6. SumFunction(g) = SumFunction(f) + g[o] - f[o]
  <2>1. \A x \in OutputSet : x # o => f[x] = g[x]
    BY <1>3
  <2> QED BY <1>5, <2>1, OutputsFinite, SumChange, SMT
<1>7. AllOutputBytes(new) = AllOutputBytes(outs) + OutputBytes(s) - OutputBytes(outs[o])
  BY <1>3, <1>4, <1>6
<1>8. OutputBytes(s) \in Nat /\ OutputBytes(outs[o]) \in Nat
  BY <1>3, <1>5
<1> QED BY <1>1, <1>7, <1>8 DEF new

-----------------------------------------------------------------------------
(* Rows: each write keeps the row's invariant *)

ChargeOf(row) == Greatest(row.retained, row.reserved)

\* No write brings back an output, reopens a closed row or changes what a copy relied on.
Moves(x, y) ==
  /\ \A o \in OutputSet :
       y.state # "expired" /\ y.outs[o] = "absent" => x.state # "expired" /\ x.outs[o] = "absent"
  /\ x.state \in Settled =>
       y.state \in Settled /\ y.observed = x.observed /\ y.expires = x.expires
  /\ x.state \in Closed => y.state \in Closed

\* A row becomes a kept one that counts for no more than before.
Write(x, y) == RowInv(y) /\ Moves(x, y) /\ ChargeOf(y) <= ChargeOf(x)

\* The types of a row's columns.
LEMMA RowTypes ==
  ASSUME NEW row, RowInv(row)
  PROVE  /\ row.state \in RowStates /\ row.result \in Nat
         /\ row.outs \in [OutputSet -> OutputStates] /\ row.retained \in Nat
         /\ row.reserved \in Nat /\ row.calls \in Nat /\ row.observed \in Nat
         /\ row.expires \in Nat /\ row.from \in Runs \cup {NoRun}
BY DEF RowInv, Row

\* A row is kept when its columns are.
LEMMA SameRow == ASSUME NEW x, RowInv(x) PROVE Write(x, x)
<1>1. ChargeOf(x) <= ChargeOf(x)
  BY RowTypes, SMT DEF ChargeOf, Greatest
<1> QED BY <1>1 DEF Write, Moves

\* A run that was never sealed has a row that says so.
LEMMA NoArtifactInv == RowInv(NoArtifact) /\ ChargeOf(NoArtifact) = 0
<1>1. NoArtifact \in Row
  <2>1. 0 \in Nat /\ "absent" \in RowStates /\ NoRun \in Runs \cup {NoRun}
    BY SMT DEF RowStates
  <2> QED BY <2>1, NoOutputsFacts DEF NoArtifact, Row
<1>2. NoArtifact.state = "absent" /\ NoArtifact.retained = 0 /\ NoArtifact.reserved = 0
      /\ NoArtifact.from = NoRun
  BY DEF NoArtifact
<1>3. Greatest(0, 0) = 0 /\ 0 <= MaxArtifactBytes
  BY Limits, SMT DEF Greatest
<1> QED BY <1>1, <1>2, <1>3 DEF RowInv, ChargeOf, Terminal, Closed

\* Sealing reserves the whole artifact.
LEMMA SealedRowInv ==
  ASSUME NEW r, op[r].created \in 0 .. MaxTime
  PROVE  /\ RowInv(SealedRow(r)) /\ Moves(NoArtifact, SealedRow(r))
         /\ SealedRow(r).from = NoRun /\ ChargeOf(SealedRow(r)) = MaxArtifactBytes
<1> DEFINE y == SealedRow(r)
<1>1. NoArtifact \in Row
  BY NoArtifactInv DEF RowInv
<1>2. 0 \in Nat /\ ManifestBytes \in Nat /\ MaxArtifactBytes \in Nat
      /\ op[r].created + Retention \in Nat
      /\ ManifestBytes + 0 + 0 = ManifestBytes /\ ManifestBytes <= MaxArtifactBytes
      /\ Greatest(ManifestBytes, MaxArtifactBytes) = MaxArtifactBytes
  BY Limits, SMT DEF Greatest
<1>3. "sealed" \in RowStates /\ "sealed" \notin {"absent", "expired"} /\ "sealed" \notin Closed
      /\ "sealed" \notin {"normalized"} \cup Terminal
  BY DEF RowStates, Closed, Terminal
<1>4. y \in Row
  BY <1>1, <1>2, <1>3, NoOutputsFacts DEF Row, SealedRow
<1>5. y.state = "sealed" /\ y.result = 0 /\ y.outs = NoOutputs /\ y.retained = ManifestBytes
      /\ y.reserved = MaxArtifactBytes /\ y.from = NoRun
  BY DEF SealedRow, NoArtifact
<1> HIDE DEF y
<1>6. RowInv(y)
  BY <1>2, <1>3, <1>4, <1>5, NoOutputsFacts DEF RowInv
<1>7. Moves(NoArtifact, y)
  <2>1. NoArtifact.state = "absent" /\ NoArtifact.outs = NoOutputs
    BY DEF NoArtifact
  <2> QED BY <2>1, NoOutputsFacts DEF Moves, Settled, Closed, Terminal
<1> QED BY <1>2, <1>5, <1>6, <1>7 DEF y, ChargeOf

\* The row with its result.
WithResult(row, size, at) ==
  [row EXCEPT !.result = size, !.retained = row.retained + size, !.state = "normalized",
              !.observed = at]

\* Saving the result.
LEMMA ResultRowInv ==
  ASSUME NEW x, RowInv(x), x.state \in {"sealed", "normalized"}, x.result = 0,
         NEW size \in ResultBytes, x.retained + size <= MaxArtifactBytes, NEW at \in Nat
  PROVE  Write(x, WithResult(x, size, at)) /\ WithResult(x, size, at).from = x.from
<1> DEFINE y == WithResult(x, size, at)
<1>1. x \in Row /\ x.state = "sealed" /\ x.outs = NoOutputs /\ x.reserved = MaxArtifactBytes
      /\ x.from = NoRun /\ x.retained = ManifestBytes + 0 + 0 /\ size \in Nat \ {0}
  BY ArtifactAssumption, NoOutputsFacts DEF RowInv, Settled, Terminal
<1>2. y \in Row /\ y.state = "normalized" /\ y.result = size /\ y.outs = x.outs
      /\ y.retained = x.retained + size /\ y.reserved = x.reserved /\ y.from = x.from
  <2>1. "normalized" \in RowStates /\ x.retained + size \in Nat
    BY <1>1, RowTypes, SMT DEF RowStates
  <2> QED BY <1>1, <2>1 DEF Row, WithResult
<1> HIDE DEF y
<1>3. y.retained = ManifestBytes + size + 0 /\ y.retained <= MaxArtifactBytes
      /\ ChargeOf(y) <= ChargeOf(x)
  BY <1>1, <1>2, Limits, SMT DEF ChargeOf, Greatest
<1>4. RowInv(y)
  BY <1>1, <1>2, <1>3, NoOutputsFacts DEF RowInv, Settled, Closed, Terminal
<1>5. Moves(x, y)
  BY <1>1, <1>2 DEF Moves, Settled, Closed, Terminal
<1> QED BY <1>2, <1>3, <1>4, <1>5 DEF Write, y

\* Storing an output, or the trace of a narrative that was started.
LEMMA OutputRowInv ==
  ASSUME NEW x, RowInv(x), x.state = "normalized", NEW o \in OutputSet,
         NEW s \in OutputStates, s # "absent",
         x.retained + (OutputBytes(s) - OutputBytes(x.outs[o])) <= MaxArtifactBytes
  PROVE  /\ Write(x, Retain(x, o, s)) /\ Retain(x, o, s).from = x.from
         /\ Retain(x, o, s).state = "normalized"
<1> DEFINE y == Retain(x, o, s)
           n == x.retained + OutputBytes(s) - OutputBytes(x.outs[o])
<1>1. x \in Row /\ x.reserved = MaxArtifactBytes /\ x.result # 0 /\ x.from = NoRun
      /\ x.retained = ManifestBytes + x.result + AllOutputBytes(x.outs)
  BY DEF RowInv, Settled
<1>2. x.outs \in [OutputSet -> OutputStates] /\ x.result \in Nat /\ x.retained \in Nat
  BY RowTypes
<1>3. /\ [x.outs EXCEPT ![o] = s] \in [OutputSet -> OutputStates]
      /\ AllOutputBytes([x.outs EXCEPT ![o] = s]) =
           AllOutputBytes(x.outs) + OutputBytes(s) - OutputBytes(x.outs[o])
      /\ OutputBytes(s) \in Nat /\ OutputBytes(x.outs[o]) \in Nat
  BY <1>2, BytesChange
<1>4. AllOutputBytes([x.outs EXCEPT ![o] = s]) \in Nat /\ AllOutputBytes(x.outs) \in Nat
  BY <1>2, <1>3, BytesAreNatural
<1>5. n = ManifestBytes + x.result + AllOutputBytes([x.outs EXCEPT ![o] = s]) /\ n \in Nat
      /\ n <= MaxArtifactBytes
  <2> DEFINE t == AllOutputBytes(x.outs)
             u == AllOutputBytes([x.outs EXCEPT ![o] = s])
             b == OutputBytes(s)
             c == OutputBytes(x.outs[o])
  <2>1. /\ x.retained = ManifestBytes + x.result + t /\ u = t + b - c
        /\ x.result \in Nat /\ t \in Nat /\ u \in Nat /\ b \in Nat /\ c \in Nat
        /\ x.retained + (b - c) <= MaxArtifactBytes /\ ManifestBytes \in Nat
    BY <1>1, <1>2, <1>3, <1>4, Limits, SMT
  <2> HIDE DEF t, u, b, c
  <2>2. x.retained + b - c = ManifestBytes + x.result + u
        /\ x.retained + b - c \in Nat /\ x.retained + b - c <= MaxArtifactBytes
    BY <2>1, Limits, SMT
  <2> QED BY <2>2 DEF u, b, c
<1> HIDE DEF n
<1>6. y \in Row /\ y.state = x.state /\ y.result = x.result /\ y.outs = [x.outs EXCEPT ![o] = s]
      /\ y.retained = n /\ y.reserved = x.reserved /\ y.from = x.from
  BY <1>1, <1>3, <1>5 DEF Row, Retain, n
<1> HIDE DEF y
<1>7. RowInv(y)
  BY <1>1, <1>5, <1>6 DEF RowInv, Settled, Closed, Terminal
<1>8. ChargeOf(y) <= ChargeOf(x)
  BY <1>1, <1>2, <1>5, <1>6, Limits, SMT DEF ChargeOf, Greatest
<1>9. Moves(x, y)
  <2>1. \A z \in OutputSet : y.outs[z] = "absent" => x.outs[z] = "absent"
    BY <1>2, <1>6
  <2> QED BY <1>6, <2>1 DEF Moves, Settled, Closed, Terminal
<1> QED BY <1>6, <1>7, <1>8, <1>9 DEF y, Write

\* The reserved calls change nothing else.
LEMMA StartedRowInv ==
  ASSUME NEW x, RowInv(x), x.state = "normalized", NEW o \in OutputSet, x.outs[o] = "absent",
         x.retained + OutputBytes("indeterminate") <= MaxArtifactBytes
  PROVE  /\ Write(x, Started(x, o)) /\ Started(x, o).from = x.from
         /\ Started(x, o).state = "normalized" /\ Started(x, o).outs[o] = "indeterminate"
<1> DEFINE z == Retain(x, o, "indeterminate")
           y == Started(x, o)
<1>1. "indeterminate" \in OutputStates /\ "indeterminate" # "absent"
  BY DEF OutputStates
<1>2. x.retained + (OutputBytes("indeterminate") - OutputBytes(x.outs[o])) <= MaxArtifactBytes
  BY RowTypes, SMT DEF OutputBytes
<1>3. Write(x, z) /\ z.from = x.from /\ z.state = "normalized"
  BY <1>1, <1>2, OutputRowInv
<1>4. z.outs[o] = "indeterminate"
  <2>1. x.outs \in [OutputSet -> OutputStates]
    BY RowTypes
  <2>2. z.outs = [x.outs EXCEPT ![o] = "indeterminate"]
    BY DEF Retain, RowInv, Row
  <2> QED BY <2>1, <2>2
<1>5. y = [z EXCEPT !.calls = z.calls + MaxCalls]
  BY DEF Started
<1>6. RowInv(z) /\ z \in Row /\ z.calls + MaxCalls \in Nat
  <2>1. RowInv(z)
    BY <1>3 DEF Write
  <2> HIDE DEF z
  <2>2. z.calls \in Nat
    BY <2>1, RowTypes
  <2> QED BY <2>1, <2>2, Limits, SMT DEF RowInv
<1> HIDE DEF z, y
<1>7. y \in Row /\ y.state = z.state /\ y.result = z.result /\ y.outs = z.outs
      /\ y.retained = z.retained /\ y.reserved = z.reserved /\ y.from = z.from
      /\ y.observed = z.observed /\ y.expires = z.expires
  BY <1>5, <1>6 DEF Row
<1>8. RowInv(y)
  BY <1>3, <1>6, <1>7 DEF RowInv
<1>9. Moves(x, y) /\ ChargeOf(y) <= ChargeOf(x)
  BY <1>3, <1>7 DEF Moves, ChargeOf, Write
<1> QED BY <1>3, <1>4, <1>7, <1>8, <1>9 DEF y, Write

\* The row of a completed run.
Finished(row, outcome) == [row EXCEPT !.state = outcome, !.reserved = 0]

\* Completion gives back what was reserved.
LEMMA CompletedRowInv ==
  ASSUME NEW x, RowInv(x), x.state \in {"sealed", "normalized"}, x.result # 0,
         NEW outcome \in Terminal
  PROVE  /\ Write(x, Finished(x, outcome)) /\ Finished(x, outcome).from = x.from
         /\ Finished(x, outcome).state = outcome
<1> DEFINE y == Finished(x, outcome)
<1>1. x \in Row /\ x.state = "normalized" /\ x.from = NoRun
      /\ x.retained = ManifestBytes + x.result + AllOutputBytes(x.outs)
      /\ x.retained <= MaxArtifactBytes
  BY DEF RowInv, Settled
<1>2. outcome \in RowStates /\ outcome \in Closed /\ outcome \notin {"sealed", "normalized"}
      /\ outcome \notin {"absent", "expired"} /\ 0 \in Nat
  BY SMT DEF Terminal, RowStates, Closed
<1>3. y \in Row /\ y.state = outcome /\ y.result = x.result /\ y.outs = x.outs
      /\ y.retained = x.retained /\ y.reserved = 0 /\ y.from = x.from
  BY <1>1, <1>2 DEF Row, Finished
<1> HIDE DEF y
<1>4. ChargeOf(y) <= ChargeOf(x)
  BY <1>3, RowTypes, SMT DEF ChargeOf, Greatest
<1>5. RowInv(y)
  BY <1>1, <1>2, <1>3 DEF RowInv
<1>6. Moves(x, y)
  BY <1>1, <1>3 DEF Moves, Settled, Closed, Terminal
<1> QED BY <1>3, <1>4, <1>5, <1>6 DEF Write, y

\* Erasure keeps what a copy relied on.
LEMMA TombstoneRowInv ==
  ASSUME NEW x, RowInv(x), x.state \notin {"absent", "expired"}
  PROVE  Write(x, Tombstone(x)) /\ Tombstone(x).from = x.from
<1> DEFINE y == Tombstone(x)
<1>1. x \in Row
  BY DEF RowInv
<1>2. "expired" \in RowStates /\ "expired" \in Closed /\ "expired" \in Settled /\ 0 \in Nat
      /\ "expired" \notin {"normalized"} \cup Terminal
  BY SMT DEF Terminal, RowStates, Closed, Settled
<1>3. y \in Row /\ y.state = "expired" /\ y.result = 0 /\ y.outs = NoOutputs
      /\ y.retained = 0 /\ y.reserved = 0 /\ y.from = x.from
      /\ y.observed = x.observed /\ y.expires = x.expires
  BY <1>1, <1>2, NoOutputsFacts DEF Row, Tombstone
<1> HIDE DEF y
<1>4. ChargeOf(y) <= ChargeOf(x) /\ 0 <= MaxArtifactBytes
  BY <1>3, RowTypes, Limits, SMT DEF ChargeOf, Greatest
<1>5. RowInv(y)
  BY <1>2, <1>3, <1>4 DEF RowInv
<1>6. Moves(x, y)
  BY <1>2, <1>3 DEF Moves
<1> QED BY <1>3, <1>4, <1>5, <1>6 DEF y, Write

\* A copy of a succeeded row into a sealed one.
LEMMA CopyRowInv ==
  ASSUME NEW r \in Runs, NEW c \in Runs, RowInv(art[r]), RowInv(art[c]),
         art[r].state = "sealed", art[c].state = "succeeded",
         art[r].retained + (art[c].result + AllOutputBytes(art[c].outs)) <= MaxArtifactBytes
  PROVE  /\ Write(art[r], Copy(r, c)) /\ Copy(r, c).state = "succeeded"
         /\ Copy(r, c).from = c /\ Copy(r, c).observed = art[c].observed
         /\ Copy(r, c).expires <= art[c].expires
<1> DEFINE x == art[r]
           z == art[c]
           y == Copy(r, c)
           t == AllOutputBytes(art[c].outs)
<1>1. x \in Row /\ x.result = 0 /\ x.outs = NoOutputs /\ x.reserved = MaxArtifactBytes
      /\ x.retained = ManifestBytes + 0 + 0
  BY NoOutputsFacts DEF RowInv
<1>2. z.result # 0 /\ z.result \in Nat /\ z.outs \in [OutputSet -> OutputStates] /\ t \in Nat
      /\ z.observed \in Nat /\ z.expires \in Nat
  <2>1. z.result # 0
    BY DEF RowInv, Terminal
  <2>2. z.outs \in [OutputSet -> OutputStates] /\ z.result \in Nat
        /\ z.observed \in Nat /\ z.expires \in Nat
    BY RowTypes
  <2> QED BY <2>1, <2>2, BytesAreNatural
<1>3. x.expires \in Nat
  BY RowTypes
<1>4. y = [x EXCEPT !.state = "succeeded", !.result = z.result, !.outs = z.outs,
             !.retained = x.retained + z.result + t, !.reserved = 0,
             !.observed = z.observed, !.from = c, !.expires = Least(x.expires, z.expires)]
  BY DEF Copy
<1>f. x.retained + (z.result + t) <= MaxArtifactBytes
  OBVIOUS
<1>t. t = AllOutputBytes(z.outs)
  OBVIOUS
<1> HIDE DEF x, y, z, t
<1>5. /\ x.retained + z.result + t \in Nat /\ x.retained + z.result + t <= MaxArtifactBytes
      /\ x.retained + z.result + t = ManifestBytes + z.result + t
      /\ Least(x.expires, z.expires) \in Nat /\ Least(x.expires, z.expires) <= z.expires
      /\ 0 \in Nat
  BY <1>1, <1>2, <1>3, <1>f, Limits, SMT DEF Least
<1>6. "succeeded" \in RowStates /\ "succeeded" \in Closed /\ "succeeded" \in Settled
  BY DEF Terminal, RowStates, Closed, Settled
<1>7. y \in Row
  BY <1>1, <1>2, <1>4, <1>5, <1>6 DEF Row
<1>8. y.state = "succeeded" /\ y.result = z.result /\ y.outs = z.outs
      /\ y.retained = x.retained + z.result + t /\ y.reserved = 0 /\ y.from = c
      /\ y.observed = z.observed /\ y.expires = Least(x.expires, z.expires)
  BY <1>1, <1>4 DEF Row
<1>9. RowInv(y)
  BY <1>2, <1>5, <1>6, <1>7, <1>8, <1>t DEF RowInv
<1>10. ChargeOf(y) <= ChargeOf(x)
  <2>1. x.reserved = MaxArtifactBytes /\ y.retained \in Nat /\ y.retained <= MaxArtifactBytes
        /\ y.reserved = 0 /\ x.retained \in Nat
    BY <1>1, <1>5, <1>8, RowTypes DEF x
  <2> QED BY <2>1, Limits, SMT DEF ChargeOf, Greatest
<1>11. Moves(x, y)
  <2>1. x.state = "sealed"
    BY DEF x
  <2>2. \A o \in OutputSet : x.outs[o] = "absent"
    BY <1>1, NoOutputsFacts
  <2> QED BY <2>1, <2>2 DEF Moves, Settled, Closed, Terminal
<1> QED BY <1>5, <1>8, <1>9, <1>10, <1>11 DEF x, y, z, Write

-----------------------------------------------------------------------------
(* What a step of the table does to the invariants over several rows *)

Moved == DOMAIN art' = Runs /\ \A r \in Runs : RowInv(art'[r]) /\ Moves(art[r], art'[r])
Written ==
  DOMAIN art' = Runs /\ \A r \in Runs : Write(art[r], art'[r]) /\ art'[r].from = art[r].from

\* Writes are moves.
LEMMA WrittenMoved == ASSUME Written PROVE Moved
BY DEF Written, Moved, Write

\* A step that leaves the table alone.
LEMMA SameArt == ASSUME StateTypeOK, art' = art PROVE Written
BY SameRow DEF StateTypeOK, Written

\* A step that writes one row.
LEMMA OneWrite ==
  ASSUME StateTypeOK, NEW r \in Runs, DOMAIN art' = Runs,
         \A x \in Runs : x # r => art'[x] = art[x],
         Write(art[r], art'[r]), art'[r].from = art[r].from
  PROVE  Written
<1>1. \A x \in Runs : Write(art[x], art[x])
  BY SameRow DEF StateTypeOK
<1> QED BY <1>1 DEF Written

\* Copies keep their origin while no row changes its origin.
LEMMA KeepCopy ==
  ASSUME StateTypeOK, CopyInv, Moved, \A r \in Runs : art'[r].from = art[r].from
  PROVE  CopyInv'
<1> SUFFICES ASSUME NEW r \in Runs, art'[r].from # NoRun
             PROVE  /\ art'[art'[r].from].state \in Settled
                    /\ art'[r].observed = art'[art'[r].from].observed
                    /\ art'[r].expires <= art'[art'[r].from].expires
  BY DEF CopyInv
<1> DEFINE c == art[r].from
<1>1. art'[r].from = c /\ c # NoRun
  OBVIOUS
<1>2. RowInv(art[r])
  BY DEF StateTypeOK
<1>3. c \in Runs /\ art[r].state \in Settled
  <2>1. c \in Runs \cup {NoRun}
    BY <1>2, RowTypes
  <2> QED BY <1>1, <1>2, <2>1 DEF RowInv
<1>4. art[c].state \in Settled /\ art[r].observed = art[c].observed
      /\ art[r].expires <= art[c].expires
  BY <1>1 DEF CopyInv
<1> HIDE DEF c
<1>5. Moves(art[r], art'[r]) /\ Moves(art[c], art'[c])
  BY <1>3 DEF Moved
<1>6. art'[r].observed = art[r].observed /\ art'[r].expires = art[r].expires
  BY <1>3, <1>5 DEF Moves
<1>7. art'[c].observed = art[c].observed /\ art'[c].expires = art[c].expires
      /\ art'[c].state \in Settled
  BY <1>4, <1>5 DEF Moves
<1> QED BY <1>1, <1>4, <1>6, <1>7

\* So they do when a succeeded row is copied.
LEMMA CopyMade ==
  ASSUME StateTypeOK, CopyInv, Moved, NEW r \in Runs, NEW c \in Runs, r # c,
         art[r].state = "sealed", art[c].state = "succeeded",
         \A x \in Runs : x # r => art'[x] = art[x],
         art'[r].from = c, art'[r].observed = art[c].observed,
         art'[r].expires <= art[c].expires
  PROVE  CopyInv'
<1> SUFFICES ASSUME NEW x \in Runs, art'[x].from # NoRun
             PROVE  /\ art'[art'[x].from].state \in Settled
                    /\ art'[x].observed = art'[art'[x].from].observed
                    /\ art'[x].expires <= art'[art'[x].from].expires
  BY DEF CopyInv
<1>1. CASE x = r
  BY <1>1 DEF Settled
<1>2. CASE x # r
  <2> DEFINE d == art[x].from
  <2>1. art'[x] = art[x] /\ d # NoRun
    BY <1>2
  <2>2. d \in Runs
    <3>1. RowInv(art[x])
      BY DEF StateTypeOK
    <3>2. d \in Runs \cup {NoRun}
      BY <3>1, RowTypes
    <3> QED BY <2>1, <3>2
  <2>3. art[d].state \in Settled /\ art[x].observed = art[d].observed
        /\ art[x].expires <= art[d].expires
    BY <2>1 DEF CopyInv
  <2>4. d # r
    BY <2>3 DEF Settled
  <2>5. art'[d] = art[d]
    BY <2>2, <2>4
  <2> QED BY <2>1, <2>3, <2>5
<1> QED BY <1>1, <1>2

\* What the rows count for, as a function.
LEMMA ChargeTypes ==
  ASSUME StateTypeOK, NEW t, \A r \in Runs : RowInv(t[r])
  PROVE  [r \in Runs |-> ChargeOf(t[r])] \in [Runs -> Int]
<1>1. \A r \in Runs : t[r].retained \in Nat /\ t[r].reserved \in Nat
  BY RowTypes
<1>2. \A x, y \in Nat : Greatest(x, y) \in Int
  BY SMT DEF Greatest
<1>3. \A r \in Runs : ChargeOf(t[r]) \in Int
  BY <1>1, <1>2 DEF ChargeOf
<1> QED BY <1>3

\* The charge of the tenant is the sum over its rows, before and after a step.
LEMMA ChargedFacts ==
  /\ Charged = SumFunction([r \in Runs |-> ChargeOf(art[r])])
  /\ Charged' = SumFunction([r \in Runs |-> ChargeOf(art'[r])])
BY DEF Charged, Charge, ChargeOf

\* Writes that reserve nothing new stay within the quota.
LEMMA KeepQuota ==
  ASSUME StateTypeOK, TenantQuota, Moved, \A r \in Runs : ChargeOf(art'[r]) <= ChargeOf(art[r])
  PROVE  TenantQuota'
<1> DEFINE f == [r \in Runs |-> ChargeOf(art'[r])]
           g == [r \in Runs |-> ChargeOf(art[r])]
<1>1. f \in [Runs -> Int]
  BY ChargeTypes DEF Moved
<1>2. g \in [Runs -> Int]
  BY ChargeTypes DEF StateTypeOK
<1>3. \A r \in Runs : f[r] <= g[r]
  OBVIOUS
<1>4. Charged' = SumFunction(f) /\ Charged = SumFunction(g)
  BY ChargedFacts
<1> HIDE DEF f, g
<1>5. SumFunction(f) \in Int /\ SumFunction(g) \in Int /\ SumFunction(f) <= SumFunction(g)
  BY <1>1, <1>2, <1>3, SumMonotone, ArtifactAssumption
<1>6. SumFunction(g) <= MaxTenantBytes
  BY <1>4 DEF TenantQuota
<1>7. SumFunction(f) <= MaxTenantBytes
  BY <1>5, <1>6, Limits, SMT
<1> QED BY <1>4, <1>7 DEF TenantQuota

\* A seal was admitted for all it may grow to.
LEMMA SealQuota ==
  ASSUME StateTypeOK, Quota, Moved, NEW r \in Runs, art[r].state = "absent",
         \A x \in Runs : x # r => art'[x] = art[x], ChargeOf(art'[r]) = MaxArtifactBytes
  PROVE  TenantQuota'
<1> DEFINE f == [x \in Runs |-> ChargeOf(art[x])]
           g == [x \in Runs |-> ChargeOf(art'[x])]
<1>1. g \in [Runs -> Int]
  BY ChargeTypes DEF Moved
<1>2. f \in [Runs -> Int]
  BY ChargeTypes DEF StateTypeOK
<1>3. \A x \in Runs : x # r => f[x] = g[x]
  OBVIOUS
<1>4. Charged' = SumFunction(g) /\ Charged = SumFunction(f)
  BY ChargedFacts
<1>5. f[r] = 0 /\ g[r] = MaxArtifactBytes
  <2>1. art[r] = NoArtifact
    BY DEF StateTypeOK, RowInv
  <2> QED BY <2>1, NoArtifactInv
<1> HIDE DEF f, g
<1>6. SumFunction(g) = SumFunction(f) + g[r] - f[r]
  <2>1. IsFiniteSet(Runs)
    BY ArtifactAssumption
  <2> QED BY <1>1, <1>2, <1>3, <2>1, SumChange, SMT
<1>7. SumFunction(f) \in Int
  <2>1. \A x \in Runs : f[x] <= f[x]
    BY <1>2, SMT
  <2> QED BY <1>2, <2>1, SumMonotone, ArtifactAssumption
<1>8. SumFunction(f) <= MaxTenantBytes - MaxArtifactBytes
  BY <1>4 DEF Quota
<1>9. SumFunction(g) <= MaxTenantBytes
  BY <1>5, <1>6, <1>7, <1>8, Limits, SMT
<1> QED BY <1>4, <1>9 DEF TenantQuota

-----------------------------------------------------------------------------
(* Who asks the model *)

\* A process works on one output.
LEMMA FirstUnique ==
  ASSUME NEW known, NEW i \in 1 .. Len(Outputs), NEW j \in 1 .. Len(Outputs),
         First(known, i), First(known, j)
  PROVE  i = j
<1>1. i \in Nat /\ j \in Nat /\ (i < j => i \in 1 .. j - 1) /\ (j < i => j \in 1 .. i - 1)
      /\ (i # j => i < j \/ j < i)
  <2>1. Len(Outputs) \in Nat
    BY ArtifactAssumption, SMT
  <2> QED BY <2>1, SMT
<1>2. ~(i \in 1 .. j - 1) /\ ~(j \in 1 .. i - 1)
  BY DEF First
<1> QED BY <1>1, <1>2

\* A process asks for one narrative of one run.
LEMMA AsksOne ==
  ASSUME NEW p, NEW r, NEW o, NEW x, NEW z, Asks(p, r, o), Asks(p, x, z)
  PROVE  r = x /\ o = z
<1>1. PICK i \in 1 .. Len(Outputs) : First(p.known, i) /\ Outputs[i] = o
  BY DEF Asks
<1>2. PICK j \in 1 .. Len(Outputs) : First(p.known, j) /\ Outputs[j] = z
  BY DEF Asks
<1>3. i = j
  BY <1>1, <1>2, FirstUnique
<1> QED BY <1>1, <1>2, <1>3 DEF Asks

\* Narratives are among the outputs.
LEMMA NarrativesAreOutputs == \A o \in Narratives : o \in OutputSet
BY ArtifactAssumption

\* No process begins to ask, and none is asked for.
LEMMA KeepAsk ==
  ASSUME AskInv, Moved, called' = called,
         \A a \in Actors : proc'[a].step \in Asking => proc'[a] = proc[a]
  PROVE  AskInv'
<1>1. ASSUME NEW a \in Actors, proc'[a].step \in Asking
      PROVE  \E o \in Narratives : Asks(proc'[a], proc'[a].run, o)
  BY <1>1 DEF AskInv
<1>2. ASSUME NEW r \in Runs, NEW o \in Narratives
      PROVE  NarrativeInv(r, o)'
  <2>1. NarrativeInv(r, o)
    BY DEF AskInv
  <2>2. art'[r].state # "expired" /\ art'[r].outs[o] = "absent" =>
          art[r].state # "expired" /\ art[r].outs[o] = "absent"
    BY NarrativesAreOutputs DEF Moved, Moves
  <2>3. \A a \in Actors : Asks(proc'[a], r, o) => proc'[a] = proc[a]
    BY DEF Asks
  <2> QED BY <2>1, <2>2, <2>3 DEF NarrativeInv
<1> QED BY <1>1, <1>2 DEF AskInv

\* A process that starts a narrative is the first to.
LEMMA StartAsk ==
  ASSUME StateTypeOK, AskInv, Moved, called' = called, NEW a \in Actors,
         proc[a].step = "outputs", NEW o \in Narratives,
         \A b \in Actors : b # a => proc'[b] = proc[b],
         proc'[a].run = proc[a].run, proc'[a].used = proc[a].used, proc'[a].step = "model",
         Asks(proc'[a], proc[a].run, o),
         art[proc[a].run].state = "normalized", art[proc[a].run].outs[o] = "absent",
         art'[proc[a].run].outs[o] = "indeterminate"
  PROVE  AskInv'
<1> DEFINE s == proc[a].run
<1>1. s \in Runs /\ proc[a].used = 0
  BY DEF StateTypeOK, ProcInv, Asking
<1>2. ASSUME NEW b \in Actors, proc'[b].step \in Asking
      PROVE  \E z \in Narratives : Asks(proc'[b], proc'[b].run, z)
  <2>1. CASE b = a
    BY <2>1
  <2>2. CASE b # a
    BY <1>2, <2>2 DEF AskInv
  <2> QED BY <2>1, <2>2
<1>a. called[s][o] = 0 /\ \A b \in Actors : ~Asks(proc[b], s, o)
  <2>1. NarrativeInv(s, o)
    BY <1>1 DEF AskInv
  <2> QED BY <2>1 DEF NarrativeInv
<1>3. ASSUME NEW r \in Runs, NEW z \in Narratives
      PROVE  NarrativeInv(r, z)'
  <2>1. NarrativeInv(r, z)
    BY DEF AskInv
  <2>2. art'[r].state # "expired" /\ art'[r].outs[z] = "absent" =>
          art[r].state # "expired" /\ art[r].outs[z] = "absent"
    BY NarrativesAreOutputs DEF Moved, Moves
  <2>3. CASE r = s /\ z = o
    <3>1. \A b \in Actors : Asks(proc'[b], r, z) => b = a
      BY <1>a, <2>3
    <3>2. called'[r][z] + 0 <= proc'[a].used
      <4>1. 0 + 0 <= 0
        BY SMT
      <4> QED BY <1>1, <1>a, <2>3, <4>1
    <3>3. art'[r].outs[z] # "absent"
      BY <2>3
    <3> QED BY <2>1, <2>3, <3>1, <3>2, <3>3 DEF NarrativeInv
  <2>4. CASE ~(r = s /\ z = o)
    <3>1. ~Asks(proc'[a], r, z)
      BY <2>4, AsksOne
    <3>2. \A b \in Actors : Asks(proc'[b], r, z) => proc'[b] = proc[b]
      BY <3>1
    <3> QED BY <2>1, <2>2, <3>2 DEF NarrativeInv
  <2> QED BY <2>3, <2>4
<1> QED BY <1>2, <1>3 DEF AskInv

\* The process that asks keeps its narrative when it reserves a call or makes one.
LEMMA SameAsks ==
  ASSUME NEW p, NEW q, q.run = p.run, q.known = p.known, p.step \in Asking, q.step \in Asking
  PROVE  \A r, o : Asks(q, r, o) <=> Asks(p, r, o)
BY DEF Asks

\* A process that reserves a call may make one more.
LEMMA ReserveAsk ==
  ASSUME StateTypeOK, AskInv, Moved, called' = called, NEW a \in Actors,
         proc[a].step = "model", \A b \in Actors : b # a => proc'[b] = proc[b],
         proc'[a].run = proc[a].run, proc'[a].known = proc[a].known,
         proc'[a].step = "granted", proc'[a].used = proc[a].used + 1
  PROVE  AskInv'
<1>1. \A b \in Actors : /\ proc'[b].step \in Asking => proc[b].step \in Asking
                        /\ proc'[b].run = proc[b].run
                        /\ \A r, o : Asks(proc'[b], r, o) <=> Asks(proc[b], r, o)
  BY SameAsks DEF Asking
<1>2. ASSUME NEW b \in Actors, proc'[b].step \in Asking
      PROVE  \E z \in Narratives : Asks(proc'[b], proc'[b].run, z)
  BY <1>1, <1>2 DEF AskInv
<1>3. ASSUME NEW r \in Runs, NEW z \in Narratives
      PROVE  NarrativeInv(r, z)'
  <2>1. NarrativeInv(r, z)
    BY DEF AskInv
  <2>2. art'[r].state # "expired" /\ art'[r].outs[z] = "absent" =>
          art[r].state # "expired" /\ art[r].outs[z] = "absent"
    BY NarrativesAreOutputs DEF Moved, Moves
  <2>3. ASSUME NEW b \in Actors, Asks(proc[b], r, z)
        PROVE  called'[r][z] + (IF proc'[b].step = "granted" THEN 1 ELSE 0) <= proc'[b].used
    <3>1. called[r][z] + (IF proc[b].step = "granted" THEN 1 ELSE 0) <= proc[b].used
      BY <2>1, <2>3 DEF NarrativeInv
    <3>2. CASE b # a
      BY <3>1, <3>2
    <3>3. CASE b = a
      <4>1. called[r][z] \in Nat /\ proc[a].used \in Nat
        BY Limits, SMT DEF StateTypeOK, ProcInv, Process
      <4>2. called[r][z] + 0 <= proc[a].used
        BY <3>1, <3>3
      <4>3. called[r][z] + 1 <= proc[a].used + 1
        BY <4>1, <4>2, SMT
      <4> QED BY <3>3, <4>3
    <3> QED BY <3>2, <3>3
  <2> QED BY <1>1, <2>1, <2>2, <2>3 DEF NarrativeInv
<1> QED BY <1>2, <1>3 DEF AskInv

\* A process that calls the model uses up what it reserved.
LEMMA GenerateAsk ==
  ASSUME StateTypeOK, AskInv, Moved, NEW a \in Actors, NEW o \in Narratives,
         proc[a].step = "granted", Asks(proc[a], proc[a].run, o),
         \A b \in Actors : b # a => proc'[b] = proc[b],
         proc'[a].run = proc[a].run, proc'[a].known = proc[a].known,
         proc'[a].step = "model", proc'[a].used = proc[a].used,
         \A r \in Runs, z \in Narratives :
           called'[r][z] = IF r = proc[a].run /\ z = o THEN called[r][z] + 1 ELSE called[r][z]
  PROVE  AskInv'
<1>1. \A b \in Actors : /\ proc'[b].step \in Asking => proc[b].step \in Asking
                        /\ proc'[b].run = proc[b].run
                        /\ \A r, z : Asks(proc'[b], r, z) <=> Asks(proc[b], r, z)
  BY SameAsks DEF Asking
<1>2. ASSUME NEW b \in Actors, proc'[b].step \in Asking
      PROVE  \E z \in Narratives : Asks(proc'[b], proc'[b].run, z)
  BY <1>1, <1>2 DEF AskInv
<1>3. ASSUME NEW r \in Runs, NEW z \in Narratives
      PROVE  NarrativeInv(r, z)'
  <2>1. NarrativeInv(r, z)
    BY DEF AskInv
  <2>2. art'[r].state # "expired" /\ art'[r].outs[z] = "absent" =>
          art[r].state # "expired" /\ art[r].outs[z] = "absent"
    BY NarrativesAreOutputs DEF Moved, Moves
  <2>3. CASE r = proc[a].run /\ z = o
    <3>1. \A b \in Actors : Asks(proc[b], r, z) => b = a
      BY <2>1, <2>3 DEF NarrativeInv
    <3>2. called[r][z] + 1 <= proc[a].used /\ ~(art[r].state # "expired" /\ art[r].outs[z] = "absent")
      BY <2>1, <2>3 DEF NarrativeInv
    <3>3. called[r][z] \in Nat /\ proc[a].used \in Nat /\ proc[a].used <= MaxCalls
      BY Limits, SMT DEF StateTypeOK, ProcInv, Process
    <3>4. called'[r][z] = called[r][z] + 1
      BY <2>3
    <3>5. called'[r][z] <= MaxCalls /\ called'[r][z] + 0 <= proc'[a].used
      BY <3>2, <3>3, <3>4, Limits, SMT
    <3>6. ASSUME NEW b \in Actors, Asks(proc'[b], r, z)
          PROVE  /\ b = a
                 /\ art'[r].state # "expired" => art'[r].outs[z] # "absent"
                 /\ called'[r][z] + (IF proc'[b].step = "granted" THEN 1 ELSE 0) <= proc'[b].used
      <4>1. b = a
        BY <1>1, <3>1, <3>6
      <4>2. proc'[b].step # "granted"
        BY <4>1
      <4> QED BY <2>2, <3>2, <3>5, <4>1, <4>2
    <3> QED BY <2>2, <3>2, <3>5, <3>6 DEF NarrativeInv
  <2>4. CASE ~(r = proc[a].run /\ z = o)
    <3>1. ~Asks(proc[a], r, z)
      BY <2>4, AsksOne
    <3>2. called'[r][z] = called[r][z]
      BY <2>4
    <3>3. \A b \in Actors : Asks(proc'[b], r, z) => proc'[b] = proc[b]
      BY <1>1, <3>1
    <3>4. called'[r][z] <= MaxCalls
          /\ (art'[r].state # "expired" /\ art'[r].outs[z] = "absent" => called'[r][z] = 0)
      BY <2>1, <2>2, <3>2 DEF NarrativeInv
    <3>5. ASSUME NEW b \in Actors, Asks(proc'[b], r, z)
          PROVE  /\ art'[r].state # "expired" => art'[r].outs[z] # "absent"
                 /\ called'[r][z] + (IF proc'[b].step = "granted" THEN 1 ELSE 0) <= proc'[b].used
                 /\ \A d \in Actors : Asks(proc'[d], r, z) => b = d
      <4>1. proc'[b] = proc[b]
        BY <3>3, <3>5
      <4>2. /\ art[r].state # "expired" => art[r].outs[z] # "absent"
            /\ called[r][z] + (IF proc[b].step = "granted" THEN 1 ELSE 0) <= proc[b].used
            /\ \A d \in Actors : Asks(proc[d], r, z) => b = d
        BY <2>1, <3>5, <4>1 DEF NarrativeInv
      <4> QED BY <1>1, <2>2, <3>2, <4>1, <4>2
    <3> QED BY <3>4, <3>5 DEF NarrativeInv
  <2> QED BY <2>3, <2>4
<1> QED BY <1>2, <1>3 DEF AskInv

-----------------------------------------------------------------------------
(* What an occurrence spends *)

\* There are finitely many narratives.
LEMMA NarrativesFinite == IsFiniteSet(Narratives)
BY OutputsFinite, FS_Subset, ArtifactAssumption

\* The credits of a run are numbers.
LEMMA CreditTypes ==
  ASSUME NEW c \in [Narratives -> Nat], NEW G
  PROVE  Credits(c, G) \in [Narratives -> Int] /\ SumFunction(Credits(c, G)) \in Int
<1>1. \A n \in Nat : n + 1 \in Nat /\ n + 0 \in Nat
  BY SMT
<1>2. Credits(c, G) \in [Narratives -> Nat]
  BY <1>1 DEF Credits
<1>3. SumFunction(Credits(c, G)) \in Nat
  BY <1>2, NarrativesFinite, SumNaturals
<1> HIDE DEF Credits
<1> QED BY <1>2, <1>3, SMT

\* A grant that is dropped costs nothing.
LEMMA CreditLess ==
  ASSUME NEW c \in [Narratives -> Nat], NEW H, NEW G \in SUBSET H
  PROVE  SumFunction(Credits(c, G)) <= SumFunction(Credits(c, H))
<1>1. \A n \in Nat : n + 0 <= n + 1 /\ n + 0 <= n + 0 /\ n + 1 <= n + 1
  BY SMT
<1>2. \A o \in Narratives : Credits(c, G)[o] <= Credits(c, H)[o]
  BY <1>1 DEF Credits
<1>3. Credits(c, G) \in [Narratives -> Int] /\ Credits(c, H) \in [Narratives -> Int]
  BY CreditTypes
<1> QED BY <1>2, <1>3, NarrativesFinite, SumMonotone

\* The calls made are no more than the credits.
LEMMA CallsCredited ==
  ASSUME NEW c \in [Narratives -> Nat], NEW G
  PROVE  SumFunction(c) <= SumFunction(Credits(c, G))
<1>1. \A n \in Nat : n <= n + 1 /\ n <= n + 0
  BY SMT
<1>2. \A o \in Narratives : c[o] <= Credits(c, G)[o]
  BY <1>1 DEF Credits
<1>3. Credits(c, G) \in [Narratives -> Int] /\ c \in [Narratives -> Int]
  BY CreditTypes, SMT
<1> QED BY <1>2, <1>3, NarrativesFinite, SumMonotone

\* A grant costs one.
LEMMA CreditGranted ==
  ASSUME NEW c \in [Narratives -> Nat], NEW G, NEW o \in Narratives, o \notin G
  PROVE  SumFunction(Credits(c, G \cup {o})) = SumFunction(Credits(c, G)) + 1
<1> DEFINE f == Credits(c, G)
           g == Credits(c, G \cup {o})
<1>1. f \in [Narratives -> Int] /\ g \in [Narratives -> Int] /\ SumFunction(f) \in Int
  BY CreditTypes
<1>2. \A z \in Narratives : z # o => f[z] = g[z]
  BY DEF Credits
<1>3. f[o] = c[o] + 0 /\ g[o] = c[o] + 1 /\ c[o] \in Nat
  BY DEF Credits
<1> HIDE DEF f, g
<1>4. SumFunction(g) = SumFunction(f) + g[o] - f[o]
  BY <1>1, <1>2, NarrativesFinite, SumChange, SMT
<1>5. SumFunction(g) = SumFunction(f) + 1
  BY <1>1, <1>3, <1>4, SMT
<1> QED BY <1>5 DEF f, g

\* A call that was granted costs nothing more.
LEMMA CreditUsed ==
  ASSUME NEW c \in [Narratives -> Nat], NEW d \in [Narratives -> Nat], NEW G,
         NEW o \in Narratives, o \in G, d[o] = c[o] + 1,
         \A z \in Narratives : z # o => d[z] = c[z]
  PROVE  Credits(d, G \ {o}) = Credits(c, G)
<1>1. d[o] + 0 = c[o] + 1
  BY SMT
<1>2. \A z \in Narratives : d[z] + (IF z \in G \ {o} THEN 1 ELSE 0)
                              = c[z] + (IF z \in G THEN 1 ELSE 0)
  BY <1>1
<1> QED BY <1>2 DEF Credits

\* The types the budget is about.
LEMMA SpendTypes ==
  ASSUME StateTypeOK, NEW r \in Runs
  PROVE  /\ called[r] \in [Narratives -> Nat] /\ read[r].number \in Nat
         /\ delivery[r].queries \in Nat /\ delivery[r].calls \in Nat /\ queried[r] \in Nat
<1>1. called[r] \in [Narratives -> Nat] /\ queried[r] \in Nat
  BY DEF StateTypeOK
<1>2. read[r].number \in 0 .. QueryAttempts[r]
  BY DEF StateTypeOK, ReadRow
<1>3. delivery[r].queries \in 0 .. QueryLimit /\ delivery[r].calls \in 0 .. CallLimit
  BY DEF StateTypeOK, DeliveryRow
<1>4. \A n : \A x \in 0 .. n : x \in Nat
  BY SMT
<1> QED BY <1>1, <1>2, <1>3, <1>4

\* Credits of a run that no new process was granted a call of.
LEMMA CreditsKept ==
  ASSUME StateTypeOK, NEW r \in Runs, called' = called,
         \A a \in Actors : proc'[a].run = r /\ proc'[a].step = "granted" => proc'[a] = proc[a]
  PROVE  /\ SumFunction(Credits(called'[r], Grants(r)')) <= SumFunction(Credits(called[r], Grants(r)))
         /\ SumFunction(Credits(called'[r], Grants(r)')) \in Int
         /\ SumFunction(Credits(called[r], Grants(r))) \in Int
<1>1. Grants(r)' \in SUBSET Grants(r)
  BY DEF Grants, Granted, Asks
<1>2. called[r] \in [Narratives -> Nat]
  BY SpendTypes
<1> QED BY <1>1, <1>2, CreditLess, CreditTypes

\* Nothing is spent.
LEMMA KeepSpend ==
  ASSUME StateTypeOK, SpendInv, called' = called, queried' = queried, scheduled' = scheduled,
         \A r \in Runs : /\ read'[r].number = read[r].number
                         /\ delivery'[r].queries = delivery[r].queries
                         /\ delivery'[r].calls = delivery[r].calls,
         \A a \in Actors : proc'[a].step \in {"granted", "reserved"} => proc'[a] = proc[a]
  PROVE  SpendInv'
<1>1. \A r \in scheduled : r \in Runs
  BY DEF StateTypeOK
<1>2. \A r \in Runs : queried'[r] = read'[r].number
  BY DEF SpendInv
<1>3. ASSUME NEW r \in scheduled
      PROVE  /\ read'[r].number <= delivery'[r].queries
             /\ SumFunction(Credits(called'[r], Grants(r)')) <= delivery'[r].calls
  <2>1. read'[r].number <= delivery'[r].queries
    BY <1>1 DEF SpendInv
  <2>2. /\ SumFunction(Credits(called'[r], Grants(r)')) <= SumFunction(Credits(called[r], Grants(r)))
        /\ SumFunction(Credits(called'[r], Grants(r)')) \in Int
        /\ SumFunction(Credits(called[r], Grants(r))) \in Int
    BY <1>1, CreditsKept
  <2>3. SumFunction(Credits(called[r], Grants(r))) <= delivery'[r].calls
        /\ delivery'[r].calls \in Nat
    BY <1>1, SpendTypes DEF SpendInv
  <2>4. \A x, y \in Int, n \in Nat : x <= y /\ y <= n => x <= n
    BY SMT
  <2> QED BY <2>1, <2>2, <2>3, <2>4
<1>4. ASSUME NEW a \in Actors, proc'[a].step = "reserved", proc'[a].run \in scheduled
      PROVE  proc'[a].number <= delivery'[proc'[a].run].queries
  <2>1. proc'[a] = proc[a]
    BY <1>4
  <2> QED BY <1>1, <1>4, <2>1 DEF SpendInv
<1> QED BY <1>2, <1>3, <1>4 DEF SpendInv

\* A query is reserved, for an occurrence at the cost of one.
LEMMA SpendQuery ==
  ASSUME StateTypeOK, SpendInv, called' = called, queried' = queried, scheduled' = scheduled,
         read' = read, NEW a \in Actors, proc[a].run \in Runs,
         \A b \in Actors : b # a => proc'[b] = proc[b],
         proc'[a].run = proc[a].run, proc'[a].step = "reserved",
         proc'[a].number = read[proc[a].run].number + 1,
         \A r \in Runs : r # proc[a].run => delivery'[r] = delivery[r],
         proc[a].run \in scheduled =>
           /\ delivery'[proc[a].run].queries = delivery[proc[a].run].queries + 1
           /\ delivery'[proc[a].run].calls = delivery[proc[a].run].calls
  PROVE  SpendInv'
<1> DEFINE s == proc[a].run
<1>1. \A r \in scheduled : r \in Runs
  BY DEF StateTypeOK
<1>2. \A r \in Runs : queried'[r] = read'[r].number
  BY DEF SpendInv
<1>t. read[s].number \in Nat /\ delivery[s].queries \in Nat
  BY SpendTypes
<1>q. ASSUME s \in scheduled
      PROVE  /\ \A n \in Nat : n <= delivery[s].queries => n <= delivery'[s].queries
             /\ read[s].number + 1 <= delivery'[s].queries
  <2>1. read[s].number <= delivery[s].queries
    BY <1>q DEF SpendInv
  <2>2. delivery'[s].queries = delivery[s].queries + 1
    BY <1>q
  <2> HIDE DEF s
  <2> QED BY <1>t, <2>1, <2>2, SMT
<1>3. ASSUME NEW r \in scheduled
      PROVE  /\ read'[r].number <= delivery'[r].queries
             /\ SumFunction(Credits(called'[r], Grants(r)')) <= delivery'[r].calls
  <2>1. read'[r].number <= delivery'[r].queries
    <3>1. read[r].number <= delivery[r].queries
      BY DEF SpendInv
    <3>2. CASE r = s
      BY <1>q, <1>t, <3>1, <3>2
    <3>3. CASE r # s
      BY <1>1, <3>1, <3>3
    <3> QED BY <3>2, <3>3
  <2>2. /\ SumFunction(Credits(called'[r], Grants(r)')) <= SumFunction(Credits(called[r], Grants(r)))
        /\ SumFunction(Credits(called'[r], Grants(r)')) \in Int
        /\ SumFunction(Credits(called[r], Grants(r))) \in Int
    <3>1. \A b \in Actors : proc'[b].run = r /\ proc'[b].step = "granted" => proc'[b] = proc[b]
      OBVIOUS
    <3> QED BY <1>1, <3>1, CreditsKept
  <2>3. SumFunction(Credits(called[r], Grants(r))) <= delivery'[r].calls
        /\ delivery'[r].calls \in Nat
    <3>1. delivery'[r].calls = delivery[r].calls
      BY <1>1
    <3> QED BY <1>1, <3>1, SpendTypes DEF SpendInv
  <2>4. \A x, y \in Int, n \in Nat : x <= y /\ y <= n => x <= n
    BY SMT
  <2> QED BY <2>1, <2>2, <2>3, <2>4
<1>4. ASSUME NEW b \in Actors, proc'[b].step = "reserved", proc'[b].run \in scheduled
      PROVE  proc'[b].number <= delivery'[proc'[b].run].queries
  <2>1. CASE b = a
    BY <1>4, <1>q, <2>1
  <2>2. CASE b # a
    <3>1. proc'[b] = proc[b] /\ proc[b].number <= delivery[proc[b].run].queries
      BY <1>4, <2>2 DEF SpendInv
    <3>2. proc[b].number \in Nat
      BY DEF StateTypeOK, ProcInv, Process
    <3>3. CASE proc[b].run = s
      BY <1>4, <1>q, <3>1, <3>2, <3>3
    <3>4. CASE proc[b].run # s
      BY <1>1, <1>4, <3>1, <3>4
    <3> QED BY <3>3, <3>4
  <2> QED BY <2>1, <2>2
<1> QED BY <1>2, <1>3, <1>4 DEF SpendInv

\* A reserved query is sent, once for its number.
LEMMA SpendExecute ==
  ASSUME StateTypeOK, SpendInv, called' = called, delivery' = delivery, scheduled' = scheduled,
         NEW a \in Actors, proc[a].run \in Runs, proc[a].step = "reserved",
         \A b \in Actors : b # a => proc'[b] = proc[b], proc'[a].step = "asked",
         read[proc[a].run].number = proc[a].number - 1,
         read'[proc[a].run].number = proc[a].number,
         queried'[proc[a].run] = queried[proc[a].run] + 1,
         \A r \in Runs : r # proc[a].run =>
           read'[r].number = read[r].number /\ queried'[r] = queried[r]
  PROVE  SpendInv'
<1> DEFINE s == proc[a].run
<1>1. \A r \in scheduled : r \in Runs
  BY DEF StateTypeOK
<1>2. ASSUME NEW r \in Runs PROVE queried'[r] = read'[r].number
  <2>1. queried[r] = read[r].number
    BY DEF SpendInv
  <2>2. CASE r = s
    <3>1. proc[a].number \in Nat
      BY DEF StateTypeOK, ProcInv, Process
    <3>2. proc[a].number - 1 + 1 = proc[a].number
      BY <3>1, SMT
    <3> QED BY <2>1, <2>2, <3>2
  <2>3. CASE r # s
    BY <2>1, <2>3
  <2> QED BY <2>2, <2>3
<1>3. ASSUME NEW r \in scheduled
      PROVE  /\ read'[r].number <= delivery'[r].queries
             /\ SumFunction(Credits(called'[r], Grants(r)')) <= delivery'[r].calls
  <2>1. read'[r].number <= delivery'[r].queries
    <3>1. CASE r = s
      <4>1. proc[a].number <= delivery[s].queries
        BY <3>1 DEF SpendInv
      <4> QED BY <3>1, <4>1
    <3>2. CASE r # s
      BY <1>1, <3>2 DEF SpendInv
    <3> QED BY <3>1, <3>2
  <2>2. /\ SumFunction(Credits(called'[r], Grants(r)')) <= SumFunction(Credits(called[r], Grants(r)))
        /\ SumFunction(Credits(called'[r], Grants(r)')) \in Int
        /\ SumFunction(Credits(called[r], Grants(r))) \in Int
    <3>1. \A b \in Actors : proc'[b].run = r /\ proc'[b].step = "granted" => proc'[b] = proc[b]
      OBVIOUS
    <3> QED BY <1>1, <3>1, CreditsKept
  <2>3. SumFunction(Credits(called[r], Grants(r))) <= delivery'[r].calls
        /\ delivery'[r].calls \in Nat
    BY <1>1, SpendTypes DEF SpendInv
  <2>4. \A x, y \in Int, n \in Nat : x <= y /\ y <= n => x <= n
    BY SMT
  <2> QED BY <2>1, <2>2, <2>3, <2>4
<1>4. ASSUME NEW b \in Actors, proc'[b].step = "reserved", proc'[b].run \in scheduled
      PROVE  proc'[b].number <= delivery'[proc'[b].run].queries
  <2>1. b # a
    BY <1>4
  <2> QED BY <1>4, <2>1 DEF SpendInv
<1> QED BY <1>2, <1>3, <1>4 DEF SpendInv

\* A call is reserved, for an occurrence at the cost of one.
LEMMA SpendCall ==
  ASSUME StateTypeOK, AskInv, SpendInv, called' = called, queried' = queried,
         scheduled' = scheduled, read' = read, NEW a \in Actors, proc[a].step = "model",
         \A b \in Actors : b # a => proc'[b] = proc[b],
         proc'[a].run = proc[a].run, proc'[a].known = proc[a].known, proc'[a].step = "granted",
         \A r \in Runs : r # proc[a].run => delivery'[r] = delivery[r],
         proc[a].run \in scheduled =>
           /\ delivery'[proc[a].run].queries = delivery[proc[a].run].queries
           /\ delivery'[proc[a].run].calls = delivery[proc[a].run].calls + 1
  PROVE  SpendInv'
<1> DEFINE s == proc[a].run
<1>1. \A r \in scheduled : r \in Runs
  BY DEF StateTypeOK
<1>2. \A r \in Runs : queried'[r] = read'[r].number
  BY DEF SpendInv
<1>q. \A r \in scheduled : delivery'[r].queries = delivery[r].queries
  BY <1>1
<1>3. ASSUME NEW r \in scheduled
      PROVE  SumFunction(Credits(called'[r], Grants(r)')) <= delivery'[r].calls
  <2>1. SumFunction(Credits(called[r], Grants(r))) <= delivery[r].calls
    BY DEF SpendInv
  <2>2. delivery[r].calls \in Nat /\ called[r] \in [Narratives -> Nat]
    BY <1>1, SpendTypes
  <2>3. CASE r # s
    <3>1. \A b \in Actors : proc'[b].run = r /\ proc'[b].step = "granted" => proc'[b] = proc[b]
      BY <2>3
    <3>2. /\ SumFunction(Credits(called'[r], Grants(r)')) <= SumFunction(Credits(called[r], Grants(r)))
          /\ SumFunction(Credits(called'[r], Grants(r)')) \in Int
          /\ SumFunction(Credits(called[r], Grants(r))) \in Int
      BY <1>1, <3>1, CreditsKept
    <3>3. delivery'[r].calls = delivery[r].calls
      BY <1>1, <2>3
    <3>4. \A x, y \in Int, n \in Nat : x <= y /\ y <= n => x <= n
      BY SMT
    <3> QED BY <2>1, <2>2, <3>2, <3>3, <3>4
  <2>4. CASE r = s
    <3>1. PICK o \in Narratives : Asks(proc[a], s, o)
      BY DEF AskInv, Asking
    <3>2. \A x, z : Asks(proc'[a], x, z) <=> Asks(proc[a], x, z)
      BY SameAsks DEF Asking
    <3>3. o \notin Grants(r)
      <4>1. NarrativeInv(r, o)
        BY <1>1 DEF AskInv
      <4>2. \A b \in Actors : Asks(proc[b], r, o) => b = a
        BY <2>4, <3>1, <4>1 DEF NarrativeInv
      <4> QED BY <4>2 DEF Grants, Granted
    <3>4. Grants(r)' = Grants(r) \cup {o}
      <4>1. \A z \in Narratives : Asks(proc'[a], r, z) <=> z = o
        <5>1. Asks(proc[a], r, o)
          BY <2>4, <3>1
        <5>2. \A z \in Narratives : Asks(proc[a], r, z) => z = o
          BY <5>1, AsksOne
        <5> QED BY <3>2, <5>1, <5>2
      <4>2. \A z \in Narratives : Granted(r, z)' <=> Granted(r, z) \/ z = o
        BY <4>1 DEF Granted
      <4> QED BY <4>2 DEF Grants
    <3>5. SumFunction(Credits(called[r], Grants(r) \cup {o})) =
            SumFunction(Credits(called[r], Grants(r))) + 1
      BY <2>2, <3>3, CreditGranted
    <3>6. SumFunction(Credits(called[r], Grants(r))) \in Int
      BY <2>2, CreditTypes
    <3>7. SumFunction(Credits(called[r], Grants(r))) + 1 <= delivery[r].calls + 1
      <4>1. \A x \in Int, n \in Nat : x <= n => x + 1 <= n + 1
        BY SMT
      <4> QED BY <2>1, <2>2, <3>6, <4>1
    <3>8. delivery'[r].calls = delivery[r].calls + 1
      BY <2>4
    <3> QED BY <3>4, <3>5, <3>7, <3>8
  <2> QED BY <2>3, <2>4
<1>4. \A r \in scheduled : read'[r].number <= delivery'[r].queries
  BY <1>q DEF SpendInv
<1>5. ASSUME NEW b \in Actors, proc'[b].step = "reserved", proc'[b].run \in scheduled
      PROVE  proc'[b].number <= delivery'[proc'[b].run].queries
  <2>1. b # a
    BY <1>5
  <2> QED BY <1>5, <1>q, <2>1 DEF SpendInv
<1> QED BY <1>2, <1>3, <1>4, <1>5 DEF SpendInv

\* A granted call is made.
LEMMA SpendGenerate ==
  ASSUME StateTypeOK, AskInv, SpendInv, queried' = queried, scheduled' = scheduled,
         read' = read, delivery' = delivery, NEW a \in Actors, NEW o \in Narratives,
         proc[a].step = "granted", Asks(proc[a], proc[a].run, o),
         \A b \in Actors : b # a => proc'[b] = proc[b],
         proc'[a].run = proc[a].run, proc'[a].step = "model",
         called' \in [Runs -> [Narratives -> Nat]],
         \A r \in Runs, z \in Narratives :
           called'[r][z] = IF r = proc[a].run /\ z = o THEN called[r][z] + 1 ELSE called[r][z]
  PROVE  SpendInv'
<1> DEFINE s == proc[a].run
<1>1. \A r \in scheduled : r \in Runs
  BY DEF StateTypeOK
<1>2. \A r \in Runs : queried'[r] = read'[r].number
  BY DEF SpendInv
<1>3. ASSUME NEW r \in scheduled
      PROVE  SumFunction(Credits(called'[r], Grants(r)')) <= delivery'[r].calls
  <2>1. SumFunction(Credits(called[r], Grants(r))) <= delivery'[r].calls
    BY DEF SpendInv
  <2>2. called[r] \in [Narratives -> Nat] /\ called'[r] \in [Narratives -> Nat]
    BY <1>1, SpendTypes
  <2>3. Credits(called'[r], Grants(r)') = Credits(called[r], Grants(r))
    <3>1. CASE r = s
      <4>1. o \in Grants(r) /\ Grants(r)' = Grants(r) \ {o}
        <5>1. \A b \in Actors : Asks(proc[b], r, o) => b = a
          <6>1. NarrativeInv(r, o)
            BY <1>1 DEF AskInv
          <6> QED BY <3>1, <6>1 DEF NarrativeInv
        <5>2. \A z \in Narratives : Asks(proc[a], r, z) => z = o
          BY <3>1, AsksOne
        <5>3. \A z \in Narratives : Granted(r, z)' <=> Granted(r, z) /\ z # o
          <6>1. ASSUME NEW z \in Narratives, Granted(r, z)' PROVE Granted(r, z) /\ z # o
            <7>1. PICK b \in Actors : proc'[b].step = "granted" /\ Asks(proc'[b], r, z)
              BY <6>1 DEF Granted
            <7>2. b # a /\ proc'[b] = proc[b]
              BY <7>1
            <7> QED BY <5>1, <7>1, <7>2 DEF Granted
          <6>2. ASSUME NEW z \in Narratives, Granted(r, z), z # o PROVE Granted(r, z)'
            <7>1. PICK b \in Actors : proc[b].step = "granted" /\ Asks(proc[b], r, z)
              BY <6>2 DEF Granted
            <7>2. b # a /\ proc'[b] = proc[b]
              BY <5>2, <6>2, <7>1
            <7> QED BY <7>1, <7>2 DEF Granted
          <6> QED BY <6>1, <6>2
        <5>4. Granted(r, o)
          BY <3>1 DEF Granted
        <5> QED BY <5>3, <5>4 DEF Grants
      <4>2. called'[r][o] = called[r][o] + 1
        BY <1>1, <3>1
      <4>3. \A z \in Narratives : z # o => called'[r][z] = called[r][z]
        BY <1>1
      <4> DEFINE c == called[r]
                 d == called'[r]
                 G == Grants(r)
      <4>4. /\ c \in [Narratives -> Nat] /\ d \in [Narratives -> Nat] /\ d[o] = c[o] + 1
            /\ \A z \in Narratives : z # o => d[z] = c[z]
        BY <2>2, <4>2, <4>3
      <4>5. o \in G
        BY <4>1
      <4> HIDE DEF c, d, G
      <4>6. Credits(d, G \ {o}) = Credits(c, G)
        BY <4>4, <4>5, CreditUsed, SMT
      <4> QED BY <4>1, <4>6 DEF c, d, G
    <3>2. CASE r # s
      <4>1. Grants(r)' = Grants(r)
        <5>1. \A z \in Narratives : Granted(r, z)' <=> Granted(r, z)
          <6>1. \A z \in Narratives : ~Asks(proc[a], r, z)
            BY <3>2 DEF Asks
          <6> QED BY <6>1 DEF Granted
        <5> QED BY <5>1 DEF Grants
      <4>2. called'[r] = called[r]
        <5>1. \A z \in Narratives : called'[r][z] = called[r][z]
          BY <1>1, <3>2
        <5> DEFINE c == called[r]
                   d == called'[r]
        <5>2. c \in [Narratives -> Nat] /\ d \in [Narratives -> Nat]
              /\ \A z \in Narratives : d[z] = c[z]
          BY <2>2, <5>1
        <5> HIDE DEF c, d
        <5>3. d = c
          BY <5>2, SMT
        <5> QED BY <5>3 DEF c, d
      <4> QED BY <4>1, <4>2
    <3> QED BY <3>1, <3>2
  <2> QED BY <2>1, <2>3
<1>4. \A r \in scheduled : read'[r].number <= delivery'[r].queries
  BY DEF SpendInv
<1>5. ASSUME NEW b \in Actors, proc'[b].step = "reserved", proc'[b].run \in scheduled
      PROVE  proc'[b].number <= delivery'[proc'[b].run].queries
  <2>1. b # a
    BY <1>5
  <2> QED BY <1>5, <2>1 DEF SpendInv
<1> QED BY <1>2, <1>3, <1>4, <1>5 DEF SpendInv

-----------------------------------------------------------------------------
(* What is published *)

\* Nothing is published and no operation is completed.
LEMMA KeepReceipt ==
  ASSUME StateTypeOK, ReceiptInv, Moved, scheduled' = scheduled, delivery' = delivery,
         \A r \in Runs : op'[r].status = "succeeded" <=> op[r].status = "succeeded"
  PROVE  ReceiptInv'
<1>1. \A r \in scheduled : r \in Runs
  BY DEF StateTypeOK
<1>2. \A r \in Runs : art[r].state \in Closed => art'[r].state \in Closed
  BY DEF Moved, Moves
<1> QED BY <1>1, <1>2 DEF ReceiptInv

\* A budget is charged on the delivery row.
LEMMA ChargeReceipt ==
  ASSUME StateTypeOK, ReceiptInv, Moved, scheduled' = scheduled, op' = op,
         \A r \in Runs : /\ delivery'[r].artifact = delivery[r].artifact
                         /\ delivery'[r].catalog = delivery[r].catalog
  PROVE  ReceiptInv'
<1>1. \A r \in scheduled : r \in Runs
  BY DEF StateTypeOK
<1>2. \A r \in Runs : art[r].state \in Closed => art'[r].state \in Closed
  BY DEF Moved, Moves
<1> QED BY <1>1, <1>2 DEF ReceiptInv

\* What completion does to the operation and the delivery row.
LEMMA CompletionFacts ==
  ASSUME StateTypeOK, NEW r \in Runs, NEW outcome \in Terminal, CompleteRequest(r, outcome)
  PROVE  /\ op' \in [Runs -> OpRow] /\ op'[r].status = JobState(r, outcome)
         /\ delivery' \in [Runs -> DeliveryRow]
         /\ \A x \in Runs : x # r => op'[x] = op[x] /\ delivery'[x] = delivery[x]
         /\ \A x \in Runs : delivery'[x].queries = delivery[x].queries
                            /\ delivery'[x].calls = delivery[x].calls
         /\ r \in scheduled =>
              /\ delivery'[r].catalog = IF outcome = "failed" THEN "unavailable" ELSE "available"
<1>1. op \in [Runs -> OpRow] /\ delivery \in [Runs -> DeliveryRow]
  BY DEF StateTypeOK
<1>2. JobState(r, outcome) \in {"blocked", "succeeded"}
  BY DEF JobState
<1> DEFINE q == [op[r] EXCEPT !.status = JobState(r, outcome), !.live = FALSE]
<1>3. q \in OpRow /\ q.status = JobState(r, outcome)
  <2>1. op[r] \in OpRow
    BY <1>1
  <2> QED BY <1>2, <2>1 DEF OpRow
<1>4. op' = [op EXCEPT ![r] = q]
  BY <1>1 DEF CompleteRequest
<1> HIDE DEF q
<1>5. op' \in [Runs -> OpRow] /\ op'[r] = q /\ \A x \in Runs : x # r => op'[x] = op[x]
  BY <1>1, <1>3, <1>4
<1> DEFINE d == Published(delivery[r], outcome)
<1>6. d \in DeliveryRow /\ d.queries = delivery[r].queries /\ d.calls = delivery[r].calls
      /\ d.catalog = IF outcome = "failed" THEN "unavailable" ELSE "available"
  <2>1. delivery[r] \in DeliveryRow
    BY <1>1
  <2> QED BY <2>1 DEF DeliveryRow, Published
<1> HIDE DEF d
<1>7. CASE r \in scheduled
  <2>1. delivery' = [delivery EXCEPT ![r] = d]
    BY <1>7 DEF CompleteRequest, d
  <2>2. delivery' \in [Runs -> DeliveryRow] /\ delivery'[r] = d
        /\ \A x \in Runs : x # r => delivery'[x] = delivery[x]
    BY <1>1, <1>6, <2>1
  <2> QED BY <1>3, <1>5, <1>6, <2>2
<1>8. CASE r \notin scheduled
  <2>1. delivery' = delivery
    BY <1>8 DEF CompleteRequest
  <2> QED BY <1>1, <1>3, <1>5, <1>8, <2>1
<1> QED BY <1>7, <1>8

\* Completion publishes a row that says what became of the run.
LEMMA CompleteReceipt ==
  ASSUME StateTypeOK, ReceiptInv, Moved, scheduled' = scheduled, NEW r \in Runs,
         NEW outcome \in Terminal, CompleteRequest(r, outcome), art'[r].state = outcome
  PROVE  ReceiptInv'
<1>1. \A x \in scheduled : x \in Runs
  BY DEF StateTypeOK
<1>2. \A x \in Runs : art[x].state \in Closed => art'[x].state \in Closed
  BY DEF Moved, Moves
<1> SUFFICES ASSUME NEW x \in scheduled
             PROVE  /\ delivery'[x].artifact = "retained" => delivery'[x].catalog # "pending"
                    /\ delivery'[x].catalog = "available" <=> op'[x].status = "succeeded"
                    /\ delivery'[x].catalog # "pending" => art'[x].state \in Closed
  BY DEF ReceiptInv
<1>3. CASE x = r
  <2>1. delivery'[x].catalog = IF outcome = "failed" THEN "unavailable" ELSE "available"
    BY <1>3, CompletionFacts
  <2>2. op'[x].status = JobState(r, outcome)
    BY <1>3, CompletionFacts
  <2>3. art'[x].state \in Closed
    BY <1>3 DEF Closed
  <2> QED BY <1>3, <2>1, <2>2, <2>3 DEF JobState
<1>4. CASE x # r
  <2>1. op'[x] = op[x] /\ delivery'[x] = delivery[x]
    BY <1>1, <1>4, CompletionFacts
  <2> QED BY <1>1, <1>2, <2>1 DEF ReceiptInv
<1> QED BY <1>3, <1>4

-----------------------------------------------------------------------------
(* Processes *)

\* Only process a moves.
OnlyProc(a) == DOMAIN proc' = Actors /\ \A b \in Actors : b # a => proc'[b] = proc[b]

\* What the type of the processes says of one.
LEMMA ProcTypes ==
  ASSUME StateTypeOK, NEW a \in Actors
  PROVE  /\ proc[a] \in Process /\ ProcInv(proc[a]) /\ (proc[a].step # "idle" => proc[a].run \in Runs)
         /\ proc[a].known \in [OutputSet -> OutputStates] /\ proc[a].number \in Nat
BY DEF StateTypeOK, ProcInv, Process

\* The process moves on to another step.
LEMMA GotoFacts ==
  ASSUME StateTypeOK, NEW a \in Actors, NEW step \in Steps, Goto(a, step)
  PROVE  /\ OnlyProc(a) /\ proc'[a] \in Process /\ proc'[a].step = step
         /\ proc'[a].run = proc[a].run /\ proc'[a].known = proc[a].known
         /\ proc'[a].number = proc[a].number /\ proc'[a].used = proc[a].used
<1>1. DOMAIN proc = Actors /\ proc[a] \in Process
  BY ProcTypes DEF StateTypeOK
<1>2. OnlyProc(a) /\ proc'[a] = [proc[a] EXCEPT !.step = step]
  BY <1>1 DEF Goto, OnlyProc
<1> QED BY <1>1, <1>2 DEF Process

\* An idle process holds nothing.
LEMMA IdleInv == ProcInv(Idle) /\ Idle.step = "idle"
<1>1. 0 \in Nat /\ 0 \in 0 .. MaxCalls
  BY Limits, Numbers
<1>2. "idle" \in Steps
  BY DEF Steps
<1>3. Idle \in Process
  BY <1>1, <1>2, NoOutputsFacts DEF Idle, Process
<1>4. Idle.step = "idle" /\ Idle.used = 0
  BY DEF Idle
<1> QED BY <1>3, <1>4 DEF ProcInv

\* A process that leaves is idle, and the others stay as they are.
LEMMA LeaveFacts ==
  ASSUME StateTypeOK, NEW a \in Actors, Leave(a)
  PROVE  OnlyProc(a) /\ ProcInv(proc'[a]) /\ proc'[a].step = "idle"
<1>1. DOMAIN proc = Actors
  BY DEF StateTypeOK
<1>2. OnlyProc(a) /\ proc'[a] = Idle
  BY <1>1 DEF Leave, OnlyProc
<1> QED BY <1>2, IdleInv

\* The others are as they were.
LEMMA ProcsKept ==
  ASSUME StateTypeOK, NEW a \in Actors, OnlyProc(a), ProcInv(proc'[a])
  PROVE  DOMAIN proc' = Actors /\ \A b \in Actors : ProcInv(proc'[b])
BY DEF StateTypeOK, OnlyProc

\* A step that touches no process.
LEMMA ProcsSame ==
  ASSUME StateTypeOK, proc' = proc
  PROVE  DOMAIN proc' = Actors /\ \A b \in Actors : ProcInv(proc'[b])
BY DEF StateTypeOK

\* Steps at which a process holds a reservation.
Working == {"model", "granted", "reserved"}

\* A step that neither reserves nor asks nor publishes keeps the whole invariant, once the
\* types are kept.
LEMMA Quiet ==
  ASSUME ArtifactInv, StateTypeOK', Written, called' = called, queried' = queried,
         scheduled' = scheduled, delivery' = delivery,
         \A r \in Runs : read'[r].number = read[r].number,
         \A a \in Actors : proc'[a].step \in Working => proc'[a] = proc[a],
         \A r \in Runs : op'[r].status = "succeeded" <=> op[r].status = "succeeded"
  PROVE  ArtifactInv'
<1> USE DEF ArtifactInv
<1>1. Moved /\ \A r \in Runs : ChargeOf(art'[r]) <= ChargeOf(art[r])
  BY WrittenMoved DEF Written, Write
<1>2. CopyInv'
  BY <1>1, KeepCopy DEF Written
<1>3. TenantQuota'
  BY <1>1, KeepQuota
<1>4. AskInv'
  <2>1. \A a \in Actors : proc'[a].step \in Asking => proc'[a] = proc[a]
    BY DEF Asking, Working
  <2> QED BY <1>1, <2>1, KeepAsk
<1>5. SpendInv'
  <2>1. \A a \in Actors : proc'[a].step \in {"granted", "reserved"} => proc'[a] = proc[a]
    BY DEF Working
  <2> QED BY <2>1, KeepSpend
<1>6. ReceiptInv'
  BY <1>1, KeepReceipt
<1> QED BY <1>2, <1>3, <1>4, <1>5, <1>6

\* Types of a step that leaves the budgets alone.
LEMMA TypesKept ==
  ASSUME StateTypeOK, Moved, called' = called, queried' = queried, scheduled' = scheduled,
         now' \in 1 .. MaxTime, op' \in [Runs -> OpRow],
         DOMAIN read' = Runs /\ \A r \in Runs : read'[r] \in ReadRow(r),
         delivery' \in [Runs -> DeliveryRow],
         DOMAIN proc' = Actors /\ \A b \in Actors : ProcInv(proc'[b])
  PROVE  StateTypeOK'
BY DEF StateTypeOK, Moved

\* The types of the tables a step does not touch.
LEMMA UntouchedTypes ==
  ASSUME StateTypeOK
  PROVE  /\ now \in 1 .. MaxTime /\ op \in [Runs -> OpRow] /\ delivery \in [Runs -> DeliveryRow]
         /\ DOMAIN read = Runs /\ \A r \in Runs : read[r] \in ReadRow(r)
BY DEF StateTypeOK

-----------------------------------------------------------------------------
(* The steps: operations *)

\* Time passes.
LEMMA TickInv == ASSUME ArtifactInv, Tick PROVE ArtifactInv'
<1> USE DEF ArtifactInv
<1>1. now' \in 1 .. MaxTime
  <2>1. now \in 1 .. MaxTime
    BY UntouchedTypes
  <2>2. now' = now + 1 /\ now < MaxTime /\ MaxTime \in Nat
    BY ArtifactAssumption DEF Tick
  <2> QED BY <2>1, <2>2, SMT
<1>2. Written
  BY SameArt DEF Tick
<1>3. StateTypeOK'
  BY <1>1, <1>2, TypesKept, UntouchedTypes, ProcsSame, WrittenMoved DEF Tick
<1> QED BY <1>2, <1>3, Quiet DEF Tick

\* One operation changes, and is not completed.
LEMMA OperationStep ==
  ASSUME StateTypeOK, NEW r \in Runs, NEW q \in OpRow, op' = [op EXCEPT ![r] = q],
         op[r].status # "succeeded", q.status # "succeeded"
  PROVE  /\ op' \in [Runs -> OpRow]
         /\ \A x \in Runs : op'[x].status = "succeeded" <=> op[x].status = "succeeded"
<1>1. op \in [Runs -> OpRow]
  BY DEF StateTypeOK
<1> QED BY <1>1

\* A step of an operation or a process that writes nothing.
LEMMA OperationQuiet ==
  ASSUME ArtifactInv, NoIO, art' = art, delivery' = delivery, op' \in [Runs -> OpRow],
         \A x \in Runs : op'[x].status = "succeeded" <=> op[x].status = "succeeded",
         DOMAIN proc' = Actors /\ \A b \in Actors : ProcInv(proc'[b]),
         \A a \in Actors : proc'[a].step \in Working => proc'[a] = proc[a]
  PROVE  ArtifactInv'
<1> USE DEF ArtifactInv
<1>1. Written
  BY SameArt
<1>2. StateTypeOK'
  BY <1>1, TypesKept, UntouchedTypes, WrittenMoved DEF NoIO
<1> QED BY <1>1, <1>2, Quiet DEF NoIO

\* Admission.
LEMMA AdmitInv == ASSUME ArtifactInv, NEW r \in Runs, Admit(r) PROVE ArtifactInv'
<1> USE DEF ArtifactInv
<1> DEFINE q == [op[r] EXCEPT !.status = "pending", !.created = now]
<1>1. op \in [Runs -> OpRow] /\ op[r] \in OpRow /\ now \in 0 .. MaxTime
  <2>1. \A n \in 1 .. MaxTime : n \in 0 .. MaxTime
    BY ArtifactAssumption, Intervals
  <2> QED BY <2>1, UntouchedTypes
<1>2. q \in OpRow /\ q.status = "pending"
  BY <1>1 DEF OpRow
<1>3. op' = [op EXCEPT ![r] = q]
  BY <1>1 DEF Admit
<1> HIDE DEF q
<1>4. /\ op' \in [Runs -> OpRow]
      /\ \A x \in Runs : op'[x].status = "succeeded" <=> op[x].status = "succeeded"
  BY <1>2, <1>3, OperationStep DEF Admit
<1> QED BY <1>4, OperationQuiet, ProcsSame DEF Admit

\* A lease runs out.
LEMMA LapseInv == ASSUME ArtifactInv, NEW r \in Runs, Lapse(r) PROVE ArtifactInv'
<1> USE DEF ArtifactInv
<1> DEFINE q == [op[r] EXCEPT !.live = FALSE]
<1>1. op \in [Runs -> OpRow] /\ op[r] \in OpRow /\ op[r].status = "running"
  BY UntouchedTypes DEF Lapse
<1>2. q \in OpRow /\ q.status = "running"
  BY <1>1 DEF OpRow
<1>3. op' = [op EXCEPT ![r] = q]
  BY <1>1 DEF Lapse
<1> HIDE DEF q
<1>4. /\ op' \in [Runs -> OpRow]
      /\ \A x \in Runs : op'[x].status = "succeeded" <=> op[x].status = "succeeded"
  BY <1>1, <1>2, <1>3, OperationStep
<1> QED BY <1>4, OperationQuiet, ProcsSame DEF Lapse

\* Cancellation.
LEMMA CancelInv == ASSUME ArtifactInv, NEW r \in Runs, CancelFrozenRun(r) PROVE ArtifactInv'
<1> USE DEF ArtifactInv
<1> DEFINE q == [op[r] EXCEPT !.status = "cancelled", !.live = FALSE]
<1>1. op \in [Runs -> OpRow] /\ op[r] \in OpRow /\ op[r].status # "succeeded"
  BY UntouchedTypes DEF CancelFrozenRun
<1>2. q \in OpRow /\ q.status = "cancelled"
  BY <1>1 DEF OpRow
<1>3. op' = [op EXCEPT ![r] = q]
  BY <1>1 DEF CancelFrozenRun
<1> HIDE DEF q
<1>4. /\ op' \in [Runs -> OpRow]
      /\ \A x \in Runs : op'[x].status = "succeeded" <=> op[x].status = "succeeded"
  BY <1>1, <1>2, <1>3, OperationStep
<1> QED BY <1>4, OperationQuiet, ProcsSame DEF CancelFrozenRun

\* A process that holds its run has one.
LEMMA HeldFacts ==
  ASSUME StateTypeOK, NEW a \in Actors, Held(a)
  PROVE  proc[a].run \in Runs /\ op[proc[a].run].status = "running"
<1>1. proc[a].run \in Runs \cup {NoRun}
  BY ProcTypes DEF Process
<1> QED BY <1>1 DEF Held

\* A held attempt ends in an error.
LEMMA GiveUpInv ==
  ASSUME ArtifactInv, NEW a \in Actors, NEW s \in {"pending", "failed"}, GiveUp(a, s)
  PROVE  ArtifactInv'
<1> USE DEF ArtifactInv
<1> DEFINE r == proc[a].run
           q == [op[r] EXCEPT !.status = s, !.live = FALSE]
<1>0. r \in Runs /\ op[r].status = "running"
  BY HeldFacts DEF GiveUp
<1>1. op \in [Runs -> OpRow] /\ op[r] \in OpRow
  BY <1>0, UntouchedTypes
<1>2. q \in OpRow /\ q.status = s
  BY <1>1 DEF OpRow
<1>3. op' = [op EXCEPT ![r] = q]
  BY <1>0, <1>1 DEF GiveUp
<1> HIDE DEF q
<1>4. /\ op' \in [Runs -> OpRow]
      /\ \A x \in Runs : op'[x].status = "succeeded" <=> op[x].status = "succeeded"
  BY <1>0, <1>2, <1>3, OperationStep
<1>5. OnlyProc(a) /\ ProcInv(proc'[a]) /\ proc'[a].step = "idle"
  BY LeaveFacts DEF GiveUp
<1>6. \A b \in Actors : proc'[b].step \in Working => proc'[b] = proc[b]
  BY <1>5 DEF OnlyProc, Working
<1> QED BY <1>4, <1>5, <1>6, OperationQuiet, ProcsKept DEF GiveUp

\* A process dies at any step, and takes what it was granted with it.
LEMMA CrashInv == ASSUME ArtifactInv, NEW a \in Actors, Crash(a) PROVE ArtifactInv'
<1> USE DEF ArtifactInv
<1>1. OnlyProc(a) /\ ProcInv(proc'[a]) /\ proc'[a].step = "idle"
  BY LeaveFacts DEF Crash
<1>2. \A b \in Actors : proc'[b].step \in Working => proc'[b] = proc[b]
  BY <1>1 DEF OnlyProc, Working
<1>3. op' = op /\ art' = art /\ delivery' = delivery /\ NoIO
  BY DEF Crash
<1> QED BY <1>1, <1>2, <1>3, OperationQuiet, ProcsKept, UntouchedTypes

\* A claim raises the fence and makes a process that has asked for nothing.
LEMMA ClaimInv ==
  ASSUME ArtifactInv, NEW a \in Actors, NEW r \in Runs, Claim(a, r)
  PROVE  ArtifactInv'
<1> USE DEF ArtifactInv
<1> DEFINE q == [op[r] EXCEPT !.status = "running", !.fence = op[r].fence + 1, !.live = TRUE]
           s == IF r \in scheduled THEN "claimed" ELSE "reading"
           p == [Idle EXCEPT !.run = r, !.fence = op[r].fence + 1, !.step = s]
<1>1. op \in [Runs -> OpRow] /\ op[r] \in OpRow /\ op[r].status # "succeeded"
  BY UntouchedTypes DEF Claim
<1>f. op[r].fence + 1 \in Nat
  <2>1. op[r].fence \in Nat
    BY <1>1 DEF OpRow
  <2> QED BY <2>1, Numbers
<1>2. q \in OpRow /\ q.status = "running"
  BY <1>1, <1>f DEF OpRow
<1>3. op' = [op EXCEPT ![r] = q]
  BY <1>1 DEF Claim
<1>4. Idle \in Process /\ Idle.used = 0 /\ s \in Steps /\ s \in {"claimed", "reading"}
  BY IdleInv DEF ProcInv, Idle, Steps
<1>5. p \in Process /\ p.run = r /\ p.step = s /\ p.used = 0
  <2> HIDE DEF s
  <2> QED BY <1>4, <1>f DEF Process
<1>6. OnlyProc(a) /\ proc'[a] = p
  <2>1. DOMAIN proc = Actors
    BY DEF StateTypeOK
  <2> QED BY <2>1 DEF Claim, OnlyProc
<1> HIDE DEF q, p
<1>7. ProcInv(proc'[a]) /\ proc'[a].step \notin Working
  BY <1>4, <1>5, <1>6 DEF ProcInv, Working
<1>8. /\ op' \in [Runs -> OpRow]
      /\ \A x \in Runs : op'[x].status = "succeeded" <=> op[x].status = "succeeded"
  BY <1>1, <1>2, <1>3, OperationStep
<1>9. \A b \in Actors : proc'[b].step \in Working => proc'[b] = proc[b]
  BY <1>6, <1>7 DEF OnlyProc
<1> QED BY <1>6, <1>7, <1>8, <1>9, OperationQuiet, ProcsKept DEF Claim

-----------------------------------------------------------------------------
(* The steps: reading, checkpoints and erasure *)

\* One process is replaced by one that does not work on a reservation.
LEMMA ProcMade ==
  ASSUME StateTypeOK, NEW a \in Actors, NEW p, ProcInv(p), p.step \notin Working,
         proc' = [proc EXCEPT ![a] = p]
  PROVE  /\ DOMAIN proc' = Actors /\ \A b \in Actors : ProcInv(proc'[b])
         /\ \A b \in Actors : proc'[b].step \in Working => proc'[b] = proc[b]
<1>1. DOMAIN proc = Actors
  BY DEF StateTypeOK
<1>2. OnlyProc(a) /\ proc'[a] = p
  BY <1>1 DEF OnlyProc
<1>3. \A b \in Actors : proc'[b].step \in Working => proc'[b] = proc[b]
  BY <1>2 DEF OnlyProc
<1> QED BY <1>2, <1>3, ProcsKept

\* A checkpoint changes rows and one process, and nothing else.
LEMMA CheckpointQuiet ==
  ASSUME ArtifactInv, NoIO, op' = op, delivery' = delivery, Written,
         DOMAIN proc' = Actors /\ \A b \in Actors : ProcInv(proc'[b]),
         \A a \in Actors : proc'[a].step \in Working => proc'[a] = proc[a]
  PROVE  ArtifactInv'
<1> USE DEF ArtifactInv
<1>1. StateTypeOK'
  BY TypesKept, UntouchedTypes, WrittenMoved DEF NoIO
<1> QED BY <1>1, Quiet DEF NoIO

\* A process reads its artifact.
LEMMA ContinueInv == ASSUME ArtifactInv, NEW a \in Actors, Continue(a) PROVE ArtifactInv'
<1> USE DEF ArtifactInv
<1> DEFINE r == proc[a].run
           s == IF art[r].result # 0 THEN "outputs"
                ELSE IF r \in Reusing /\ read[r].number = 0 THEN "reuse" ELSE "query"
           p == [proc[a] EXCEPT !.known = art[r].outs, !.step = s]
<1>1. proc[a] \in Process /\ r \in Runs /\ proc[a].used = 0 /\ DOMAIN proc = Actors
  BY ProcTypes DEF Continue, ProcInv, StateTypeOK, Asking
<1>2. art[r].outs \in [OutputSet -> OutputStates]
  BY <1>1, RowTypes DEF StateTypeOK
<1>3. s \in {"outputs", "reuse", "query"}
  OBVIOUS
<1>4. proc' = [proc EXCEPT ![a] = p]
  BY <1>1 DEF Continue
<1> HIDE DEF s
<1>5. p \in Process /\ p.run = r /\ p.step = s /\ p.used = 0
  <2>1. s \in Steps
    BY <1>3 DEF Steps
  <2> QED BY <1>1, <1>2, <2>1 DEF Process
<1> HIDE DEF p
<1>6. ProcInv(p) /\ p.step \notin Working
  BY <1>1, <1>3, <1>5 DEF ProcInv, Working
<1>7. Written
  BY SameArt DEF Continue
<1> QED BY <1>4, <1>6, <1>7, ProcMade, CheckpointQuiet DEF Continue

\* The election is won.
LEMMA ReuseClaimInv == ASSUME ArtifactInv, NEW a \in Actors, ClaimFrozenReuse(a) PROVE ArtifactInv'
<1> USE DEF ArtifactInv
<1>1. "query" \in Steps
  BY DEF Steps
<1>2. /\ OnlyProc(a) /\ proc'[a] \in Process /\ proc'[a].step = "query"
      /\ proc'[a].run = proc[a].run /\ proc'[a].used = proc[a].used
  BY <1>1, GotoFacts DEF ClaimFrozenReuse
<1>3. proc[a].run \in Runs /\ proc[a].used = 0
  BY ProcTypes DEF ClaimFrozenReuse, ProcInv, Asking
<1>4. ProcInv(proc'[a])
  BY <1>2, <1>3 DEF ProcInv
<1>5. \A b \in Actors : proc'[b].step \in Working => proc'[b] = proc[b]
  BY <1>2 DEF OnlyProc, Working
<1>6. Written
  BY SameArt DEF ClaimFrozenReuse
<1> QED BY <1>2, <1>4, <1>5, <1>6, ProcsKept, CheckpointQuiet DEF ClaimFrozenReuse

\* A read attempt settles, and keeps its number.
LEMMA SettleInv ==
  ASSUME ArtifactInv, NEW r \in Runs, NEW s \in {"succeeded", "retryable"}, SettleRead(r, s)
  PROVE  ArtifactInv'
<1> USE DEF ArtifactInv
<1>1. now \in 0 .. MaxTime /\ read[r] \in ReadRow(r) /\ DOMAIN read = Runs
  <2>1. \A n \in 1 .. MaxTime : n \in 0 .. MaxTime
    BY ArtifactAssumption, Intervals
  <2> QED BY <2>1, UntouchedTypes
<1> DEFINE q == [read[r] EXCEPT !.state = s, !.at = now]
<1>2. q \in ReadRow(r) /\ q.number = read[r].number
  BY <1>1 DEF ReadRow
<1>3. read' = [read EXCEPT ![r] = q]
  BY <1>1 DEF SettleRead
<1> HIDE DEF q
<1>4. DOMAIN read' = Runs /\ \A x \in Runs : read'[x] \in ReadRow(x) /\ read'[x].number = read[x].number
  BY <1>1, <1>2, <1>3, UntouchedTypes
<1>5. Written
  BY SameArt DEF SettleRead
<1>6. StateTypeOK'
  BY <1>4, <1>5, TypesKept, UntouchedTypes, WrittenMoved, ProcsSame DEF SettleRead
<1> QED BY <1>4, <1>5, <1>6, Quiet DEF SettleRead

\* A checkpoint of a held run rewrites that run's row.
LEMMA RowWritten ==
  ASSUME StateTypeOK, NEW r \in Runs, NEW y, Write(art[r], y), y.from = art[r].from,
         art' = [art EXCEPT ![r] = y]
  PROVE  Written
<1>1. DOMAIN art = Runs
  BY DEF StateTypeOK
<1>2. DOMAIN art' = Runs /\ art'[r] = y /\ \A x \in Runs : x # r => art'[x] = art[x]
  BY <1>1
<1> QED BY <1>2, OneWrite

\* The result is stored.
LEMMA ResultInv ==
  ASSUME ArtifactInv, NEW a \in Actors, NEW size \in ResultBytes, FrozenResult(a, size)
  PROVE  ArtifactInv'
<1> USE DEF ArtifactInv
<1> DEFINE r == proc[a].run
           x == art[r]
           y == WithResult(x, size, read[r].at)
           p == [proc[a] EXCEPT !.step = "outputs", !.known = art[r].outs]
<1>1. r \in Runs /\ proc[a] \in Process /\ proc[a].used = 0 /\ DOMAIN proc = Actors
  BY ProcTypes DEF FrozenResult, ProcInv, StateTypeOK, Asking
<1>2. RowInv(x) /\ x.state \in {"sealed", "normalized"} /\ x.result = 0 /\ DOMAIN art = Runs
  BY <1>1 DEF StateTypeOK, FrozenResult, Checkpointable
<1>3. x.retained + size <= MaxArtifactBytes
  BY DEF FrozenResult, Fits
<1>4. read[r].at \in Nat
  <2>1. read[r].at \in 0 .. MaxTime
    BY <1>1, UntouchedTypes DEF ReadRow
  <2> QED BY <2>1, Intervals, ArtifactAssumption
<1>5. Write(x, y) /\ y.from = x.from
  BY <1>2, <1>3, <1>4, ResultRowInv
<1>6. art' = [art EXCEPT ![r] = y]
  BY <1>1, <1>2 DEF FrozenResult, WithResult
<1>7. Written
  <2> HIDE DEF y
  <2> QED BY <1>1, <1>5, <1>6, RowWritten
<1>8. p \in Process /\ p.run = r /\ p.step = "outputs" /\ p.used = 0
  <2>1. "outputs" \in Steps
    BY DEF Steps
  <2>2. art[r].outs \in [OutputSet -> OutputStates]
    BY <1>2, RowTypes
  <2> QED BY <1>1, <2>1, <2>2 DEF Process
<1>9. proc' = [proc EXCEPT ![a] = p]
  BY <1>1 DEF FrozenResult
<1> HIDE DEF p, y
<1>10. ProcInv(p) /\ p.step \notin Working
  BY <1>1, <1>8 DEF ProcInv, Working
<1> QED BY <1>7, <1>9, <1>10, ProcMade, CheckpointQuiet DEF FrozenResult

\* Whichever step stores an output, the row and its process are kept.
LEMMA StoreInv ==
  ASSUME ArtifactInv, NEW a \in Actors, NEW o \in OutputSet, NEW s \in Final,
         FrozenOutput(a, o, s), UNCHANGED <<op, delivery>>, NoIO
  PROVE  ArtifactInv'
<1> USE DEF ArtifactInv
<1> DEFINE r == proc[a].run
           p == [proc[a] EXCEPT !.step = "outputs", !.known = [proc[a].known EXCEPT ![o] = s],
                                !.used = 0]
<1>1. r \in Runs /\ proc[a] \in Process /\ DOMAIN proc = Actors
  BY HeldFacts, ProcTypes DEF FrozenOutput, Checkpointable, StateTypeOK
<1>2. RowInv(art[r]) /\ art[r].state = "normalized" /\ s \in OutputStates /\ s # "absent"
  BY <1>1 DEF StateTypeOK, FrozenOutput, OutputStates, Final
<1>3. Write(art[r], Retain(art[r], o, s)) /\ Retain(art[r], o, s).from = art[r].from
  BY <1>2, OutputRowInv DEF FrozenOutput, Fits
<1>4. Written
  BY <1>1, <1>3, RowWritten DEF FrozenOutput
<1>5. p \in Process /\ p.run = r /\ p.step = "outputs" /\ p.used = 0
  <2>1. "outputs" \in Steps
    BY DEF Steps
  <2>2. [proc[a].known EXCEPT ![o] = s] \in [OutputSet -> OutputStates]
    BY <1>2, ProcTypes
  <2>3. 0 \in 0 .. MaxCalls
    BY Limits, Numbers
  <2> QED BY <1>1, <2>1, <2>2, <2>3 DEF Process
<1>6. proc' = [proc EXCEPT ![a] = p]
  BY <1>1 DEF FrozenOutput
<1> HIDE DEF p
<1>7. ProcInv(p) /\ p.step \notin Working
  BY <1>1, <1>5 DEF ProcInv, Working
<1> QED BY <1>4, <1>6, <1>7, ProcMade, CheckpointQuiet

\* The three steps that store a final output.
LEMMA OutputInv ==
  ASSUME ArtifactInv, NEW a \in Actors, NEW i \in 1 .. Len(Outputs), NEW s \in Final,
         MakeOutput(a, i, s) \/ FinishNarrative(a, i, s) \/ CloseIndeterminate(a, i)
  PROVE  ArtifactInv'
<1>1. Outputs[i] \in OutputSet /\ "failed" \in Final
  BY DEF OutputSet, Final
<1> QED BY <1>1, StoreInv DEF MakeOutput, FinishNarrative, CloseIndeterminate

\* A sweep erases any of the due rows.
LEMMA ExpireInv ==
  ASSUME ArtifactInv, NEW S \in SUBSET Runs, ExpireFrozenArtifacts(S)
  PROVE  ArtifactInv'
<1> USE DEF ArtifactInv
<1>1. \A r \in Runs : RowInv(art[r])
  BY DEF StateTypeOK
<1>2. \A r \in Runs : Write(art[r], art'[r]) /\ art'[r].from = art[r].from
  <2> TAKE r \in Runs
  <2>1. CASE r \in S
    BY <1>1, <2>1, TombstoneRowInv DEF ExpireFrozenArtifacts
  <2>2. CASE r \notin S
    BY <1>1, <2>2, SameRow DEF ExpireFrozenArtifacts
  <2> QED BY <2>1, <2>2
<1>3. Written
  BY <1>2 DEF Written, ExpireFrozenArtifacts
<1>4. \A b \in Actors : proc'[b].step \in Working => proc'[b] = proc[b]
  BY DEF ExpireFrozenArtifacts
<1> QED BY <1>3, <1>4, ProcsSame, CheckpointQuiet DEF ExpireFrozenArtifacts

-----------------------------------------------------------------------------
(* The steps: sealing *)

\* A first seal reserves the whole artifact and nothing else changes but a process.
LEMMA SealQuiet ==
  ASSUME ArtifactInv, NEW r \in Runs, art[r].state = "absent", Quota,
         art' = [art EXCEPT ![r] = SealedRow(r)], op' = op, delivery' = delivery, NoIO,
         DOMAIN proc' = Actors /\ \A b \in Actors : ProcInv(proc'[b]),
         \A a \in Actors : proc'[a].step \in Working => proc'[a] = proc[a]
  PROVE  ArtifactInv'
<1> USE DEF ArtifactInv
<1>1. op[r].created \in 0 .. MaxTime
  BY UntouchedTypes DEF OpRow
<1>2. /\ RowInv(SealedRow(r)) /\ Moves(NoArtifact, SealedRow(r))
      /\ SealedRow(r).from = NoRun /\ ChargeOf(SealedRow(r)) = MaxArtifactBytes
  BY <1>1, SealedRowInv
<1>3. DOMAIN art = Runs /\ art[r] = NoArtifact /\ NoArtifact.from = NoRun
  BY DEF StateTypeOK, RowInv, NoArtifact
<1>4. DOMAIN art' = Runs /\ art'[r] = SealedRow(r) /\ \A x \in Runs : x # r => art'[x] = art[x]
  BY <1>3
<1>5. Moved
  <2>1. \A x \in Runs : RowInv(art[x]) /\ Moves(art[x], art[x])
    BY SameRow DEF StateTypeOK, Write
  <2>2. \A x \in Runs : RowInv(art'[x]) /\ Moves(art[x], art'[x])
    BY <1>2, <1>3, <1>4, <2>1
  <2> QED BY <1>4, <2>2 DEF Moved
<1>6. StateTypeOK'
  BY <1>5, TypesKept, UntouchedTypes DEF NoIO
<1>7. CopyInv'
  <2>1. \A x \in Runs : art'[x].from = art[x].from
    BY <1>2, <1>3, <1>4
  <2> QED BY <1>5, <2>1, KeepCopy
<1>8. TenantQuota'
  BY <1>2, <1>4, <1>5, SealQuota
<1>9. AskInv'
  <2>1. \A a \in Actors : proc'[a].step \in Asking => proc'[a] = proc[a]
    BY DEF Asking, Working
  <2> QED BY <1>5, <2>1, KeepAsk DEF NoIO
<1>10. SpendInv'
  <2>1. \A a \in Actors : proc'[a].step \in {"granted", "reserved"} => proc'[a] = proc[a]
    BY DEF Working
  <2> QED BY <2>1, KeepSpend DEF NoIO
<1>11. ReceiptInv'
  BY <1>5, KeepReceipt DEF NoIO
<1> QED BY <1>6, <1>7, <1>8, <1>9, <1>10, <1>11

\* A request is sealed.
LEMMA SealInv == ASSUME ArtifactInv, NEW r \in Runs, SealFrozenRun(r) PROVE ArtifactInv'
<1>1. DOMAIN proc' = Actors /\ \A b \in Actors : ProcInv(proc'[b])
  BY ProcsSame DEF SealFrozenRun, ArtifactInv
<1> QED BY <1>1, SealQuiet DEF SealFrozenRun

\* An occurrence is sealed, or found sealed.
LEMMA SealScheduledInv ==
  ASSUME ArtifactInv, NEW a \in Actors, SealScheduledFrozenRun(a)
  PROVE  ArtifactInv'
<1> USE DEF ArtifactInv
<1> DEFINE r == proc[a].run
<1>1. r \in Runs /\ proc[a].used = 0
  BY ProcTypes DEF SealScheduledFrozenRun, ProcInv, Asking
<1>2. /\ OnlyProc(a) /\ proc'[a] \in Process /\ proc'[a].step = "reading"
      /\ proc'[a].run = r /\ proc'[a].used = proc[a].used
  <2>1. "reading" \in Steps
    BY DEF Steps
  <2> QED BY <2>1, GotoFacts DEF SealScheduledFrozenRun
<1>3. ProcInv(proc'[a])
  BY <1>1, <1>2 DEF ProcInv
<1>4. DOMAIN proc' = Actors /\ \A b \in Actors : ProcInv(proc'[b])
  BY <1>2, <1>3, ProcsKept
<1>5. \A b \in Actors : proc'[b].step \in Working => proc'[b] = proc[b]
  BY <1>2 DEF OnlyProc, Working
<1>6. CASE art[r].state # "absent" /\ art' = art
  <2>1. Written
    BY <1>6, SameArt
  <2> QED BY <1>4, <1>5, <2>1, CheckpointQuiet DEF SealScheduledFrozenRun
<1>7. CASE art[r].state = "absent" /\ Quota /\ art' = [art EXCEPT ![r] = SealedRow(r)]
  BY <1>1, <1>4, <1>5, <1>7, SealQuiet DEF SealScheduledFrozenRun
<1> QED BY <1>6, <1>7 DEF SealScheduledFrozenRun

-----------------------------------------------------------------------------
(* The steps: completion *)

\* A process that completes its run leaves; the rest follows from what it wrote.
LEMMA CompleteQuiet ==
  ASSUME ArtifactInv, NEW a \in Actors, NEW r \in Runs, NEW outcome \in Terminal,
         CompleteRequest(r, outcome), Moved, CopyInv', art'[r].state = outcome,
         \A x \in Runs : ChargeOf(art'[x]) <= ChargeOf(art[x]), Leave(a), NoIO
  PROVE  ArtifactInv'
<1> USE DEF ArtifactInv
<1>1. /\ op' \in [Runs -> OpRow] /\ delivery' \in [Runs -> DeliveryRow]
      /\ \A x \in Runs : delivery'[x].queries = delivery[x].queries
                         /\ delivery'[x].calls = delivery[x].calls
  BY CompletionFacts
<1>2. OnlyProc(a) /\ ProcInv(proc'[a]) /\ proc'[a].step = "idle"
  BY LeaveFacts
<1>3. StateTypeOK'
  BY <1>1, <1>2, ProcsKept, TypesKept, UntouchedTypes DEF NoIO
<1>4. TenantQuota'
  BY KeepQuota
<1>5. \A b \in Actors : proc'[b].step # "idle" => proc'[b] = proc[b]
  BY <1>2 DEF OnlyProc
<1>6. AskInv'
  <2>1. \A b \in Actors : proc'[b].step \in Asking => proc'[b] = proc[b]
    BY <1>5 DEF Asking
  <2> QED BY <2>1, KeepAsk DEF NoIO
<1>7. SpendInv'
  <2>1. \A b \in Actors : proc'[b].step \in {"granted", "reserved"} => proc'[b] = proc[b]
    BY <1>5
  <2>2. \A x \in Runs : /\ read'[x].number = read[x].number
                        /\ delivery'[x].queries = delivery[x].queries
                        /\ delivery'[x].calls = delivery[x].calls
    BY <1>1 DEF NoIO
  <2> QED BY <2>1, <2>2, KeepSpend DEF NoIO
<1>8. ReceiptInv'
  BY CompleteReceipt DEF NoIO
<1> QED BY <1>3, <1>4, <1>6, <1>7, <1>8

\* A run is completed with the outcome of its outputs.
LEMMA CompleteInv == ASSUME ArtifactInv, NEW a \in Actors, Complete(a) PROVE ArtifactInv'
<1> USE DEF ArtifactInv
<1> DEFINE r == proc[a].run
<1>1. PICK outcome \in FrozenOutcomes(art[r].outs) :
        /\ art' = [art EXCEPT ![r].state = outcome, ![r].reserved = 0]
        /\ CompleteRequest(r, outcome)
  BY DEF Complete
<1>2. outcome \in Terminal /\ r \in Runs /\ DOMAIN art = Runs
  BY ProcTypes DEF FrozenOutcomes, Terminal, Complete, StateTypeOK
<1> DEFINE y == Finished(art[r], outcome)
<1>3. art' = [art EXCEPT ![r] = y]
  BY <1>1, <1>2 DEF Finished
<1>4. RowInv(art[r]) /\ art[r].state \in {"sealed", "normalized"} /\ art[r].result # 0
  BY <1>2 DEF StateTypeOK, Complete, Checkpointable
<1>5. Write(art[r], y) /\ y.from = art[r].from /\ y.state = outcome
  BY <1>2, <1>4, CompletedRowInv
<1> HIDE DEF y
<1>6. Written
  BY <1>2, <1>3, <1>5, RowWritten
<1>7. Moved /\ \A x \in Runs : ChargeOf(art'[x]) <= ChargeOf(art[x])
  BY <1>6, WrittenMoved DEF Written, Write
<1>8. CopyInv'
  BY <1>6, <1>7, KeepCopy DEF Written
<1>9. art'[r].state = outcome
  BY <1>2, <1>3, <1>5
<1> QED BY <1>1, <1>2, <1>7, <1>8, <1>9, CompleteQuiet DEF Complete

\* A run is completed with a copy.
LEMMA ReuseInv == ASSUME ArtifactInv, NEW a \in Actors, ReuseFrozenRun(a) PROVE ArtifactInv'
<1> USE DEF ArtifactInv
<1> DEFINE r == proc[a].run
<1>1. PICK c \in Candidates(r) :
        /\ Fits(r, art[c].result + AllOutputBytes(art[c].outs))
        /\ art' = [art EXCEPT ![r] = Copy(r, c)]
  BY DEF ReuseFrozenRun
<1>2. r \in Runs /\ art[r].state = "sealed" /\ DOMAIN art = Runs /\ \A x \in Runs : RowInv(art[x])
  BY ProcTypes DEF ReuseFrozenRun, StateTypeOK
<1>3. c \in Runs /\ c # r /\ art[c].state = "succeeded"
  BY <1>1 DEF Candidates
<1>4. /\ Write(art[r], Copy(r, c)) /\ Copy(r, c).state = "succeeded"
      /\ Copy(r, c).from = c /\ Copy(r, c).observed = art[c].observed
      /\ Copy(r, c).expires <= art[c].expires
  BY <1>1, <1>2, <1>3, CopyRowInv DEF Fits
<1>5. DOMAIN art' = Runs /\ art'[r] = Copy(r, c) /\ \A x \in Runs : x # r => art'[x] = art[x]
  BY <1>1, <1>2
<1>6. \A x \in Runs : Write(art[x], art'[x])
  BY <1>2, <1>4, <1>5, SameRow
<1>7. Moved /\ \A x \in Runs : ChargeOf(art'[x]) <= ChargeOf(art[x])
  BY <1>5, <1>6 DEF Moved, Write
<1>8. CopyInv'
  BY <1>2, <1>3, <1>4, <1>5, <1>7, CopyMade
<1>9. CompleteRequest(r, "succeeded") /\ "succeeded" \in Terminal /\ art'[r].state = "succeeded"
  BY <1>4, <1>5 DEF ReuseFrozenRun, Terminal
<1> QED BY <1>2, <1>7, <1>8, <1>9, CompleteQuiet DEF ReuseFrozenRun

-----------------------------------------------------------------------------
(* The steps: queries and model calls *)

\* What a reservation charges, and to whom.
LEMMA ReserveFacts ==
  ASSUME StateTypeOK, NEW a \in Actors, proc[a].run \in Runs, NEW n \in {0, 1}, NEW m \in {0, 1},
         ReserveReportingUsage(a, n, m)
  PROVE  /\ delivery' \in [Runs -> DeliveryRow]
         /\ \A r \in Runs : r # proc[a].run => delivery'[r] = delivery[r]
         /\ \A r \in Runs : /\ delivery'[r].artifact = delivery[r].artifact
                            /\ delivery'[r].catalog = delivery[r].catalog
         /\ proc[a].run \in scheduled =>
              /\ delivery'[proc[a].run].queries = delivery[proc[a].run].queries + n
              /\ delivery'[proc[a].run].calls = delivery[proc[a].run].calls + m
<1> DEFINE r == proc[a].run
           d == [delivery[r] EXCEPT !.queries = delivery[r].queries + n,
                                    !.calls = delivery[r].calls + m]
<1>1. delivery \in [Runs -> DeliveryRow] /\ delivery[r] \in DeliveryRow
  BY UntouchedTypes
<1>2. CASE r \notin scheduled
  BY <1>1, <1>2 DEF ReserveReportingUsage
<1>3. CASE r \in scheduled
  <2>1. /\ delivery[r].queries + n <= QueryLimit /\ delivery[r].calls + m <= CallLimit
        /\ delivery' = [delivery EXCEPT ![r] = d]
    BY <1>1, <1>3 DEF ReserveReportingUsage
  <2>2. delivery[r].queries \in Nat /\ delivery[r].calls \in Nat
    BY SpendTypes
  <2>3. delivery[r].queries + n \in 0 .. QueryLimit /\ delivery[r].calls + m \in 0 .. CallLimit
    <3>1. QueryLimit \in Nat /\ CallLimit \in Nat
      BY ArtifactAssumption
    <3> QED BY <2>1, <2>2, <3>1, Steady
  <2>4. /\ d \in DeliveryRow /\ d.artifact = delivery[r].artifact
        /\ d.catalog = delivery[r].catalog /\ d.queries = delivery[r].queries + n
        /\ d.calls = delivery[r].calls + m
    BY <1>1, <2>3 DEF DeliveryRow
  <2> HIDE DEF d
  <2>5. /\ delivery' \in [Runs -> DeliveryRow] /\ delivery'[r] = d
        /\ \A x \in Runs : x # r => delivery'[x] = delivery[x]
    BY <1>1, <2>1, <2>4
  <2> QED BY <2>4, <2>5
<1> QED BY <1>2, <1>3

\* A query is reserved.
LEMMA ReserveQueryInv ==
  ASSUME ArtifactInv, NEW a \in Actors, ReserveFrozenQuery(a)
  PROVE  ArtifactInv'
<1> USE DEF ArtifactInv
<1> DEFINE r == proc[a].run
           p == [proc[a] EXCEPT !.step = "reserved", !.number = NextFrozenQueryNumber(r)]
<1>1. r \in Runs /\ proc[a] \in Process /\ proc[a].used = 0 /\ DOMAIN proc = Actors
  BY ProcTypes DEF ReserveFrozenQuery, ProcInv, StateTypeOK, Asking
<1>2. /\ read[r].number \in Nat /\ read[r].number + 1 \in 1 .. QueryAttempts[r]
      /\ read[r].number + 1 \in Nat
  <2>1. read[r].number \in Nat /\ QueryAttempts[r] \in Nat
    BY <1>1, SpendTypes, ArtifactAssumption
  <2>2. read[r].number + 1 <= QueryAttempts[r]
    BY DEF ReserveFrozenQuery, NextFrozenQueryNumber
  <2> QED BY <2>1, <2>2, Numbers, Steady
<1>3. /\ p \in Process /\ p.run = r /\ p.step = "reserved" /\ p.used = 0
      /\ p.number = read[r].number + 1
  <2>1. "reserved" \in Steps
    BY DEF Steps
  <2> QED BY <1>1, <1>2, <2>1 DEF Process, NextFrozenQueryNumber
<1>4. proc' = [proc EXCEPT ![a] = p]
  BY <1>1 DEF ReserveFrozenQuery
<1> HIDE DEF p
<1>5. ProcInv(p)
  BY <1>1, <1>2, <1>3 DEF ProcInv
<1>6. OnlyProc(a) /\ proc'[a] = p
  BY <1>1, <1>4 DEF OnlyProc
<1>7. /\ delivery' \in [Runs -> DeliveryRow]
      /\ \A x \in Runs : x # r => delivery'[x] = delivery[x]
      /\ \A x \in Runs : /\ delivery'[x].artifact = delivery[x].artifact
                         /\ delivery'[x].catalog = delivery[x].catalog
      /\ r \in scheduled => /\ delivery'[r].queries = delivery[r].queries + 1
                            /\ delivery'[r].calls = delivery[r].calls + 0
  BY <1>1, ReserveFacts DEF ReserveFrozenQuery
<1>8. r \in scheduled => delivery'[r].calls = delivery[r].calls
  <2>1. delivery[r].calls \in Nat
    BY <1>1, SpendTypes
  <2>2. delivery[r].calls + 0 = delivery[r].calls
    BY <2>1, Numbers
  <2> QED BY <1>7, <2>2
<1>9. Written /\ Moved
  BY SameArt, WrittenMoved DEF ReserveFrozenQuery
<1>10. StateTypeOK'
  BY <1>5, <1>6, <1>7, <1>9, ProcsKept, TypesKept, UntouchedTypes DEF ReserveFrozenQuery, NoIO
<1>11. CopyInv' /\ TenantQuota'
  BY <1>9, KeepCopy, KeepQuota DEF Written, Write
<1>12. AskInv'
  <2>1. \A b \in Actors : proc'[b].step \in Asking => proc'[b] = proc[b]
    BY <1>3, <1>6 DEF OnlyProc, Asking
  <2> QED BY <1>9, <2>1, KeepAsk DEF ReserveFrozenQuery, NoIO
<1>13. SpendInv'
  BY <1>1, <1>3, <1>6, <1>7, <1>8, SpendQuery DEF OnlyProc, ReserveFrozenQuery, NoIO
<1>14. ReceiptInv'
  BY <1>7, <1>9, ChargeReceipt DEF ReserveFrozenQuery, NoIO
<1> QED BY <1>10, <1>11, <1>12, <1>13, <1>14

\* A reserved query is sent, by a process that may have lost its run.
LEMMA ExecuteInv == ASSUME ArtifactInv, NEW a \in Actors, Execute(a) PROVE ArtifactInv'
<1> USE DEF ArtifactInv
<1> DEFINE r == proc[a].run
           q == [number |-> proc[a].number, state |-> "open", at |-> 0]
<1>1. r \in Runs /\ proc[a].used = 0 /\ proc[a].number \in 1 .. QueryAttempts[r]
      /\ proc[a].step = "reserved"
  BY ProcTypes DEF Execute, ProcInv, Asking
<1>2. q \in ReadRow(r) /\ q.number = proc[a].number
  <2>1. proc[a].number \in 0 .. QueryAttempts[r] /\ 0 \in 0 .. MaxTime
    <3>1. QueryAttempts[r] \in Nat /\ MaxTime \in Nat
      BY <1>1, ArtifactAssumption
    <3> QED BY <1>1, <3>1, Numbers, Intervals
  <2> QED BY <2>1 DEF ReadRow
<1>3. read' = [read EXCEPT ![r] = q]
  BY DEF Execute
<1> HIDE DEF q
<1>4. /\ DOMAIN read' = Runs /\ read'[r] = q /\ \A x \in Runs : x # r => read'[x] = read[x]
      /\ \A x \in Runs : read'[x] \in ReadRow(x)
  BY <1>1, <1>2, <1>3, UntouchedTypes
<1>5. /\ queried' \in [Runs -> Nat] /\ queried'[r] = queried[r] + 1
      /\ \A x \in Runs : x # r => queried'[x] = queried[x]
  <2>1. queried \in [Runs -> Nat] /\ queried[r] \in Nat
    BY <1>1 DEF StateTypeOK
  <2>2. queried[r] + 1 \in Nat
    BY <2>1, Numbers
  <2> QED BY <1>1, <2>1, <2>2 DEF Execute
<1>6. /\ OnlyProc(a) /\ proc'[a] \in Process /\ proc'[a].step = "asked"
      /\ proc'[a].run = r /\ proc'[a].used = proc[a].used
  <2>1. "asked" \in Steps
    BY DEF Steps
  <2> QED BY <2>1, GotoFacts DEF Execute
<1>7. ProcInv(proc'[a])
  BY <1>1, <1>6 DEF ProcInv
<1>8. Written /\ Moved
  BY SameArt, WrittenMoved DEF Execute
<1>9. StateTypeOK'
  <2>1. DOMAIN proc' = Actors /\ \A b \in Actors : ProcInv(proc'[b])
    BY <1>6, <1>7, ProcsKept
  <2> QED BY <1>4, <1>5, <2>1 DEF StateTypeOK, Execute
<1>10. CopyInv' /\ TenantQuota'
  BY <1>8, KeepCopy, KeepQuota DEF Written, Write
<1>11. AskInv'
  <2>1. \A b \in Actors : proc'[b].step \in Asking => proc'[b] = proc[b]
    BY <1>6 DEF OnlyProc, Asking
  <2> QED BY <1>8, <2>1, KeepAsk DEF Execute
<1>12. SpendInv'
  BY <1>1, <1>2, <1>4, <1>5, <1>6, SpendExecute DEF OnlyProc, Execute
<1>13. ReceiptInv'
  BY <1>8, KeepReceipt DEF Execute
<1> QED BY <1>9, <1>10, <1>11, <1>12, <1>13

\* A narrative is started: its output was absent, so nobody has asked for it yet.
LEMMA StartInv ==
  ASSUME ArtifactInv, NEW a \in Actors, NEW i \in 1 .. Len(Outputs), StartNarrative(a, i)
  PROVE  ArtifactInv'
<1> USE DEF ArtifactInv
<1> DEFINE r == proc[a].run
           o == Outputs[i]
<1>1. /\ r \in Runs /\ proc[a].used = 0 /\ o \in Narratives /\ o \in OutputSet
      /\ proc[a].step = "outputs"
  BY ProcTypes, NarrativesAreOutputs DEF StartNarrative, ProcInv, Asking
<1>2. /\ RowInv(art[r]) /\ art[r].state = "normalized" /\ art[r].outs[o] = "absent"
      /\ art[r].retained + OutputBytes("indeterminate") <= MaxArtifactBytes /\ DOMAIN art = Runs
  BY <1>1 DEF StateTypeOK, StartNarrative, Fits
<1>3. /\ Write(art[r], Started(art[r], o)) /\ Started(art[r], o).from = art[r].from
      /\ Started(art[r], o).outs[o] = "indeterminate"
  BY <1>1, <1>2, StartedRowInv
<1>4. Written /\ Moved
  BY <1>1, <1>3, RowWritten, WrittenMoved DEF StartNarrative
<1>5. art'[r].outs[o] = "indeterminate"
  BY <1>1, <1>2, <1>3 DEF StartNarrative
<1>6. /\ OnlyProc(a) /\ proc'[a] \in Process /\ proc'[a].step = "model"
      /\ proc'[a].run = r /\ proc'[a].known = proc[a].known /\ proc'[a].used = proc[a].used
  <2>1. "model" \in Steps
    BY DEF Steps
  <2> QED BY <2>1, GotoFacts DEF StartNarrative
<1>7. ProcInv(proc'[a])
  BY <1>1, <1>6 DEF ProcInv, Asking
<1>8. StateTypeOK'
  BY <1>4, <1>6, <1>7, ProcsKept, TypesKept, UntouchedTypes DEF StartNarrative, NoIO
<1>9. CopyInv' /\ TenantQuota'
  BY <1>4, KeepCopy, KeepQuota DEF Written, Write
<1>10. AskInv'
  <2>1. Asks(proc'[a], r, o)
    <3>1. First(proc'[a].known, i)
      BY <1>6 DEF StartNarrative, IsNext, First
    <3> QED BY <1>6, <3>1 DEF Asks, Asking
  <2>2. called' = called /\ \A b \in Actors : b # a => proc'[b] = proc[b]
    BY <1>6 DEF OnlyProc, StartNarrative, NoIO
  <2> HIDE DEF o
  <2> QED BY <1>1, <1>2, <1>4, <1>5, <1>6, <2>1, <2>2, StartAsk
<1>11. SpendInv'
  <2>1. \A b \in Actors : proc'[b].step \in {"granted", "reserved"} => proc'[b] = proc[b]
    BY <1>6 DEF OnlyProc
  <2> QED BY <2>1, KeepSpend DEF StartNarrative, NoIO
<1>12. ReceiptInv'
  BY <1>4, KeepReceipt DEF StartNarrative, NoIO
<1> QED BY <1>8, <1>9, <1>10, <1>11, <1>12

\* A model request is reserved.
LEMMA ReserveInv == ASSUME ArtifactInv, NEW a \in Actors, Reserve(a) PROVE ArtifactInv'
<1> USE DEF ArtifactInv
<1> DEFINE r == proc[a].run
           p == [proc[a] EXCEPT !.step = "granted", !.used = proc[a].used + 1]
<1>1. r \in Runs /\ proc[a] \in Process /\ DOMAIN proc = Actors /\ proc[a].step = "model"
  BY ProcTypes DEF Reserve, StateTypeOK
<1>2. proc[a].used + 1 \in 0 .. MaxCalls
  <2>1. proc[a].used \in 0 .. MaxCalls /\ proc[a].used < MaxCalls
    BY <1>1 DEF Process, Reserve, ReserveAttempt
  <2> QED BY <2>1, Limits, Steady
<1>3. /\ p \in Process /\ p.run = r /\ p.step = "granted" /\ p.known = proc[a].known
      /\ p.used = proc[a].used + 1
  <2>1. "granted" \in Steps
    BY DEF Steps
  <2> QED BY <1>1, <1>2, <2>1 DEF Process
<1>4. proc' = [proc EXCEPT ![a] = p]
  BY <1>1 DEF Reserve
<1> HIDE DEF p
<1>5. ProcInv(p)
  BY <1>1, <1>3 DEF ProcInv, Asking
<1>6. OnlyProc(a) /\ proc'[a] = p
  BY <1>1, <1>4 DEF OnlyProc
<1>7. /\ delivery' \in [Runs -> DeliveryRow]
      /\ \A x \in Runs : x # r => delivery'[x] = delivery[x]
      /\ \A x \in Runs : /\ delivery'[x].artifact = delivery[x].artifact
                         /\ delivery'[x].catalog = delivery[x].catalog
      /\ r \in scheduled => /\ delivery'[r].queries = delivery[r].queries + 0
                            /\ delivery'[r].calls = delivery[r].calls + 1
  BY <1>1, ReserveFacts DEF Reserve, ReserveAttempt
<1>8. r \in scheduled => delivery'[r].queries = delivery[r].queries
  <2>1. delivery[r].queries \in Nat
    BY <1>1, SpendTypes
  <2>2. delivery[r].queries + 0 = delivery[r].queries
    BY <2>1, Numbers
  <2> QED BY <1>7, <2>2
<1>9. Written /\ Moved
  BY SameArt, WrittenMoved DEF Reserve
<1>10. StateTypeOK'
  BY <1>5, <1>6, <1>7, <1>9, ProcsKept, TypesKept, UntouchedTypes DEF Reserve, NoIO
<1>11. CopyInv' /\ TenantQuota'
  BY <1>9, KeepCopy, KeepQuota DEF Written, Write
<1>12. AskInv'
  BY <1>1, <1>3, <1>6, <1>9, ReserveAsk DEF OnlyProc, Reserve, NoIO
<1>13. SpendInv'
  BY <1>1, <1>3, <1>6, <1>7, <1>8, SpendCall DEF OnlyProc, Reserve, NoIO
<1>14. ReceiptInv'
  BY <1>7, <1>9, ChargeReceipt DEF Reserve, NoIO
<1> QED BY <1>10, <1>11, <1>12, <1>13, <1>14

\* A reserved request is sent: the grant becomes a call.
LEMMA GenerateInv ==
  ASSUME ArtifactInv, NEW a \in Actors, NEW i \in 1 .. Len(Outputs), Generate(a, i)
  PROVE  ArtifactInv'
<1> USE DEF ArtifactInv
<1> DEFINE r == proc[a].run
           o == Outputs[i]
           c == [called[r] EXCEPT ![o] = called[r][o] + 1]
<1>1. r \in Runs /\ proc[a].step = "granted" /\ First(proc[a].known, i)
  BY ProcTypes DEF Generate, IsNext, First
<1>2. Asks(proc[a], r, o) /\ o \in Narratives
  <2>1. Asks(proc[a], r, o)
    BY <1>1 DEF Asks, Asking
  <2>2. PICK z \in Narratives : Asks(proc[a], r, z)
    BY <1>1 DEF AskInv, Asking
  <2>3. o = z
    BY <2>1, <2>2, AsksOne
  <2> QED BY <2>1, <2>3
<1>3. /\ called \in [Runs -> [Narratives -> Nat]] /\ called[r] \in [Narratives -> Nat]
      /\ called[r][o] + 1 \in Nat
  <2>1. called \in [Runs -> [Narratives -> Nat]] /\ called[r] \in [Narratives -> Nat]
        /\ called[r][o] \in Nat
    BY <1>1, <1>2 DEF StateTypeOK
  <2>2. called[r][o] + 1 \in Nat
    BY <2>1, Numbers
  <2> QED BY <2>1, <2>2
<1>4. called' = [called EXCEPT ![r] = c]
  BY <1>1, <1>3 DEF Generate
<1>5. /\ c \in [Narratives -> Nat]
      /\ \A z \in Narratives : c[z] = IF z = o THEN called[r][z] + 1 ELSE called[r][z]
  BY <1>2, <1>3
<1>6. /\ OnlyProc(a) /\ proc'[a] \in Process /\ proc'[a].step = "model"
      /\ proc'[a].run = r /\ proc'[a].known = proc[a].known /\ proc'[a].used = proc[a].used
  <2>1. "model" \in Steps
    BY DEF Steps
  <2> QED BY <2>1, GotoFacts DEF Generate
<1> HIDE DEF c
<1>7. /\ called' \in [Runs -> [Narratives -> Nat]] /\ called'[r] = c
      /\ \A x \in Runs : x # r => called'[x] = called[x]
  BY <1>1, <1>3, <1>4, <1>5
<1> HIDE DEF o
<1>8. \A x \in Runs, z \in Narratives :
        called'[x][z] = IF x = r /\ z = o THEN called[x][z] + 1 ELSE called[x][z]
  BY <1>5, <1>7
<1>9. ProcInv(proc'[a])
  BY <1>1, <1>6 DEF ProcInv, Asking
<1>10. Written /\ Moved
  BY SameArt, WrittenMoved DEF Generate
<1>11. StateTypeOK'
  <2>1. DOMAIN proc' = Actors /\ \A b \in Actors : ProcInv(proc'[b])
    BY <1>6, <1>9, ProcsKept
  <2> QED BY <1>7, <2>1 DEF StateTypeOK, Generate
<1>12. CopyInv' /\ TenantQuota'
  BY <1>10, KeepCopy, KeepQuota DEF Written, Write
<1>13. AskInv'
  BY <1>1, <1>2, <1>6, <1>8, <1>10, GenerateAsk DEF OnlyProc
<1>14. SpendInv'
  <2>1. /\ queried' = queried /\ scheduled' = scheduled /\ read' = read /\ delivery' = delivery
        /\ \A b \in Actors : b # a => proc'[b] = proc[b]
    BY <1>6 DEF Generate, OnlyProc
  <2> QED BY <1>1, <1>2, <1>6, <1>7, <1>8, <2>1, SpendGenerate
<1>15. ReceiptInv'
  BY <1>10, KeepReceipt DEF Generate
<1> QED BY <1>11, <1>12, <1>13, <1>14, <1>15

-----------------------------------------------------------------------------
(* The invariant is inductive *)

\* The initial tables satisfy it: nothing is charged, granted or published.
LEMMA ArtifactStart == ASSUME Init PROVE ArtifactInv
<1>1. 1 \in 1 .. MaxTime /\ 0 \in 0 .. MaxTime /\ 0 \in Nat
  BY ClockStarts, Numbers, ArtifactAssumption
<1>2. StateTypeOK
  <2>1. now \in 1 .. MaxTime /\ scheduled \in SUBSET Runs
    BY <1>1, ArtifactAssumption DEF Init
  <2>2. op \in [Runs -> OpRow]
    <3>1. [status |-> "none", fence |-> 0, live |-> FALSE, created |-> 0] \in OpRow
      BY <1>1 DEF OpRow
    <3> QED BY <3>1 DEF Init
  <2>3. DOMAIN art = Runs /\ \A r \in Runs : RowInv(art[r])
    BY NoArtifactInv DEF Init
  <2>4. DOMAIN read = Runs /\ \A r \in Runs : read[r] \in ReadRow(r)
    <3>1. \A r \in Runs : 0 \in 0 .. QueryAttempts[r]
      BY ArtifactAssumption, Numbers
    <3>2. \A r \in Runs : [number |-> 0, state |-> "none", at |-> 0] \in ReadRow(r)
      BY <1>1, <3>1 DEF ReadRow
    <3> QED BY <3>2 DEF Init
  <2>5. delivery \in [Runs -> DeliveryRow]
    <3>1. 0 \in 0 .. QueryLimit /\ 0 \in 0 .. CallLimit
      BY ArtifactAssumption, Numbers
    <3>2. NoDelivery \in DeliveryRow
      BY <3>1 DEF NoDelivery, DeliveryRow
    <3> QED BY <3>2 DEF Init
  <2>6. DOMAIN proc = Actors /\ \A a \in Actors : ProcInv(proc[a])
    BY IdleInv DEF Init
  <2>7. queried \in [Runs -> Nat] /\ called \in [Runs -> [Narratives -> Nat]]
    BY <1>1 DEF Init
  <2> QED BY <2>1, <2>2, <2>3, <2>4, <2>5, <2>6, <2>7 DEF StateTypeOK
<1>3. CopyInv
  BY DEF Init, CopyInv, NoArtifact
<1>4. TenantQuota
  <2>1. [r \in Runs |-> ChargeOf(art[r])] = [r \in Runs |-> 0]
    BY NoArtifactInv DEF Init
  <2>2. Charged = 0
    BY <2>1, ChargedFacts, SumZeros, ArtifactAssumption
  <2> QED BY <2>2, Limits, Numbers DEF TenantQuota
<1>5. \A a \in Actors : proc[a].step = "idle"
  BY IdleInv DEF Init
<1>6. AskInv
  <2>1. \A a \in Actors : proc[a].step \notin Asking
    BY <1>5 DEF Asking
  <2>2. \A r \in Runs, o \in Narratives : called[r][o] = 0
    BY DEF Init
  <2>3. \A r, o : \A a \in Actors : ~Asks(proc[a], r, o)
    BY <2>1 DEF Asks
  <2>4. 0 <= MaxCalls
    BY Limits, Numbers
  <2> QED BY <2>1, <2>2, <2>3, <2>4 DEF AskInv, NarrativeInv
<1>7. SpendInv
  <2>1. \A r \in Runs : queried[r] = 0 /\ read[r].number = 0 /\ called[r] = [o \in Narratives |-> 0]
                        /\ delivery[r].queries = 0 /\ delivery[r].calls = 0
    BY DEF Init, NoDelivery
  <2>2. \A r \in Runs : Grants(r) = {}
    BY <1>5 DEF Grants, Granted
  <2>3. Credits([o \in Narratives |-> 0], {}) = [o \in Narratives |-> 0]
    BY Numbers DEF Credits
  <2>4. SumFunction([o \in Narratives |-> 0]) = 0
    BY SumZeros, NarrativesFinite
  <2>5. 0 <= 0
    BY Numbers
  <2>6. scheduled \subseteq Runs
    BY <1>2 DEF StateTypeOK
  <2>7. \A r \in Runs : SumFunction(Credits(called[r], Grants(r))) = 0
    BY <2>1, <2>2, <2>3, <2>4
  <2> QED BY <1>5, <2>1, <2>5, <2>6, <2>7 DEF SpendInv
<1>8. ReceiptInv
  <2>1. scheduled \subseteq Runs
    BY <1>2 DEF StateTypeOK
  <2> QED BY <2>1 DEF Init, ReceiptInv, NoDelivery
<1> QED BY <1>2, <1>3, <1>4, <1>6, <1>7, <1>8 DEF ArtifactInv

\* Every step keeps it.
LEMMA ArtifactStep == ASSUME ArtifactInv, [Next]_vars PROVE ArtifactInv'
<1>1. CASE Tick
  BY <1>1, TickInv
<1>2. CASE \E r \in Runs :
             \/ Admit(r) \/ SealFrozenRun(r) \/ Lapse(r) \/ CancelFrozenRun(r)
             \/ \E s \in {"succeeded", "retryable"} : SettleRead(r, s)
             \/ \E a \in Actors : Claim(a, r)
  BY <1>2, AdmitInv, SealInv, LapseInv, CancelInv, SettleInv, ClaimInv
<1>3. ASSUME NEW a \in Actors,
             \/ SealScheduledFrozenRun(a) \/ Continue(a) \/ ReuseFrozenRun(a) \/ ClaimFrozenReuse(a)
             \/ ReserveFrozenQuery(a) \/ Execute(a) \/ Reserve(a) \/ Complete(a) \/ Crash(a)
      PROVE  ArtifactInv'
  BY <1>3, SealScheduledInv, ContinueInv, ReuseInv, ReuseClaimInv, ReserveQueryInv, ExecuteInv,
     ReserveInv, CompleteInv, CrashInv
<1>4. ASSUME NEW a \in Actors, \E size \in ResultBytes : FrozenResult(a, size)
      PROVE  ArtifactInv'
  BY <1>4, ResultInv
<1>5. ASSUME NEW a \in Actors, NEW i \in 1 .. Len(Outputs),
             \/ \E s \in Final : MakeOutput(a, i, s) \/ FinishNarrative(a, i, s)
             \/ StartNarrative(a, i) \/ Generate(a, i) \/ CloseIndeterminate(a, i)
      PROVE  ArtifactInv'
  <2>1. "failed" \in Final
    BY DEF Final
  <2> QED BY <1>5, <2>1, OutputInv, StartInv, GenerateInv
<1>6. ASSUME NEW a \in Actors, \E s \in {"pending", "failed"} : GiveUp(a, s)
      PROVE  ArtifactInv'
  BY <1>6, GiveUpInv
<1>7. CASE \E S \in SUBSET Runs : ExpireFrozenArtifacts(S)
  BY <1>7, ExpireInv
<1>8. CASE UNCHANGED vars
  <2>1. /\ op' = op /\ art' = art /\ delivery' = delivery /\ proc' = proc /\ NoIO
    BY <1>8 DEF vars, NoIO
  <2> QED BY <2>1, OperationQuiet, ProcsSame, UntouchedTypes DEF ArtifactInv
<1> QED BY <1>1, <1>2, <1>3, <1>4, <1>5, <1>6, <1>7, <1>8 DEF Next

\* The invariant holds in every reachable state, for any runs, processes, outputs, sizes and
\* limits.
THEOREM ArtifactInvariant == ArtifactSpec => []ArtifactInv
<1>1. Init => ArtifactInv
  BY ArtifactStart
<1>2. ArtifactInv /\ [Next]_vars => ArtifactInv'
  BY ArtifactStep
<1> QED BY <1>1, <1>2, PTL DEF ArtifactSpec

-----------------------------------------------------------------------------
(* What the artifacts promise *)

\* Every table and process keeps its type, and no artifact outgrows its limit.
THEOREM ArtifactTypes == ArtifactSpec => []ArtifactTypeOK
<1>1. ArtifactInv => ArtifactTypeOK
  <2> SUFFICES ASSUME ArtifactInv PROVE ArtifactTypeOK
    OBVIOUS
  <2> USE DEF ArtifactInv
  <2>1. \A r \in Runs : /\ art[r].state \in {"absent", "sealed", "normalized", "expired"} \cup Terminal
                        /\ art[r].outs \in [OutputSet -> OutputStates]
                        /\ art[r].from \in Runs \cup {NoRun}
    BY RowTypes DEF StateTypeOK, RowStates
  <2>2. \A r \in Runs : art[r].retained \in 0 .. MaxArtifactBytes
    <3> TAKE r \in Runs
    <3>1. art[r].retained \in Nat /\ art[r].retained <= MaxArtifactBytes
      BY RowTypes DEF StateTypeOK, RowInv
    <3> QED BY <3>1, Limits, Intervals
  <2>3. \A r \in Runs : read[r] \in [number : 0 .. QueryAttempts[r], at : 0 .. MaxTime,
                                     state : {"none", "open", "retryable", "succeeded"}]
    BY DEF StateTypeOK, ReadRow
  <2>4. \A a \in Actors : proc[a].step \in Steps /\ proc[a].used \in 0 .. MaxCalls
    BY DEF StateTypeOK, ProcInv, Process
  <2> QED BY <2>1, <2>2, <2>3, <2>4 DEF StateTypeOK, OpRow, ArtifactTypeOK
<1> QED BY <1>1, ArtifactInvariant, PTL

\* However often a run is crashed, taken over or worked on by a process that lost it, the
\* model is asked for one narrative no more often than its one start reserved.
THEOREM AskedOnce == ArtifactSpec => []NarrativeAskedOnce
<1>1. ArtifactInv => NarrativeAskedOnce
  BY DEF ArtifactInv, AskInv, NarrativeInv, NarrativeAskedOnce
<1> QED BY <1>1, ArtifactInvariant, PTL

\* Every query and model request of an occurrence was reserved before, and the reservations
\* never pass its budget.
THEOREM BudgetKept == ArtifactSpec => []BudgetHolds
<1>1. ArtifactInv => BudgetHolds
  <2> SUFFICES ASSUME ArtifactInv, NEW r \in scheduled
               PROVE  /\ queried[r] <= delivery[r].queries /\ delivery[r].queries <= QueryLimit
                      /\ ModelCalls(r) <= delivery[r].calls /\ delivery[r].calls <= CallLimit
    BY DEF BudgetHolds
  <2> USE DEF ArtifactInv
  <2>1. r \in Runs
    BY DEF StateTypeOK
  <2>2. queried[r] <= delivery[r].queries
    BY <2>1 DEF SpendInv
  <2>3. delivery[r].queries <= QueryLimit /\ delivery[r].calls <= CallLimit
    <3>1. delivery[r].queries \in 0 .. QueryLimit /\ delivery[r].calls \in 0 .. CallLimit
      BY <2>1, UntouchedTypes DEF DeliveryRow
    <3>2. QueryLimit \in Nat /\ CallLimit \in Nat
      BY ArtifactAssumption
    <3> QED BY <3>1, <3>2, Intervals
  <2>4. ModelCalls(r) <= delivery[r].calls
    <3> DEFINE all == SumFunction(Credits(called[r], Grants(r)))
    <3>1. called[r] \in [Narratives -> Nat] /\ delivery[r].calls \in Nat
      BY <2>1, SpendTypes
    <3>2. SumFunction(called[r]) <= all /\ all \in Int
      BY <3>1, CallsCredited, CreditTypes
    <3>3. all <= delivery[r].calls
      BY DEF SpendInv
    <3>4. SumFunction(called[r]) \in Nat
      BY <3>1, SumNaturals, NarrativesFinite
    <3> HIDE DEF all
    <3> QED BY <3>1, <3>2, <3>3, <3>4, Orders DEF ModelCalls
  <2> QED BY <2>2, <2>3, <2>4
<1> QED BY <1>1, ArtifactInvariant, PTL

\* The byte count of every row is the size of its payload.
THEOREM BytesCounted == ArtifactSpec => []BytesAccounted
<1>1. ArtifactInv => BytesAccounted
  BY DEF ArtifactInv, StateTypeOK, RowInv, BytesAccounted
<1> QED BY <1>1, ArtifactInvariant, PTL

\* What all runs hold or may still write fits in the tenant's quota.
THEOREM QuotaKept == ArtifactSpec => []TenantQuota
BY ArtifactInvariant, PTL DEF ArtifactInv

\* A copy keeps its origin's observation time and goes no later than it.
THEOREM OriginKept == ArtifactSpec => []CopiesKeepOrigin
<1>1. ArtifactInv => CopiesKeepOrigin
  BY DEF ArtifactInv, CopyInv, CopiesKeepOrigin
<1> QED BY <1>1, ArtifactInvariant, PTL

\* A receipt announces only what a reader gets at that moment, and announces availability
\* exactly for the occurrences that succeeded and are still kept.
THEOREM ReceiptsTruthful == ArtifactSpec => []ReceiptIsTruthful
<1>1. ArtifactInv => ReceiptIsTruthful
  <2> DEFINE Honest(r) ==
        /\ ReportingReceipt(r).artifact = "retained" => Readable(r)
        /\ ReportingReceipt(r).catalog = "available" => op[r].status = "succeeded" /\ Readable(r)
        /\ op[r].status = "succeeded" /\ Readable(r) => ReportingReceipt(r).catalog = "available"
  <2> SUFFICES ASSUME ArtifactInv, NEW r \in scheduled PROVE Honest(r)
    BY DEF ReceiptIsTruthful
  <2> USE DEF ArtifactInv
  <2>1. r \in Runs /\ RowInv(art[r]) /\ delivery[r] \in DeliveryRow
    BY DEF StateTypeOK
  <2>2. /\ delivery[r].artifact = "retained" => delivery[r].catalog # "pending"
        /\ delivery[r].catalog = "available" <=> op[r].status = "succeeded"
        /\ delivery[r].catalog # "pending" => art[r].state \in Closed
    BY DEF ReceiptInv
  <2>3. CASE art[r].state = "absent"
    <3>1. delivery[r].catalog = "pending" /\ delivery[r].artifact # "retained"
      BY <2>2, <2>3 DEF Closed, Terminal
    <3>2. /\ ReportingReceipt(r).artifact = delivery[r].artifact
          /\ ReportingReceipt(r).catalog \in {"pending", "unavailable"}
      BY <2>1, <2>3, <3>1 DEF ReportingReceipt, DeliveryRow
    <3>3. ~Readable(r)
      BY <2>3 DEF Readable, Terminal
    <3> QED BY <3>1, <3>2, <3>3
  <2>4. CASE art[r].state # "absent" /\ (art[r].state = "expired" \/ art[r].expires <= now)
    <3>1. ReportingReceipt(r).artifact = "expired" /\ ReportingReceipt(r).catalog = "expired"
      BY <2>1, <2>4 DEF ReportingReceipt, DeliveryRow
    <3>2. ~(art[r].expires <= now /\ now < art[r].expires)
      <4>1. art[r].expires \in Nat /\ now \in Nat
        BY <2>1, RowTypes, Intervals, ArtifactAssumption DEF StateTypeOK
      <4> QED BY <4>1, Orders
    <3>3. ~Readable(r)
      BY <2>4, <3>2 DEF Readable, Unexpired
    <3> QED BY <3>1, <3>3
  <2>5. CASE art[r].state # "absent" /\ art[r].state # "expired" /\ ~(art[r].expires <= now)
    <3>1. /\ ReportingReceipt(r).catalog = delivery[r].catalog
          /\ ReportingReceipt(r).artifact = IF art[r].state \in {"succeeded", "partial"}
                                            THEN "retained" ELSE delivery[r].artifact
      BY <2>1, <2>5 DEF ReportingReceipt, DeliveryRow
    <3>2. now < art[r].expires
      <4>1. art[r].expires \in Nat /\ now \in Nat
        BY <2>1, RowTypes, Intervals, ArtifactAssumption DEF StateTypeOK
      <4> QED BY <2>5, <4>1, Orders
    <3>3. art[r].state \in Terminal => Readable(r)
      BY <2>1, <2>5, <3>2 DEF RowInv, Readable, Unexpired
    <3>4. delivery[r].catalog # "pending" => Readable(r)
      BY <2>2, <2>5, <3>3 DEF Closed
    <3>5. ReportingReceipt(r).artifact = "retained" => Readable(r)
      BY <2>2, <3>1, <3>3, <3>4 DEF Terminal
    <3> QED BY <2>2, <3>1, <3>4, <3>5
  <2> HIDE DEF Honest
  <2> QED BY <2>3, <2>4, <2>5
<1> QED BY <1>1, ArtifactInvariant, PTL

=============================================================================
