------------------------------ MODULE TaskProof ------------------------------
(***************************************************************************)
(* Claims are exclusive, Dispatch implements ExclusiveTask, and the        *)
(* pending and concurrency limits hold, for any limits, tenants, processes *)
(* and children.                                                           *)
(***************************************************************************)
EXTENDS DispatchProof, FiniteSetTheorems

\* Zenon does the first-order steps; a step beyond it cites SMT.
USE Zenon

-----------------------------------------------------------------------------
(* Exclusive claims *)

\* With fn the fences of the rows: the fences that the processes of R remember were
\* granted, and never one of them twice.
Grants(R, fn) ==
  /\ \A a \in Actors : R[a] # Idle => R[a].fence <= fn[R[a].op]
  /\ \A a, b \in Actors : a # b /\ R[a] # Idle /\ R[a].op = R[b].op => R[a].fence # R[b].fence

\* The strengthening that makes SingleHolder inductive.
ClaimInv == Grants(run, fence) /\ Grants(sub, fence)

\* While no fence goes back, processes that keep or drop their claims keep Grants.
LEMMA GrantsKept ==
  ASSUME NEW R \in [Actors -> Runs], NEW S \in [Actors -> Runs], NEW fn, NEW gn,
         \A o \in Ops : fn[o] \in Nat /\ gn[o] \in Nat /\ fn[o] <= gn[o],
         Grants(R, fn), Kept(R, S)
  PROVE  Grants(S, gn)
<1>1. \A a \in Actors : S[a] # Idle => S[a].op \in Ops /\ S[a].fence \in Nat
  BY SMT, LedgerAssumption DEF Runs, Fences
<1>2. \A a \in Actors : S[a] # Idle => S[a].fence <= gn[S[a].op]
  BY SMT, <1>1 DEF Grants, Kept
<1>3. \A a, b \in Actors : a # b /\ S[a] # Idle /\ S[a].op = S[b].op => S[a].fence # S[b].fence
  <2> TAKE a, b \in Actors
  <2> HAVE a # b /\ S[a] # Idle /\ S[a].op = S[b].op
  <2>1. S[a].op \in Ops
    BY <1>1
  <2>2. S[b] # Idle
    BY SMT, <2>1, LedgerAssumption DEF Idle
  <2> QED BY <2>2 DEF Grants, Kept
<1> QED BY <1>2, <1>3 DEF Grants

\* A new claim takes the next fence of its row, which nobody remembers yet.
LEMMA GrantsNew ==
  ASSUME NEW R \in [Actors -> Runs], NEW fn, NEW gn, NEW a \in Actors, NEW o \in Ops,
         \A x \in Ops : fn[x] \in Nat /\ gn[x] \in Nat /\ fn[x] <= gn[x],
         Grants(R, fn), gn[o] = fn[o] + 1
  PROVE  Grants([R EXCEPT ![a] = Working(o, fn[o] + 1)], gn)
<1> DEFINE S == [R EXCEPT ![a] = Working(o, fn[o] + 1)]
<1>1. S[a].op = o /\ S[a].fence = fn[o] + 1
  BY DEF Working
<1>2. \A b \in Actors : b # a => S[b] = R[b]
  OBVIOUS
<1>3. \A b \in Actors : R[b] # Idle => R[b].op \in Ops /\ R[b].fence \in Nat
  BY SMT, LedgerAssumption DEF Runs, Fences
<1>4. \A b \in Actors : R[b] # Idle => R[b].fence <= fn[R[b].op]
  BY DEF Grants
<1> HIDE DEF S
<1>5. \A b \in Actors : S[b] # Idle => S[b].fence <= gn[S[b].op]
  <2> TAKE b \in Actors
  <2>1. CASE b = a
    BY SMT, <2>1, <1>1
  <2>2. CASE b # a
    BY SMT, <2>2, <1>2, <1>3, <1>4
  <2> QED BY <2>1, <2>2
<1>6. \A b \in Actors : b # a /\ S[b].op = o => S[b].fence # fn[o] + 1
  <2> TAKE b \in Actors
  <2> HAVE b # a /\ S[b].op = o
  <2>1. R[b] # Idle /\ S[b] = R[b]
    BY SMT, <1>2, LedgerAssumption DEF Idle
  <2> QED BY SMT, <2>1, <1>3, <1>4
<1>7. \A b, c \in Actors : b # c /\ S[b] # Idle /\ S[b].op = S[c].op => S[b].fence # S[c].fence
  BY SMT, <1>1, <1>2, <1>6 DEF Grants
<1>8. Grants(S, gn)
  BY <1>5, <1>7 DEF Grants
<1> QED BY <1>8 DEF S

\* Every step preserves the claim invariant.
LEMMA NextClaims ==
  ASSUME Inv, ClaimInv, Next
  PROVE  ClaimInv'
<1>a. /\ run \in [Actors -> Runs] /\ sub \in [Actors -> Runs]
      /\ run' \in [Actors -> Runs] /\ sub' \in [Actors -> Runs]
  BY NextInv DEF Inv, TypeOK, Runs, Idle, Fences
<1>c. \A o \in Ops : fence[o] \in Nat /\ fence'[o] \in Nat /\ fence[o] <= fence'[o]
  <2>1. Inv' /\ \A o \in Ops : RowStep(o)
    BY NextInv
  <2>2. fence \in [Ops -> 0..MaxFence] /\ fence' \in [Ops -> 0..MaxFence]
    BY <2>1, Zenon DEF Inv, LedgerInv, LedgerTypeOK
  <2>3. \A o \in Ops : fence[o] \in Nat /\ fence'[o] \in Nat
    BY SMT, <2>2, FencesFact
  <2> QED BY SMT, <2>1, <2>3 DEF RowStep
<1>g. Grants(run, fence) /\ Grants(sub, fence)
  BY DEF ClaimInv
<1>r. Kept(run, run') => Grants(run', fence')
  BY <1>a, <1>c, <1>g, GrantsKept
<1>s. Kept(sub, sub') => Grants(sub', fence')
  BY <1>a, <1>c, <1>g, GrantsKept
<1> SUFFICES Grants(run', fence') /\ Grants(sub', fence')
  BY DEF ClaimInv, Grants, Idle
<1>u. /\ run' = run => Kept(run, run')
      /\ sub' = sub => Kept(sub, sub')
  BY DEF Kept
<1>i. ASSUME NEW a \in Actors
      PROVE  /\ run' = [run EXCEPT ![a] = Idle] => Kept(run, run')
             /\ sub' = [sub EXCEPT ![a] = Idle] => Kept(sub, sub')
             /\ run[a].pc = "working" /\ run' = [run EXCEPT ![a].pc = "failing"] => Kept(run, run')
             /\ sub[a].pc = "working" /\ sub' = [sub EXCEPT ![a].pc = "failing"] => Kept(sub, sub')
  BY SMT, <1>a DEF Kept, Runs, Idle
<1>n. ASSUME NEW a \in Actors, NEW o \in Ops, fence'[o] = fence[o] + 1
      PROVE  /\ run' = [run EXCEPT ![a] = Working(o, fence[o] + 1)] => Grants(run', fence')
             /\ sub' = [sub EXCEPT ![a] = Working(o, fence[o] + 1)] => Grants(sub', fence')
  <2>1. Grants([run EXCEPT ![a] = Working(o, fence[o] + 1)], fence')
    <3>1. run \in [Actors -> Runs] /\ Grants(run, fence)
      BY <1>a, <1>g
    <3> QED BY <3>1, <1>c, <1>n, GrantsNew, Zenon
  <2>2. Grants([sub EXCEPT ![a] = Working(o, fence[o] + 1)], fence')
    <3>1. sub \in [Actors -> Runs] /\ Grants(sub, fence)
      BY <1>a, <1>g
    <3> QED BY <3>1, <1>c, <1>n, GrantsNew, Zenon
  <2> QED BY <2>1, <2>2
<1>p. ASSUME NEW o \in Ops, NEW swept, ClaimOperationLease(swept, {o})
      PROVE  fence'[o] = fence[o] + 1
  BY <1>p, Zenon DEF ClaimOperationLease, NextFence
<1>1. CASE run' = run /\ sub' = sub
  BY <1>1, <1>u, <1>r, <1>s
<1>2. ASSUME NEW a \in Actors, ActorStep(a)
      PROVE  Grants(run', fence') /\ Grants(sub', fence')
  <2>1. CASE Poll(a)
    <3>1. ASSUME NEW o \in Ops, ClaimJob(o), run' = [run EXCEPT ![a] = Working(o, NextFence(o))]
          PROVE  Grants(run', fence')
      BY <3>1, <1>p, <1>n, Zenon DEF ClaimJob, NextFence
    <3> QED BY <2>1, <3>1, <1>u, <1>r, <1>s DEF Poll
  <2>2. CASE Heartbeat(a) \/ PulseChild(a)
    BY <2>2, <1>1 DEF Heartbeat, PulseChild
  <2>3. CASE Complete(a) \/ ReportFailure(a)
    BY <2>3, <1>i, <1>u, <1>r, <1>s DEF Complete, ReportFailure
  <2>4. CASE CompleteUnheard(a) \/ GiveUp(a)
    BY <2>4, <1>i, <1>u, <1>r, <1>s DEF CompleteUnheard, GiveUp, Busy
  <2>5. CASE Crash(a)
    BY <2>5, <1>i, <1>r, <1>s, Zenon DEF Crash
  <2>6. CASE CompleteChild(a) \/ ReportChildFailure(a)
    BY <2>6, <1>i, <1>u, <1>r, <1>s, Zenon DEF CompleteChild, ReportChildFailure
  <2>7. CASE GiveUpChild(a)
    BY <2>7, <1>i, <1>u, <1>r, <1>s, Zenon DEF GiveUpChild
  <2> QED BY <1>2, <2>1, <2>2, <2>3, <2>4, <2>5, <2>6, <2>7 DEF ActorStep
<1>3. ASSUME NEW a \in Actors, NEW o \in Ops, ActorOpStep(a, o)
      PROVE  Grants(run', fence') /\ Grants(sub', fence')
  <2>1. CASE StartRequest(a, o)
    BY <2>1, <1>p, <1>n, <1>u, <1>s, Zenon DEF StartRequest, ClaimRequest, NextFence
  <2>2. CASE AdmitChild(a, o)
    BY <2>2, <1>1 DEF AdmitChild
  <2>3. CASE StartChild(a, o)
    BY <2>3, <1>p, <1>n, <1>u, <1>r, Zenon DEF StartChild, ClaimNestedRequest, NextFence
  <2> QED BY <1>3, <2>1, <2>2, <2>3 DEF ActorOpStep
<1>4. CASE Tick
  BY <1>4, <1>1 DEF Tick
<1>5. CASE \E t \in DOMAIN policy : ChangePolicy(t)
  BY <1>5, <1>1 DEF ChangePolicy
<1>6. CASE \E o \in Ops : CallerStep(o)
  BY <1>6, <1>1 DEF CallerStep, Submit, Cancel, Resume
<1>7. CASE \E roots \in SUBSET Ops : DeleteDocument(roots)
  BY <1>7, <1>1 DEF DeleteDocument
<1> QED BY <1>2, <1>3, <1>4, <1>5, <1>6, <1>7 DEF Next

\* The claim invariant holds in every state of every behaviour.
LEMMA ClaimsHold == Spec => []ClaimInv
<1>1. Init => ClaimInv
  BY DEF Init, ClaimInv, Grants
<1>2. Inv /\ ClaimInv /\ [Next]_vars => ClaimInv'
  <2>1. ClaimInv /\ UNCHANGED vars => ClaimInv'
    BY Zenon DEF ClaimInv, Grants, vars, rows, Idle
  <2> QED BY <2>1, NextClaims
<1> QED BY <1>1, <1>2, InvHolds, PTL DEF Spec

\* Two processes never both hold the live fence of one operation, however long one of
\* them goes on with a lease it lost.
THEOREM ClaimsAreExclusive == Spec => []SingleHolder
<1>1. ClaimInv => SingleHolder
  <2> SUFFICES ASSUME ClaimInv, NEW a \in Actors, NEW b \in Actors, a # b
               PROVE  /\ run[a].op = run[b].op /\ run[a].op # NoOp =>
                           run[a].fence # run[b].fence
                      /\ sub[a].op = sub[b].op /\ sub[a].op # NoOp =>
                           sub[a].fence # sub[b].fence
    BY Zenon DEF SingleHolder, HoldsFence
  <2>1. Idle.op = NoOp
    BY DEF Idle
  <2> QED BY <2>1, Zenon DEF ClaimInv, Grants
<1> QED BY <1>1, ClaimsHold, PTL

-----------------------------------------------------------------------------
(* Dispatch implements ExclusiveTask *)

\* HolderOf is a process that holds the task, or nobody.
LEMMA HolderOfFact ==
  ASSUME NEW o \in Ops
  PROVE  /\ (\A a \in Actors : ~Holds(a, o)) => HolderOf(o) = NoOp
         /\ \A a \in Actors : Holds(a, o) => HolderOf(o) \in Actors /\ Holds(HolderOf(o), o)
         /\ (\A a \in Actors : ~Holds(a, o)') => HolderOf(o)' = NoOp
         /\ \A a \in Actors : Holds(a, o)' =>
              \E b \in Actors : HolderOf(o)' = b /\ Holds(b, o)'
<1> DEFINE H == {a \in Actors : \/ run[a].op = o /\ HoldsFence(o, run[a].fence)
                                \/ sub[a].op = o /\ HoldsFence(o, sub[a].fence)}
<1>1. HolderOf(o) = IF H = {} THEN NoOp ELSE CHOOSE a \in H : TRUE
  BY Zenon DEF HolderOf
<1>2. HolderOf(o)' = IF H' = {} THEN NoOp ELSE CHOOSE a \in H' : TRUE
  BY Zenon DEF HolderOf
<1>3. \A a \in Actors : (a \in H <=> Holds(a, o)) /\ (a \in H' <=> Holds(a, o)')
  BY Zenon DEF Holds
<1>4. H \subseteq Actors /\ H' \subseteq Actors
  BY Zenon
<1> HIDE DEF H
<1>5. H # {} => (CHOOSE a \in H : TRUE) \in H
  BY Zenon
<1>6. H' # {} => (CHOOSE a \in H' : TRUE) \in H'
  BY Zenon
<1> QED BY <1>1, <1>2, <1>3, <1>4, <1>5, <1>6, Zenon

\* An operation has at most one holder, as a root or as a child.
LEMMA UniqueHolder ==
  ASSUME Inv, ClaimInv, NestInv, NEW o \in Ops, NEW a \in Actors, NEW b \in Actors,
         Holds(a, o), Holds(b, o)
  PROVE  a = b
<1> SUFFICES ASSUME a # b PROVE FALSE
  OBVIOUS
<1>1. Idle.op # o
  BY LedgerAssumption DEF Idle
<1>2. run[a].op = o \/ run[b].op = o => ParentOf[o] = NoOp
  BY <1>1 DEF NestInv
<1>3. sub[a].op = o \/ sub[b].op = o => ParentOf[o] # NoOp
  <2>1. \A c \in Actors : run[c].pc = "working" => run[c].op \in Ops
    BY RunFact DEF Inv, TypeOK
  <2> QED BY SMT, <2>1, <1>1, LedgerAssumption DEF NestInv
<1>4. CASE run[a].op = o /\ run[b].op = o /\ ParentOf[o] = NoOp
  <2>1. run[a].fence # run[b].fence
    BY <1>1, <1>4 DEF ClaimInv, Grants
  <2>2. HoldsFence(o, run[a].fence) /\ HoldsFence(o, run[b].fence)
    BY <1>3, <1>4 DEF Holds
  <2> QED BY <2>1, <2>2 DEF HoldsFence
<1>5. CASE sub[a].op = o /\ sub[b].op = o /\ ParentOf[o] # NoOp
  <2>1. sub[a].fence # sub[b].fence
    BY <1>1, <1>5 DEF ClaimInv, Grants
  <2>2. HoldsFence(o, sub[a].fence) /\ HoldsFence(o, sub[b].fence)
    BY <1>2, <1>5 DEF Holds
  <2> QED BY <2>1, <2>2 DEF HoldsFence
<1> QED BY <1>2, <1>3, <1>4, <1>5 DEF Holds

\* A row that is not live has no holder.
LEMMA DeadRowUnheld ==
  ASSUME NEW o \in Ops
  PROVE  /\ ~Live(o) => HolderOf(o) = NoOp
         /\ status'[o] # "running" => HolderOf(o)' = NoOp
<1>1. ~Live(o) => \A a \in Actors : ~Holds(a, o)
  BY DEF Holds, HoldsFence
<1>2. status'[o] # "running" => \A a \in Actors : ~Holds(a, o)'
  BY DEF Holds, HoldsFence, Live
<1> QED BY <1>1, <1>2, HolderOfFact

\* One step of one task, as ExclusiveTask allows it.
TaskStep(o) ==
  \/ Task!Open(o) \/ Task!Grant(o) \/ Task!Keep(o)
  \/ Task!Finish(o) \/ Task!Close(o) \/ Task!Reopen(o)

\* The steps of one task, over the phases and holders of Dispatch.
LEMMA TaskFact ==
  ASSUME NEW o \in Ops
  PROVE  /\ Task!Open(o) <=> /\ PhaseOf(o) = "absent" /\ PhaseOf(o)' = "open"
                             /\ HolderOf(o)' = NoOp
         /\ Task!Grant(o) <=> /\ PhaseOf(o) = "open" /\ PhaseOf(o)' = "open"
                              /\ HolderOf(o) = NoOp /\ HolderOf(o)' \in Actors
         /\ Task!Keep(o) <=> /\ PhaseOf(o)' = PhaseOf(o)
                             /\ HolderOf(o)' \in {HolderOf(o), NoOp}
         /\ Task!Finish(o) <=> /\ PhaseOf(o) = "open" /\ PhaseOf(o)' = "done"
                               /\ HolderOf(o) \in Actors /\ HolderOf(o)' = NoOp
         /\ Task!Close(o) <=> /\ PhaseOf(o) = "open" /\ PhaseOf(o)' = "closed"
                              /\ HolderOf(o)' = NoOp
         /\ Task!Reopen(o) <=> /\ PhaseOf(o) = "closed" /\ PhaseOf(o)' = "open"
                               /\ HolderOf(o)' = NoOp
BY DEF Task!Open, Task!Grant, Task!Keep, Task!Finish, Task!Close, Task!Reopen

\* A row that is left or dropped, and gets no new holder, takes an abstract step.
LEMMA LeftOrDropped ==
  ASSUME Inv, ClaimInv, NestInv, NEW o \in Ops, Still(o) \/ Dropped(o),
         \A a \in Actors : Holds(a, o)' => Holds(a, o)
  PROVE  TaskStep(o)
<1>1. CASE Still(o)
  <2>1. PhaseOf(o)' = PhaseOf(o)
    BY <1>1 DEF Still, PhaseOf, Unfinished
  <2>2. HolderOf(o)' \in {HolderOf(o), NoOp}
    <3>1. CASE \A a \in Actors : ~Holds(a, o)'
      BY <3>1, HolderOfFact
    <3>2. CASE \E a \in Actors : Holds(a, o)'
      <4>1. PICK b \in Actors : HolderOf(o)' = b /\ Holds(b, o)'
        BY <3>2, HolderOfFact
      <4>2. Holds(b, o)
        BY <4>1
      <4>3. HolderOf(o) \in Actors /\ Holds(HolderOf(o), o)
        BY <4>2, HolderOfFact
      <4>4. HolderOf(o) = b
        BY <4>2, <4>3, UniqueHolder
      <4> QED BY <4>1, <4>4
    <3> QED BY <3>1, <3>2
  <2> QED BY <2>1, <2>2, TaskFact DEF TaskStep
<1>2. CASE Dropped(o)
  <2>1. HolderOf(o)' = NoOp
    BY <1>2, DeadRowUnheld DEF Dropped
  <2>2. \/ PhaseOf(o) = "absent" /\ PhaseOf(o)' = "open"
        \/ PhaseOf(o) = "closed" /\ PhaseOf(o)' = "open"
        \/ PhaseOf(o) = "open" /\ PhaseOf(o)' = "closed"
        \/ PhaseOf(o)' = PhaseOf(o)
    <3>1. CASE effects[o] # <<>>
      BY <1>2, <3>1 DEF Dropped, PhaseOf
    <3>2. CASE effects[o] = <<>>
      BY <1>2, <3>2 DEF Dropped, PhaseOf, Unfinished, Finished
    <3> QED BY <3>1, <3>2
  <2> QED BY <2>1, <2>2, TaskFact DEF TaskStep
<1> QED BY <1>1, <1>2

\* Keeping or dropping claims on a row whose fence stays gives it no new holder.
LEMMA NoNewHolder ==
  ASSUME NEW o \in Ops, Still(o) \/ Dropped(o), NoNewClaim, NEW a \in Actors, Holds(a, o)'
  PROVE  Holds(a, o)
<1>1. Live(o) /\ fence'[o] = fence[o]
  BY DEF Still, Dropped, Holds, HoldsFence, Live
<1>2. run'[a].op = o \/ sub'[a].op = o
  BY DEF Holds
<1>3. Idle.op # o
  BY LedgerAssumption DEF Idle
<1>4. CASE run'[a].op = o /\ fence'[o] = run'[a].fence
  <2>1. run[a].op = o /\ run[a].fence = run'[a].fence
    BY <1>3, <1>4 DEF NoNewClaim, Kept
  <2> QED BY <1>1, <1>4, <2>1 DEF Holds, HoldsFence
<1>5. CASE sub'[a].op = o /\ fence'[o] = sub'[a].fence
  <2>1. sub[a].op = o /\ sub[a].fence = sub'[a].fence
    BY <1>3, <1>5 DEF NoNewClaim, Kept
  <2> QED BY <1>1, <1>5, <2>1 DEF Holds, HoldsFence
<1> QED BY <1>4, <1>5 DEF Holds, HoldsFence

\* A claim of one row gives no other row a new holder.
LEMMA NoOtherHolder ==
  ASSUME Inv, NEW o \in Ops, Still(o) \/ Dropped(o), NEW c \in Actors, NEW x \in Ops, x # o,
         Claiming(c, x), NEW a \in Actors, Holds(a, o)'
  PROVE  Holds(a, o)
<1>1. Live(o) /\ fence'[o] = fence[o]
  BY DEF Still, Dropped, Holds, HoldsFence, Live
<1>2. Working(x, fence[x] + 1).op # o
  BY DEF Working
<1>t. run \in [Actors -> Runs] /\ sub \in [Actors -> Runs]
  BY DEF Inv, TypeOK
<1>3. run'[a].op = o => run'[a] = run[a]
  BY <1>2, <1>t DEF Claiming
<1>4. sub'[a].op = o => sub'[a] = sub[a]
  BY <1>2, <1>t DEF Claiming
<1> QED BY <1>1, <1>3, <1>4 DEF Holds, HoldsFence

\* A claimed row was open and free, and now has a holder.
LEMMA ClaimedIsGranted ==
  ASSUME Inv, Inv', NEW o \in Ops, NEW a \in Actors, Claiming(a, o)
  PROVE  TaskStep(o)
<1>1. /\ Claimable(o) /\ status'[o] = "running" /\ fence'[o] = fence[o] + 1
      /\ effects'[o] = effects[o]
  BY DEF Claiming, Claimed
<1>2. ~Live(o) /\ effects[o] = <<>>
  <2>1. lease[o] \in Nat /\ now \in Nat \ {0} /\ RowInv(o)
    BY DEF Inv, LedgerInv, LedgerTypeOK
  <2>2. ~Live(o)
    BY SMT, <1>1, <2>1 DEF Claimable, Unleased, Live, NoLease
  <2>3. status[o] \in Unfinished
    BY <1>1 DEF Claimable
  <2> QED BY <2>1, <2>2, <2>3 DEF RowInv, Unfinished
<1>3. PhaseOf(o) = "open" /\ PhaseOf(o)' = "open"
  BY <1>1, <1>2 DEF PhaseOf, Claimable, Unfinished
<1>4. HolderOf(o) = NoOp
  BY <1>2, DeadRowUnheld
<1>5. HolderOf(o)' \in {HolderOf(o), NoOp} \/ HolderOf(o)' \in Actors
  BY <1>4, HolderOfFact
<1> QED BY <1>3, <1>4, <1>5, TaskFact DEF TaskStep

\* A committed row was open and held, and is done and free.
LEMMA CommittedIsFinished ==
  ASSUME Inv, NEW o \in Ops, NEW a \in Actors, Committing(a, o)
  PROVE  TaskStep(o)
<1>1. /\ Live(o) /\ effects[o] = <<>> /\ effects'[o] # <<>> /\ status'[o] \in Finished
      /\ Holds(a, o)
  BY DEF Committing, Committed
<1>2. PhaseOf(o) = "open" /\ PhaseOf(o)' = "done"
  BY <1>1 DEF PhaseOf, Live, Unfinished
<1>3. HolderOf(o) \in Actors
  BY <1>1, HolderOfFact
<1>4. HolderOf(o)' = NoOp
  BY <1>1, DeadRowUnheld DEF Finished
<1> QED BY <1>2, <1>3, <1>4, TaskFact DEF TaskStep

\* Every step of Dispatch is a step of ExclusiveTask.
LEMMA NextTask ==
  ASSUME Inv, ClaimInv, NestInv, Next
  PROVE  Task!Next
<1>1. RowsMove /\ Inv'
  BY StepRows, NextInv
<1>2. ASSUME NEW o \in Ops PROVE TaskStep(o)
  <2>0. Closes(o) => Still(o) \/ Dropped(o)
    BY DEF Closes
  <2>1. CASE Quiet
    BY <2>1, <2>0, LeftOrDropped, NoNewHolder, Zenon DEF Quiet
  <2>2. CASE \E x \in Ops : Opening(x)
    <3>1. NoNewClaim /\ (Still(o) \/ Dropped(o))
      BY <2>2, Zenon DEF Opening, OpensOnly
    <3> QED BY <3>1, LeftOrDropped, NoNewHolder, Zenon
  <2>3. ASSUME NEW a \in Actors, NEW x \in Ops, Claiming(a, x) PROVE TaskStep(o)
    <3>1. CASE x = o
      BY <2>3, <3>1, <1>1, ClaimedIsGranted, Zenon
    <3>2. CASE x # o
      <4>1. Still(o) \/ Dropped(o)
        BY <2>0, <2>3, <3>2 DEF Claiming
      <4> QED BY <2>3, <3>2, <4>1, LeftOrDropped, NoOtherHolder, Zenon
    <3> QED BY <3>1, <3>2
  <2>4. ASSUME NEW a \in Actors, NEW x \in Ops, Committing(a, x) PROVE TaskStep(o)
    <3>1. CASE x = o
      BY <2>4, <3>1, CommittedIsFinished, Zenon
    <3>2. CASE x # o
      <4>1. NoNewClaim /\ (Still(o) \/ Dropped(o))
        BY <2>0, <2>4, <3>2 DEF Committing
      <4> QED BY <4>1, LeftOrDropped, NoNewHolder, Zenon
    <3> QED BY <3>1, <3>2
  <2> QED BY <1>1, <2>1, <2>2, <2>3, <2>4, Zenon DEF RowsMove
<1> QED BY <1>2, Zenon DEF Task!Next, TaskStep

\* The ledger with its processes implements the exclusive task: leases, fences, retries
\* and sweeps never let two processes act on a task, finish it from outside or reopen it.
THEOREM DispatchImplementsTask == Spec => ImplementsExclusiveTask
<1>1. Init => Task!Init
  <2> HAVE Init
  <2>0. \A o \in Ops : status[o] = "none" /\ effects[o] = <<>>
    BY DEF Init, LedgerInit
  <2>1. \A o \in Ops : PhaseOf(o) = "absent" /\ ~Live(o)
    BY <2>0 DEF PhaseOf, Live, Unfinished
  <2>2. \A o \in Ops : HolderOf(o) = NoOp
    BY <2>1, DeadRowUnheld
  <2>3. [o \in Ops |-> PhaseOf(o)] = [o \in Ops |-> "absent"]
    BY <2>1
  <2>4. [o \in Ops |-> HolderOf(o)] = [o \in Ops |-> NoOp]
    BY <2>2
  <2> QED BY <2>3, <2>4 DEF Task!Init
<1>2. UNCHANGED vars =>
        UNCHANGED <<[o \in Ops |-> PhaseOf(o)], [o \in Ops |-> HolderOf(o)]>>
  <2> HAVE UNCHANGED vars
  <2>1. \A o \in Ops : PhaseOf(o)' = PhaseOf(o)
    BY DEF vars, rows, PhaseOf, Unfinished
  <2>2. \A o \in Ops : HolderOf(o)' = HolderOf(o)
    BY SMT DEF vars, rows, HolderOf, HoldsFence, Live
  <2> QED BY <2>1, <2>2
<1>3. Inv /\ ClaimInv /\ NestInv /\ [Next]_vars =>
        [Task!Next]_<<[o \in Ops |-> PhaseOf(o)], [o \in Ops |-> HolderOf(o)]>>
  BY <1>2, NextTask
<1> QED BY <1>1, <1>3, InvHolds, ClaimsHold, NestHolds, PTL DEF Spec, ImplementsExclusiveTask, Task!Spec

-----------------------------------------------------------------------------
(* Admission *)

\* A part of a set below its limit may grow by one element.
LEMMA GrowsByOne ==
  ASSUME NEW P, IsFiniteSet(P), NEW S \in SUBSET P, NEW o, NEW T \in SUBSET (S \cup {o}),
         NEW N \in Nat, Cardinality(P) < N
  PROVE  Cardinality(T) <= N
<1>1. IsFiniteSet(S) /\ Cardinality(S) <= Cardinality(P)
  BY FS_Subset
<1>2. IsFiniteSet(S \cup {o}) /\ Cardinality(S \cup {o}) <= Cardinality(S) + 1
  BY SMT, <1>1, FS_AddElement, FS_CardinalityType
<1>3. Cardinality(T) <= Cardinality(S \cup {o}) /\ IsFiniteSet(T)
  BY <1>2, FS_Subset
<1>4. /\ Cardinality(P) \in Nat /\ Cardinality(S) \in Nat /\ Cardinality(T) \in Nat
      /\ Cardinality(S \cup {o}) \in Nat
  BY <1>1, <1>2, <1>3, FS_CardinalityType
<1> QED BY SMT, <1>1, <1>2, <1>3, <1>4

\* A part of a set within its limit is within it.
LEMMA ShrinksWithin ==
  ASSUME NEW S, IsFiniteSet(S), NEW T \in SUBSET S, NEW N \in Nat, Cardinality(S) <= N
  PROVE  Cardinality(T) <= N
<1>1. IsFiniteSet(T) /\ Cardinality(T) <= Cardinality(S)
  BY FS_Subset
<1>2. Cardinality(S) \in Nat /\ Cardinality(T) \in Nat
  BY <1>1, FS_CardinalityType
<1> QED BY SMT, <1>1, <1>2

\* A root is opened only with a free place in both queues.
LEMMA RootOpening ==
  ASSUME NEW o \in Ops, ParentOf[o] = NoOp, status[o] \notin Unfinished, Opening(o)
  PROVE  QueueCapacity(TenantOf[o])
<1>1. \A pf \in Fences : ~AdmitNestedRequest(o, pf)
  BY DEF AdmitNestedRequest
<1>2. ResumeRequest(o) => status[o] = "cancelled"
  BY DEF ResumeRequest, Unfinished
<1> QED BY <1>1, <1>2, Zenon DEF Opening, AdmitJob, AdmitRequest, ResumeRequest

\* Every step keeps the unfinished roots within the pending limits.
LEMMA NextAdmission ==
  ASSUME AdmissionBound, RowsMove
  PROVE  AdmissionBound'
<1> DEFINE S == RootsUnfinished
           T == RootsUnfinished'
<1>1. /\ S \in SUBSET Ops /\ IsFiniteSet(S) /\ S \subseteq PendingRoots
      /\ IsFiniteSet(PendingRoots) /\ PendingRoots \subseteq Ops /\ T \subseteq Ops
  <2>1. S \subseteq Ops /\ T \subseteq Ops /\ PendingRoots \subseteq Ops
    BY DEF RootsUnfinished, PendingRoots
  <2>2. S \subseteq PendingRoots
    BY DEF RootsUnfinished, PendingRoots
  <2> QED BY <2>1, <2>2, LimitAssumption, FS_Subset
<1>2. /\ AdmissionBound' <=>
           /\ Cardinality(T) <= MaxPending
           /\ \A p \in Ops : Cardinality(InTenant(T, TenantOf[p])) <= MaxPendingPerTenant
      /\ Cardinality(S) <= MaxPending
      /\ \A p \in Ops : Cardinality(InTenant(S, TenantOf[p])) <= MaxPendingPerTenant
  BY Zenon DEF AdmissionBound, InTenant
<1>3. \A x \in Ops : x \in T /\ x \notin S =>
        Opening(x) /\ ParentOf[x] = NoOp /\ status[x] \notin Unfinished
  BY OnlyOpeningOpens DEF RootsUnfinished, Unfinished
<1>4. \A x \in Ops : Opening(x) => \A y \in Ops : y \in T /\ y \notin S => y = x
  <2> SUFFICES ASSUME NEW x \in Ops, Opening(x), NEW y \in Ops, y \in T, y \notin S, y # x
               PROVE  FALSE
    OBVIOUS
  <2>1. Still(y)
    BY DEF Opening, OpensOnly
  <2> QED BY <2>1 DEF Still, RootsUnfinished, Unfinished
<1> HIDE DEF S, T
<1>5. CASE T \subseteq S
  <2>1. Cardinality(T) <= MaxPending
    BY <1>1, <1>2, <1>5, ShrinksWithin, LimitAssumption
  <2>2. ASSUME NEW p \in Ops
        PROVE  Cardinality(InTenant(T, TenantOf[p])) <= MaxPendingPerTenant
    <3>1. /\ InTenant(T, TenantOf[p]) \subseteq InTenant(S, TenantOf[p])
          /\ InTenant(S, TenantOf[p]) \subseteq S
      BY <1>5 DEF InTenant
    <3>2. IsFiniteSet(InTenant(S, TenantOf[p]))
      BY <1>1, <3>1, FS_Subset
    <3> QED BY <1>2, <3>1, <3>2, ShrinksWithin, LimitAssumption
  <2> QED BY <1>2, <2>1, <2>2
<1>6. ASSUME NEW o \in Ops, o \in T, o \notin S PROVE AdmissionBound'
  <2>1. QueueCapacity(TenantOf[o]) /\ T \subseteq S \cup {o}
    BY <1>1, <1>3, <1>4, <1>6, RootOpening
  <2>2. Cardinality(T) <= MaxPending
    BY <1>1, <2>1, GrowsByOne, LimitAssumption DEF QueueCapacity
  <2>3. ASSUME NEW p \in Ops
        PROVE  Cardinality(InTenant(T, TenantOf[p])) <= MaxPendingPerTenant
    <3>1. IsFiniteSet(InTenant(S, TenantOf[p])) /\ IsFiniteSet(InTenant(PendingRoots, TenantOf[p]))
      BY <1>1, FS_Subset DEF InTenant
    <3>2. CASE TenantOf[p] = TenantOf[o]
      <4>1. /\ InTenant(S, TenantOf[p]) \subseteq InTenant(PendingRoots, TenantOf[p])
            /\ InTenant(T, TenantOf[p]) \subseteq InTenant(S, TenantOf[p]) \cup {o}
        BY <1>1, <2>1 DEF InTenant
      <4>2. Cardinality(InTenant(PendingRoots, TenantOf[p])) < MaxPendingPerTenant
        BY <2>1, <3>2 DEF QueueCapacity
      <4> QED BY <3>1, <4>1, <4>2, GrowsByOne, LimitAssumption
    <3>3. CASE TenantOf[p] # TenantOf[o]
      <4>1. InTenant(T, TenantOf[p]) \subseteq InTenant(S, TenantOf[p])
        BY <2>1, <3>3 DEF InTenant
      <4> QED BY <1>2, <3>1, <4>1, ShrinksWithin, LimitAssumption
    <3> QED BY <3>2, <3>3
  <2> QED BY <1>2, <2>2, <2>3
<1> QED BY <1>1, <1>5, <1>6

\* Unfinished roots never exceed the pending limits, for any limits and any number of
\* tenants, through admission and through resumption alike.
THEOREM AdmissionIsBounded == Spec => []AdmissionBound
<1>1. Init => AdmissionBound
  <2> HAVE Init
  <2>1. RootsUnfinished = {}
    BY DEF Init, LedgerInit, RootsUnfinished, Unfinished
  <2>2. \A t : InTenant(RootsUnfinished, t) = {}
    BY <2>1 DEF InTenant
  <2> QED BY SMT, <2>1, <2>2, FS_EmptySet, LimitAssumption DEF AdmissionBound
<1>2. AdmissionBound /\ UNCHANGED vars => AdmissionBound'
  BY Zenon DEF AdmissionBound, RootsUnfinished, InTenant, Unfinished, vars, rows
<1>3. Inv /\ AdmissionBound /\ [Next]_vars => AdmissionBound'
  BY <1>2, StepRows, NextAdmission
<1> QED BY <1>1, <1>3, InvHolds, PTL DEF Spec

-----------------------------------------------------------------------------
(* Concurrency *)

\* A live child was claimed under the parent claim its process remembers.
FenceInv ==
  \A a \in Actors :
    sub[a] # Idle /\ HoldsFence(sub[a].op, sub[a].fence) =>
      nestedFence[sub[a].op] = run[a].fence

\* Every step preserves it.
LEMMA FenceMoves ==
  ASSUME Inv, Inv', ClaimInv, NestInv, NestInv', FenceInv, RowsMove
  PROVE  FenceInv'
<1>t. /\ run \in [Actors -> Runs] /\ sub \in [Actors -> Runs] /\ sub' \in [Actors -> Runs]
      /\ fence \in [Ops -> 0..MaxFence]
  BY DEF Inv, TypeOK, LedgerInv, LedgerTypeOK, Runs, Idle, Fences
<1>0. \A b \in Actors : sub'[b] # Idle => sub'[b].op \in Ops
  BY <1>t DEF Runs
<1> SUFFICES ASSUME NEW a \in Actors, NEW o \in Ops, NEW f, sub'[a] # Idle,
                    sub'[a].op = o, sub'[a].fence = f, HoldsFence(o, f)'
             PROVE  nestedFence'[o] = run'[a].fence
  BY <1>0, Zenon DEF FenceInv, Idle, HoldsFence, Live
<1>1. Live(o)' /\ fence'[o] = f
  BY DEF HoldsFence
<1>2. Closes(o) \/ Still(o) \/ Dropped(o) => /\ Live(o) /\ fence[o] = f
                                            /\ nestedFence'[o] = nestedFence[o]
  BY <1>1 DEF Closes, Still, Dropped, Live
<1>3. ~Committed(o)
  BY <1>1 DEF Committed, Live, Finished
<1>4. ASSUME sub[a] # Idle, sub[a].op = o, sub[a].fence = f, run'[a].fence = run[a].fence,
             Live(o), fence[o] = f, nestedFence'[o] = nestedFence[o]
      PROVE  nestedFence'[o] = run'[a].fence
  BY <1>4 DEF FenceInv, HoldsFence
<1>5. ASSUME NoNewClaim, Closes(o) \/ Still(o) \/ Dropped(o)
      PROVE  nestedFence'[o] = run'[a].fence
  <2>1. sub[a] # Idle /\ sub[a].op = o /\ sub[a].fence = f
    BY <1>5 DEF NoNewClaim, Kept
  <2>2. run'[a].pc = "working"
    BY Zenon DEF NestInv, Idle
  <2>3. run'[a] # Idle
    BY SMT, <2>2 DEF Idle
  <2>4. run'[a].fence = run[a].fence
    BY <1>5, <2>3 DEF NoNewClaim, Kept
  <2> QED BY <1>2, <1>4, <1>5, <2>1, <2>4
<1>6. CASE Quiet
  BY <1>5, <1>6 DEF Quiet
<1>7. CASE \E x \in Ops : Opening(x)
  BY <1>5, <1>7, Zenon DEF Opening, OpensOnly
<1>8. CASE \E c \in Actors, x \in Ops : Committing(c, x)
  BY <1>3, <1>5, <1>8, Zenon DEF Committing
<1>9. ASSUME NEW c \in Actors, NEW x \in Ops, Claiming(c, x)
      PROVE  nestedFence'[o] = run'[a].fence
  <2>1. CASE sub'[a] = sub[a] /\ run'[a] = run[a]
    <3>1. f <= fence[o]
      BY <2>1 DEF ClaimInv, Grants
    <3>2. x # o
      <4>1. x = o => fence'[o] = fence[o] + 1
        BY <1>9 DEF Claiming, Claimed
      <4>2. fence[o] \in Int
        BY SMT, <1>t, FencesFact
      <4> QED BY SMT, <1>1, <3>1, <4>1, <4>2
    <3>3. Closes(o)
      BY <1>9, <3>2 DEF Claiming
    <3> QED BY <1>2, <1>4, <2>1, <3>3
  <2>2. CASE a = c
    <3>1. CASE sub' = sub /\ run[a] = Idle
      <4>1. run[a].pc = "working"
        BY <3>1, Zenon DEF NestInv
      <4> QED BY SMT, <3>1, <4>1 DEF Idle
    <3>2. CASE /\ nestedFence'[x] = run[a].fence /\ run' = run
               /\ sub' = [sub EXCEPT ![a] = Working(x, fence[x] + 1)]
      BY <3>2, <1>t DEF Working
    <3> QED BY <1>9, <2>2, <3>1, <3>2, Zenon DEF Claiming
  <2>3. CASE a # c
    BY <1>9, <2>1, <2>3, <1>t DEF Claiming
  <2> QED BY <2>2, <2>3
<1> QED BY <1>6, <1>7, <1>8, <1>9, Zenon DEF RowsMove

\* It holds in every state of every behaviour.
LEMMA FenceHolds == Spec => []FenceInv
<1>1. Init => FenceInv
  BY DEF Init, FenceInv
<1>2. FenceInv /\ UNCHANGED vars => FenceInv'
  BY Zenon DEF FenceInv, HoldsFence, Live, vars, rows, Idle
<1>3. Inv /\ ClaimInv /\ NestInv /\ NestInv' /\ FenceInv /\ [Next]_vars => FenceInv'
  BY <1>2, StepRows, NextInv, FenceMoves
<1> QED BY <1>1, <1>3, InvHolds, ClaimsHold, NestHolds, PTL DEF Spec

\* The rows the two concurrency limits count: all of them, or those of one tenant.
Families == {Ops} \cup {InTenant(Ops, TenantOf[o]) : o \in Ops}

\* A child is counted where its parent is.
LEMMA FamilyFact ==
  ASSUME NEW Q \in Families
  PROVE  /\ Q \subseteq Ops
         /\ \A x \in Ops : ParentOf[x] # NoOp => ParentOf[x] \in Ops /\ (x \in Q <=> ParentOf[x] \in Q)
BY SMT, LedgerAssumption DEF Families, InTenant

\* A root is active whenever it is live; a live child is active, or its parent is.
LEMMA ActiveFact ==
  ASSUME NEW x \in Ops, Live(x)
  PROVE  /\ ParentOf[x] = NoOp => x \in ActiveRoots
         /\ x \notin ActiveRoots => /\ ParentOf[x] # NoOp /\ ParentLive(x)
                                    /\ ParentOf[x] \in Ops /\ ParentOf[x] \in ActiveRoots
<1>1. ParentOf[x] = NoOp => x \in ActiveRoots
  BY DEF ActiveRoots, ParentLive
<1>2. ASSUME x \notin ActiveRoots
      PROVE  /\ ParentOf[x] # NoOp /\ ParentLive(x)
             /\ ParentOf[x] \in Ops /\ ParentOf[x] \in ActiveRoots
  <2>1. ParentLive(x) /\ ParentOf[x] # NoOp /\ Live(ParentOf[x])
    BY <1>2 DEF ActiveRoots, ParentLive, HoldsFence
  <2>2. ParentOf[x] \in Ops /\ ParentOf[ParentOf[x]] = NoOp
    BY <2>1, LedgerAssumption
  <2> QED BY <2>1, <2>2 DEF ActiveRoots, ParentLive
<1> QED BY <1>1, <1>2

\* A row that stays live keeps its fence, and its parent's if it is a child.
LEMMA StaysLive ==
  ASSUME Inv, RowsMove, NEW x \in Ops, Live(x), Live(x)'
  PROVE  fence'[x] = fence[x] /\ nestedFence'[x] = nestedFence[x]
<1>1. ~Claimed(x)
  BY SMT DEF Claimed, Claimable, Unleased, Live, NoLease, Inv, LedgerInv, LedgerTypeOK
<1>2. ~Committed(x) /\ ~Dropped(x)
  BY DEF Committed, Dropped, Live, Finished
<1>3. Still(x)
  BY <1>1, <1>2, Zenon DEF RowsMove, Quiet, Opening, OpensOnly, Claiming, Committing, Closes
<1> QED BY <1>3 DEF Still

\* Apart from a newly claimed row, the active roots after a step are no more than
\* before: a child that becomes one takes the place of its parent, which is live no
\* more, and has no sibling to share it with.
LEMMA ActiveMoves ==
  ASSUME Inv, OneChildPerParent, RowsMove, NEW Q \in Families,
         NEW A \in SUBSET (ActiveRoots' \cap Q), \A x \in A : Live(x)
  PROVE  Cardinality(A) <= Cardinality(ActiveRoots \cap Q) /\ IsFiniteSet(A)
<1> DEFINE B == ActiveRoots \cap Q
           g == [x \in A |-> IF x \in ActiveRoots THEN x ELSE ParentOf[x]]
<1>1. A \subseteq Ops /\ A \subseteq Q /\ B \subseteq Ops /\ \A x \in A : Live(x)' /\ ~ParentLive(x)'
  BY FamilyFact DEF ActiveRoots
<1>2. \A x \in A : g[x] \in B
  <2> TAKE x \in A
  <2>1. CASE x \in ActiveRoots
    BY <2>1, <1>1
  <2>2. CASE x \notin ActiveRoots
    <3>1. ParentOf[x] # NoOp /\ ParentOf[x] \in ActiveRoots
      BY <1>1, <2>2, ActiveFact
    <3>2. ParentOf[x] \in Q
      BY <1>1, <3>1, FamilyFact
    <3> QED BY <2>2, <3>1, <3>2
  <2> QED BY <2>1, <2>2
<1>3. ASSUME NEW x \in A, x \notin ActiveRoots
      PROVE  ParentOf[x] # NoOp /\ ParentOf[x] \notin A
  <2>1. ParentOf[x] # NoOp /\ ParentLive(x) /\ ParentOf[x] \in Ops
    BY <1>1, <1>3, ActiveFact
  <2>2. Live(ParentOf[x]) /\ fence[ParentOf[x]] = nestedFence[x]
    BY <2>1 DEF ParentLive, HoldsFence
  <2>3. nestedFence'[x] = nestedFence[x]
    BY <1>1, StaysLive
  <2>4. Live(ParentOf[x])' => fence'[ParentOf[x]] = fence[ParentOf[x]]
    BY <2>1, <2>2, StaysLive
  <2>5. ~Live(ParentOf[x])'
    BY <1>1, <2>1, <2>2, <2>3, <2>4 DEF ParentLive, HoldsFence
  <2> QED BY <2>1, <2>5, <1>1
<1>4. \A x, y \in A : g[x] = g[y] => x = y
  <2> SUFFICES ASSUME NEW x \in A, NEW y \in A, g[x] = g[y], x # y PROVE FALSE
    OBVIOUS
  <2>1. CASE x \in ActiveRoots \/ y \in ActiveRoots
    BY <2>1, <1>3
  <2>2. CASE x \notin ActiveRoots /\ y \notin ActiveRoots
    <3>1. ParentOf[x] = ParentOf[y] /\ ParentOf[x] # NoOp
      BY <2>2, <1>3
    <3>2. status[x] \in Unfinished /\ status[y] \in Unfinished
      BY DEF Live, Unfinished
    <3> QED BY <1>1, <3>1, <3>2 DEF OneChildPerParent
  <2> QED BY <2>1, <2>2
<1>5. g \in Injection(A, B)
  <2>1. g \in [A -> B]
    BY <1>2
  <2>2. DOMAIN g = A
    OBVIOUS
  <2> HIDE DEF g
  <2> QED BY <2>1, <2>2, <1>4, Zenon DEF Injection, IsInjective
<1>6. IsFiniteSet(B)
  BY <1>1, LimitAssumption, FS_Subset
<1> HIDE DEF g
<1> QED BY <1>5, <1>6, FS_Injection, Zenon

\* The active roots stay within both concurrency limits.
ActiveBound ==
  /\ Cardinality(ActiveRoots \cap Ops) <= GlobalConcurrency
  /\ \A o \in Ops :
       Cardinality(ActiveRoots \cap InTenant(Ops, TenantOf[o])) <= TenantConcurrency

\* One family within its limit stays so, if a newly claimed row of it found room.
LEMMA NextActiveOf ==
  ASSUME Inv, OneChildPerParent, RowsMove, NEW Q \in Families, NEW N \in Nat,
         Cardinality(ActiveRoots \cap Q) <= N,
         \A a \in Actors, o \in Ops :
           Claiming(a, o) /\ ParentOf[o] = NoOp /\ o \in Q => Cardinality(ActiveRoots \cap Q) < N
  PROVE  Cardinality(ActiveRoots' \cap Q) <= N
<1> DEFINE T == ActiveRoots' \cap Q
<1>1. T \subseteq Ops /\ \A x \in T : Live(x)' /\ ~ParentLive(x)'
  BY FamilyFact DEF ActiveRoots
<1>2. IsFiniteSet(ActiveRoots \cap Q) /\ Cardinality(ActiveRoots \cap Q) \in Nat
  <2>1. ActiveRoots \cap Q \subseteq Ops
    BY DEF ActiveRoots
  <2> QED BY <2>1, LimitAssumption, FS_Subset, FS_CardinalityType
<1>3. CASE \A x \in T : Live(x)
  <2>1. Cardinality(T) <= Cardinality(ActiveRoots \cap Q) /\ IsFiniteSet(T)
    BY <1>3, ActiveMoves
  <2>2. Cardinality(T) \in Nat
    BY <2>1, FS_CardinalityType
  <2> HIDE DEF T
  <2>3. Cardinality(T) <= N
    BY SMT, <2>1, <2>2, <1>2
  <2> QED BY <2>3 DEF T
<1>4. ASSUME NEW o \in T, ~Live(o) PROVE Cardinality(T) <= N
  <2>1. PICK a \in Actors : Claiming(a, o)
    BY <1>1, <1>4, OnlyClaimingEnlivens
  <2>2. ParentOf[o] = NoOp
    <3> SUFFICES ASSUME ParentOf[o] # NoOp PROVE FALSE
      OBVIOUS
    <3>1. /\ ParentOf[o] = run[a].op /\ nestedFence'[o] = run[a].fence /\ run' = run
          /\ HoldsFence(run[a].op, run[a].fence)'
      BY <2>1 DEF Claiming
    <3>2. ParentLive(o)'
      BY <3>1 DEF ParentLive, HoldsFence
    <3> QED BY <1>1, <3>2
  <2>3. Cardinality(ActiveRoots \cap Q) < N
    BY <1>1, <2>1, <2>2
  <2>4. \A x \in T \ {o} : Live(x)
    <3> TAKE x \in T \ {o}
    <3>1. Closes(x)
      BY <1>1, <2>1 DEF Claiming
    <3> QED BY <1>1, <3>1 DEF Closes, Still, Dropped, Live
  <2> DEFINE A == T \ {o}
  <2>5. A \in SUBSET (ActiveRoots' \cap Q) /\ \A x \in A : Live(x)
    BY <2>4
  <2>6. T = A \cup {o}
    OBVIOUS
  <2> HIDE DEF A, T
  <2>7. Cardinality(A) <= Cardinality(ActiveRoots \cap Q) /\ IsFiniteSet(A)
    BY <2>5, ActiveMoves
  <2>8. Cardinality(A) \in Nat
    BY <2>7, FS_CardinalityType
  <2>9. Cardinality(A) < N
    BY SMT, <1>2, <2>3, <2>7, <2>8
  <2> QED BY <2>6, <2>7, <2>9, GrowsByOne
<1> QED BY <1>3, <1>4

\* Every step keeps the active roots within the limits.
LEMMA NextActive ==
  ASSUME Inv, OneChildPerParent, RowsMove, ActiveBound
  PROVE  ActiveBound'
<1>a. ActiveRoots \subseteq Ops
  BY DEF ActiveRoots
<1>1. Cardinality(ActiveRoots' \cap Ops) <= GlobalConcurrency
  <2>1. Ops \in Families /\ GlobalConcurrency \in Nat /\ ActiveRoots \cap Ops = ActiveRoots
    BY <1>a, LimitAssumption DEF Families
  <2>2. \A a \in Actors, o \in Ops : Claiming(a, o) /\ ParentOf[o] = NoOp =>
          Cardinality(ActiveRoots) < GlobalConcurrency
    <3> SUFFICES ASSUME NEW a \in Actors, NEW o \in Ops, Claiming(a, o), ParentOf[o] = NoOp
                 PROVE  Cardinality(ActiveRoots) < GlobalConcurrency
      OBVIOUS
    <3>1. ParentOf[o] # run[a].op \/ run[a].pc # "working"
      BY LedgerAssumption, RunFact DEF Inv, TypeOK
    <3> QED BY <3>1 DEF Claiming, ExecutionCapacity
  <2> QED BY <2>1, <2>2, NextActiveOf DEF ActiveBound
<1>2. ASSUME NEW p \in Ops
      PROVE  Cardinality(ActiveRoots' \cap InTenant(Ops, TenantOf[p])) <= TenantConcurrency
  <2> DEFINE Q == InTenant(Ops, TenantOf[p])
  <2>1. Q \in Families /\ TenantConcurrency \in Nat
    BY LimitAssumption DEF Families
  <2>2. ActiveRoots \cap Q = InTenant(ActiveRoots, TenantOf[p])
    BY <1>a DEF InTenant
  <2>3. \A a \in Actors, o \in Ops : Claiming(a, o) /\ ParentOf[o] = NoOp /\ o \in Q =>
          Cardinality(ActiveRoots \cap Q) < TenantConcurrency
    <3> SUFFICES ASSUME NEW a \in Actors, NEW o \in Ops, Claiming(a, o), ParentOf[o] = NoOp, o \in Q
                 PROVE  Cardinality(ActiveRoots \cap Q) < TenantConcurrency
      OBVIOUS
    <3>1. ParentOf[o] # run[a].op \/ run[a].pc # "working"
      BY LedgerAssumption, RunFact DEF Inv, TypeOK
    <3>2. TenantOf[o] = TenantOf[p]
      BY DEF InTenant
    <3>3. ExecutionCapacity(TenantOf[o])
      BY <3>1 DEF Claiming
    <3> QED BY <2>2, <3>2, <3>3 DEF ExecutionCapacity
  <2>4. Cardinality(ActiveRoots \cap Q) <= TenantConcurrency
    BY DEF ActiveBound
  <2> HIDE DEF Q
  <2>5. Cardinality(ActiveRoots' \cap Q) <= TenantConcurrency
    BY <2>1, <2>3, <2>4, NextActiveOf
  <2> QED BY <2>5 DEF Q
<1> QED BY <1>1, <1>2, Zenon DEF ActiveBound, InTenant

\* The processes executing rows of a family are no more than its active roots: a
\* process that holds its root's claim is counted by the root, one whose root's claim is
\* lost by the orphaned child.
LEMMA ExecutingFact ==
  ASSUME Inv, ClaimInv, NestInv, FenceInv, NEW Q \in Families
  PROVE  Cardinality(Executing(Q)) <= Cardinality(ActiveRoots \cap Q) /\ IsFiniteSet(Executing(Q))
<1> DEFINE E == Executing(Q)
           B == ActiveRoots \cap Q
           HasRoot(a) == run[a].op \in Ops /\ HoldsFence(run[a].op, run[a].fence)
           h == [a \in E |-> IF HasRoot(a) THEN run[a].op ELSE sub[a].op]
<1>0. Q \subseteq Ops /\ E \subseteq Actors /\ NoOp \notin Ops /\ Idle.op = NoOp
  BY FamilyFact, LedgerAssumption DEF Executing, Idle
<1>1. ASSUME NEW a \in Actors, HasRoot(a)
      PROVE  run[a].op \in ActiveRoots /\ Holds(a, run[a].op)
  <2>1. ParentOf[run[a].op] = NoOp /\ Live(run[a].op)
    BY <1>0, <1>1 DEF NestInv, HoldsFence
  <2> QED BY <1>1, <2>1, ActiveFact DEF Holds
<1>2. ASSUME NEW a \in Actors, ~HasRoot(a), sub[a].op \in Ops, HoldsFence(sub[a].op, sub[a].fence)
      PROVE  sub[a].op \in ActiveRoots /\ Holds(a, sub[a].op)
  <2>1. /\ sub[a] # Idle /\ Live(sub[a].op)
        /\ nestedFence[sub[a].op] = run[a].fence
        /\ ParentOf[sub[a].op] = run[a].op
    BY <1>0, <1>2 DEF FenceInv, NestInv, HoldsFence
  <2>2. ~ParentLive(sub[a].op)
    <3>1. run[a].pc = "working"
      BY <2>1 DEF NestInv
    <3>2. run[a].op \in Ops
      BY <3>1, RunFact DEF Inv, TypeOK
    <3> QED BY <1>2, <2>1, <3>2 DEF ParentLive
  <2> QED BY <1>2, <2>1, <2>2 DEF ActiveRoots, Holds
<1>3. ASSUME NEW a \in E
      PROVE  h[a] \in B /\ Holds(a, h[a])
  <2>1. CASE HasRoot(a)
    <3>1. h[a] = run[a].op
      BY <2>1
    <3>2. run[a].op \in Q
      <4>1. CASE run[a].op \in Q
        BY <4>1
      <4>2. CASE sub[a].op \in Q
        <5>1. ParentOf[sub[a].op] = run[a].op /\ sub[a].op \in Ops
          BY <1>0, <4>2 DEF NestInv
        <5> QED BY <1>0, <2>1, <4>2, <5>1, FamilyFact
      <4> QED BY <4>1, <4>2 DEF Executing
    <3> QED BY <1>0, <1>1, <2>1, <3>1, <3>2
  <2>2. CASE ~HasRoot(a)
    <3>1. h[a] = sub[a].op
      BY <2>2
    <3>2. sub[a].op \in Q /\ HoldsFence(sub[a].op, sub[a].fence)
      BY <1>0, <2>2 DEF Executing
    <3> QED BY <1>0, <1>2, <2>2, <3>1, <3>2
  <2> QED BY <2>1, <2>2
<1>4. \A a, b \in E : h[a] = h[b] => a = b
  <2> SUFFICES ASSUME NEW a \in E, NEW b \in E, h[a] = h[b] PROVE a = b
    OBVIOUS
  <2>1. h[a] \in Ops /\ Holds(a, h[a]) /\ Holds(b, h[a])
    BY <1>0, <1>3
  <2> HIDE DEF h
  <2> QED BY <1>0, <2>1, UniqueHolder
<1>5. h \in Injection(E, B)
  <2>1. h \in [E -> B] /\ DOMAIN h = E
    BY <1>3
  <2> HIDE DEF h
  <2> QED BY <2>1, <1>4, Zenon DEF Injection, IsInjective
<1>6. IsFiniteSet(B)
  BY <1>0, LimitAssumption, FS_Subset
<1> HIDE DEF h
<1> QED BY <1>5, <1>6, FS_Injection, Zenon

\* The processes really executing never exceed either concurrency limit, for any
\* limits, tenants and numbers of processes and children, although a child is claimed
\* without a capacity check and outlives its parent's claim.
THEOREM ExecutionIsBounded == Spec => []ExecutionBound
<1>1. Init => ActiveBound
  <2> HAVE Init
  <2>1. ActiveRoots = {}
    BY DEF Init, LedgerInit, ActiveRoots, Live
  <2> QED BY SMT, <2>1, FS_EmptySet, LimitAssumption DEF ActiveBound
<1>2. ActiveBound /\ UNCHANGED vars => ActiveBound'
  BY Zenon DEF ActiveBound, ActiveRoots, ParentLive, HoldsFence, Live, InTenant, vars, rows
<1>3. Inv /\ OverlapInv /\ ActiveBound /\ [Next]_vars => ActiveBound'
  BY <1>2, StepRows, NextActive DEF OverlapInv
<1>4. Inv /\ ClaimInv /\ NestInv /\ FenceInv /\ ActiveBound => ExecutionBound
  <2> SUFFICES ASSUME Inv, ClaimInv, NestInv, FenceInv, ActiveBound PROVE ExecutionBound
    OBVIOUS
  <2>1. ASSUME NEW Q \in Families, NEW N \in Nat, Cardinality(ActiveRoots \cap Q) <= N
        PROVE  Cardinality(Executing(Q)) <= N
    <3>1. Cardinality(Executing(Q)) <= Cardinality(ActiveRoots \cap Q) /\ IsFiniteSet(Executing(Q))
      BY ExecutingFact
    <3>2. IsFiniteSet(ActiveRoots \cap Q)
      <4>1. ActiveRoots \cap Q \subseteq Ops
        BY DEF ActiveRoots
      <4> QED BY <4>1, LimitAssumption, FS_Subset
    <3>3. Cardinality(Executing(Q)) \in Nat /\ Cardinality(ActiveRoots \cap Q) \in Nat
      BY <3>1, <3>2, FS_CardinalityType
    <3> QED BY SMT, <2>1, <3>1, <3>3
  <2>2. Ops \in Families /\ \A o \in Ops : InTenant(Ops, TenantOf[o]) \in Families
    BY DEF Families
  <2> QED BY <2>1, <2>2, LimitAssumption DEF ActiveBound, ExecutionBound
<1> QED BY <1>1, <1>3, <1>4, InvHolds, ClaimsHold, NestHolds, FenceHolds, OverlapHolds, PTL DEF Spec

=============================================================================
