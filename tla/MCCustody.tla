------------------------------ MODULE MCCustody ------------------------------
(* Two runs and two processes. *)
EXTENDS ReuseCustody, FiniteSets, TLC

\* Both runs share the key; or one of them shares nothing, with one claim left to each.
CustodyInit ==
  /\ Init
  /\ \/ sharing = Ops /\ \A o \in Ops : fence[o] = 0
     \/ Cardinality(sharing) = 1 /\ \A o \in Ops : fence[o] = MaxFence - 1

CustodySpec == CustodyInit /\ [][Next]_vars

Interchangeable == Permutations(Ops) \cup Permutations(Actors)

=============================================================================
