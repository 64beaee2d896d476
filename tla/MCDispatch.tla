------------------------------ MODULE MCDispatch ------------------------------
(* Small instances of Dispatch for TLC. *)
EXTENDS Dispatch, TLC

CONSTANTS q1, q2, p, c1, t1, s1

\* A sweep and a report of one schedule whose target was replaced, overlap "queue".
QueuedMode == [o \in Ops |-> "queued"]
QueuedTenant == [o \in Ops |-> t1]
NoParents == [o \in Ops |-> NoOp]
OneSchedule == [o \in Ops |-> s1]
NoSchedules == [o \in Ops |-> NoSchedule]

\* A report run for its caller with a child of its own, beside a queued sweep.
ReportMode == [o \in Ops |-> IF o = q1 THEN "queued" ELSE "request"]

NestedParent == [o \in Ops |-> IF o = c1 THEN p ELSE NoOp]

\* Actors are interchangeable.
ActorSymmetry == Permutations(Actors)

=============================================================================
