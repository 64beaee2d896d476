----------------------------- MODULE MCSchedules -----------------------------
(* Small instances of Schedules for TLC. *)
EXTENDS Schedules

CONSTANTS s1, s2

\* Every second tick, skipping what is missed; every third, catching up twice.
Skipping == [every |-> 2, anchor |-> 1, missed |-> "skip", maxCatchUp |-> 0, overlap |-> "skip"]
CatchingUp == [every |-> 2, anchor |-> 1, missed |-> "catch_up", maxCatchUp |-> 2,
               overlap |-> "queue"]
Slower == [every |-> 3, anchor |-> 0, missed |-> "catch_up", maxCatchUp |-> 1,
           overlap |-> "skip"]

AllDefinitions == {Skipping, CatchingUp, Slower}
TwoDefinitions == {CatchingUp, Slower}
OneDefinition == {CatchingUp}

StartSkipping == [s \in Ids |-> Skipping]
StartCatchingUp == [s \in Ids |-> CatchingUp]
StartMixed == [s \in Ids |-> IF s = s1 THEN CatchingUp ELSE Slower]

==============================================================================
