----------------------------- MODULE MCArtifacts -----------------------------
(***************************************************************************)
(* Instances of FrozenArtifacts: an occurrence and a request that may copy *)
(* its artifact, a chart and a story, two processes.                       *)
(***************************************************************************)
EXTENDS FrozenArtifacts, TLC

CONSTANTS r1, r2, a1, a2, chart, story

OnlyFirst == {r1}
OnlySecond == {r2}
ChartAndStory == <<chart, story>>
OnlyStory == {story}
TwoThenOne == [r \in {r1, r2} |-> IF r = r1 THEN 2 ELSE 1]
TwoThenNone == [r \in {r1, r2} |-> IF r = r1 THEN 2 ELSE 0]
ActorSymmetry == Permutations({a1, a2})

=============================================================================
