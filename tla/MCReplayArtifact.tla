-------------------------- MODULE MCReplayArtifact --------------------------
(***************************************************************************)
(* Replays of runs in the small domain of MCDomain.                        *)
(***************************************************************************)
EXTENDS ReplayArtifact, MCDomain

\* The hypotheses of the theorems about ReplayArtifact hold here, but for the plan
\* with two phases of the Finalize group.
ASSUME MCReplayAssumption ==
  RunsAreRestorable /\ InputsEndInTime /\ (OneFinalizePhase <=> Plan # TwoFinalizePlan)
=============================================================================
