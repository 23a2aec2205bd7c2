------------------------------ MODULE Scenario ------------------------------
(***************************************************************************)
(* Scenarios as values: a configuration, a seed and input frames to run,   *)
(* and optionally the parity summary the run is expected to have           *)
(* (rust/src/scenario/mod.rs, rust/src/parity/mod.rs), and what            *)
(* rust/src/api/settlement.rs makes of an executed scenario.               *)
(*                                                                         *)
(* A digest is the value it is a hash of.  In a summary the engine family  *)
(* and the schema versions that no comparison looks at are one field,      *)
(* format; the version of the configuration's payload is part of its       *)
(* identity.  A version that every reader checks against its own constant, *)
(* as the scenario's, is left out.                                         *)
(***************************************************************************)
EXTENDS Artifacts

\* A mutant of SummaryOf: the snapshot is the first one.
SummaryOfFirst(a) ==
  LET captured == Captured(a.records)
  IN  [format          |-> a.format,
       base_seed       |-> a.base_seed,
       final_tick      |-> a.total_ticks,
       final_checksum  |-> LastChecksum(a.records),
       config_digest   |-> a.config_identity,
       replay_digest   |-> a,
       snapshot_digest |-> IF captured = {} THEN None
                           ELSE Some(SnapshotArtifact(a.base_seed, a.config_identity,
                                                      The(a.records[Min(captured)].snapshot))),
       scenario_digest |-> None]

\* ReplayArtifactSerializer::summary, as a parity summary.
SummaryOf(a) ==
  [format          |-> a.format,
   base_seed       |-> a.base_seed,
   final_tick      |-> a.total_ticks,
   final_checksum  |-> LastChecksum(a.records),
   config_digest   |-> a.config_identity,
   replay_digest   |-> a,
   snapshot_digest |-> FinalSnapshot(a, a.records),
   scenario_digest |-> None]

\* compare_parity_summaries: the fields in which two summaries differ.
CompareParity(expected, actual) ==
  {f \in {"base_seed", "final_tick", "final_checksum", "config_digest",
          "replay_digest", "snapshot_digest", "scenario_digest"} : expected[f] # actual[f]}

\* build_scenario.  Frames are taken as they are: a wrong one fails when it is executed.
ScenarioOf(config, seed, frames, expected) ==
  [config_artifact |-> config, base_seed |-> seed, frames |-> frames,
   expected_parity_summary |-> expected]

\* A mutant of Contract: the whole scenario is digested, as its encoding has it.
ContractOfEverything(s) == s

\* contract_bytes: what the digest of a scenario is taken of.  The expectation is not.
Contract(s) == [config_artifact |-> s.config_artifact, base_seed |-> s.base_seed, frames |-> s.frames]

\* The summary of a run with the digest of the scenario it was run for, if any.
SummaryWith(digest, recording) == [SummaryOf(The(recording.artifact)) EXCEPT !.scenario_digest = digest]

\* The end of execute: the scenario's digest goes into the summary.
Executed(s, recording) ==
  IF recording.status # "Ok"
  THEN [status |-> recording.status, replay |-> None, final_snapshot |-> None, parity_summary |-> None]
  ELSE [status         |-> "Ok",
        replay         |-> recording.artifact,
        final_snapshot |-> recording.snapshot,
        parity_summary |-> Some(SummaryWith(Some(Contract(s)), recording))]

\* execute: record the run.
Execute(s) == Executed(s, RecordReplay(s.config_artifact, s.base_seed, s.frames))

\* verify: compare an execution with the expectation, if there is one.
VerifyScenario(s, execution) ==
  [status |-> execution.status,
   passed |-> /\ execution.status = "Ok"
              /\ s.expected_parity_summary # None =>
                   CompareParity(The(s.expected_parity_summary), The(execution.parity_summary)) = {}]
-----------------------------------------------------------------------------
(***************************************************************************)
(* What a host shows of a run.                                             *)
(***************************************************************************)
\* settlement_run_summary_from_execution and SettlementRunSummary::from_snapshot.
RunSummary(snapshot) ==
  IF snapshot = None \/ ~Restorable(The(snapshot).payload) THEN None
  ELSE Some([final_tick |-> The(snapshot).payload.tick, final_data |-> The(snapshot).payload.data])

\* The replay and the snapshot artifact can be encoded.
Exports(replay, snapshot) ==
  /\ RecordSequenceValid(replay.base_seed, replay.snapshot_policy, replay.records)
  /\ AllRestorable(replay.records)
  /\ snapshot # None => Restorable(The(snapshot).payload)

\* scenario_interop_bundle_from_execution: the artifacts, encoded, and the summaries.
ScenarioBundle(execution) ==
  LET run == RunSummary(execution.final_snapshot)
  IN  IF execution.status # "Ok" THEN [status |-> execution.status]
      ELSE IF ~Exports(The(execution.replay), execution.final_snapshot) \/ run = None
      THEN [status |-> "Refused"]
      ELSE [status |-> "Ok", parity_summary |-> The(execution.parity_summary), run_summary |-> The(run)]
=============================================================================
