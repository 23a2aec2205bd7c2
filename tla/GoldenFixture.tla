--------------------------- MODULE GoldenFixture ----------------------------
(***************************************************************************)
(* Golden fixtures as values: a configuration, perhaps the scenario that   *)
(* was run, the replay, perhaps its last snapshot, and a summary of them   *)
(* (rust/src/fixture/mod.rs), and the catalog a host builds of its         *)
(* scenarios (rust/src/api/settlement.rs).                                 *)
(***************************************************************************)
EXTENDS Scenario

\* validate_fixture_contract.
FixtureContract(config, scenario, replay, snapshot) ==
  /\ replay.config_identity = config
  /\ replay.snapshot_policy = config.snapshot_policy
  /\ snapshot # None => /\ The(snapshot).base_seed = replay.base_seed
                        /\ The(snapshot).config_identity = config
  /\ scenario # None => The(scenario).config_artifact = config

\* compare_fixture_scenario_contract, where the configuration is the scenario's own.
ScenarioContract(scenario, replay) ==
  scenario # None => /\ The(scenario).base_seed = replay.base_seed
                     /\ The(scenario).frames = InputsOf(replay.records)

\* fixture_summary_from_artifacts.
FixtureSummary(scenario, replay, snapshot) ==
  [SummaryOf(replay) EXCEPT
     !.snapshot_digest = IF snapshot # None THEN snapshot ELSE @,
     !.scenario_digest = IF scenario # None THEN Some(Contract(The(scenario))) ELSE @]

FixtureOf(config, scenario, replay, snapshot) ==
  [config_artifact |-> config, scenario_artifact |-> scenario, replay_artifact |-> replay,
   snapshot_artifact |-> snapshot, summary |-> FixtureSummary(scenario, replay, snapshot)]

\* build_fixture, of parts the host may have from anywhere.
BuildFixture(config, scenario, replay, snapshot) ==
  IF /\ FixtureContract(config, scenario, replay, snapshot)
     /\ Exports(replay, snapshot)
  THEN Some(FixtureOf(config, scenario, replay, snapshot))
  ELSE None

\* generate_fixture_from_scenario, and generate_fixture, which records the same run
\* and leaves the scenario out: the fixture of an execution, with the scenario or None.
GenerateFixture(config, scenario, execution) ==
  IF execution.status # "Ok" THEN None
  ELSE BuildFixture(config, scenario, The(execution.replay), execution.final_snapshot)

\* A mutant of FixtureAgrees: the summary is read as it stands.
FixtureAgreesInParts(f) ==
  /\ FixtureContract(f.config_artifact, f.scenario_artifact, f.replay_artifact, f.snapshot_artifact)
  /\ ScenarioContract(f.scenario_artifact, f.replay_artifact)

\* The checks encode begins and decode ends with: the parts, the inputs and the summary agree.
FixtureAgrees(f) ==
  /\ FixtureContract(f.config_artifact, f.scenario_artifact, f.replay_artifact, f.snapshot_artifact)
  /\ ScenarioContract(f.scenario_artifact, f.replay_artifact)
  /\ CompareParity(FixtureSummary(f.scenario_artifact, f.replay_artifact, f.snapshot_artifact), f.summary) = {}

\* GoldenFixtureSerializer::encode.
FixtureEncodes(f) == FixtureAgrees(f) /\ Exports(f.replay_artifact, f.snapshot_artifact)

\* GoldenFixtureSerializer::decode, as far as it depends on the values of fields.
FixtureDecodes(f) ==
  /\ Decodes(f.replay_artifact)
  /\ f.snapshot_artifact # None => SnapshotDecodes(The(f.snapshot_artifact))
  /\ FixtureAgrees(f)

\* A mutant of SnapshotsAgree: the snapshots are compared where both are there.
SnapshotsAgreeIfThere(expected, actual) ==
  expected # None /\ actual # None => expected = actual

\* compare_optional_snapshot_artifacts: every field of the artifact is compared.
SnapshotsAgree(expected, actual) == expected = actual

\* compare_fixture_config_contract.
ConfigContract(f, config, scenario_digest) ==
  /\ f.config_artifact = config
  /\ f.replay_artifact.config_identity = config
  /\ f.replay_artifact.snapshot_policy = config.snapshot_policy
  /\ f.summary.config_digest = config
  /\ f.summary.scenario_digest = scenario_digest
  /\ f.snapshot_artifact # None => The(f.snapshot_artifact).config_identity = config

\* What verify_fixture runs: the scenario, or the inputs of the replay.
Effective(f) ==
  IF f.scenario_artifact # None THEN The(f.scenario_artifact)
  ELSE ScenarioOf(f.config_artifact, f.replay_artifact.base_seed, InputsOf(f.replay_artifact.records), None)

\* The digest of the scenario, if there is one.
ScenarioDigest(scenario) == IF scenario = None THEN None ELSE Some(Contract(The(scenario)))

\* What differs between a fixture and a recording of its run, part by part.
Compare(f, config, digest, recording) ==
  LET agrees == [config   |-> ConfigContract(f, config, digest),
                 scenario |-> ScenarioContract(f.scenario_artifact, f.replay_artifact),
                 summary  |-> CompareParity(f.summary, SummaryWith(digest, recording)) = {},
                 replay   |-> Divergence(f.replay_artifact.records, The(recording.artifact).records) = None,
                 snapshot |-> SnapshotsAgree(f.snapshot_artifact, recording.snapshot)]
  IN  IF recording.status # "Ok" THEN [status |-> recording.status, mismatches |-> {}]
      ELSE [status |-> "Ok", mismatches |-> {part \in DOMAIN agrees : ~agrees[part]}]

\* The scenario, run again.
RecordingOf(s) == RecordReplay(s.config_artifact, s.base_seed, s.frames)

(***************************************************************************)
(* verify_fixture: run the scenario, or the inputs of the replay, and list *)
(* what differs from that recording.  It does not check what decode does:  *)
(* a fixture need not have been read.                                      *)
(***************************************************************************)
VerifyFixture(f) ==
  Compare(f, Effective(f).config_artifact, ScenarioDigest(f.scenario_artifact), RecordingOf(Effective(f)))

Passed(result) == result.status = "Ok" /\ result.mismatches = {}
-----------------------------------------------------------------------------
(***************************************************************************)
(* The host's catalog of scenarios: each is run, run again, verified,      *)
(* resumed, made a fixture and compared with what its author expects.      *)
(***************************************************************************)
\* fixture_interop_bundle_from_fixture.
FixtureBundle(f) ==
  /\ FixtureEncodes(f)
  /\ RunSummary(f.snapshot_artifact) # None

\* SettlementScenarioExpectation::verify: everything but the tick is compared.
ExpectationMet(expected, run) == run.final_data = expected

\* What a case reports whose calls have returned these results.
CatalogReport(expected, bundle, rerun, verified, resumed, fixture, result) ==
  IF \/ verified.status # "Ok"
     \/ resumed.status # "Ok"
     \/ ~FixtureBundle(The(fixture))
     \/ result.status # "Ok"
     \/ ~ExpectationMet(expected, bundle.run_summary)
  THEN [status |-> "Refused"]
  ELSE LET checksum == The(bundle.parity_summary.final_checksum)
       IN  [status |-> "Ok",
            rerun_parity_match          |-> CompareParity(bundle.parity_summary, The(rerun.parity_summary)) = {},
            replay_verification_match   |-> verified.checksum = Some(checksum),
            resume_from_snapshot_match  |-> resumed.checksum = Some(checksum),
            fixture_verification_passed |-> Passed(result)]

\* A mutant of FirstSnapshot: the snapshot goes by the name of the next tick.
FirstSnapshotNext(replay) ==
  LET s == The(replay.records[Min(Captured(replay.records))].snapshot)
  IN  SnapshotArtifact(replay.base_seed, replay.config_identity,
                       [s EXCEPT !.metadata.source_tick = TickSucc(@)])

\* The first snapshot of a replay, as an artifact.
FirstSnapshot(replay) ==
  SnapshotArtifact(replay.base_seed, replay.config_identity,
                   The(replay.records[Min(Captured(replay.records))].snapshot))

\* One round of build_settlement_demo_catalog, of a scenario, its execution and the
\* fixture generated from it.  A run without a snapshot has no bundle.
CatalogEntry(s, expected, execution, fixture) ==
  LET bundle == ScenarioBundle(execution)
      replay == The(execution.replay)
  IN  IF bundle.status # "Ok" THEN [status |-> bundle.status]
      ELSE IF fixture = None THEN [status |-> "Refused"]
      ELSE CatalogReport(expected, bundle, Execute(s), VerifyReplay(s.config_artifact, replay),
                         ResumeReplay(s.config_artifact, FirstSnapshot(replay), replay),
                         fixture, VerifyFixture(The(fixture)))
=============================================================================
