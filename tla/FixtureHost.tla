---------------------------- MODULE FixtureHost -----------------------------
(***************************************************************************)
(* A host that describes a run as a scenario, gives it an expectation,     *)
(* bundles it as a golden fixture, stores and reads back both, and         *)
(* verifies them (the functions of rust/src/api/mod.rs and                 *)
(* rust/src/api/settlement.rs over rust/src/scenario/mod.rs and            *)
(* rust/src/fixture/mod.rs).  Each call works on values the host owns and  *)
(* returns before the next one, so each is one action.                     *)
(***************************************************************************)
EXTENDS GoldenFixture, StoredArtifacts

VARIABLES
  scenario,        \* Option: the scenario the host has
  basis,           \* history: Option, the run the expectation was taken from
  fixture,         \* Option: the fixture the host has
  generated,       \* history: Option, the fixture as the host has generated it
  answer,          \* its last call, if that returned a report, and the report
  changes          \* history: how many parts are not what the host made

host == <<scenario, basis, fixture, generated, answer, changes>>

Answer(call, result) == [call |-> call, result |-> result]

NoAnswer == [call |-> "none"]

HostInit ==
  /\ scenario = None
  /\ basis = None
  /\ fixture = None
  /\ generated = None
  /\ answer = NoAnswer
  /\ changes = 0

\* The run a scenario stands for.
WhatIsRun(s) == <<s.config_artifact, s.base_seed, s.frames>>

\* What a scenario can be given to expect: nothing, or what a run of it shows under
\* one seed or another.
Expectations(s) ==
  LET taken == {[basis |-> Some(WhatIsRun(run)), summary |-> Execute(run).parity_summary] :
                   run \in {[s EXCEPT !.base_seed = seed] : seed \in Seeds}}
  IN  {[basis |-> None, summary |-> None]} \cup {e \in taken : e.summary # None}

\* build_settlement_scenario, as the host does who has run it before.  A behaviour
\* builds one scenario: a second one would only replace the first.
BuildScenario(config, seed, frames) ==
  /\ scenario = None
  /\ \E e \in Expectations(ScenarioOf(config, seed, frames, None)) :
       /\ scenario' = Some(ScenarioOf(config, seed, frames, e.summary))
       /\ basis' = e.basis
  /\ UNCHANGED <<fixture, generated, answer, changes>>

\* verify_settlement_scenario.
VerifyTheScenario ==
  /\ scenario # None
  /\ answer' = Answer("verify", VerifyScenario(The(scenario), Execute(The(scenario))))
  /\ UNCHANGED <<scenario, basis, fixture, generated, changes>>

\* execute_settlement_scenario_interop_bundle.
Bundle ==
  /\ scenario # None
  /\ answer' = Answer("bundle", ScenarioBundle(Execute(The(scenario))))
  /\ UNCHANGED <<scenario, basis, fixture, generated, changes>>

\* build_settlement_demo_catalog, with an author's expectation that may be wrong.
Catalog(expected) ==
  /\ scenario # None
  /\ LET s         == The(scenario)
         fixture_of(execution) == GenerateFixture(s.config_artifact, scenario, execution)
         entry(execution) == CatalogEntry(s, expected, execution, fixture_of(execution))
     IN  answer' = Answer("catalog", [expected |-> expected, entry |-> entry(Execute(s))])
  /\ UNCHANGED <<scenario, basis, fixture, generated, changes>>

\* generate_settlement_golden_fixture_from_scenario; generate_counter_golden_fixture
\* makes one of the same run without the scenario.
Generate ==
  /\ scenario # None
  /\ fixture = None
  /\ \E with \in {None, scenario} :
       LET f == GenerateFixture(The(scenario).config_artifact, with, Execute(The(scenario)))
       IN  fixture' = f /\ generated' = f
  /\ answer' = NoAnswer
  /\ UNCHANGED <<scenario, basis, changes>>

\* build_fixture, of a replay and a snapshot that need not be those of the scenario's run.
BuildFromParts ==
  /\ scenario # None
  /\ fixture = None
  /\ changes < MaxFaults
  /\ Execute(The(scenario)).status = "Ok"
  /\ LET replay == The(Execute(The(scenario)).replay)
     IN  \E a \in ArtifactChanged(replay) \cup {replay},
          x \in {None} \cup {Some(y) : y \in SnapshotsAt(replay)},
          part \in {None, scenario} :
         fixture' = BuildFixture(The(scenario).config_artifact, part, a, x)
  /\ fixture' # None
  /\ answer' = NoAnswer
  /\ changes' = changes + 1
  /\ UNCHANGED <<scenario, basis, generated>>

\* verify_settlement_golden_fixture.
VerifyTheFixture ==
  /\ fixture # None
  /\ answer' = Answer("fixture", VerifyFixture(The(fixture)))
  /\ UNCHANGED <<scenario, basis, fixture, generated, changes>>
-----------------------------------------------------------------------------
(***************************************************************************)
(* Storage.  What is read is what was written or differs from it in one    *)
(* field.                                                                  *)
(***************************************************************************)
SummaryChanged(summary) ==
  {[summary EXCEPT !.format = "other"],
   [summary EXCEPT !.final_tick = @ + 1],
   [summary EXCEPT !.final_checksum = None],
   [summary EXCEPT !.replay_digest.total_ticks = @ + 1],
   [summary EXCEPT !.snapshot_digest = None],
   [summary EXCEPT !.scenario_digest = None]}
  \cup {[summary EXCEPT !.base_seed = x] : x \in Seeds}
  \cup {[summary EXCEPT !.config_digest = c] : c \in Configs}

\* The part of a scenario that is run.
ContractChanged(s) ==
  {[s EXCEPT !.base_seed = x] : x \in Seeds}
  \cup {[s EXCEPT !.config_artifact = c] : c \in Configs}
  \cup UNION {{[s EXCEPT !.frames[i].tick = @ + 1]}
              \cup {[s EXCEPT !.frames[i].command = c] : c \in Commands} : i \in 1..Len(s.frames)}

ScenarioChanged(s) ==
  ContractChanged(s)
  \cup {[s EXCEPT !.expected_parity_summary = None]}
  \cup (IF s.expected_parity_summary = None THEN {}
        ELSE {[s EXCEPT !.expected_parity_summary = Some(x)] : x \in SummaryChanged(The(s.expected_parity_summary))})

FixtureChanged(f) ==
  {[f EXCEPT !.scenario_artifact = None], [f EXCEPT !.snapshot_artifact = None]}
  \cup {[f EXCEPT !.summary = x] : x \in SummaryChanged(f.summary)}
  \cup {[f EXCEPT !.config_artifact = c] : c \in Configs}
  \cup {[f EXCEPT !.replay_artifact = a] : a \in ArtifactChanged(f.replay_artifact)}
  \cup {[f EXCEPT !.snapshot_artifact = Some(x)] :
           x \in SnapshotsAt(f.replay_artifact)
                 \cup (IF f.snapshot_artifact = None THEN {} ELSE SnapshotArtifactChanged(The(f.snapshot_artifact)))}
  \cup (IF f.scenario_artifact = None THEN {}
        ELSE {[f EXCEPT !.scenario_artifact = Some(s)] : s \in ScenarioChanged(The(f.scenario_artifact))})

\* export_settlement_scenario, and import_settlement_scenario of what came back: any
\* values of its fields are a scenario.  What is expected is changed as a whole.
StoreScenario ==
  /\ scenario # None
  /\ fixture = None
  /\ changes < MaxFaults
  /\ \/ /\ \E s \in ContractChanged(The(scenario)) \ {The(scenario)} : scenario' = Some(s)
        /\ UNCHANGED basis
     \/ \E e \in Expectations(The(scenario)) :
          /\ scenario' = Some([The(scenario) EXCEPT !.expected_parity_summary = e.summary])
          /\ basis' = e.basis
  /\ answer' = NoAnswer
  /\ changes' = changes + 1
  /\ UNCHANGED <<fixture, generated>>

\* export_settlement_golden_fixture, and import_settlement_golden_fixture of what
\* came back; a host whose import fails keeps the fixture it has.
StoreFixture ==
  /\ fixture # None
  /\ FixtureEncodes(The(fixture))
  /\ changes < MaxFaults
  /\ \E f \in FixtureChanged(The(fixture)) \ {The(fixture)} :
       /\ FixtureDecodes(f)
       /\ fixture' = Some(f)
  /\ answer' = NoAnswer
  /\ changes' = changes + 1
  /\ UNCHANGED <<scenario, basis, generated>>

HostNext ==
  \/ \E config \in Configs, seed \in Seeds, frames \in Inputs : BuildScenario(config, seed, frames)
  \/ VerifyTheScenario
  \/ Bundle
  \/ \E expected \in Data : Catalog(expected)
  \/ Generate
  \/ BuildFromParts
  \/ VerifyTheFixture
  \/ StoreScenario
  \/ StoreFixture

HostSpec == HostInit /\ [][HostNext]_host
-----------------------------------------------------------------------------
(***************************************************************************)
(* An expectation stands for one run.  A scenario that is executed passes  *)
(* if and only if its expectation, where it has one, was taken from a run  *)
(* of the same configuration, seed and frames -- though it was not part of *)
(* the scenario that was run to obtain it (scenario/mod.rs:193, 209).      *)
(***************************************************************************)
ExpectationTellsTheRun ==
  answer.call = "verify" /\ answer.result.status = "Ok" =>
    (answer.result.passed <=> basis = None \/ basis = Some(WhatIsRun(The(scenario))))

(***************************************************************************)
(* A generated fixture holds: it can be stored and read back, and a rerun  *)
(* of the scenario, or of the inputs of the replay, shows what it says,    *)
(* although the two obtain the digests of the snapshot and of the scenario *)
(* from different places (fixture/mod.rs:443, 522).                        *)
(***************************************************************************)
GeneratedFixturesHold ==
  /\ generated # None => FixtureEncodes(The(generated)) /\ FixtureDecodes(The(generated))
  /\ answer.call = "fixture" /\ generated # None /\ fixture = generated => Passed(answer.result)

\* A fixture but for what neither a digest nor a comparison covers: the expectation of
\* its scenario and the versions its summary names.
Covered(f) ==
  [f EXCEPT !.summary.format = Current,
            !.scenario_artifact =
              IF @ = None THEN None
              ELSE Some([The(@) EXCEPT !.expected_parity_summary = None])]

(***************************************************************************)
(* No single change of a fixture goes unnoticed.  Of a generated fixture   *)
(* of which one field is changed, nothing can be read back but what        *)
(* differs in an uncovered field or has lost its snapshot artifact: the    *)
(* replay still has that snapshot (fixture/mod.rs:422-438).                *)
(***************************************************************************)
ChangesAreNoticed ==
  generated # None =>
    LET was == Covered(The(generated))
        is  == Covered(The(fixture))
    IN  is = was \/ is = [was EXCEPT !.snapshot_artifact = None]

(***************************************************************************)
(* What passes is genuine.  A fixture that verifies -- built of parts that *)
(* do not belong together, changed by storage, or never read at all -- is  *)
(* the one that would be generated from its scenario, or from the inputs   *)
(* of its replay, but for the versions its summary names                   *)
(* (fixture/mod.rs:443-520).                                               *)
(***************************************************************************)
PassedFixturesAreGenuine ==
  answer.call = "fixture" /\ Passed(answer.result) =>
    LET f == The(fixture)
    IN  Some([f EXCEPT !.summary.format = Current]) =
          GenerateFixture(Effective(f).config_artifact, f.scenario_artifact, Execute(Effective(f)))

(***************************************************************************)
(* The catalog is clean.  Whatever runs, has a snapshot and is expected    *)
(* rightly has an entry, in which the rerun, the verified replay, the run  *)
(* resumed from the first snapshot and the fixture all agree               *)
(* (api/settlement.rs:713).                                                *)
(***************************************************************************)
CatalogIsClean ==
  answer.call = "catalog" =>
    LET entry  == answer.result.entry
        bundle == ScenarioBundle(Execute(The(scenario)))
    IN  IF bundle.status = "Ok" /\ bundle.run_summary.final_data = answer.result.expected
        THEN entry = [status |-> "Ok", rerun_parity_match |-> TRUE, replay_verification_match |-> TRUE,
                      resume_from_snapshot_match |-> TRUE, fixture_verification_passed |-> TRUE]
        ELSE entry.status # "Ok"

(***************************************************************************)
(* A run summary needs "a captured final snapshot", of "a snapshot policy  *)
(* that records the final tick" (api/settlement.rs:247), so it is of the   *)
(* tick the run ends with.  What is looked for is any captured snapshot,   *)
(* the last one.                                                           *)
(***************************************************************************)
RunSummaryIsOfTheLastTick ==
  answer.call = "bundle" /\ answer.result.status = "Ok" =>
    answer.result.run_summary.final_tick = answer.result.parity_summary.final_tick
=============================================================================
