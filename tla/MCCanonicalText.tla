-------------------------- MODULE MCCanonicalText ---------------------------
(***************************************************************************)
(* The eleven formats of the repository, with groups of up to two.         *)
(***************************************************************************)
EXTENDS CanonicalText, TextFormats

MCFormats ==
  {"counter_command", "counter_snapshot", "counter_config", "settlement_command", "settlement_snapshot",
   "settlement_config", "config", "snapshot", "replay", "scenario", "golden_fixture"}

MCWrites(f) ==
  CASE f = "counter_command"     -> CounterCommandWrites
    [] f = "counter_snapshot"    -> CounterSnapshotWrites
    [] f = "counter_config"      -> CounterConfigWrites
    [] f = "settlement_command"  -> SettlementCommandWrites
    [] f = "settlement_snapshot" -> SettlementSnapshotWrites
    [] f = "settlement_config"   -> SettlementConfigWrites
    [] f = "config"              -> ConfigArtifactWrites
    [] f = "snapshot"            -> SnapshotArtifactWrites
    [] f = "replay"              -> ReplayArtifactWrites
    [] f = "scenario"            -> ScenarioWrites
    [] f = "golden_fixture"      -> GoldenFixtureWrites

MCReads(f) ==
  CASE f = "counter_command"     -> CounterCommandReads
    [] f = "counter_snapshot"    -> CounterSnapshotReads
    [] f = "counter_config"      -> CounterConfigReads
    [] f = "settlement_command"  -> SettlementCommandReads
    [] f = "settlement_snapshot" -> SettlementSnapshotReads
    [] f = "settlement_config"   -> SettlementConfigReads
    [] f = "config"              -> ConfigArtifactReads
    [] f = "snapshot"            -> SnapshotArtifactReads
    [] f = "replay"              -> ReplayArtifactReads
    [] f = "scenario"            -> ScenarioReads
    [] f = "golden_fixture"      -> GoldenFixtureReads

\* A record can have two phases; two records would only repeat what two frames show.
MCMaxCount(name) == IF name = "record_count" THEN 1 ELSE 2
=============================================================================
