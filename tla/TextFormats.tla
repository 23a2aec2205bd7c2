---------------------------- MODULE TextFormats -----------------------------
(***************************************************************************)
(* The fields of the eleven canonical texts: as their encoders push them   *)
(* (...Writes) and as their decoders ask for them (...Reads), each in the  *)
(* order of the source.  An encoder pushes constants (its kind of text,    *)
(* the versions and the engine family of its serializer) and plain data; a *)
(* decoder treats each field in one of the ways of CanonicalText!Accepts.  *)
(* A snapshot policy and a capture reason are free: their interval is a    *)
(* number.  What the values of several fields say of each other is checked *)
(* on the value, in Artifacts, GoldenFixture and the domains.              *)
(***************************************************************************)
LOCAL INSTANCE Integers
LOCAL INSTANCE Sequences

Fields(kind, names) == [i \in 1..Len(names) |-> [name |-> names[i], kind |-> kind, group |-> <<>>]]

\* What encoders push.
Constants(names) == Fields("constant", names)
Plain(names) == Fields("plain", names)

\* What decoders ask for.
Fixed(names) == Fields("fixed", names)
Known(names) == Fields("known", names)
Free(names) == Fields("free", names)
Word(names) == Fields("word", names)

\* The counts whose decoders call Vec::with_capacity; the others push one by one.
ReservingCounts == {"record_count", "record.phase_count", "record.validation_count", "frame_count"}

\* What both have: a flag or a count, and what it announces.
Flag(name, group) == <<[name |-> name, kind |-> "flag", group |-> group]>>
Count(name, group) == <<[name |-> name, kind |-> "count", group |-> group]>>
-----------------------------------------------------------------------------
(***************************************************************************)
(* Payloads: rust/src/serialization/mod.rs.                                *)
(***************************************************************************)
Payload == <<"payload_kind", "canonical_encoding">>

CounterCommandWrites ==
  Constants(Payload \o <<"command_payload_schema_version">>) \o Plain(<<"delta", "consume_entropy">>)

CounterCommandReads ==
  Fixed(Payload) \o Known(<<"command_payload_schema_version">>) \o Free(<<"delta">>) \o Word(<<"consume_entropy">>)

CounterSnapshotWrites ==
  Constants(Payload \o <<"snapshot_payload_schema_version">>)
  \o Plain(<<"tick", "next_entity_id", "primary_entity_id">>)
  \o Count("entity_count", Plain(<<"entity.id", "entity.value", "entity.velocity">>))
  \o Plain(<<"pending_delta", "pending_entropy", "entropy_budget", "finalize_marker">>)

CounterSnapshotReads ==
  Fixed(Payload) \o Known(<<"snapshot_payload_schema_version">>)
  \o Free(<<"tick", "next_entity_id", "primary_entity_id">>)
  \o Count("entity_count", Free(<<"entity.id", "entity.value", "entity.velocity">>))
  \o Free(<<"pending_delta", "pending_entropy", "entropy_budget", "finalize_marker">>)

CounterConfigWrites ==
  Constants(Payload \o <<"config_payload_schema_version">>)
  \o Plain(<<"initial_value", "initial_velocity">>)
  \o Count("initial_entity_count", Plain(<<"initial_entity.value", "initial_entity.velocity">>))
  \o Plain(<<"snapshot_policy", "validation_policy", "max_abs_value", "max_abs_velocity", "max_abs_pending_delta">>)

CounterConfigReads ==
  Fixed(Payload) \o Known(<<"config_payload_schema_version">>)
  \o Free(<<"initial_value", "initial_velocity">>)
  \o Count("initial_entity_count", Free(<<"initial_entity.value", "initial_entity.velocity">>))
  \o Free(<<"snapshot_policy">>) \o Word(<<"validation_policy">>)
  \o Free(<<"max_abs_value", "max_abs_velocity", "max_abs_pending_delta">>)

SettlementCommandWrites ==
  Constants(Payload \o <<"command_payload_schema_version">>)
  \o Plain(<<"opcode", "allocation_farmers", "allocation_loggers">>)

SettlementCommandReads ==
  Fixed(Payload) \o Known(<<"command_payload_schema_version">>)
  \o Word(<<"opcode">>) \o Free(<<"allocation_farmers", "allocation_loggers">>)

SettlementSnapshotWrites ==
  Constants(Payload \o <<"snapshot_payload_schema_version">>)
  \o Plain(<<"tick", "population", "current_allocation_farmers", "current_allocation_loggers",
             "pending_allocation_present", "pending_allocation_farmers", "pending_allocation_loggers",
             "food", "wood", "last_produced_food", "last_produced_wood", "last_consumed_food",
             "last_consumed_wood", "last_food_shortage", "last_wood_shortage", "total_food_produced",
             "total_wood_produced", "total_food_consumed", "total_wood_consumed", "total_food_shortage",
             "total_wood_shortage", "shortage_ticks", "last_status", "finalize_marker">>)

SettlementSnapshotReads ==
  Fixed(Payload) \o Known(<<"snapshot_payload_schema_version">>)
  \o Free(<<"tick", "population", "current_allocation_farmers", "current_allocation_loggers">>)
  \o Word(<<"pending_allocation_present">>)
  \o Free(<<"pending_allocation_farmers", "pending_allocation_loggers",
            "food", "wood", "last_produced_food", "last_produced_wood", "last_consumed_food",
            "last_consumed_wood", "last_food_shortage", "last_wood_shortage", "total_food_produced",
            "total_wood_produced", "total_food_consumed", "total_wood_consumed", "total_food_shortage",
            "total_wood_shortage", "shortage_ticks">>)
  \o Word(<<"last_status">>) \o Free(<<"finalize_marker">>)

SettlementConfigWrites ==
  Constants(Payload \o <<"config_payload_schema_version">>)
  \o Plain(<<"population", "initial_food", "initial_wood", "initial_allocation_farmers",
             "initial_allocation_loggers", "food_per_farmer", "wood_per_logger",
             "food_consumption_per_worker", "wood_consumption_per_tick", "snapshot_policy",
             "validation_policy", "max_inventory">>)

SettlementConfigReads ==
  Fixed(Payload) \o Known(<<"config_payload_schema_version">>)
  \o Free(<<"population", "initial_food", "initial_wood", "initial_allocation_farmers",
            "initial_allocation_loggers", "food_per_farmer", "wood_per_logger",
            "food_consumption_per_worker", "wood_consumption_per_tick", "snapshot_policy">>)
  \o Word(<<"validation_policy">>) \o Free(<<"max_inventory">>)
-----------------------------------------------------------------------------
(***************************************************************************)
(* Artifacts: config/mod.rs, persistence/mod.rs, scenario/mod.rs,          *)
(* fixture/mod.rs.  A nested artifact is one field, in hexadecimal, which  *)
(* its own decoder reads.                                                  *)
(***************************************************************************)
Artifact == <<"artifact", "canonical_encoding">>

ConfigArtifactWrites ==
  Constants(Artifact \o <<"artifact_schema_version", "engine_family_hex", "config_payload_schema_version">>)
  \o Plain(<<"config_digest", "payload_hex">>)

ConfigArtifactReads ==
  Fixed(Artifact) \o Known(<<"artifact_schema_version", "engine_family_hex", "config_payload_schema_version">>)
  \o Free(<<"config_digest", "payload_hex">>)

SnapshotArtifactWrites ==
  Constants(Artifact \o <<"artifact_schema_version", "engine_family_hex">>)
  \o Plain(<<"base_seed", "config_payload_schema_version", "config_digest", "capture_reason">>)
  \o Constants(<<"snapshot_payload_schema_version">>)
  \o Plain(<<"source_tick", "capture_checksum", "payload_hex">>)

SnapshotArtifactReads ==
  Fixed(Artifact) \o Known(<<"artifact_schema_version", "engine_family_hex">>)
  \o Free(<<"base_seed", "config_payload_schema_version", "config_digest", "capture_reason">>)
  \o Known(<<"snapshot_payload_schema_version">>)
  \o Free(<<"source_tick", "capture_checksum", "payload_hex">>)

RecordWrites ==
  Plain(<<"record.tick", "record.input.tick", "record.command_hex", "record.tick_seed">>)
  \o Count("record.phase_count",
           Plain(<<"record.phase.ordinal", "record.phase.group", "record.phase.name_hex">>))
  \o Count("record.validation_count",
           Plain(<<"record.validation.checkpoint", "record.validation.state_tick", "record.validation.state_digest">>))
  \o Plain(<<"record.checksum">>)
  \o Flag("record.snapshot.present",
          Plain(<<"record.snapshot.reason", "record.snapshot.payload_schema_version",
                  "record.snapshot.source_tick", "record.snapshot.capture_checksum", "record.snapshot.payload_hex">>))

RecordReads ==
  Free(<<"record.tick", "record.input.tick", "record.command_hex", "record.tick_seed">>)
  \o Count("record.phase_count",
           Free(<<"record.phase.ordinal">>) \o Word(<<"record.phase.group">>) \o Free(<<"record.phase.name_hex">>))
  \o Count("record.validation_count",
           Word(<<"record.validation.checkpoint">>)
           \o Free(<<"record.validation.state_tick", "record.validation.state_digest">>))
  \o Free(<<"record.checksum">>)
  \o Flag("record.snapshot.present",
          Free(<<"record.snapshot.reason", "record.snapshot.payload_schema_version",
                 "record.snapshot.source_tick", "record.snapshot.capture_checksum", "record.snapshot.payload_hex">>))

ReplayArtifactWrites ==
  Constants(Artifact \o <<"artifact_schema_version", "engine_family_hex">>)
  \o Plain(<<"base_seed", "total_ticks", "snapshot_policy", "config_payload_schema_version", "config_digest">>)
  \o Constants(<<"command_payload_schema_version", "snapshot_payload_schema_version">>)
  \o Count("record_count", RecordWrites)

ReplayArtifactReads ==
  Fixed(Artifact) \o Known(<<"artifact_schema_version", "engine_family_hex">>)
  \o Free(<<"base_seed", "total_ticks", "snapshot_policy", "config_payload_schema_version", "config_digest">>)
  \o Known(<<"command_payload_schema_version", "snapshot_payload_schema_version">>)
  \o Count("record_count", RecordReads)

ParitySummaryWrites ==
  Plain(<<"parity.engine_family_hex", "parity.base_seed", "parity.final_tick", "parity.final_checksum",
          "parity.config_payload_schema_version", "parity.config_digest",
          "parity.replay_artifact_schema_version", "parity.snapshot_artifact_schema_version",
          "parity.command_payload_schema_version", "parity.snapshot_payload_schema_version",
          "parity.replay_digest">>)
  \o Flag("parity.snapshot_digest.present", Plain(<<"parity.snapshot_digest">>))
  \o Flag("parity.scenario_digest.present", Plain(<<"parity.scenario_digest">>))

ParitySummaryReads ==
  Free(<<"parity.engine_family_hex", "parity.base_seed", "parity.final_tick", "parity.final_checksum",
         "parity.config_payload_schema_version", "parity.config_digest",
         "parity.replay_artifact_schema_version", "parity.snapshot_artifact_schema_version",
         "parity.command_payload_schema_version", "parity.snapshot_payload_schema_version",
         "parity.replay_digest">>)
  \o Flag("parity.snapshot_digest.present", Free(<<"parity.snapshot_digest">>))
  \o Flag("parity.scenario_digest.present", Free(<<"parity.scenario_digest">>))

ScenarioWrites ==
  Constants(Artifact \o <<"artifact_schema_version">>)
  \o Plain(<<"config_artifact_hex", "base_seed">>)
  \o Count("frame_count", Plain(<<"frame.tick", "frame.command_hex">>))
  \o Flag("expected_parity.present", ParitySummaryWrites)

ScenarioReads ==
  Fixed(Artifact) \o Known(<<"artifact_schema_version">>)
  \o Free(<<"config_artifact_hex", "base_seed">>)
  \o Count("frame_count", Free(<<"frame.tick", "frame.command_hex">>))
  \o Flag("expected_parity.present", ParitySummaryReads)

GoldenFixtureWrites ==
  Constants(Artifact \o <<"artifact_schema_version">>)
  \o Plain(<<"summary.engine_family_hex", "summary.base_seed", "summary.final_tick", "summary.final_checksum",
             "summary.config_payload_schema_version", "summary.config_digest",
             "summary.replay_artifact_schema_version", "summary.snapshot_artifact_schema_version",
             "summary.command_payload_schema_version", "summary.snapshot_payload_schema_version",
             "summary.replay_digest">>)
  \o Flag("summary.snapshot_digest.present", Plain(<<"summary.snapshot_digest">>))
  \o Flag("summary.scenario_digest.present", Plain(<<"summary.scenario_digest">>))
  \o Plain(<<"config_artifact_hex">>)
  \o Flag("scenario_artifact.present", Plain(<<"scenario_artifact_hex">>))
  \o Plain(<<"replay_artifact_hex">>)
  \o Flag("snapshot_artifact.present", Plain(<<"snapshot_artifact_hex">>))

GoldenFixtureReads ==
  Fixed(Artifact) \o Known(<<"artifact_schema_version">>)
  \o Free(<<"summary.engine_family_hex", "summary.base_seed", "summary.final_tick", "summary.final_checksum",
            "summary.config_payload_schema_version", "summary.config_digest",
            "summary.replay_artifact_schema_version", "summary.snapshot_artifact_schema_version",
            "summary.command_payload_schema_version", "summary.snapshot_payload_schema_version",
            "summary.replay_digest">>)
  \o Flag("summary.snapshot_digest.present", Free(<<"summary.snapshot_digest">>))
  \o Flag("summary.scenario_digest.present", Free(<<"summary.scenario_digest">>))
  \o Free(<<"config_artifact_hex">>)
  \o Flag("scenario_artifact.present", Free(<<"scenario_artifact_hex">>))
  \o Free(<<"replay_artifact_hex">>)
  \o Flag("snapshot_artifact.present", Free(<<"snapshot_artifact_hex">>))
=============================================================================
