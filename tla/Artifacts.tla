----------------------------- MODULE Artifacts ------------------------------
(***************************************************************************)
(* Replay and snapshot artifacts as values: what recording a run, reading  *)
(* an artifact, verifying it and resuming it from a snapshot return        *)
(* (rust/src/persistence/mod.rs and the comparison of two traces in        *)
(* rust/src/replay/mod.rs).  The engine that is built, run and dropped on  *)
(* the way is AtomicTick.                                                  *)
(*                                                                         *)
(* A config identity or a checksum is the value it is a hash of.  The      *)
(* engine family and the schema versions, which are only ever compared     *)
(* with those of the reader, are one field, format.  Checks that follow    *)
(* one another without changing anything are one conjunction, and the      *)
(* errors they return are one, Refused.                                    *)
(***************************************************************************)
EXTENDS AtomicTick, PhaseOrder, FiniteSetsExt

CONSTANTS
  Plan,            \* the plan of the scheduler every engine is built with
  Restorable(_)    \* snapshot -> the domain's validation of a snapshot accepts it

\* What the scheduler's walk makes of its registrations.
ASSUME PlanAssumption ==
  /\ Plan \in Seq([ordinal : Nat, group : PhaseGroup, name : STRING])
  /\ \A i, j \in 1..Len(Plan) : i < j => GroupRank(Plan[i].group) <= GroupRank(Plan[j].group)

\* Where a recording can always be read back: the plan finalizes at most once.
OneFinalizePhase ==
  \A i, j \in 1..Len(Plan) : Plan[i].group = "Finalize" /\ Plan[j].group = "Finalize" => i = j

Current == "current"

\* SnapshotCaptureReason::Manual.
Manual == [kind |-> "Manual", interval |-> 0]
-----------------------------------------------------------------------------
(***************************************************************************)
(* Running an engine.                                                      *)
(***************************************************************************)
InitialState(config) == [tick |-> 0, data |-> config.initial_data]

\* build(seed, policy): the policy handed to it is ignored, the configuration's is used;
\* the seed is used, so the check that the engine has it cannot fail.
Build(config, seed) ==
  [seed |-> seed, plan |-> Plan, validation_policy |-> config.validation_policy,
   snapshot_policy |-> config.snapshot_policy]

\* A run that goes on with one more call of tick(), unless one has failed.
AfterTick(engine, run, frame) ==
  LET outcome == TickOutcome(engine, run.state, frame)
  IN  IF run.status # "Ok" THEN run
      ELSE [status |-> outcome.status, state |-> outcome.state, records |-> run.records \o outcome.records]

\* Calls tick() for each frame and stops at the first error.
RunFrames(engine, state, frames) ==
  LET run[i \in 0..Len(frames)] ==
        IF i = 0 THEN [status |-> "Ok", state |-> state, records |-> <<>>]
        ELSE AfterTick(engine, run[i - 1], frames[i])
  IN  run[Len(frames)]

InputsOf(records) == [i \in 1..Len(records) |-> records[i].input]

-----------------------------------------------------------------------------
(***************************************************************************)
(* What a reader checks of an artifact.                                    *)
(***************************************************************************)
CheckpointOrder(c) ==
  CASE c = "BeforeTickBegin"      -> 0
    [] c = "AfterInputApplied"    -> 1
    [] c = "AfterSimulationGroup" -> 2
    [] c = "AfterFinalize"        -> 3

\* validate_validation_summaries.
SummariesValid(record) ==
  LET vs == record.validation_summaries
  IN  \A j \in 1..Len(vs) :
        /\ vs[j].state_tick = IF record.tick > 0 THEN record.tick - 1 ELSE 0
        /\ j > 1 => CheckpointOrder(vs[j].checkpoint) > CheckpointOrder(vs[j - 1].checkpoint)

\* The policy and the snapshot of a record agree.
SnapshotAsPolicy(policy, record) ==
  IF ShouldCapture(policy, record.tick)
  THEN record.snapshot # None /\ The(record.snapshot).reason = PolicyInterval(policy)
  ELSE record.snapshot = None

\* A mutant of RecordSequenceValid: ticks are numbered from 0.
RecordSequenceFromZero(seed, policy, records) ==
  \A i \in 1..Len(records) :
    LET record == records[i]
    IN  /\ record.tick = i - 1
        /\ record.input.tick = record.tick
        /\ record.tick_seed = TickSeed(seed, record.tick)
        /\ SummariesValid(record)
        /\ SnapshotAsPolicy(policy, record)

\* validate_record_sequence.
RecordSequenceValid(seed, policy, records) ==
  \A i \in 1..Len(records) :
    LET record == records[i]
    IN  /\ record.tick = i
        /\ record.input.tick = record.tick
        /\ record.tick_seed = TickSeed(seed, record.tick)
        /\ SummariesValid(record)
        /\ SnapshotAsPolicy(policy, record)
        /\ record.snapshot # None =>
             /\ The(record.snapshot).metadata.source_tick = record.tick
             /\ The(record.snapshot).metadata.capture_checksum = record.checksum

LastTick(records) == IF records = <<>> THEN 0 ELSE records[Len(records)].tick

\* validate_replay_artifact_shape.
ShapeValid(a) ==
  /\ RecordSequenceValid(a.base_seed, a.snapshot_policy, a.records)
  /\ a.record_count = Len(a.records)
  /\ a.total_ticks = LastTick(a.records)

\* Where in a sequence of records there is a snapshot, and these snapshots.
Captured(records)    == {i \in 1..Len(records) : records[i].snapshot # None}
SnapshotsOf(records) == {The(records[i].snapshot) : i \in Captured(records)}

\* The domain accepts every snapshot of some records.
AllRestorable(records) == \A s \in SnapshotsOf(records) : Restorable(s.payload)

\* validate_replay_artifact_for_state: the metadata of a snapshot are its payload's.
PayloadMatches(metadata, payload) ==
  metadata.source_tick = payload.tick /\ metadata.capture_checksum = payload

ValidForState(a) ==
  /\ ShapeValid(a)
  /\ \A s \in SnapshotsOf(a.records) : PayloadMatches(s.metadata, s.payload)

\* ReplayArtifactSerializer::decode, as far as it depends on the values of fields.
Decodes(a) ==
  /\ a.format = Current
  /\ AllRestorable(a.records)
  /\ ShapeValid(a)

\* decode_snapshot_artifact_bytes.
SnapshotDecodes(s) == s.format = Current /\ Restorable(s.payload)

-----------------------------------------------------------------------------
(***************************************************************************)
(* compare_replay_traces_with_snapshot_digest.                             *)
(***************************************************************************)
\* What two snapshots differ in.
SnapshotDifferences(e, a) ==
  IF (e = None) # (a = None) THEN {"SnapshotPresence"}
  ELSE IF e = None THEN {}
  ELSE {f \in {"reason", "metadata", "payload"} : The(e)[f] # The(a)[f]}

\* A mutant of Differences: the digests at the checkpoints are not compared.
DifferencesAtTheEnd(e, a) ==
  {f \in {"tick", "input", "tick_seed", "phase_markers", "checksum"} : e[f] # a[f]}
    \cup SnapshotDifferences(e.snapshot, a.snapshot)

\* What two records differ in.
Differences(e, a) ==
  {f \in {"tick", "input", "tick_seed", "phase_markers", "validation_summaries", "checksum"} : e[f] # a[f]}
    \cup SnapshotDifferences(e.snapshot, a.snapshot)

\* The order in which it is looked at, and the first of some differences.
ComparisonOrder ==
  <<"tick", "input", "tick_seed", "phase_markers", "validation_summaries", "checksum",
    "SnapshotPresence", "reason", "metadata", "payload">>

FirstOf(fields) == ComparisonOrder[Min({k \in 1..10 : ComparisonOrder[k] \in fields})]

\* The first divergence of two traces, if any: its index and what differs there.
Divergence(expected, actual) ==
  LET shared == IF Len(expected) < Len(actual) THEN Len(expected) ELSE Len(actual)
      differs == {i \in 1..shared : Differences(expected[i], actual[i]) # {}}
      first   == Min(differs)
  IN  IF differs # {}
      THEN Some([index |-> first, field |-> FirstOf(Differences(expected[first], actual[first]))])
      ELSE IF Len(expected) # Len(actual) THEN Some([index |-> shared + 1, field |-> "TickCount"])
      ELSE None

-----------------------------------------------------------------------------
(***************************************************************************)
(* The calls of the host.  Each returns [status, tick, checksum, snapshot, *)
(* artifact, failed_at], of which an error has the first and the last: how *)
(* many frames the engine had taken, or where the traces diverge.          *)
(***************************************************************************)
Failure(status, n) ==
  [status |-> status, tick |-> 0, checksum |-> None, snapshot |-> None, artifact |-> None, failed_at |-> n]

LastChecksum(records) ==
  IF records = <<>> THEN None ELSE Some(records[Len(records)].checksum)

\* build_snapshot_artifact.
SnapshotArtifact(seed, config, s) ==
  [format |-> Current, base_seed |-> seed, config_identity |-> config,
   capture_reason |-> s.reason, metadata |-> s.metadata, payload |-> s.payload]

\* The last snapshot of some records, found from their end, as an artifact.
FinalSnapshot(a, records) ==
  LET captured == Captured(records)
  IN  IF captured = {} THEN None
      ELSE Some(SnapshotArtifact(a.base_seed, a.config_identity, The(records[Max(captured)].snapshot)))

\* What the calls return that end well.
Success(a, tick, checksum, snapshot) ==
  [status |-> "Ok", tick |-> tick, checksum |-> checksum, snapshot |-> snapshot,
   artifact |-> Some(a), failed_at |-> 0]

\* A mutant of ArtifactOf: total_ticks is the tick that would come next.
ArtifactOfNext(config, seed, records) ==
  [format |-> Current, base_seed |-> seed, config_identity |-> config,
   snapshot_policy |-> config.snapshot_policy, total_ticks |-> TickSucc(LastTick(records)),
   record_count |-> Len(records), records |-> records]

\* build_artifact.
ArtifactOf(config, seed, records) ==
  [format |-> Current, base_seed |-> seed, config_identity |-> config,
   snapshot_policy |-> config.snapshot_policy, total_ticks |-> LastTick(records),
   record_count |-> Len(records), records |-> records]

\* What is returned for a whole replay: its last tick, checksum and snapshot.
WholeReplay(a) ==
  Success(a, a.total_ticks, LastChecksum(a.records), FinalSnapshot(a, a.records))

\* The end of record_replay: build the artifact, encode it for its digest.
Recorded(config, seed, run) ==
  IF run.status # "Ok" THEN Failure(run.status, Len(run.records))
  ELSE IF ~RecordSequenceValid(seed, config.snapshot_policy, run.records)
  THEN Failure("CorruptedArtifact", 0)
  ELSE IF ~AllRestorable(run.records) THEN Failure("SnapshotSerialization", 0)
  ELSE WholeReplay(ArtifactOf(config, seed, run.records))

\* record_replay.
RecordReplay(config, seed, frames) ==
  Recorded(config, seed, RunFrames(Build(config, seed), InitialState(config), frames))

\* A replay that has run to its end, or failed: only then it is compared.
Compared(records, run, success) ==
  IF run.status # "Ok" THEN Failure(run.status, Len(run.records))
  ELSE IF Divergence(records, run.records) = None THEN success
  ELSE Failure("ReplayMismatch", The(Divergence(records, run.records)).index)

\* Runs the inputs of some records, all of them, and then compares.
Replayed(engine, state, records, success) ==
  Compared(records, RunFrames(engine, state, InputsOf(records)), success)

\* execute_replay_verify.
VerifyReplay(config, a) ==
  IF ~ValidForState(a) \/ a.config_identity # config THEN Failure("Refused", 0)
  ELSE Replayed(Build(config, a.base_seed), InitialState(config), a.records, WholeReplay(a))

\* The records behind the one of the snapshot's tick.
Continuation(s, records) ==
  LET source == CHOOSE i \in 1..Len(records) : records[i].tick = s.metadata.source_tick
  IN  SubSeq(records, source + 1, Len(records))

\* validate_snapshot_artifact.
SnapshotArtifactValid(s, seed, config) ==
  s.base_seed = seed /\ s.config_identity = config /\ PayloadMatches(s.metadata, s.payload)

\* The snapshot is the one the replay has recorded at its tick, in every field.
RecordedIn(s, records) ==
  \E i \in 1..Len(records) :
    /\ records[i].tick = s.metadata.source_tick
    /\ records[i].snapshot =
         Some([metadata |-> s.metadata, reason |-> s.capture_reason, payload |-> s.payload])

\* The checks of execute_replay_from_snapshot that precede the engine.
Resumable(config, s, a) ==
  /\ s.format = a.format
  /\ a.config_identity = config
  /\ SnapshotArtifactValid(s, a.base_seed, config)
  /\ RecordedIn(s, a.records)
  /\ LET rest == Continuation(s, a.records)
     IN  rest # <<>> => rest[1].tick = TickSucc(s.metadata.source_tick)
  /\ ValidForState(a)

\* What is returned for the rest of a replay: where it is empty, the snapshot itself.
RestOfReplay(s, a, rest) ==
  IF rest = <<>>
  THEN Success(a, s.metadata.source_tick, Some(s.metadata.capture_checksum), Some(s))
  ELSE Success(a, LastTick(rest), LastChecksum(rest),
               IF Captured(rest) = {} THEN Some(s) ELSE FinalSnapshot(a, rest))

\* execute_replay_from_snapshot.
ResumeReplay(config, s, a) ==
  IF ~Resumable(config, s, a) THEN Failure("Refused", 0)
  ELSE IF ~Restorable(s.payload) THEN Failure("panicked", 0)
  ELSE Replayed(Build(config, a.base_seed), s.payload, Continuation(s, a.records),
                RestOfReplay(s, a, Continuation(s, a.records)))
=============================================================================
