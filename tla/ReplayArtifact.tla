--------------------------- MODULE ReplayArtifact ---------------------------
(***************************************************************************)
(* A host that records a run, stores and reads back its artifacts, and     *)
(* verifies and resumes the replay (the functions of rust/src/api/mod.rs   *)
(* over rust/src/persistence/mod.rs).  Each call works on values the host  *)
(* owns and returns before the next one, so each is one action.  Between   *)
(* writing and reading, storage may change a field.                        *)
(***************************************************************************)
EXTENDS StoredArtifacts

VARIABLES
  artifact,        \* Option: the replay artifact the host has
  snapshot,        \* Option: the snapshot artifact the host has
  report,          \* its last call, if that was one of the three, and what it returned
  recorded,        \* history: the replay artifact as it was recorded
  faults           \* history: how many stored fields have changed

vars == <<artifact, snapshot, report, recorded, faults>>

Report(call, config, outcome) ==
  [call |-> call, config |-> config, outcome |-> outcome]

NoReport == [call |-> "none"]

Init ==
  /\ artifact = None
  /\ snapshot = None
  /\ report = NoReport
  /\ recorded = None
  /\ faults = 0

\* record_counter_replay_with_config.  A behaviour records once: a second recording
\* would only replace the first.
Record(config, seed, frames) ==
  /\ recorded = None
  /\ LET outcome == RecordReplay(config, seed, frames)
     IN  /\ report' = Report("record", config, outcome)
         /\ artifact' = outcome.artifact
         /\ recorded' = outcome.artifact
  /\ UNCHANGED <<snapshot, faults>>

\* verify_counter_replay_with_config.
Verify(config) ==
  /\ artifact # None
  /\ report' = Report("verify", config, VerifyReplay(config, The(artifact)))
  /\ UNCHANGED <<artifact, snapshot, recorded, faults>>

\* resume_counter_replay_from_snapshot_with_config.
Resume(config) ==
  /\ artifact # None
  /\ snapshot # None
  /\ report' = Report("resume", config, ResumeReplay(config, The(snapshot), The(artifact)))
  /\ UNCHANGED <<artifact, snapshot, recorded, faults>>

ExtractSnapshot ==
  /\ artifact # None
  /\ \E s \in SnapshotsAt(The(artifact)) : snapshot' = Some(s)
  /\ report' = NoReport
  /\ UNCHANGED <<artifact, recorded, faults>>

\* counter_snapshot_artifact_from_engine, for an engine with n of the recorded inputs behind it.
ManualSnapshot(n) ==
  /\ LET a   == The(recorded)
         run == RunFrames(Build(a.config_identity, a.base_seed), InitialState(a.config_identity),
                          SubSeq(InputsOf(a.records), 1, n))
     IN  snapshot' = Some(SnapshotArtifact(a.base_seed, a.config_identity, SnapshotRecord(Manual, run.state)))
  /\ report' = NoReport
  /\ UNCHANGED <<artifact, recorded, faults>>

-----------------------------------------------------------------------------
\* export_counter_replay_artifact, and import_counter_replay_artifact of what came
\* back; a host whose import fails keeps the artifact it has.
StoreReplay ==
  /\ artifact # None
  /\ faults < MaxFaults
  /\ \E a \in ArtifactChanged(The(artifact)) \ {The(artifact)} :
       /\ Decodes(a)
       /\ artifact' = Some(a)
       /\ faults' = faults + 1
  /\ report' = NoReport
  /\ UNCHANGED <<snapshot, recorded>>

StoreSnapshot ==
  /\ snapshot # None
  /\ faults < MaxFaults
  /\ \E s \in SnapshotArtifactChanged(The(snapshot)) \ {The(snapshot)} :
       /\ SnapshotDecodes(s)
       /\ snapshot' = Some(s)
       /\ faults' = faults + 1
  /\ report' = NoReport
  /\ UNCHANGED <<artifact, recorded>>

Next ==
  \/ \E config \in Configs, seed \in Seeds, frames \in Inputs : Record(config, seed, frames)
  \/ \E config \in Configs : Verify(config) \/ Resume(config)
  \/ ExtractSnapshot
  \/ recorded # None /\ \E n \in 0..Len(The(recorded).records) : ManualSnapshot(n)
  \/ StoreReplay
  \/ StoreSnapshot

Spec == Init /\ [][Next]_vars
-----------------------------------------------------------------------------
\* The host only ever has artifacts that can be read back.
TypeOK ==
  /\ artifact # None => Decodes(The(artifact)) /\ The(artifact).config_identity \in Configs
  /\ snapshot # None => SnapshotDecodes(The(snapshot)) /\ The(snapshot).config_identity \in Configs
  /\ recorded = None => artifact = None
  /\ report.call \in {"none", "record", "verify", "resume"}
  /\ faults \in 0..MaxFaults

-----------------------------------------------------------------------------
\* What is asked of a domain whose recordings can always be read back: its validation
\* of a snapshot accepts the state each successful tick of the inputs leaves.
RunsAreRestorable ==
  \A config \in Configs, seed \in Seeds, frames \in Inputs : \A n \in 0..Len(frames) :
    LET run == RunFrames(Build(config, seed), InitialState(config), SubSeq(frames, 1, n))
    IN  run.status = "Ok" => Restorable(run.state)

\* No run is so long that its ticks saturate.
InputsEndInTime == \A frames \in Inputs : Len(frames) <= MaxTick

(***************************************************************************)
(* What an engine records can be read.  A run of ticks that all succeed    *)
(* yields an artifact: the order of the checkpoints, the ticks and the     *)
(* snapshots the engine has written are those validate_record_sequence     *)
(* asks for, and every snapshot can be encoded (persistence/mod.rs:1286,   *)
(* engine/mod.rs:295).                                                     *)
(***************************************************************************)
RecordModeEmits ==
  report.call = "record" =>
    report.outcome.status \notin {"CorruptedArtifact", "SnapshotSerialization"}

(***************************************************************************)
(* A recorded replay repeats.  As long as nothing has changed it, it       *)
(* verifies under its configuration, and it resumes from each snapshot the *)
(* policy took, with the result of the recording: an engine that is built  *)
(* anew, or that has nothing but the snapshot, continues as the original   *)
(* did (persistence/mod.rs:995, 1063).                                     *)
(***************************************************************************)
RecordedReplaysRepeat ==
  \/ report.call = "verify"
  \/ report.call = "resume" /\ The(snapshot) \in SnapshotsAt(The(recorded))
  =>
    LET a        == The(recorded)
        original == RecordReplay(a.config_identity, a.base_seed, InputsOf(a.records))
    IN  artifact = recorded /\ report.config = a.config_identity => report.outcome = original

(***************************************************************************)
(* What verifies is genuine.  An artifact that verifies -- whatever        *)
(* storage has done to it -- is the one a recording of its inputs under    *)
(* the same configuration and seed yields, but for the snapshot policy it  *)
(* names, and the result is that recording's (persistence/mod.rs:1029).    *)
(***************************************************************************)
VerifiedReplaysAreGenuine ==
  report.call = "verify" /\ report.outcome.status = "Ok" =>
    LET a        == The(report.outcome.artifact)
        original == RecordReplay(report.config, a.base_seed, InputsOf(a.records))
    IN  [report.outcome EXCEPT
           !.artifact = Some([a EXCEPT !.snapshot_policy = report.config.snapshot_policy])] = original

(***************************************************************************)
(* A resumed replay is genuine as far as it goes.  The state it ends in is *)
(* the one an engine reaches from the snapshot by the inputs that follow   *)
(* it, all of them and each in its tick.  What precedes the snapshot is    *)
(* not run, so it is not vouched for; if it is genuine as well, the result *)
(* is that of verifying the whole replay (persistence/mod.rs:1131).        *)
(***************************************************************************)
ResumedReplaysAreGenuine ==
  report.call = "resume" /\ report.outcome.status = "Ok" =>
    LET a    == The(artifact)
        s    == The(snapshot)
        rest == SubSeq(a.records, s.payload.tick + 1, Len(a.records))
        run  == RunFrames(Build(report.config, a.base_seed), s.payload, InputsOf(rest))
        full == VerifyReplay(report.config, a)
    IN  /\ run.status = "Ok"
        /\ run.records = rest
        /\ report.outcome.checksum = Some(run.state)
        /\ report.outcome.tick = Len(a.records)
        /\ full.status = "Ok" => report.outcome = full
=============================================================================
