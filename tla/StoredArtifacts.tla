-------------------------- MODULE StoredArtifacts ---------------------------
(***************************************************************************)
(* What a host can have in its hands besides what it has just made: the    *)
(* snapshots of a replay, and artifacts of which storage has changed one   *)
(* field.                                                                  *)
(***************************************************************************)
EXTENDS Artifacts

CONSTANTS
  Configs,         \* [initial_data, snapshot_policy, validation_policy]
  Seeds,
  Commands,
  Data,            \* the values a stored state can have
  Inputs,          \* the sequences of frames a host runs
  MaxFaults        \* model bound: how many parts are not what the host made

ASSUME FaultsAssumption == MaxFaults \in Nat

ASSUME InputsAssumption == Inputs \subseteq Seq([tick : 0..MaxTick, command : Commands])

\* The snapshot artifacts counter_snapshot_artifact_at_tick makes of a replay.
SnapshotsAt(a) ==
  {SnapshotArtifact(a.base_seed, a.config_identity, s) : s \in SnapshotsOf(a.records)}

OtherStates(s) == {[s EXCEPT !.data = d] : d \in Data} \cup {[s EXCEPT !.tick = @ + 1]}

SnapshotChanged(s) ==
  {[s EXCEPT !.reason = Manual],
   [s EXCEPT !.metadata = [@ EXCEPT !.source_tick = @ + 1]]}
  \cup {[s EXCEPT !.metadata = [@ EXCEPT !.capture_checksum = x]] : x \in OtherStates(s.payload)}
  \cup {[s EXCEPT !.payload = x] : x \in OtherStates(s.payload)}

RecordChanged(r) ==
  {[r EXCEPT !.tick = @ + 1],
   [r EXCEPT !.input = [@ EXCEPT !.tick = @ + 1]],
   [r EXCEPT !.tick_seed = TickSeed(0, r.tick)],
   [r EXCEPT !.phase_markers = Tail(@)],
   [r EXCEPT !.validation_summaries = Tail(@)],
   [r EXCEPT !.validation_summaries = [@ EXCEPT ![1] = [@ EXCEPT !.state_tick = @ + 1]]],
   [r EXCEPT !.snapshot = None]}
  \cup {[r EXCEPT !.input = [@ EXCEPT !.command = c]] : c \in Commands}
  \cup {[r EXCEPT !.validation_summaries = [@ EXCEPT ![1] = [@ EXCEPT !.state_digest = d]]] : d \in Data}
  \cup {[r EXCEPT !.checksum = x] : x \in OtherStates(r.checksum)}
  \cup (IF r.snapshot = None THEN {} ELSE {[r EXCEPT !.snapshot = Some(s)] : s \in SnapshotChanged(The(r.snapshot))})

ArtifactChanged(a) ==
  {[a EXCEPT !.format = "other"], [a EXCEPT !.total_ticks = @ + 1], [a EXCEPT !.record_count = @ + 1]}
  \cup {[a EXCEPT !.base_seed = x] : x \in Seeds}
  \cup {[a EXCEPT !.config_identity = c] : c \in Configs}
  \cup {[a EXCEPT !.snapshot_policy = c.snapshot_policy] : c \in Configs}
  \cup UNION {{[a EXCEPT !.records = [@ EXCEPT ![i] = r]] : r \in RecordChanged(a.records[i])} : i \in 1..Len(a.records)}

SnapshotArtifactChanged(s) ==
  {[s EXCEPT !.format = "other"], [s EXCEPT !.capture_reason = Manual],
   [s EXCEPT !.metadata = [@ EXCEPT !.source_tick = @ + 1]]}
  \cup {[s EXCEPT !.base_seed = x] : x \in Seeds}
  \cup {[s EXCEPT !.config_identity = c] : c \in Configs}
  \cup {[s EXCEPT !.metadata = [@ EXCEPT !.capture_checksum = x]] : x \in OtherStates(s.payload)}
  \cup {[s EXCEPT !.payload = x] : x \in OtherStates(s.payload)}
=============================================================================
