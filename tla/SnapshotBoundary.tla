-------------------------- MODULE SnapshotBoundary --------------------------
(***************************************************************************)
(* What the C++ engine checks of a snapshot before it restores it          *)
(* (include/xenor/simulation_engine.hpp, include/xenor/snapshot_boundary.hpp *)
(* and src/simulation_clock.cpp).  A snapshot is a value                   *)
(* [tick, elapsed, seed, state]; a boundary is a snapshot whose state an   *)
(* adapter of the host has turned into a versioned payload.  A check       *)
(* yields the error it throws, or "Ok".                                    *)
(***************************************************************************)
EXTENDS Integers, Sequences

CONSTANTS
  Duration,            \* tick_duration, in nanoseconds
  MaxTime,             \* the largest duration, of 64 signed bits
  Seed,
  Data,                  \* what a state can hold apart from its tick
  Adapters,
  PayloadVersion(_),     \* adapter.payload_version()
  Supports(_, _),        \* adapter, version -> "yes", "no" or "throws"
  CapturePayload(_, _),  \* adapter, data -> an Option: the payload, unless it throws
  RestoreData(_, _, _)   \* adapter, payload, version -> an Option: the data, unless it throws

None    == <<>>
Some(x) == <<x>>
The(o)  == o[1]

\* An adapter may read the payloads of another one, of an earlier version say; what it
\* makes of them is then the data that was captured.
ASSUME AdapterAssumption ==
  \A a, b \in Adapters, d \in Data :
    LET captured == CapturePayload(a, d)
        restored == RestoreData(b, The(captured), PayloadVersion(a))
    IN  captured # None /\ Supports(b, PayloadVersion(a)) = "yes" => restored \in {None, Some(d)}

ASSUME DurationAssumption == Duration \in Nat \ {0} /\ MaxTime \in Nat

Check(condition, error) == IF condition THEN "Ok" ELSE error

\* The error of the first check that fails.
FirstError(checks) ==
  IF \A i \in 1..Len(checks) : checks[i] = "Ok" THEN "Ok"
  ELSE checks[CHOOSE i \in 1..Len(checks) : checks[i] # "Ok" /\ \A j \in 1..(i - 1) : checks[j] = "Ok"]

\* checked_duration_product does not throw.
Representable(tick) == tick <= MaxTime \div Duration

ElapsedAt(tick) == tick * Duration

CurrentEngineVersion == 1

-----------------------------------------------------------------------------
\* A mutant of SnapshotError: the tick of the state is not looked at.
SnapshotErrorWithoutState(s) ==
  FirstError(<<Check(Representable(s.tick), "overflow_error"),
               Check(s.elapsed = ElapsedAt(s.tick), "invalid_argument"),
               Check(s.seed = Seed, "invalid_argument")>>)

\* SimulationEngine::validate_snapshot.
SnapshotError(s) ==
  FirstError(<<Check(Representable(s.tick), "overflow_error"),
               Check(s.elapsed = ElapsedAt(s.tick), "invalid_argument"),
               Check(s.seed = Seed, "invalid_argument"),
               Check(s.state.last_completed_tick = s.tick, "invalid_argument")>>)

\* validate_snapshot_boundary_metadata, with the configuration of the engine.
MetadataError(m) ==
  FirstError(<<Check(m.engine_version = CurrentEngineVersion, "IncompatibleEngineVersion"),
               Check(m.state_last_completed_tick = m.tick, "InvalidStateMetadata"),
               Check(Representable(m.tick), "overflow_error"),
               Check(m.elapsed = ElapsedAt(m.tick), "IncompatibleElapsedDuration"),
               Check(m.seed = Seed, "IncompatibleSeed")>>)

\* validate_snapshot_boundary_payload_version and the adapter's restore.
AdapterError(adapter, b) ==
  FirstError(<<Check(Supports(adapter, b.payload_version) # "throws", "AdapterContractViolation"),
               Check(Supports(adapter, b.payload_version) = "yes", "UnsupportedPayloadVersion"),
               Check(RestoreData(adapter, b.payload, b.payload_version) # None, "AdapterRestoreFailure")>>)

\* The checks of restore_snapshot_boundary.
BoundaryError(adapter, b) ==
  IF MetadataError(b.metadata) # "Ok" THEN MetadataError(b.metadata) ELSE AdapterError(adapter, b)

\* restore_snapshot_from_boundary: the engine's tick overrides the one the adapter has set.
SnapshotOfBoundary(adapter, b) ==
  [tick |-> b.metadata.tick, elapsed |-> b.metadata.elapsed, seed |-> b.metadata.seed,
   state |-> [data |-> The(RestoreData(adapter, b.payload, b.payload_version)),
              last_completed_tick |-> b.metadata.state_last_completed_tick]]

\* make_snapshot_boundary_metadata.
MetadataOf(s) ==
  [engine_version |-> CurrentEngineVersion, tick |-> s.tick, elapsed |-> s.elapsed, seed |-> s.seed,
   state_last_completed_tick |-> s.state.last_completed_tick]

\* The checks of make_snapshot_boundary; what the adapter's capture throws is passed on.
CaptureError(adapter, s) ==
  FirstError(<<Check(s.state.last_completed_tick = s.tick, "InvalidStateMetadata"),
               Check(Supports(adapter, PayloadVersion(adapter)) = "yes", "AdapterContractViolation"),
               Check(CapturePayload(adapter, s.state.data) # None, "adapter threw")>>)

\* make_snapshot_boundary.
BoundaryOf(adapter, s) ==
  [metadata |-> MetadataOf(s), payload_version |-> PayloadVersion(adapter),
   payload |-> The(CapturePayload(adapter, s.state.data))]
=============================================================================
