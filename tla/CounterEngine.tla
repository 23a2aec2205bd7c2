---------------------------- MODULE CounterEngine ----------------------------
(***************************************************************************)
(* The engine that build_counter_engine_internal of rust/src/api/mod.rs    *)
(* builds: DeterministicEngine with the phases, the validator and the      *)
(* snapshots of the counter domain.                                        *)
(***************************************************************************)
EXTENDS Counter, PhaseOrder

CONSTANTS
  Commands,            \* the commands the host sends
  SnapshotPolicies,
  ValidationPolicies,
  Imported,            \* snapshots that were not taken by this model's engines
  MaxRecords           \* model bound: records one engine's replay log can hold

ASSUME CommandsAssumption == Commands \subseteq CounterCommand

ASSUME BoundAssumption == MaxRecords \in Nat

ASSUME PolicyAssumption ==
  /\ SnapshotPolicies \subseteq [kind : {"Never", "Manual", "Every"}, interval : Nat]
  /\ ValidationPolicies \subseteq {"TickBoundary", "EveryPhase"}

\* They have the fields' types.
ASSUME ImportedAssumption == Imported \subseteq [tick : 0..MaxU64, data : CounterData]

VARIABLES plan, snapshot_policy, validation_policy, state, pending, records,
          pc, cursor, result, held, splices

\* The registrations of default_counter_scheduler, in the source's order.
Registered ==
  [i \in 1..5 |-> [group |-> CounterPhases[i][1], insertion_order |-> i - 1,
                   name |-> CounterPhases[i][2]]]

ASSUME PlanAssumption == VisitOrder(Registered) = CounterPlan

\* A phase of this domain has one outcome.
CounterStep(name, ctx, s) == CHOOSE o \in RunCounterPhase(name, ctx.tick, s, ctx.command) : TRUE

Engine == INSTANCE AtomicEngine WITH
  MaxTick     <- MaxU64,
  Data        <- CounterData,
  InitialData <- FromConfig,
  Names       <- {CounterPhases[i][2] : i \in 1..5},
  Plans       <- {CounterPlan},
  Run         <- RunCounterPhase,
  Accepts     <- CounterAccepts,
  Restorable  <- CounterRestorable,
  Step        <- CounterStep

Spec == Engine!Spec

TypeOK == Engine!TypeOK
-----------------------------------------------------------------------------
Wedged == Engine!Wedged

(***************************************************************************)
(* A tick of the counter is a function of the committed state, the seed    *)
(* and the command: neither the host's calls in between nor earlier        *)
(* engines nor refused calls leave anything that a record, its digests or  *)
(* a half executed state depends on.  Replay verification rests on it      *)
(* (persistence/mod.rs:1025).                                              *)
(***************************************************************************)
TickIsAFunction == Engine!TickIsAFunction

(***************************************************************************)
(* Saturation is never committed.  The phases saturate (state/mod.rs:251), *)
(* but with limits that leave room for one more tick every committed tick  *)
(* adds up exactly: velocity by the delta of its command, value by the new *)
(* velocity and the entropy drawn, and the other entities stay where they  *)
(* are.  A value driven past either end is refused by the validator before *)
(* the tick is committed, under both policies.                             *)
(***************************************************************************)
CommittedTicksAddUp ==
  Config.max_abs_velocity < MaxI64 /\ Config.max_abs_value + MaxByte <= MaxI64 =>
    \A i \in 1..Len(records) : i - 1 \notin splices =>
      LET before  == Engine!Committed(i - 1).data
          after   == records[i].checksum.data
          c       == records[i].command
          entropy == IF c.consume_entropy THEN Masked(EntropyAt(records[i].tick)) ELSE 0
      IN  /\ Primary(after).velocity = Primary(before).velocity + c.delta
          /\ Primary(after).value = Primary(before).value + Primary(after).velocity + entropy
          /\ after.entropy_budget = WrapAdd(before.entropy_budget, entropy)
          /\ Tail(after.entities) = Tail(before.entities)

(***************************************************************************)
(* The validator never stands in the way of a correct tick: an engine that *)
(* was not restored from a snapshot fails an invariant check only because  *)
(* a limit of the configuration is exceeded, or at the last tick of the    *)
(* clock.                                                                  *)
(***************************************************************************)
OnlyLimitsAreRefused ==
  Wedged /\ result = "InvariantViolation" /\ splices = {} =>
    ~WithinLimits(state.data) \/ state.tick = MaxU64

(***************************************************************************)
(* Under EveryPhase no command is committed whose delta exceeds            *)
(* max_abs_pending_delta.  The limit is looked at while the delta is       *)
(* pending, between Input and PostSimulation, so it depends on the         *)
(* checkpoint in between (engine/mod.rs:286).                              *)
(***************************************************************************)
StagedDeltaWithinLimit ==
  validation_policy = "EveryPhase" =>
    \A i \in 1..Len(records) : Abs(records[i].command.delta) <= Config.max_abs_pending_delta

(***************************************************************************)
(* A half executed tick cannot be resumed from.  What a failed engine      *)
(* holds is either its last committed state or a state that every engine   *)
(* refuses at the next BeforeTickBegin.  A tick that fails after Finalize  *)
(* has a marker and nothing pending, like a completed one: only the limits *)
(* that failed it, looked at again (api/mod.rs:274), give it away.         *)
(***************************************************************************)
HalfTickIsRefused ==
  Wedged /\ Len(records) \notin splices =>
    \/ state = Engine!Committed(Len(records))
    \/ ~CounterAccepts("BeforeTickBegin", Engine!TickSucc(state.tick), state)
=============================================================================
