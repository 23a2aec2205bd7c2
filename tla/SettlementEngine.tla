-------------------------- MODULE SettlementEngine --------------------------
(***************************************************************************)
(* The engine that build_settlement_engine_internal of                     *)
(* rust/src/api/settlement.rs builds: DeterministicEngine with the phases, *)
(* the validator and the snapshots of the settlement domain.               *)
(***************************************************************************)
EXTENDS Settlement, PhaseOrder

CONSTANTS
  Commands,            \* the commands the host sends
  SnapshotPolicies,
  ValidationPolicies,
  Imported,            \* snapshots that were not taken by this model's engines
  MaxRecords           \* model bound: records one engine's replay log can hold

ASSUME CommandsAssumption == Commands \subseteq SettlementCommand

\* As long as no total has reached i64::MAX, what is in store is what there was
\* at the start, plus everything produced, minus everything consumed.
Conserved(d) ==
  \A r \in Resource :
    Config.initial[r] + d.cumulative_production[r] < MaxI64 =>
      d.inventory[r] = Config.initial[r] + d.cumulative_production[r] - d.cumulative_consumption[r]

\* Each unit required since tick 0 is in the books once, as consumed or as shortage.
Booked(s) ==
  LET d        == s.data
      required == Required(d.population)
  IN  /\ \A r \in Resource :
           /\ s.tick > 0 => d.last_consumption[r] + d.last_shortage[r] = required[r]
           /\ d.cumulative_consumption[r] < MaxI64 /\ d.cumulative_shortage[r] < MaxI64 =>
                d.cumulative_consumption[r] + d.cumulative_shortage[r] = s.tick * required[r]
      /\ d.shortage_ticks <= s.tick
      /\ d.shortage_ticks = 0 <=> \A r \in Resource : d.cumulative_shortage[r] = 0
      /\ d.last_status # {} => d.shortage_ticks > 0

\* They have the fields' types, and the books of a settlement of this configuration.
ASSUME ImportedAssumption ==
  \A s \in Imported :
    /\ s \in [tick : 0..MaxTick, data : SettlementData]
    /\ Conserved(s.data)
    /\ SettlementAccepts("BeforeTickBegin", s.tick + 1, s) => Booked(s)

VARIABLES plan, snapshot_policy, validation_policy, state, pending, records,
          pc, cursor, result, held, splices

\* The registrations of default_settlement_scheduler, in the source's order.
Registered ==
  [i \in 1..7 |-> [group |-> SettlementPhases[i][1], insertion_order |-> i - 1,
                   name |-> SettlementPhases[i][2]]]

ASSUME PlanAssumption == VisitOrder(Registered) = SettlementPlan

Engine == INSTANCE DeterministicEngine WITH
  Data        <- SettlementData,
  InitialData <- FromConfig,
  Names       <- {SettlementPhases[i][2] : i \in 1..7},
  Plans       <- {SettlementPlan},
  Run         <- RunSettlementPhase,
  Accepts     <- SettlementAccepts,
  Restorable  <- SettlementRestorable

Spec == Engine!Spec

TypeOK == Engine!TypeOK
-----------------------------------------------------------------------------
Wedged == Engine!Wedged

(***************************************************************************)
(* Nothing is lost or made up: the stock is what the totals say after      *)
(* every phase of every tick (settlement/mod.rs:563), in a failed engine   *)
(* and after a restore.                                                    *)
(***************************************************************************)
StockConserved == Conserved(state.data)

\* Between two calls, in a state from which the next tick may begin.
Resumable == pc = "idle" /\ SettlementAccepts("BeforeTickBegin", state.tick + 1, state)

(***************************************************************************)
(* Every demand is booked once.  In a state from which the next tick may   *)
(* begin, each unit that was required since tick 0 is booked as consumed   *)
(* or as shortage, the ticks with a shortage are counted, and none of the  *)
(* totals disagrees with the status of the last tick -- whatever ticks     *)
(* failed and whatever snapshots were restored before.                     *)
(***************************************************************************)
DemandBooked == Resumable => Booked(state)

(***************************************************************************)
(* The validator never stands in the way of a correct tick: an engine that *)
(* was not restored from a snapshot fails an invariant check only because  *)
(* a resource outgrew max_inventory, or at the last tick of the clock.     *)
(***************************************************************************)
OnlyFullStoresAreRefused ==
  Wedged /\ result = "InvariantViolation" /\ splices = {} =>
    \/ \E r \in Resource : state.data.inventory[r] > Config.max_inventory
    \/ state.tick = MaxTick

(***************************************************************************)
(* Whatever the host can see between two calls can be restored: the        *)
(* snapshot of an idle engine, a failed one included, never makes          *)
(* restore_snapshot panic (settlement/mod.rs:725), although a failed tick  *)
(* stops between two phases with the state half updated.                   *)
(***************************************************************************)
VisibleStateIsRestorable == pc = "idle" => SettlementRestorable(state)

(***************************************************************************)
(* A half executed tick cannot be resumed from.  What a failed engine      *)
(* holds is either its last committed state or a state that every engine   *)
(* refuses at the next BeforeTickBegin (settlement/mod.rs:1003), so a      *)
(* snapshot of it cannot be mistaken for that of a completed tick.         *)
(***************************************************************************)
HalfTickIsRefused ==
  Wedged /\ Len(records) \notin splices =>
    \/ state = Engine!Committed(Len(records))
    \/ ~SettlementAccepts("BeforeTickBegin", Engine!TickSucc(state.tick), state)
=============================================================================
