----------------------------- MODULE Settlement -----------------------------
(***************************************************************************)
(* The settlement domain of rust/src/settlement/mod.rs: what its phases do *)
(* to the state, what its validator accepts and which snapshots can be     *)
(* restored, as operators on a state [tick, data].                         *)
(*                                                                         *)
(* Every quantity the source keeps per resource is a function on Resource. *)
(* The finalize marker, a hash of the tick and of the state without its    *)
(* marker, is modelled by what it hashes; 0 is None.  Integers are clamped *)
(* where the source saturates.                                             *)
(***************************************************************************)
EXTENDS Integers, Sequences

CONSTANTS
  MaxTick,   \* u64::MAX
  MaxI64,    \* i64::MAX
  MaxU32,    \* u32::MAX
  Config     \* the SettlementSimulationConfig, without its two policies

Resource == {"Food", "Wood"}
I64      == -(MaxI64 + 1)..MaxI64

None      == <<>>
Some(x)   == <<x>>
Option(S) == {o \in Seq(S) : Len(o) <= 1}

Clamp(n, max) == IF n > max THEN max ELSE IF n < -(max + 1) THEN -(max + 1) ELSE n

\* A mutant of SatAdd: it does not saturate.
PlainAdd(m, n) == m + n

\* saturating_add, saturating_sub and saturating_mul of i64.
SatAdd(m, n) == Clamp(m + n, MaxI64)
SatSub(m, n) == Clamp(m - n, MaxI64)
SatMul(m, n) == Clamp(m * n, MaxI64)

-----------------------------------------------------------------------------
WorkerAllocation == [farmers : 0..MaxU32, loggers : 0..MaxU32]

NoWorkers == [farmers |-> 0, loggers |-> 0]

\* total_assigned, a saturating_add of two u32.
TotalAssigned(a) == Clamp(a.farmers + a.loggers, MaxU32)

\* validate_against.
Fits(a, population) == TotalAssigned(a) <= population

Workers(a) == [Food |-> a.farmers, Wood |-> a.loggers]

\* from_shortages: the status is the set of the resources that ran short.
StatusOf(shortage) == {r \in Resource : shortage[r] > 0}

ValidConfig(c) ==
  /\ c.population \in 1..MaxU32
  /\ c.initial_allocation \in WorkerAllocation
  /\ Fits(c.initial_allocation, c.population)
  /\ c.max_inventory \in 0..MaxI64
  /\ c.initial \in [Resource -> 0..c.max_inventory]
  /\ c.yield \in [Resource -> 0..MaxI64]
  /\ c.food_consumption_per_worker \in 0..MaxI64
  /\ c.wood_consumption_per_tick \in 0..MaxI64

ASSUME WidthAssumption == MaxTick \in Nat /\ MaxI64 \in Nat /\ MaxU32 \in Nat

\* from_config refuses to build a state from any other configuration.
ASSUME ConfigAssumption == ValidConfig(Config)

-----------------------------------------------------------------------------
\* Everything in the state but its tick, with the markers in M.
DataWith(M) ==
  [population                 : 0..MaxU32,
   current_allocation         : WorkerAllocation,
   pending_allocation_present : BOOLEAN,
   pending_allocation         : WorkerAllocation,
   inventory                  : [Resource -> I64],
   last_production            : [Resource -> I64],
   last_consumption           : [Resource -> I64],
   last_shortage              : [Resource -> I64],
   cumulative_production      : [Resource -> I64],
   cumulative_consumption     : [Resource -> I64],
   cumulative_shortage        : [Resource -> I64],
   shortage_ticks             : 0..MaxTick,
   last_status                : SUBSET Resource,
   finalize_marker            : M]

Marker == [tick : 0..MaxTick, state_tick : 0..MaxTick, data : DataWith({None})]

SettlementData == DataWith(Option(Marker))

SettlementCommand ==
  {[kind |-> "Hold", allocation |-> NoWorkers]}
    \cup [kind : {"SetWorkerAllocation"}, allocation : WorkerAllocation]

Zero == [r \in Resource |-> 0]

\* SettlementState::from_config.
FromConfig ==
  [population                 |-> Config.population,
   current_allocation         |-> Config.initial_allocation,
   pending_allocation_present |-> FALSE,
   pending_allocation         |-> NoWorkers,
   inventory                  |-> Config.initial,
   last_production            |-> Zero,
   last_consumption           |-> Zero,
   last_shortage              |-> Zero,
   cumulative_production      |-> Zero,
   cumulative_consumption     |-> Zero,
   cumulative_shortage        |-> Zero,
   shortage_ticks             |-> 0,
   last_status                |-> {},
   finalize_marker            |-> None]

-----------------------------------------------------------------------------
(***************************************************************************)
(* The phases.                                                             *)
(***************************************************************************)
\* A mutant of ResetFinalizeMarker: the marker of the previous tick stays.
KeepFinalizeMarker(d) == d

ResetFinalizeMarker(d) == [d EXCEPT !.finalize_marker = None]

StageAllocation(d, a) ==
  [d EXCEPT !.pending_allocation = a, !.pending_allocation_present = TRUE]

ApplyPendingAllocation(d) ==
  IF ~d.pending_allocation_present THEN d
  ELSE [d EXCEPT !.current_allocation = d.pending_allocation,
                 !.pending_allocation_present = FALSE,
                 !.pending_allocation = NoWorkers]

\* A mutant of Produce: what is produced is not added to the totals.
ProduceUncounted(d) ==
  LET produced == [r \in Resource |-> SatMul(Workers(d.current_allocation)[r], Config.yield[r])]
  IN  [d EXCEPT !.last_production = produced,
                !.inventory = [r \in Resource |-> SatAdd(@[r], produced[r])]]

Produce(d) ==
  LET produced == [r \in Resource |-> SatMul(Workers(d.current_allocation)[r], Config.yield[r])]
  IN  [d EXCEPT
        !.last_production = produced,
        !.inventory = [r \in Resource |-> SatAdd(@[r], produced[r])],
        !.cumulative_production = [r \in Resource |-> SatAdd(@[r], produced[r])]]

\* What a tick takes out of the inventory, if it is there.
Required(population) ==
  [Food |-> SatMul(population, Config.food_consumption_per_worker),
   Wood |-> Config.wood_consumption_per_tick]

Consume(d) ==
  LET required == Required(d.population)
      actual   == [r \in Resource |->
                     IF d.inventory[r] < required[r] THEN d.inventory[r] ELSE required[r]]
      shortage == [r \in Resource |-> SatSub(required[r], actual[r])]
  IN  [d EXCEPT
        !.inventory = [r \in Resource |-> SatSub(@[r], actual[r])],
        !.last_shortage = shortage,
        !.last_consumption = actual,
        !.cumulative_consumption = [r \in Resource |-> SatAdd(@[r], actual[r])],
        !.cumulative_shortage = [r \in Resource |-> SatAdd(@[r], shortage[r])]]

\* A mutant of ResolveShortage: only hungry ticks are counted.
ResolveFoodShortage(d) ==
  LET status == StatusOf(d.last_shortage)
  IN  [d EXCEPT !.last_status = status,
                !.shortage_ticks = IF "Food" \in status /\ @ < MaxTick THEN @ + 1 ELSE @]

ResolveShortage(d) ==
  LET status == StatusOf(d.last_shortage)
  IN  [d EXCEPT !.last_status = status,
                !.shortage_ticks = IF status # {} /\ @ < MaxTick THEN @ + 1 ELSE @]

\* mix64(tick_seed ^ checksum ^ tick), and preview_finalize_marker.
MarkerOf(t, s) == [tick |-> t, state_tick |-> s.tick, data |-> s.data]
PreviewFinalizeMarker(t, s) == MarkerOf(t, [s EXCEPT !.data = [@ EXCEPT !.finalize_marker = None]])

Finalize(t, s) == [s.data EXCEPT !.finalize_marker = Some(MarkerOf(t, s))]

Done(d)   == [ok |-> TRUE, data |-> d]
Failed(d) == [ok |-> FALSE, data |-> d]

StageCommand(d, c) ==
  IF c.kind = "Hold" THEN Done(d)
  ELSE IF Fits(c.allocation, d.population) THEN Done(StageAllocation(d, c.allocation))
  ELSE Failed(d)

\* default_settlement_scheduler, in the order in which its phases run.
SettlementPhases ==
  <<<<"PreInput",   "reset_settlement_finalize_marker">>,
    <<"Input",      "stage_settlement_command">>,
    <<"Simulation", "apply_settlement_allocation">>,
    <<"Simulation", "settlement_production">>,
    <<"Simulation", "settlement_consumption">>,
    <<"Simulation", "resolve_settlement_status">>,
    <<"Finalize",   "finalize_settlement">>>>

SettlementPlan ==
  [i \in 1..7 |-> [ordinal |-> i - 1, group |-> SettlementPhases[i][1],
                   name |-> SettlementPhases[i][2]]]

\* Phase::run of each of them, each with one outcome.
RunSettlementPhase(name, t, s, c) ==
  LET d == s.data
  IN  {CASE name = "reset_settlement_finalize_marker" -> Done(ResetFinalizeMarker(d))
         [] name = "stage_settlement_command"         -> StageCommand(d, c)
         [] name = "apply_settlement_allocation"      -> Done(ApplyPendingAllocation(d))
         [] name = "settlement_production"            -> Done(Produce(d))
         [] name = "settlement_consumption"           -> Done(Consume(d))
         [] name = "resolve_settlement_status"        -> Done(ResolveShortage(d))
         [] name = "finalize_settlement"              -> Done(Finalize(t, s))}

-----------------------------------------------------------------------------
(***************************************************************************)
(* SettlementStateValidator and SettlementSnapshot::validate.              *)
(***************************************************************************)
AllocationValid(d) ==
  /\ Fits(d.current_allocation, d.population)
  /\ IF d.pending_allocation_present THEN Fits(d.pending_allocation, d.population)
     ELSE d.pending_allocation = NoWorkers

InventoryWithinLimits(d) == \A r \in Resource : d.inventory[r] \in 0..Config.max_inventory

NonNegativeMetrics(d) ==
  \A r \in Resource :
    /\ d.last_production[r] >= 0 /\ d.cumulative_production[r] >= 0
    /\ d.last_consumption[r] >= 0 /\ d.cumulative_consumption[r] >= 0
    /\ d.last_shortage[r] >= 0 /\ d.cumulative_shortage[r] >= 0

ShortageConsistent(d) ==
  /\ d.last_status = StatusOf(d.last_shortage)
  /\ \A r \in Resource : d.last_shortage[r] > 0 => d.inventory[r] = 0

PendingCleared(d) == ~d.pending_allocation_present /\ d.pending_allocation = NoWorkers

\* A mutant of PreviousMarker: a completed tick needs no marker.
FirstMarkerOnly(s) == s.tick = 0 => s.data.finalize_marker = None

PreviousMarker(s) == (s.tick = 0) <=> (s.data.finalize_marker = None)

SettlementAccepts(checkpoint, t, s) ==
  LET d == s.data
  IN  /\ s.tick = IF t > 0 THEN t - 1 ELSE 0
      /\ AllocationValid(d)
      /\ InventoryWithinLimits(d)
      /\ NonNegativeMetrics(d)
      /\ ShortageConsistent(d)
      /\ CASE checkpoint = "BeforeTickBegin"      -> PendingCleared(d) /\ PreviousMarker(s)
           [] checkpoint = "AfterInputApplied"    -> d.finalize_marker = None
           [] checkpoint = "AfterSimulationGroup" -> d.finalize_marker = None /\ PendingCleared(d)
           [] checkpoint = "AfterFinalize"        ->
                PendingCleared(d) /\ d.finalize_marker = Some(PreviewFinalizeMarker(t, s))

SettlementRestorable(s) ==
  LET d == s.data
  IN  /\ Fits(d.current_allocation, d.population)
      /\ Fits(d.pending_allocation, d.population)
      /\ d.pending_allocation_present \/ d.pending_allocation = NoWorkers
      /\ \A r \in Resource : d.inventory[r] >= 0
      /\ NonNegativeMetrics(d)
      /\ ShortageConsistent(d)
=============================================================================
