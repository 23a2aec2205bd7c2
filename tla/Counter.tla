------------------------------- MODULE Counter -------------------------------
(***************************************************************************)
(* The counter domain: CounterState of rust/src/state/mod.rs, and the      *)
(* phases and CounterStateValidator of rust/src/api/mod.rs, as operators   *)
(* on a state [tick, data].                                                *)
(*                                                                         *)
(* The entity map and the vector with its order are one sequence.  The     *)
(* finalize marker, a hash of the tick and of the state without its        *)
(* marker, is modelled by what it hashes; 0 is None.                       *)
(***************************************************************************)
EXTENDS Integers, Sequences

CONSTANTS
  MaxU64,        \* u64::MAX
  MaxI64,        \* i64::MAX
  MaxByte,       \* 0xff, what the source masks entropy with
  EntropyAt(_),  \* tick -> the first number of rng_for("apply_counter_input")
  Config         \* the CounterSimulationConfig, without its two policies

I64 == -(MaxI64 + 1)..MaxI64

None      == <<>>
Some(x)   == <<x>>
Option(S) == {o \in Seq(S) : Len(o) <= 1}

\* saturating_add of i64, wrapping_add of u64, and the mask.
SatAdd(m, n) ==
  IF m + n > MaxI64 THEN MaxI64 ELSE IF m + n < -(MaxI64 + 1) THEN -(MaxI64 + 1) ELSE m + n
WrapAdd(m, n) == (m + n) % (MaxU64 + 1)
Masked(n)     == n % (MaxByte + 1)

Abs(n) == IF n < 0 THEN -n ELSE n

CounterEntityInit == [value : I64, velocity : I64]

\* CounterSimulationConfig::validate.
ValidConfig(c) ==
  /\ {c.max_abs_value, c.max_abs_velocity, c.max_abs_pending_delta} \subseteq 0..MaxI64
  /\ [value |-> c.initial_value, velocity |-> c.initial_velocity] \in CounterEntityInit
  /\ c.initial_entities \in Seq(CounterEntityInit)
  /\ \A e \in {[value |-> c.initial_value, velocity |-> c.initial_velocity]}
                \cup {c.initial_entities[i] : i \in 1..Len(c.initial_entities)} :
       Abs(e.value) <= c.max_abs_value /\ Abs(e.velocity) <= c.max_abs_velocity

ASSUME WidthAssumption ==
  /\ MaxU64 \in Nat /\ MaxI64 \in Nat /\ MaxByte \in Nat \ {0}
  /\ (MaxU64 + 1) % (MaxByte + 1) = 0
  /\ \A t \in 0..MaxU64 : EntropyAt(t) \in 0..MaxU64

ASSUME ConfigAssumption == ValidConfig(Config)

\* A vector cannot hold so many entities that their ids wrap around.
ASSUME EntitiesAssumption == Len(Config.initial_entities) + 2 <= MaxU64

-----------------------------------------------------------------------------
CounterEntitySnapshot == [id : 0..MaxU64, value : I64, velocity : I64]

\* Everything in the state but its tick, with the markers in M.
DataWith(M) ==
  [next_entity_id  : 0..MaxU64,
   primary_entity  : 0..MaxU64,
   entities        : Seq(CounterEntitySnapshot),
   pending_delta   : I64,
   pending_entropy : 0..MaxU64,
   entropy_budget  : 0..MaxU64,
   finalize_marker : M]

Marker == [tick : 0..MaxU64, state_tick : 0..MaxU64, data : DataWith({None})]

CounterData == DataWith(Option(Marker))

CounterCommand == [delta : I64, consume_entropy : BOOLEAN]

\* with_initial_entities: the primary entity is 1, the others follow it.
FromConfig ==
  LET all == <<[value |-> Config.initial_value, velocity |-> Config.initial_velocity]>>
               \o Config.initial_entities
  IN  [next_entity_id  |-> WrapAdd(Len(all), 1),
       primary_entity  |-> 1,
       entities        |-> [i \in 1..Len(all) |->
                              [id |-> i, value |-> all[i].value, velocity |-> all[i].velocity]],
       pending_delta   |-> 0,
       pending_entropy |-> 0,
       entropy_budget  |-> 0,
       finalize_marker |-> None]

Ids(d) == {d.entities[i].id : i \in 1..Len(d.entities)}

\* primary_entity_ref.
Primary(d) == d.entities[CHOOSE i \in 1..Len(d.entities) : d.entities[i].id = d.primary_entity]

-----------------------------------------------------------------------------
(***************************************************************************)
(* The phases.                                                             *)
(***************************************************************************)
\* A mutant of ResetFinalizeMarker: the marker of the previous tick stays.
KeepFinalizeMarker(d) == d

ResetFinalizeMarker(d) == [d EXCEPT !.finalize_marker = None]

StageInput(d, delta, entropy) ==
  [d EXCEPT !.pending_delta = SatAdd(@, delta), !.pending_entropy = WrapAdd(@, entropy)]

Simulate(d) ==
  LET Moved(e) ==
        LET velocity == SatAdd(e.velocity, d.pending_delta)
        IN  [e EXCEPT !.velocity = velocity,
                      !.value = SatAdd(SatAdd(@, velocity), Masked(d.pending_entropy))]
  IN  [d EXCEPT !.entities = [i \in DOMAIN @ |->
         IF @[i].id = d.primary_entity THEN Moved(@[i]) ELSE @[i]]]

\* A mutant of Settle: the budget does not wrap.
SettlePastMax(d) ==
  [d EXCEPT !.entropy_budget = @ + d.pending_entropy, !.pending_delta = 0, !.pending_entropy = 0]

Settle(d) ==
  [d EXCEPT !.entropy_budget = WrapAdd(@, d.pending_entropy),
            !.pending_delta = 0,
            !.pending_entropy = 0]

\* mix64(tick_seed ^ checksum ^ tick), and preview_finalize_marker.
MarkerOf(t, s) == [tick |-> t, state_tick |-> s.tick, data |-> s.data]
PreviewFinalizeMarker(t, s) == MarkerOf(t, [s EXCEPT !.data = [@ EXCEPT !.finalize_marker = None]])

Finalize(t, s) == [s.data EXCEPT !.finalize_marker = Some(MarkerOf(t, s))]

\* default_counter_scheduler, in the order in which its phases run.
CounterPhases ==
  <<<<"PreInput",       "reset_finalize_marker">>,
    <<"Input",          "apply_counter_input">>,
    <<"Simulation",     "simulate_counter">>,
    <<"PostSimulation", "settle_counter">>,
    <<"Finalize",       "finalize_counter">>>>

CounterPlan ==
  [i \in 1..5 |-> [ordinal |-> i - 1, group |-> CounterPhases[i][1], name |-> CounterPhases[i][2]]]

\* Phase::run of each of them; none of them fails.
RunCounterPhase(name, t, s, c) ==
  LET d == s.data
  IN  {[ok |-> TRUE,
        data |-> CASE name = "reset_finalize_marker" -> ResetFinalizeMarker(d)
                   [] name = "apply_counter_input"   ->
                        StageInput(d, c.delta, IF c.consume_entropy THEN Masked(EntropyAt(t)) ELSE 0)
                   [] name = "simulate_counter"      -> Simulate(d)
                   [] name = "settle_counter"        -> Settle(d)
                   [] name = "finalize_counter"      -> Finalize(t, s)]}

-----------------------------------------------------------------------------
(***************************************************************************)
(* CounterStateValidator and CounterSnapshot::validate.                    *)
(***************************************************************************)
\* A mutant of WithinLimits: no absolute values.
WithinUpperLimits(d) ==
  /\ Primary(d).value <= Config.max_abs_value
  /\ Primary(d).velocity <= Config.max_abs_velocity
  /\ d.pending_delta <= Config.max_abs_pending_delta

\* expect_limits, which looks at the primary entity only.
WithinLimits(d) ==
  /\ Abs(Primary(d).value) <= Config.max_abs_value
  /\ Abs(Primary(d).velocity) <= Config.max_abs_velocity
  /\ Abs(d.pending_delta) <= Config.max_abs_pending_delta

\* expect_entity_store.
EntityStoreValid(d) ==
  /\ d.entities # <<>>
  /\ d.entities[1].id = d.primary_entity
  /\ \A id \in Ids(d) : id < d.next_entity_id

PendingCleared(d) == d.pending_delta = 0 /\ d.pending_entropy = 0

PreviousMarker(s) == (s.tick = 0) <=> (s.data.finalize_marker = None)

\* What each checkpoint asks for on top of what all of them do.
CheckpointValid(checkpoint, t, s) ==
  LET d == s.data
  IN  CASE checkpoint = "BeforeTickBegin"      -> PendingCleared(d) /\ PreviousMarker(s)
        [] checkpoint = "AfterInputApplied"    -> d.finalize_marker = None
        [] checkpoint = "AfterSimulationGroup" -> d.finalize_marker = None
        [] checkpoint = "AfterFinalize"        ->
             PendingCleared(d) /\ d.finalize_marker = Some(PreviewFinalizeMarker(t, s))

\* A mutant of CounterAccepts: the limits are left to the end of the tick.
AcceptsAnyStart(checkpoint, t, s) ==
  /\ s.tick = IF t > 0 THEN t - 1 ELSE 0
  /\ checkpoint # "BeforeTickBegin" => WithinLimits(s.data)
  /\ EntityStoreValid(s.data)
  /\ CheckpointValid(checkpoint, t, s)

CounterAccepts(checkpoint, t, s) ==
  /\ s.tick = IF t > 0 THEN t - 1 ELSE 0
  /\ WithinLimits(s.data)
  /\ EntityStoreValid(s.data)
  /\ CheckpointValid(checkpoint, t, s)

CounterRestorable(s) ==
  EntityStoreValid(s.data) /\ \A i, j \in 1..Len(s.data.entities) :
                                s.data.entities[i].id = s.data.entities[j].id => i = j
=============================================================================
