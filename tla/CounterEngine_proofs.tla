------------------------ MODULE CounterEngine_proofs ------------------------
(***************************************************************************)
(* Proofs about CounterEngine, for every configuration, every width of the *)
(* integers, every sequence of random numbers and every policy.            *)
(***************************************************************************)
EXTENDS CounterEngine, NaturalSets_proofs

\* What is proved of every engine of this kind.
G == INSTANCE DeterministicEngine_proofs WITH
  MaxTick     <- MaxU64,
  Data        <- CounterData,
  InitialData <- FromConfig,
  Names       <- {CounterPhases[i][2] : i \in 1..5},
  Plans       <- {CounterPlan},
  Run         <- RunCounterPhase,
  Accepts     <- CounterAccepts,
  Restorable  <- CounterRestorable,
  Step        <- CounterStep

-----------------------------------------------------------------------------
(***************************************************************************)
(* Arithmetic.                                                             *)
(***************************************************************************)
LEMMA I64Type == I64 \subseteq Int /\ 0 \in I64
BY WidthAssumption DEF I64

LEMMA U64Type == 0..MaxU64 \subseteq Nat /\ 0..MaxByte \subseteq Nat /\ 0 \in 0..MaxU64
BY WidthAssumption

LEMMA SatAddRange ==
  ASSUME NEW m \in Int, NEW n \in Int
  PROVE  /\ SatAdd(m, n) \in I64
         /\ m + n \in I64 => SatAdd(m, n) = m + n
         /\ m + n > MaxI64 => SatAdd(m, n) = MaxI64
         /\ m + n < -(MaxI64 + 1) => SatAdd(m, n) = -(MaxI64 + 1)
BY WidthAssumption DEF SatAdd, I64

\* What is left of a division.
LEMMA Remainder ==
  ASSUME NEW m \in Nat, NEW n \in Nat
  PROVE  /\ m % (n + 1) \in 0..n
         /\ m % (n + 1) <= m
         /\ m <= n => m % (n + 1) = m
<1> DEFINE b == n + 1
           q == m \div b
           r == m % b
<1>1. b \in Nat /\ b > 0
  OBVIOUS
<1>2. q \in Int
  <2> HIDE DEF b
  <2> QED
    BY <1>1
<1>3. r \in 0..b - 1
  <2> HIDE DEF b
  <2> QED
    BY <1>1
<1>4. m = b * q + r
  <2> HIDE DEF b
  <2> QED
    BY <1>1
<1>5. q \in Int /\ r \in 0..n /\ m = (n + 1) * q + r
  BY <1>2, <1>3, <1>4
<1> HIDE DEF q, r, b
<1>6. q >= 0
  <2> SUFFICES ASSUME q <= -1
               PROVE  FALSE
    BY <1>5
  <2>1. (n + 1) * q <= -(n + 1)
    BY <1>5
  <2> QED
    BY <1>5, <2>1
<1>7. (n + 1) * q >= 0
  BY <1>5, <1>6
<1>8. m <= n => q = 0
  <2> SUFFICES ASSUME m <= n, q >= 1
               PROVE  FALSE
    BY <1>5, <1>6
  <2>1. (n + 1) * q >= n + 1
    BY <1>5
  <2> QED
    BY <1>5, <2>1
<1>9. m <= n => (n + 1) * q = 0
  BY <1>5, <1>8
<1> QED
  BY <1>5, <1>7, <1>9 DEF r, b

LEMMA MaskedRange ==
  ASSUME NEW n \in Nat
  PROVE  Masked(n) \in 0..MaxByte /\ Masked(n) <= n /\ (n <= MaxByte => Masked(n) = n)
BY Remainder, WidthAssumption DEF Masked

LEMMA WrapAddRange ==
  ASSUME NEW m \in Nat, NEW n \in Nat
  PROVE  WrapAdd(m, n) \in 0..MaxU64 /\ (m + n <= MaxU64 => WrapAdd(m, n) = m + n)
<1>1. m + n \in Nat
  OBVIOUS
<1> QED
  BY <1>1, Remainder, WidthAssumption DEF WrapAdd

\* The entropy a command adds in tick t, and what of it is in the state.
Entropy(t, c) == IF c.consume_entropy THEN Masked(EntropyAt(t)) ELSE 0

LEMMA EntropyRange ==
  ASSUME NEW t \in 0..MaxU64, NEW c
  PROVE  /\ Entropy(t, c) \in 0..MaxByte /\ Entropy(t, c) \in 0..MaxU64
         /\ WrapAdd(0, Entropy(t, c)) = Entropy(t, c)
         /\ Masked(Entropy(t, c)) = Entropy(t, c)
<1>1. EntropyAt(t) \in 0..MaxU64 /\ EntropyAt(t) \in Nat
  BY WidthAssumption
<1>2. Masked(EntropyAt(t)) \in 0..MaxByte /\ Masked(EntropyAt(t)) \in 0..MaxU64
  BY <1>1, MaskedRange, WidthAssumption
<1>3. Entropy(t, c) \in 0..MaxByte /\ Entropy(t, c) \in 0..MaxU64
  BY <1>2, WidthAssumption DEF Entropy
<1> QED
  BY <1>3, MaskedRange, WrapAddRange, WidthAssumption

-----------------------------------------------------------------------------
(***************************************************************************)
(* The engine of CounterEngine is the one the general proofs are about.    *)
(***************************************************************************)
LEMMA SameSnapshot == Engine!Snapshot = G!Snapshot /\ \A S : Engine!Option(S) = G!Option(S)
BY DEF Engine!Snapshot, G!Snapshot, Engine!Option, G!Option

LEMMA SameDescriptor == Engine!Descriptor = G!Descriptor
BY Zenon DEF Engine!Descriptor, G!Descriptor, Engine!PhaseGroup, G!PhaseGroup, Engine!AllGroups, G!AllGroups

LEMMA SameSummaryType == Engine!SummaryType = G!SummaryType
BY Zenon DEF Engine!SummaryType, G!SummaryType, Engine!Checkpoints, G!Checkpoints

LEMMA SamePendingType == Engine!PendingType = G!PendingType
BY SameDescriptor, SameSummaryType DEF Engine!PendingType, G!PendingType

LEMMA SameRecordType == Engine!RecordType = G!RecordType
BY SameDescriptor, SameSummaryType, SameSnapshot DEF Engine!RecordType, G!RecordType

LEMMA SameTypes == Engine!TypeOK <=> G!TypeOK
BY SameSnapshot, SamePendingType, SameRecordType DEF Engine!TypeOK, G!TypeOK, Engine!None, G!None

LEMMA SameTickSucc == \A t : Engine!TickSucc(t) = G!TickSucc(t)
BY DEF Engine!TickSucc, G!TickSucc

LEMMA SameCommitted == \A n : Engine!Committed(n) = G!Committed(n)
BY DEF Engine!Committed, G!Committed

LEMMA SameWedged == Engine!Wedged <=> G!Wedged
BY DEF Engine!Wedged, G!Wedged, Engine!None, G!None

LEMMA SameInit == Engine!Init <=> G!Init
BY DEF Engine!Init, G!Init, Engine!None, G!None

LEMMA SameVars == Engine!vars = G!vars
BY DEF Engine!vars, G!vars

LEMMA SameTickUnexpected == \A f : Engine!TickUnexpected(f) <=> G!TickUnexpected(f)
BY SameTickSucc DEF Engine!TickUnexpected, G!TickUnexpected, Engine!configuration, G!configuration

LEMMA SameTickWhilePending == \A f : Engine!TickWhilePending(f) <=> G!TickWhilePending(f)
BY SameTickSucc DEF Engine!TickWhilePending, G!TickWhilePending, Engine!configuration, G!configuration, Engine!None,
       G!None

LEMMA SameBeginTick == \A f : Engine!BeginTick(f) <=> G!BeginTick(f)
BY SameTickSucc DEF Engine!BeginTick, G!BeginTick, Engine!configuration, G!configuration, Engine!None, G!None,
       Engine!Some, G!Some, Engine!PendingRecord, G!PendingRecord

LEMMA SameDue == \A cs : Engine!Due(cs) = G!Due(cs)
BY DEF Engine!Due, G!Due, Engine!ShouldValidate, G!ShouldValidate

LEMMA SameWithSummaries == \A p, cs, s : Engine!WithSummaries(p, cs, s) = G!WithSummaries(p, cs, s)
BY DEF Engine!WithSummaries, G!WithSummaries, Engine!Summary, G!Summary

LEMMA SameCheckpointAfter == \A p, i : Engine!CheckpointAfter(p, i) = G!CheckpointAfter(p, i)
BY Zenon DEF Engine!CheckpointAfter, G!CheckpointAfter

LEMMA SameValidate == Engine!ValidateBeforeTick <=> G!ValidateBeforeTick
BY SameDue, SameWithSummaries DEF Engine!ValidateBeforeTick, G!ValidateBeforeTick, Engine!The, G!The, Engine!Some, G!Some,
       Engine!ReturnError, G!ReturnError, Engine!configuration, G!configuration

LEMMA SameRunPhase == Engine!RunPhase <=> G!RunPhase
BY SameDue, SameWithSummaries, SameCheckpointAfter DEF Engine!RunPhase, G!RunPhase, Engine!The, G!The, Engine!Some, G!Some, Engine!ReturnError,
       G!ReturnError, Engine!configuration, G!configuration

LEMMA SameCompleteTick == Engine!CompleteTick <=> G!CompleteTick
BY DEF Engine!CompleteTick, G!CompleteTick, Engine!The, G!The, Engine!Some, G!Some, Engine!None, G!None,
       Engine!RecordOf, G!RecordOf, Engine!ShouldCapture, G!ShouldCapture, Engine!configuration,
       G!configuration

LEMMA SameManualSnapshot == Engine!ManualSnapshot <=> G!ManualSnapshot
BY DEF Engine!ManualSnapshot, G!ManualSnapshot, Engine!Some, G!Some, Engine!configuration, G!configuration

LEMMA SameRestore == \A s : (Engine!RestoreSnapshot(s) <=> G!RestoreSnapshot(s)) /\ (Engine!RestorePanics(s) <=> G!RestorePanics(s))
BY DEF Engine!RestoreSnapshot, G!RestoreSnapshot, Engine!RestorePanics, G!RestorePanics,
       Engine!configuration, G!configuration

LEMMA SameHostSnapshots == Engine!HostSnapshots = G!HostSnapshots
BY DEF Engine!HostSnapshots, G!HostSnapshots, Engine!The, G!The, Engine!None, G!None

LEMMA SameNewEngine == Engine!NewEngine <=> G!NewEngine
BY DEF Engine!NewEngine, G!NewEngine, Engine!None, G!None, Engine!configuration, G!configuration

LEMMA SameNext == Engine!Next <=> G!Next
BY SameTickUnexpected, SameTickWhilePending, SameBeginTick, SameValidate, SameRunPhase, SameCompleteTick, SameManualSnapshot, SameRestore, SameHostSnapshots, SameNewEngine DEF Engine!Next, G!Next, Engine!EngineStep, G!EngineStep, Engine!HostCall, G!HostCall, Engine!Frame,
       G!Frame

LEMMA SameSpec == Engine!Spec <=> G!Spec
<1>1. [Engine!Next]_Engine!vars <=> [G!Next]_G!vars
  BY SameNext DEF Engine!vars, G!vars
<1> QED
  BY <1>1, SameInit, PTL DEF Engine!Spec, G!Spec

-----------------------------------------------------------------------------
(***************************************************************************)
(* The configuration and the plan.                                         *)
(***************************************************************************)
CleanData == DataWith({None})

LEMMA OptionType ==
  ASSUME NEW S
  PROVE  None \in Option(S) /\ \A x \in S : Some(x) \in Option(S)
<1>1. None \in Option(S)
  BY DEF None, Option
<1>2. ASSUME NEW x \in S
      PROVE  Some(x) \in Option(S)
  BY DEF Some, Option
<1> QED
  BY <1>1, <1>2

LEMMA SequenceIs ==
  ASSUME NEW T, NEW n \in Nat, NEW f, f = [i \in 1..n |-> f[i]], \A i \in 1..n : f[i] \in T
  PROVE  f \in Seq(T) /\ Len(f) = n
OBVIOUS

LEMMA CleanIsData == CleanData \subseteq CounterData
<1>1. {None} \subseteq Option(Marker)
  BY OptionType
<1>2. ASSUME NEW M, NEW N, M \subseteq N
      PROVE  DataWith(M) \subseteq DataWith(N)
  BY <1>2 DEF DataWith
<1> QED
  BY <1>1, <1>2 DEF CleanData, CounterData

LEMMA ConfigTypes ==
  /\ {Config.max_abs_value, Config.max_abs_velocity, Config.max_abs_pending_delta} \subseteq 0..MaxI64
  /\ Config.initial_value \in I64 /\ Config.initial_velocity \in I64
  /\ Config.initial_entities \in Seq(CounterEntityInit)
BY ConfigAssumption DEF ValidConfig, CounterEntityInit

LEMMA InitialData == FromConfig \in CleanData /\ CounterRestorable([tick |-> 0, data |-> FromConfig])
<1> DEFINE first == [value |-> Config.initial_value, velocity |-> Config.initial_velocity]
           all   == <<first>> \o Config.initial_entities
           n     == Len(Config.initial_entities)
           es    == [i \in 1..Len(all) |-> [id |-> i, value |-> all[i].value, velocity |-> all[i].velocity]]
<1>1. n \in Nat /\ n + 2 <= MaxU64 /\ first \in CounterEntityInit
  BY ConfigTypes, EntitiesAssumption DEF CounterEntityInit
<1>2. all \in Seq(CounterEntityInit) /\ Len(all) = n + 1
  BY <1>1, ConfigTypes
<1> HIDE DEF all, first, n
<1>3. WrapAdd(Len(all), 1) = n + 2 /\ n + 2 \in 0..MaxU64
  BY <1>1, <1>2, WrapAddRange, WidthAssumption
<1>4. es \in Seq(CounterEntitySnapshot) /\ Len(es) = n + 1
      /\ \A i \in 1..n + 1 : es[i].id = i
  <2>1. ASSUME NEW i \in 1..n + 1
        PROVE  [id |-> i, value |-> all[i].value, velocity |-> all[i].velocity] \in CounterEntitySnapshot
    <3>1. all[i] \in CounterEntityInit /\ i \in 0..MaxU64
      BY <1>1, <1>2, WidthAssumption
    <3> QED
      BY <3>1 DEF CounterEntityInit, CounterEntitySnapshot
  <2> QED
    BY <1>1, <1>2, <2>1
<1>5. FromConfig = [next_entity_id |-> WrapAdd(Len(all), 1), primary_entity |-> 1, entities |-> es,
                    pending_delta |-> 0, pending_entropy |-> 0, entropy_budget |-> 0,
                    finalize_marker |-> None]
  BY DEF FromConfig, all, first
<1> HIDE DEF es
<1>6. 0 \in 0..MaxU64 /\ 1 \in 0..MaxU64 /\ 0 \in I64
  BY <1>1, I64Type, WidthAssumption
<1>7. FromConfig \in CleanData
  BY <1>3, <1>4, <1>5, <1>6 DEF CleanData, DataWith
<1>8. EntityStoreValid(FromConfig)
  BY <1>1, <1>3, <1>4, <1>5 DEF EntityStoreValid, Ids
<1> QED
  BY <1>4, <1>5, <1>7, <1>8 DEF CounterRestorable

\* The five phases, in the order in which they run.
LEMMA PlanIs ==
  /\ CounterPlan[1].name = "reset_finalize_marker" /\ CounterPlan[1].group = "PreInput"
  /\ CounterPlan[2].name = "apply_counter_input"   /\ CounterPlan[2].group = "Input"
  /\ CounterPlan[3].name = "simulate_counter"      /\ CounterPlan[3].group = "Simulation"
  /\ CounterPlan[4].name = "settle_counter"        /\ CounterPlan[4].group = "PostSimulation"
  /\ CounterPlan[5].name = "finalize_counter"      /\ CounterPlan[5].group = "Finalize"
  /\ Len(CounterPlan) = 5
BY DEF CounterPlan, CounterPhases

LEMMA PlanType == CounterPlan \in Seq(G!Descriptor)
<1>1. {"PreInput", "Input", "Simulation", "PostSimulation", "Finalize"} \subseteq G!PhaseGroup
  BY DEF G!PhaseGroup, G!AllGroups
<1>2. \A i \in 1..5 : CounterPhases[i][1] \in {"PreInput", "Input", "Simulation", "PostSimulation", "Finalize"}
  BY DEF CounterPhases
<1>3. ASSUME NEW i \in 1..5
      PROVE  CounterPlan[i] \in G!Descriptor
  <2>1. CounterPlan[i] = [ordinal |-> i - 1, group |-> CounterPhases[i][1], name |-> CounterPhases[i][2]]
    BY DEF CounterPlan
  <2>2. i - 1 \in Nat /\ CounterPhases[i][1] \in G!PhaseGroup
    BY <1>1, <1>2
  <2> QED
    BY <2>1, <2>2 DEF G!Descriptor
<1>4. CounterPlan = [i \in 1..5 |-> CounterPlan[i]]
  BY DEF CounterPlan
<1> QED
  BY <1>3, <1>4

\* What the general proofs assume of an engine.
LEMMA Assumptions ==
  /\ G!TickAssumption /\ G!BoundAssumption /\ G!DataAssumption /\ G!PlansAssumption
  /\ G!FinalizeLastAssumption /\ G!ImportedAssumption /\ G!PolicyAssumption
<1>1. G!TickAssumption /\ G!BoundAssumption /\ G!PolicyAssumption
  BY WidthAssumption, BoundAssumption, PolicyAssumption
  DEF G!TickAssumption, G!BoundAssumption, G!PolicyAssumption
<1>2. G!DataAssumption
  BY InitialData, CleanIsData DEF G!DataAssumption
<1>3. G!PlansAssumption
  BY PlanType DEF G!PlansAssumption
<1>4. G!FinalizeLastAssumption
  BY PlanIs DEF G!FinalizeLastAssumption
<1>5. G!ImportedAssumption
  BY ImportedAssumption DEF G!ImportedAssumption, G!Snapshot
<1> QED
  BY <1>1, <1>2, <1>3, <1>4, <1>5

-----------------------------------------------------------------------------
(***************************************************************************)
(* What each phase does.                                                   *)
(***************************************************************************)
LEMMA ResetKeeps ==
  ASSUME NEW d \in CounterData
  PROVE  ResetFinalizeMarker(d) \in CleanData
BY DEF ResetFinalizeMarker, CounterData, CleanData, DataWith

LEMMA StageKeeps ==
  ASSUME NEW d \in CleanData, NEW delta \in I64, NEW entropy \in 0..MaxU64
  PROVE  StageInput(d, delta, entropy) \in CleanData
<1>1. d.pending_delta \in Int /\ d.pending_entropy \in Nat /\ delta \in Int /\ entropy \in Nat
  BY I64Type, U64Type DEF CleanData, DataWith
<1>2. SatAdd(d.pending_delta, delta) \in I64 /\ WrapAdd(d.pending_entropy, entropy) \in 0..MaxU64
  BY <1>1, SatAddRange, WrapAddRange
<1> QED
  BY <1>2 DEF StageInput, CleanData, DataWith

\* What simulate_counter makes of the primary entity.
Moved(e, delta, entropy) ==
  LET velocity == SatAdd(e.velocity, delta)
  IN  [e EXCEPT !.velocity = velocity,
                !.value = SatAdd(SatAdd(@, velocity), Masked(entropy))]

LEMMA MovedIs ==
  ASSUME NEW e \in CounterEntitySnapshot, NEW delta \in I64, NEW entropy \in 0..MaxU64
  PROVE  /\ Moved(e, delta, entropy) \in CounterEntitySnapshot
         /\ Moved(e, delta, entropy).id = e.id
         /\ Moved(e, delta, entropy).velocity = SatAdd(e.velocity, delta)
         /\ Moved(e, delta, entropy).value
              = SatAdd(SatAdd(e.value, SatAdd(e.velocity, delta)), Masked(entropy))
<1>1. e.value \in Int /\ e.velocity \in Int /\ delta \in Int /\ entropy \in Nat
  BY I64Type, U64Type DEF CounterEntitySnapshot
<1> DEFINE velocity == SatAdd(e.velocity, delta)
           value    == SatAdd(SatAdd(e.value, velocity), Masked(entropy))
<1>2. velocity \in I64
  BY <1>1, SatAddRange
<1>3. SatAdd(e.value, velocity) \in I64
  BY <1>1, <1>2, SatAddRange, I64Type
<1>4. value \in I64
  <2>1. Masked(entropy) \in Int
    BY <1>1, MaskedRange, U64Type
  <2> QED
    BY <1>3, <2>1, SatAddRange, I64Type
<1>5. Moved(e, delta, entropy) = [e EXCEPT !.velocity = velocity, !.value = value]
  BY DEF Moved
<1> HIDE DEF velocity, value
<1>6. /\ Moved(e, delta, entropy) \in CounterEntitySnapshot
      /\ Moved(e, delta, entropy).id = e.id
      /\ Moved(e, delta, entropy).velocity = velocity
      /\ Moved(e, delta, entropy).value = value
  BY <1>2, <1>4, <1>5 DEF CounterEntitySnapshot
<1> QED
  BY <1>6 DEF velocity, value

LEMMA SimulateIs ==
  ASSUME NEW d \in CleanData
  PROVE  /\ Simulate(d) \in CleanData
         /\ Simulate(d).next_entity_id = d.next_entity_id /\ Simulate(d).primary_entity = d.primary_entity
         /\ Simulate(d).pending_delta = d.pending_delta /\ Simulate(d).pending_entropy = d.pending_entropy
         /\ Simulate(d).entropy_budget = d.entropy_budget
         /\ Len(Simulate(d).entities) = Len(d.entities)
         /\ \A i \in 1..Len(d.entities) :
              Simulate(d).entities[i] = IF d.entities[i].id = d.primary_entity
                                        THEN Moved(d.entities[i], d.pending_delta, d.pending_entropy)
                                        ELSE d.entities[i]
<1> DEFINE es == [i \in 1..Len(d.entities) |->
                    IF d.entities[i].id = d.primary_entity
                    THEN Moved(d.entities[i], d.pending_delta, d.pending_entropy)
                    ELSE d.entities[i]]
<1>1. /\ d.entities \in Seq(CounterEntitySnapshot) /\ Len(d.entities) \in Nat
      /\ DOMAIN d.entities = 1..Len(d.entities)
      /\ d.pending_delta \in I64 /\ d.pending_entropy \in 0..MaxU64
  BY DEF CleanData, DataWith
<1>2. Simulate(d) = [d EXCEPT !.entities = es]
  BY <1>1 DEF Simulate, Moved
<1>3. es \in Seq(CounterEntitySnapshot) /\ Len(es) = Len(d.entities)
  <2>1. ASSUME NEW i \in 1..Len(d.entities)
        PROVE  es[i] \in CounterEntitySnapshot
    BY <1>1, MovedIs
  <2>2. es = [i \in 1..Len(d.entities) |-> es[i]]
    OBVIOUS
  <2> HIDE DEF es
  <2> QED
    BY <1>1, <2>1, <2>2, SequenceIs
<1>4. \A i \in 1..Len(d.entities) :
        es[i] = IF d.entities[i].id = d.primary_entity
                THEN Moved(d.entities[i], d.pending_delta, d.pending_entropy)
                ELSE d.entities[i]
  OBVIOUS
<1> HIDE DEF es
<1>5. Simulate(d) \in CleanData /\ Simulate(d).entities = es
  BY <1>2, <1>3 DEF CleanData, DataWith
<1>6. /\ Simulate(d).next_entity_id = d.next_entity_id /\ Simulate(d).primary_entity = d.primary_entity
      /\ Simulate(d).pending_delta = d.pending_delta /\ Simulate(d).pending_entropy = d.pending_entropy
      /\ Simulate(d).entropy_budget = d.entropy_budget
  BY <1>2 DEF CleanData, DataWith
<1> QED
  BY <1>3, <1>4, <1>5, <1>6

LEMMA SettleKeeps ==
  ASSUME NEW d \in CleanData
  PROVE  Settle(d) \in CleanData
<1>1. WrapAdd(d.entropy_budget, d.pending_entropy) \in 0..MaxU64
  BY WrapAddRange, WidthAssumption DEF CleanData, DataWith
<1>2. 0 \in I64 /\ 0 \in 0..MaxU64
  BY I64Type, WidthAssumption
<1> QED
  BY <1>1, <1>2 DEF Settle, CleanData, DataWith

\* The marker is a hash of a state without one, so it can only be taken of such a state.
LEMMA FinalizeKeeps ==
  ASSUME NEW t \in 0..MaxU64, NEW s \in [tick : 0..MaxU64, data : CleanData]
  PROVE  Finalize(t, s) \in CounterData
<1> DEFINE m == Some(MarkerOf(t, s))
<1>1. MarkerOf(t, s) \in Marker
  BY DEF MarkerOf, Marker, CleanData
<1>2. m \in Option(Marker)
  BY <1>1, OptionType
<1> HIDE DEF m
<1>3. Finalize(t, s) = [s.data EXCEPT !.finalize_marker = m]
  BY DEF Finalize, m
<1> QED
  BY <1>2, <1>3 DEF CounterData, CleanData, DataWith

\* The one outcome of the i-th phase.
PhaseData(i, t, s, c) ==
  CASE i = 1 -> ResetFinalizeMarker(s.data)
    [] i = 2 -> StageInput(s.data, c.delta, Entropy(t, c))
    [] i = 3 -> Simulate(s.data)
    [] i = 4 -> Settle(s.data)
    [] i = 5 -> Finalize(t, s)

LEMMA PhaseIs ==
  ASSUME NEW i \in 1..5, NEW t, NEW s, NEW c
  PROVE  RunCounterPhase(CounterPlan[i].name, t, s, c) = {[ok |-> TRUE, data |-> PhaseData(i, t, s, c)]}
<1>1. CASE i = 1
  BY <1>1, PlanIs DEF RunCounterPhase, PhaseData
<1>2. CASE i = 2
  BY <1>2, PlanIs DEF RunCounterPhase, PhaseData, Entropy
<1>3. CASE i = 3
  BY <1>3, PlanIs DEF RunCounterPhase, PhaseData
<1>4. CASE i = 4
  BY <1>4, PlanIs DEF RunCounterPhase, PhaseData
<1>5. CASE i = 5
  BY <1>5, PlanIs DEF RunCounterPhase, PhaseData
<1> QED
  BY <1>1, <1>2, <1>3, <1>4, <1>5

LEMMA StepIs ==
  ASSUME NEW i \in 1..5, NEW x, NEW s
  PROVE  CounterStep(CounterPlan[i].name, x, s)
           = [ok |-> TRUE, data |-> PhaseData(i, x.tick, s, x.command)]
<1> DEFINE o == [ok |-> TRUE, data |-> PhaseData(i, x.tick, s, x.command)]
<1>1. RunCounterPhase(CounterPlan[i].name, x.tick, s, x.command) = {o}
  BY PhaseIs
<1> HIDE DEF o
<1> QED
  BY <1>1 DEF CounterStep, o

\* Only the first phase finds a marker, and only the last one leaves one.
LEMMA PhaseKeeps ==
  ASSUME NEW i \in 1..5, NEW t \in 0..MaxU64, NEW c \in CounterCommand,
         NEW s \in [tick : 0..MaxU64, data : CounterData],
         i > 1 => s.data \in CleanData
  PROVE  /\ PhaseData(i, t, s, c) \in CounterData
         /\ i < 5 => PhaseData(i, t, s, c) \in CleanData
<1>1. CASE i = 1
  BY <1>1, ResetKeeps, CleanIsData DEF PhaseData
<1>2. CASE i = 2
  BY <1>2, StageKeeps, EntropyRange, CleanIsData DEF PhaseData, CounterCommand
<1>3. CASE i = 3
  BY <1>3, SimulateIs, CleanIsData DEF PhaseData
<1>4. CASE i = 4
  BY <1>4, SettleKeeps, CleanIsData DEF PhaseData
<1>5. CASE i = 5
  <2>1. s \in [tick : 0..MaxU64, data : CleanData]
    BY <1>5
  <2> QED
    BY <1>5, <2>1, FinalizeKeeps DEF PhaseData
<1> QED
  BY <1>1, <1>2, <1>3, <1>4, <1>5

LEMMA CounterIsAFunction == G!PhasesAreFunctions
<1> SUFFICES ASSUME NEW n \in {CounterPhases[i][2] : i \in 1..5}, NEW t, NEW s, NEW c
             PROVE  LET x == [tick |-> t, tick_seed |-> G!Atomic!TickSeed(0, t), command |-> c]
                    IN  RunCounterPhase(n, t, s, c) = {CounterStep(n, x, s)}
  BY DEF G!PhasesAreFunctions
<1> DEFINE x == [tick |-> t, tick_seed |-> G!Atomic!TickSeed(0, t), command |-> c]
<1>1. x.tick = t /\ x.command = c
  OBVIOUS
<1>2. PICK i \in 1..5 : n = CounterPlan[i].name
  BY DEF CounterPlan
<1> HIDE DEF x
<1>3. /\ RunCounterPhase(n, t, s, c) = {[ok |-> TRUE, data |-> PhaseData(i, t, s, c)]}
      /\ CounterStep(n, x, s) = [ok |-> TRUE, data |-> PhaseData(i, t, s, c)]
  BY <1>1, <1>2, PhaseIs, StepIs
<1> QED
  BY <1>3 DEF x

-----------------------------------------------------------------------------
(***************************************************************************)
(* The entity store: no phase adds, removes, renames or reorders entities. *)
(***************************************************************************)
SameStore(d, e) ==
  /\ e.next_entity_id = d.next_entity_id /\ e.primary_entity = d.primary_entity
  /\ Len(e.entities) = Len(d.entities)
  /\ \A i \in 1..Len(d.entities) : e.entities[i].id = d.entities[i].id

LEMMA StoreKept ==
  ASSUME NEW d \in CounterData, NEW e \in CounterData, SameStore(d, e)
  PROVE  /\ EntityStoreValid(d) => EntityStoreValid(e)
         /\ \A s, r : s.data = d /\ r.data = e /\ CounterRestorable(s) => CounterRestorable(r)
<1>1. d.entities \in Seq(CounterEntitySnapshot) /\ e.entities \in Seq(CounterEntitySnapshot)
  BY DEF CounterData, DataWith
<1>2. Ids(e) = Ids(d)
  BY <1>1 DEF SameStore, Ids
<1>3. d.entities # <<>> => Len(d.entities) >= 1 /\ e.entities # <<>>
  BY <1>1 DEF SameStore
<1>4. EntityStoreValid(d) => EntityStoreValid(e)
  BY <1>1, <1>2, <1>3 DEF SameStore, EntityStoreValid
<1>5. ASSUME NEW s, NEW r, s.data = d, r.data = e, CounterRestorable(s)
      PROVE  CounterRestorable(r)
  BY <1>4, <1>5 DEF SameStore, CounterRestorable
<1> QED
  BY <1>4, <1>5

LEMMA PhaseKeepsStore ==
  ASSUME NEW i \in 1..5, NEW t, NEW c, NEW s \in [tick : 0..MaxU64, data : CounterData],
         i > 1 => s.data \in CleanData
  PROVE  SameStore(s.data, PhaseData(i, t, s, c))
<1> DEFINE d == s.data
<1> DEFINE e == PhaseData(i, t, s, c)
<1> SUFFICES SameStore(d, e)
  OBVIOUS
<1>1. ASSUME e.entities = d.entities, e.next_entity_id = d.next_entity_id,
             e.primary_entity = d.primary_entity
      PROVE  SameStore(d, e)
  BY <1>1 DEF SameStore
<1>2. CASE i = 1
  <2>1. e = ResetFinalizeMarker(d)
    BY <1>2 DEF PhaseData
  <2> HIDE DEF e
  <2> QED
    BY <1>1, <2>1 DEF ResetFinalizeMarker, CounterData, DataWith
<1>3. CASE i = 2
  <2>1. e = StageInput(d, c.delta, Entropy(t, c))
    BY <1>3 DEF PhaseData
  <2> HIDE DEF e
  <2> QED
    BY <1>1, <2>1 DEF StageInput, CounterData, DataWith
<1>4. CASE i = 3
  <2>1. d \in CleanData /\ e = Simulate(d)
    BY <1>4 DEF PhaseData
  <2>2. ASSUME NEW j \in 1..Len(d.entities)
        PROVE  Simulate(d).entities[j].id = d.entities[j].id
    <3>1. /\ d.entities[j] \in CounterEntitySnapshot
          /\ d.pending_delta \in I64 /\ d.pending_entropy \in 0..MaxU64
      BY <2>1 DEF CleanData, DataWith
    <3>2. Moved(d.entities[j], d.pending_delta, d.pending_entropy).id = d.entities[j].id
      BY <3>1, MovedIs
    <3> QED
      BY <2>1, <3>2, SimulateIs
  <2> HIDE DEF e, d
  <2> QED
    BY <2>1, <2>2, SimulateIs DEF SameStore, d, e
<1>5. CASE i = 4
  <2>1. e = Settle(d)
    BY <1>5 DEF PhaseData
  <2> HIDE DEF e
  <2> QED
    BY <1>1, <2>1 DEF Settle, CounterData, DataWith
<1>6. CASE i = 5
  <2>1. e = [d EXCEPT !.finalize_marker = Some(MarkerOf(t, s))]
    BY <1>6 DEF PhaseData, Finalize
  <2> HIDE DEF e
  <2> QED
    BY <1>1, <2>1 DEF CounterData, DataWith
<1> QED
  BY <1>2, <1>3, <1>4, <1>5, <1>6

\* In a valid store whose ids are distinct the primary entity is the first one.
LEMMA PrimaryIsFirst ==
  ASSUME NEW d \in CounterData, EntityStoreValid(d),
         \A i, j \in 1..Len(d.entities) : d.entities[i].id = d.entities[j].id => i = j
  PROVE  /\ Len(d.entities) >= 1 /\ d.entities[1] \in CounterEntitySnapshot
         /\ Primary(d) = d.entities[1]
         /\ \A i \in 1..Len(d.entities) : d.entities[i].id = d.primary_entity <=> i = 1
<1>1. d.entities \in Seq(CounterEntitySnapshot) /\ Len(d.entities) \in Nat
  BY DEF CounterData, DataWith
<1>2. Len(d.entities) >= 1 /\ d.entities[1].id = d.primary_entity
  BY <1>1 DEF EntityStoreValid
<1>3. \A i \in 1..Len(d.entities) : d.entities[i].id = d.primary_entity <=> i = 1
  BY <1>1, <1>2
<1>4. (CHOOSE i \in 1..Len(d.entities) : d.entities[i].id = d.primary_entity) = 1
  BY <1>1, <1>2, <1>3
<1> QED
  BY <1>1, <1>2, <1>3, <1>4 DEF Primary

-----------------------------------------------------------------------------
(***************************************************************************)
(* The inductive invariant of the domain: besides the types, between the   *)
(* first and the last phase there is no marker, the entity store of the    *)
(* state and of what was committed could be restored, and under EveryPhase *)
(* the delta of a command is looked at before it is simulated.             *)
(***************************************************************************)
CursorAtRest == pc # "phases" => cursor = 1

MarkerReset == pc = "phases" /\ cursor \in 2..5 => state.data \in CleanData

StoresInv ==
  /\ CounterRestorable(state)
  /\ \A i \in 1..Len(records) : CounterRestorable(records[i].checksum)

StagedInv ==
  validation_policy = "EveryPhase" =>
    /\ pc = "phases" /\ cursor <= 2 => state.data.pending_delta = 0
    /\ pc = "phases" /\ cursor > 2 =>
         Abs(G!The(pending).command.delta) <= Config.max_abs_pending_delta
    /\ \A i \in 1..Len(records) : Abs(records[i].command.delta) <= Config.max_abs_pending_delta

DomainInv == CursorAtRest /\ MarkerReset /\ StoresInv /\ StagedInv

CounterInv == G!TypeOK /\ DomainInv

LEMMA TypesIs ==
  ASSUME G!TypeOK
  PROVE  /\ plan = CounterPlan /\ Len(plan) = 5
         /\ state \in [tick : 0..MaxU64, data : CounterData]
         /\ cursor \in 1..6
         /\ validation_policy \in {"TickBoundary", "EveryPhase"}
         /\ pc \in {"validate", "phases"} \/ G!Wedged =>
              /\ pending # None
              /\ G!The(pending).tick \in 0..MaxU64 /\ G!The(pending).command \in CounterCommand
         /\ records \in Seq(G!RecordType) /\ Len(records) \in Nat
         /\ \A i \in 1..Len(records) :
              /\ records[i].command \in CounterCommand /\ records[i].tick \in 0..MaxU64
              /\ records[i].checksum \in [tick : 0..MaxU64, data : CounterData]
<1>1. plan = CounterPlan /\ Len(plan) = 5
  BY PlanIs DEF G!TypeOK
<1>2. cursor \in 1..6 /\ validation_policy \in {"TickBoundary", "EveryPhase"}
  BY <1>1, PolicyAssumption DEF G!TypeOK
<1>3. state \in [tick : 0..MaxU64, data : CounterData]
  BY DEF G!TypeOK, G!Snapshot
<1>4. ASSUME pc \in {"validate", "phases"} \/ G!Wedged
      PROVE  /\ pending # None
             /\ G!The(pending).tick \in 0..MaxU64 /\ G!The(pending).command \in CounterCommand
  <2>1. pending \in G!Option(G!PendingType) /\ pending # G!None
    BY <1>4 DEF G!TypeOK, G!Wedged
  <2>2. G!The(pending) \in G!PendingType
    BY <2>1, Assumptions, G!TheType
  <2> QED
    BY <2>1, <2>2, CommandsAssumption DEF G!PendingType, None, G!None
<1>5. records \in Seq(G!RecordType) /\ Len(records) \in Nat
  BY DEF G!TypeOK
<1>6. \A r \in G!RecordType : /\ r.command \in CounterCommand /\ r.tick \in 0..MaxU64
                              /\ r.checksum \in [tick : 0..MaxU64, data : CounterData]
  BY CommandsAssumption DEF G!RecordType, G!Snapshot
<1> QED
  BY <1>1, <1>2, <1>3, <1>4, <1>5, <1>6

LEMMA CheckpointIs ==
  /\ G!CheckpointAfter(CounterPlan, 1) = {}
  /\ G!CheckpointAfter(CounterPlan, 2) = {"AfterInputApplied"}
  /\ G!CheckpointAfter(CounterPlan, 3) = {"AfterSimulationGroup"}
  /\ G!CheckpointAfter(CounterPlan, 4) = {}
  /\ G!CheckpointAfter(CounterPlan, 5) = {"AfterFinalize"}
BY PlanIs DEF G!CheckpointAfter

\* A step of the plan: the state it leads to, and what follows if the tick goes on.
LEMMA PhaseStep ==
  ASSUME G!TypeOK, MarkerReset, G!RunPhase
  PROVE  LET t == G!The(pending).tick
             c == G!The(pending).command
         IN  /\ pc = "phases" /\ cursor \in 1..5
             /\ state' = [state EXCEPT !.data = PhaseData(cursor, t, state, c)]
             /\ state'.data = PhaseData(cursor, t, state, c)
             /\ cursor < 5 => state'.data \in CleanData
             /\ state' \in [tick : 0..MaxU64, data : CounterData]
             /\ SameStore(state.data, state'.data)
             /\ UNCHANGED <<records, validation_policy, splices>>
             /\ \/ pc' = "idle"
                \/ /\ pc' = "phases" /\ cursor' = cursor + 1 /\ G!The(pending').command = c
                   /\ \A k \in G!Due(G!CheckpointAfter(CounterPlan, cursor)) : CounterAccepts(k, t, state')
<1> DEFINE q == G!The(pending)
           p == [q EXCEPT !.phase_markers = Append(@, plan[cursor])]
           D == PhaseData(cursor, q.tick, state, q.command)
           due == G!Due(G!CheckpointAfter(plan, cursor))
<1>1. /\ pc = "phases" /\ cursor \in 1..5 /\ plan = CounterPlan
      /\ UNCHANGED <<records, validation_policy, splices>>
  <2>1. pc = "phases" /\ cursor <= Len(plan) /\ UNCHANGED <<records, validation_policy, splices>>
    BY DEF G!RunPhase, G!configuration
  <2>2. plan = CounterPlan /\ Len(plan) = 5 /\ cursor \in 1..6
    BY TypesIs
  <2> QED
    BY <2>1, <2>2
<1>2. /\ q \in G!PendingType /\ q.tick \in 0..MaxU64 /\ q.command \in CounterCommand
      /\ state \in [tick : 0..MaxU64, data : CounterData]
  <2>1. pending \in G!Option(G!PendingType) /\ pending # G!None
    BY <1>1 DEF G!TypeOK
  <2>2. q \in G!PendingType
    BY <2>1, Assumptions, G!TheType
  <2> QED
    BY <1>1, <2>2, TypesIs
<1>3. p.tick = q.tick /\ p.command = q.command
  BY <1>2 DEF G!PendingType
<1>4. PICK o \in RunCounterPhase(plan[cursor].name, p.tick, state, p.command) :
        LET s == [state EXCEPT !.data = o.data]
            ds == IF o.ok THEN due ELSE {}
        IN  /\ state' = s
            /\ \/ /\ ~o.ok
                  /\ G!ReturnError("PhaseFailed")
                  /\ pending' = G!Some(p)
               \/ /\ \E k \in ds : ~CounterAccepts(k, p.tick, s)
                  /\ G!ReturnError("InvariantViolation")
                  /\ pending' = G!Some(p)
               \/ /\ o.ok
                  /\ \A k \in ds : CounterAccepts(k, p.tick, s)
                  /\ pending' = G!Some(G!WithSummaries(p, ds, s))
                  /\ cursor' = cursor + 1
                  /\ UNCHANGED <<pc, result>>
  BY DEF G!RunPhase
<1>5. o = [ok |-> TRUE, data |-> D]
  <2>1. o \in RunCounterPhase(CounterPlan[cursor].name, q.tick, state, q.command)
    BY <1>1, <1>3, <1>4
  <2> HIDE DEF q
  <2> QED
    BY <1>1, <2>1, PhaseIs
<1>6. state' = [state EXCEPT !.data = D] /\ state'.data = D
  BY <1>2, <1>4, <1>5
<1>7. D \in CounterData /\ (cursor < 5 => D \in CleanData) /\ SameStore(state.data, D)
  <2>1. cursor > 1 => state.data \in CleanData
    BY <1>1 DEF MarkerReset
  <2> HIDE DEF q
  <2> QED
    BY <1>1, <1>2, <2>1, PhaseKeeps, PhaseKeepsStore
<1>8. state' \in [tick : 0..MaxU64, data : CounterData]
  BY <1>2, <1>6, <1>7
<1>9. ASSUME NEW ds, NEW s, pending' = G!Some(G!WithSummaries(p, ds, s))
      PROVE  G!The(pending').command = q.command
  BY <1>2, <1>9 DEF G!The, G!Some, G!WithSummaries, G!PendingType
<1> HIDE DEF D, p, q, due
<1>10. \/ pc' = "idle"
       \/ /\ pc' = "phases" /\ cursor' = cursor + 1 /\ G!The(pending').command = q.command
          /\ \A k \in due : CounterAccepts(k, q.tick, state')
  BY <1>1, <1>3, <1>4, <1>5, <1>9 DEF G!ReturnError
<1> QED
  BY <1>1, <1>6, <1>7, <1>8, <1>10 DEF D, q, due
LEMMA InvInit == G!Init => CounterInv
<1> SUFFICES ASSUME G!Init
             PROVE  CounterInv
  OBVIOUS
<1>1. G!TypeOK
  BY Assumptions, G!TypeInit
<1>2. /\ pc = "idle" /\ cursor = 1 /\ records = <<>>
      /\ state = [tick |-> 0, data |-> FromConfig]
  BY DEF G!Init
<1>3. CursorAtRest /\ MarkerReset /\ StagedInv
  BY <1>2 DEF CursorAtRest, MarkerReset, StagedInv
<1>4. StoresInv
  BY <1>2, InitialData DEF StoresInv
<1> QED
  BY <1>1, <1>3, <1>4 DEF CounterInv, DomainInv

\* Nothing the domain's invariant speaks of changes.
LEMMA DomainUntouched ==
  ASSUME DomainInv, UNCHANGED <<validation_policy, state, pending, records, pc, cursor>>
  PROVE  DomainInv'
BY DEF DomainInv, CursorAtRest, MarkerReset, StoresInv, StagedInv, G!The

\* The engine is at rest, or validates, after a step that leaves the log alone.
LEMMA DomainAtRest ==
  ASSUME DomainInv, UNCHANGED <<validation_policy, records>>, pc' # "phases", cursor' = 1,
         CounterRestorable(state)'
  PROVE  DomainInv'
BY DEF DomainInv, CursorAtRest, MarkerReset, StoresInv, StagedInv

LEMMA DomainValidate ==
  ASSUME G!TypeOK, DomainInv, G!ValidateBeforeTick
  PROVE  DomainInv'
<1>1. pc = "validate" /\ cursor = 1 /\ UNCHANGED <<validation_policy, state, records>>
  BY DEF G!ValidateBeforeTick, G!configuration, DomainInv, CursorAtRest
<1>2. CASE pc' = "idle"
  <2>1. cursor' = 1
    BY <1>2 DEF G!ValidateBeforeTick, G!ReturnError
  <2> QED
    BY <1>1, <1>2, <2>1, DomainAtRest DEF DomainInv, StoresInv
<1>3. CASE pc' # "idle"
  <2>1. /\ pc' = "phases" /\ cursor' = cursor
        /\ \A c \in G!Due({"BeforeTickBegin"}) : CounterAccepts(c, G!The(pending).tick, state)
    BY <1>3 DEF G!ValidateBeforeTick, G!ReturnError
  <2>2. CounterAccepts("BeforeTickBegin", G!The(pending).tick, state)
    BY <2>1, Assumptions, G!BeforeTickBeginIsDue
  <2>3. state.data.pending_delta = 0
    BY <2>2 DEF CounterAccepts, CheckpointValid, PendingCleared
  <2> QED
    BY <1>1, <2>1, <2>3 DEF DomainInv, CursorAtRest, MarkerReset, StoresInv, StagedInv
<1> QED
  BY <1>2, <1>3

\* Under EveryPhase, a tick that goes on past Input has a delta within the limit.
LEMMA DomainRunPhase ==
  ASSUME G!TypeOK, DomainInv, G!RunPhase
  PROVE  DomainInv'
<1> DEFINE t == G!The(pending).tick
           c == G!The(pending).command
<1>1. /\ pc = "phases" /\ cursor \in 1..5
      /\ state'.data = PhaseData(cursor, t, state, c)
      /\ cursor < 5 => state'.data \in CleanData
      /\ state' \in [tick : 0..MaxU64, data : CounterData]
      /\ SameStore(state.data, state'.data)
      /\ UNCHANGED <<records, validation_policy, splices>>
      /\ \/ pc' = "idle"
         \/ /\ pc' = "phases" /\ cursor' = cursor + 1 /\ G!The(pending').command = c
            /\ \A k \in G!Due(G!CheckpointAfter(CounterPlan, cursor)) : CounterAccepts(k, t, state')
  BY PhaseStep DEF DomainInv
<1>2. /\ state \in [tick : 0..MaxU64, data : CounterData] /\ c \in CounterCommand
      /\ t \in 0..MaxU64
  BY <1>1, TypesIs
<1> HIDE DEF t
<1>3. CounterRestorable(state')
  BY <1>1, <1>2, StoreKept DEF DomainInv, StoresInv
<1>4. CASE pc' = "idle"
  <2>1. cursor' = 1
    BY <1>1, <1>4 DEF G!RunPhase, G!ReturnError
  <2> QED
    BY <1>1, <1>3, <1>4, <2>1, DomainAtRest
<1>5. CASE pc' # "idle"
  <2>1. /\ pc' = "phases" /\ cursor' = cursor + 1 /\ G!The(pending').command = c
        /\ \A k \in G!Due(G!CheckpointAfter(CounterPlan, cursor)) : CounterAccepts(k, t, state')
    BY <1>1, <1>5
  <2>2. CursorAtRest' /\ MarkerReset' /\ StoresInv'
    BY <1>1, <1>3, <2>1 DEF CursorAtRest, MarkerReset, StoresInv, DomainInv
  <2>3. ASSUME validation_policy = "EveryPhase", cursor = 1
        PROVE  state'.data.pending_delta = 0
    <3>1. state.data.pending_delta = 0
      BY <1>1, <2>3 DEF DomainInv, StagedInv
    <3>2. state'.data = ResetFinalizeMarker(state.data)
      BY <1>1, <2>3 DEF PhaseData
    <3> QED
      BY <1>2, <3>1, <3>2 DEF ResetFinalizeMarker, CounterData, DataWith
  <2>4. ASSUME validation_policy = "EveryPhase", cursor = 2
        PROVE  Abs(c.delta) <= Config.max_abs_pending_delta
    <3>1. state.data.pending_delta = 0
      BY <1>1, <2>4 DEF DomainInv, StagedInv
    <3>2. state'.data = StageInput(state.data, c.delta, Entropy(t, c))
      BY <1>1, <2>4 DEF PhaseData
    <3>3. c.delta \in I64 /\ c.delta \in Int
      BY <1>2, I64Type DEF CounterCommand
    <3> HIDE DEF c
    <3>4. SatAdd(0, c.delta) = c.delta
      BY <3>3, SatAddRange
    <3>5. state'.data.pending_delta = c.delta
      BY <1>2, <3>1, <3>2, <3>4 DEF StageInput, CounterData, DataWith
    <3>6. "AfterInputApplied" \in G!Due(G!CheckpointAfter(CounterPlan, cursor))
      BY <2>4, CheckpointIs DEF G!Due, G!ShouldValidate
    <3>7. WithinLimits(state'.data)
      BY <2>1, <3>6 DEF CounterAccepts
    <3> QED
      BY <3>5, <3>7 DEF WithinLimits
  <2>5. ASSUME validation_policy = "EveryPhase", cursor > 2
        PROVE  Abs(c.delta) <= Config.max_abs_pending_delta
    BY <1>1, <2>5 DEF DomainInv, StagedInv
  <2>6. StagedInv'
    <3> HIDE DEF c
    <3>1. validation_policy = "EveryPhase" =>
            /\ cursor' <= 2 => state'.data.pending_delta = 0
            /\ cursor' > 2 => Abs(c.delta) <= Config.max_abs_pending_delta
      BY <1>1, <2>1, <2>3, <2>4, <2>5
    <3>2. validation_policy = "EveryPhase" =>
            \A i \in 1..Len(records) : Abs(records[i].command.delta) <= Config.max_abs_pending_delta
      BY DEF DomainInv, StagedInv
    <3> QED
      BY <1>1, <2>1, <3>1, <3>2 DEF StagedInv
  <2> QED
    BY <2>2, <2>6 DEF DomainInv
<1> QED
  BY <1>4, <1>5

LEMMA DomainCompleteTick ==
  ASSUME G!TypeOK, DomainInv, G!CompleteTick
  PROVE  DomainInv'
<1> DEFINE p == G!The(pending)
           s == [state EXCEPT !.tick = p.tick]
           r == G!RecordOf(p, s)
<1>1. /\ pc = "phases" /\ cursor > Len(plan) /\ state' = s /\ records' = Append(records, r)
      /\ pc' = "idle" /\ cursor' = 1 /\ UNCHANGED validation_policy
  BY DEF G!CompleteTick, G!configuration
<1>2. /\ Len(plan) = 5 /\ cursor \in 1..6 /\ state \in [tick : 0..MaxU64, data : CounterData]
      /\ records \in Seq(G!RecordType) /\ Len(records) \in Nat
  BY TypesIs
<1>3. r.checksum = s /\ r.command = p.command /\ s.data = state.data
  BY <1>2 DEF G!RecordOf
<1> HIDE DEF s, r, p
<1>4. CounterRestorable(s)
  BY <1>3 DEF DomainInv, StoresInv, CounterRestorable
<1>5. \A i \in 1..Len(records') : records'[i] = r \/ (i \in 1..Len(records) /\ records'[i] = records[i])
  BY <1>1, <1>2
<1>6. StoresInv'
  BY <1>1, <1>3, <1>4, <1>5 DEF DomainInv, StoresInv
<1>7. validation_policy = "EveryPhase" => Abs(p.command.delta) <= Config.max_abs_pending_delta
  <2>1. cursor > 2
    BY <1>1, <1>2
  <2> QED
    BY <1>1, <2>1 DEF DomainInv, StagedInv, p
<1>8. StagedInv'
  BY <1>1, <1>3, <1>5, <1>7 DEF DomainInv, StagedInv
<1> QED
  BY <1>1, <1>6, <1>8 DEF DomainInv, CursorAtRest, MarkerReset

LEMMA DomainNext ==
  ASSUME G!TypeOK, DomainInv, [G!Next]_G!vars
  PROVE  DomainInv'
<1>1. CASE UNCHANGED G!vars
  BY <1>1, DomainUntouched DEF G!vars
<1>2. CASE G!EngineStep
  BY <1>2, DomainValidate, DomainRunPhase, DomainCompleteTick DEF G!EngineStep
<1>3. CASE G!HostCall
  <2>1. ASSUME NEW f \in G!Frame, G!TickUnexpected(f) \/ G!TickWhilePending(f)
        PROVE  DomainInv'
    BY <2>1, DomainUntouched DEF G!TickUnexpected, G!TickWhilePending, G!configuration
  <2>2. ASSUME NEW f \in G!Frame, G!BeginTick(f)
        PROVE  DomainInv'
    BY <2>2, DomainAtRest DEF G!BeginTick, G!configuration, DomainInv, CursorAtRest, StoresInv
  <2>3. CASE G!ManualSnapshot
    BY <2>3, DomainUntouched DEF G!ManualSnapshot, G!configuration
  <2>4. ASSUME NEW s \in G!HostSnapshots, G!RestoreSnapshot(s) \/ G!RestorePanics(s)
        PROVE  DomainInv'
    BY <2>4, DomainAtRest
    DEF G!RestoreSnapshot, G!RestorePanics, G!configuration, DomainInv, CursorAtRest, StoresInv
  <2>5. CASE G!NewEngine
    <3>1. /\ state' = [tick |-> 0, data |-> FromConfig] /\ records' = <<>> /\ pc' = "idle" /\ cursor' = 1
      BY <2>5 DEF G!NewEngine
    <3> QED
      BY <3>1, InitialData DEF DomainInv, CursorAtRest, MarkerReset, StoresInv, StagedInv
  <2> QED
    BY <1>3, <2>1, <2>2, <2>3, <2>4, <2>5 DEF G!HostCall
<1> QED
  BY <1>1, <1>2, <1>3 DEF G!Next

LEMMA InvNext ==
  ASSUME CounterInv, [G!Next]_G!vars
  PROVE  CounterInv'
<1>1. G!TypeOK /\ DomainInv /\ MarkerReset
  BY DEF CounterInv, DomainInv
<1>2. G!RunPhase => state' \in G!Snapshot
  BY <1>1, PhaseStep DEF G!Snapshot
<1>3. G!TypeOK'
  BY <1>1, <1>2, Assumptions, G!TypeNext
<1> QED
  BY <1>1, <1>3, DomainNext DEF CounterInv

LEMMA Invariant == Spec => []CounterInv
<1>1. CounterInv /\ [G!Next]_G!vars => CounterInv'
  BY InvNext
<1> QED
  BY <1>1, InvInit, SameSpec, PTL DEF Spec, G!Spec

(***************************************************************************)
(* The engine of the counter domain keeps its types: no phase leaves a     *)
(* value outside i64 or u64, and no marker is ever taken of a marker.      *)
(***************************************************************************)
THEOREM CounterTypeCorrect == Spec => []TypeOK
<1>1. CounterInv => TypeOK
  BY SameTypes DEF CounterInv, TypeOK
<1> QED
  BY <1>1, Invariant, PTL

(***************************************************************************)
(* StagedDeltaWithinLimit, for every configuration: under EveryPhase no    *)
(* command is committed whose delta exceeds the limit, however long the    *)
(* engine runs and whatever it was restored from.                          *)
(***************************************************************************)
THEOREM StagedDeltas == Spec => []StagedDeltaWithinLimit
<1>1. CounterInv => StagedDeltaWithinLimit
  BY DEF CounterInv, DomainInv, StagedInv, StagedDeltaWithinLimit
<1> QED
  BY <1>1, Invariant, PTL

-----------------------------------------------------------------------------
(***************************************************************************)
(* A tick of this domain is a function.                                    *)
(***************************************************************************)
LEMMA SameWork ==
  \A e, s, x : Engine!Atomic!Work(e, s, x) = G!Atomic!Work(e, s, x)
BY DEF Engine!Atomic!Work, G!Atomic!Work, Engine!Atomic!Validated, G!Atomic!Validated,
       Engine!Atomic!AfterPhase, G!Atomic!AfterPhase, Engine!Atomic!ShouldValidate,
       G!Atomic!ShouldValidate, Engine!Atomic!WithSummaries, G!Atomic!WithSummaries,
       Engine!Atomic!Summary, G!Atomic!Summary, Engine!Atomic!CheckpointAfter,
       G!Atomic!CheckpointAfter

LEMMA SameEnd ==
  \A e, f, x, w : Engine!Atomic!TickEnd(e, f, x, w) = G!Atomic!TickEnd(e, f, x, w)
BY DEF Engine!Atomic!TickEnd, G!Atomic!TickEnd,
       Engine!Atomic!PolicySnapshot, G!Atomic!PolicySnapshot,
       Engine!Atomic!ShouldCapture, G!Atomic!ShouldCapture,
       Engine!Atomic!SnapshotRecord, G!Atomic!SnapshotRecord,
       Engine!Atomic!PolicyInterval, G!Atomic!PolicyInterval,
       Engine!Atomic!Some, G!Atomic!Some, Engine!Atomic!None, G!Atomic!None

LEMMA SameOutcome ==
  \A n, c : Engine!OutcomeAfter(n, c) = G!OutcomeAfter(n, c)
<1>1. \A e, s, f : Engine!Atomic!TickOutcome(e, s, f) = G!Atomic!TickOutcome(e, s, f)
  BY SameWork, SameEnd DEF Engine!Atomic!TickOutcome, G!Atomic!TickOutcome,
     Engine!Atomic!TickSucc, G!Atomic!TickSucc, Engine!Atomic!TickSeed, G!Atomic!TickSeed
<1> QED
  BY <1>1, SameCommitted, SameTickSucc
  DEF Engine!OutcomeAfter, G!OutcomeAfter, Engine!Configured, G!Configured

(***************************************************************************)
(* TickIsAFunction for every configuration, width, entropy, command and    *)
(* policy.                                                                 *)
(***************************************************************************)
THEOREM CounterTicksAreFunctions == Spec => []TickIsAFunction
<1>1. \A r : Engine!Logged(r) = G!Logged(r)
  BY DEF Engine!Logged, G!Logged
<1>2. Engine!The(pending) = G!The(pending)
  BY DEF Engine!The, G!The
<1>3. G!TickIsAFunction => TickIsAFunction
  BY <1>1, <1>2, SameOutcome, SameWedged
  DEF TickIsAFunction, Engine!TickIsAFunction, G!TickIsAFunction
<1>4. G!Spec /\ []G!TypeOK => []G!TickIsAFunction
  BY Assumptions, CounterIsAFunction, G!TicksAreFunctions
<1>5. CounterInv => G!TypeOK
  BY DEF CounterInv
<1> QED
  BY <1>3, <1>4, <1>5, Invariant, SameSpec, PTL DEF Spec

-----------------------------------------------------------------------------
(***************************************************************************)
(* A tick, phase by phase.  What is left of the committed data d, in a     *)
(* tick t of command c, once k phases of it have run, whatever the         *)
(* checkpoint after the last of them says.                                 *)
(***************************************************************************)
MovedIn(d, delta, entropy, e) ==
  /\ Len(e.entities) = Len(d.entities)
  /\ \A i \in 1..Len(d.entities) :
       e.entities[i] = IF d.entities[i].id = d.primary_entity
                       THEN Moved(d.entities[i], delta, entropy) ELSE d.entities[i]

Midway(k, d, t, c, r) ==
  /\ r \in [tick : 0..MaxU64, data : CounterData]
  /\ k < 5 => r.data \in CleanData
  /\ SameStore(d, r.data)
  /\ r.data.pending_delta = IF k \in {2, 3} THEN c.delta ELSE 0
  /\ r.data.pending_entropy = IF k \in {2, 3} THEN Entropy(t, c) ELSE 0
  /\ k < 3 => r.data.entities = d.entities
  /\ k >= 3 => MovedIn(d, c.delta, Entropy(t, c), r.data)
  /\ r.data.entropy_budget = IF k < 4 THEN d.entropy_budget ELSE WrapAdd(d.entropy_budget, Entropy(t, c))
  /\ k = 5 => r.data.finalize_marker = Some(PreviewFinalizeMarker(t, r))

LEMMA SameStoreIsTransitive ==
  ASSUME NEW d, NEW e, NEW f, SameStore(d, e), SameStore(e, f)
  PROVE  SameStore(d, f)
BY DEF SameStore

LEMMA MidwayStep ==
  ASSUME NEW k \in 1..5, NEW t \in 0..MaxU64, NEW c \in CounterCommand, NEW d \in CounterData,
         PendingCleared(d), NEW p \in [tick : 0..MaxU64, data : CounterData],
         k = 1 => p.data = d, k > 1 => Midway(k - 1, d, t, c, p)
  PROVE  Midway(k, d, t, c, [p EXCEPT !.data = PhaseData(k, t, p, c)])
<1> DEFINE e == PhaseData(k, t, p, c)
           r == [p EXCEPT !.data = e]
           E == Entropy(t, c)
<1>1. k > 1 => p.data \in CleanData
  BY DEF Midway
<1>2. e \in CounterData /\ (k < 5 => e \in CleanData) /\ SameStore(p.data, e)
  BY <1>1, PhaseKeeps, PhaseKeepsStore
<1> HIDE DEF e
<1>3. r \in [tick : 0..MaxU64, data : CounterData] /\ r.data = e /\ r.tick = p.tick
  BY <1>2
<1>4. SameStore(d, e)
  <2>1. CASE k = 1
    BY <1>2, <2>1
  <2>2. CASE k > 1
    <3>1. SameStore(d, p.data)
      BY <2>2 DEF Midway
    <3> QED
      BY <1>2, <3>1, SameStoreIsTransitive
  <2> QED
    BY <2>1, <2>2
<1> HIDE DEF r, E
<1>5. E \in 0..MaxU64 /\ WrapAdd(0, E) = E /\ c.delta \in I64 /\ c.delta \in Int
  BY EntropyRange, I64Type DEF E, CounterCommand
<1> SUFFICES /\ e.pending_delta = IF k \in {2, 3} THEN c.delta ELSE 0
             /\ e.pending_entropy = IF k \in {2, 3} THEN E ELSE 0
             /\ k < 3 => e.entities = d.entities
             /\ k >= 3 => MovedIn(d, c.delta, E, e)
             /\ e.entropy_budget = IF k < 4 THEN d.entropy_budget ELSE WrapAdd(d.entropy_budget, E)
             /\ k = 5 => e.finalize_marker = Some(PreviewFinalizeMarker(t, r))
  <2>1. Midway(k, d, t, c, r)
    BY <1>2, <1>3, <1>4 DEF Midway, E
  <2> QED
    BY <2>1 DEF r, e
<1>6. CASE k = 1
  <2>1. e = [d EXCEPT !.finalize_marker = None]
    BY <1>6 DEF e, PhaseData, ResetFinalizeMarker
  <2> QED
    BY <1>6, <2>1 DEF PendingCleared, CounterData, DataWith
<1>7. CASE k = 2
  <2> DEFINE q == p.data
  <2>1. /\ q \in CounterData /\ q.entities = d.entities /\ q.entropy_budget = d.entropy_budget
        /\ q.pending_delta = 0 /\ q.pending_entropy = 0
    BY <1>7 DEF Midway
  <2> HIDE DEF q
  <2>2. e = [q EXCEPT !.pending_delta = SatAdd(@, c.delta), !.pending_entropy = WrapAdd(@, E)]
    BY <1>7 DEF e, PhaseData, StageInput, E, q
  <2>3. SatAdd(0, c.delta) = c.delta
    BY <1>5, SatAddRange
  <2> QED
    BY <1>5, <1>7, <2>1, <2>2, <2>3 DEF CounterData, DataWith
<1>8. CASE k = 3
  <2> DEFINE q == p.data
  <2>1. /\ q \in CleanData /\ q.entities = d.entities /\ q.entropy_budget = d.entropy_budget
        /\ q.pending_delta = c.delta /\ q.pending_entropy = E /\ q.primary_entity = d.primary_entity
    BY <1>8 DEF Midway, SameStore, E
  <2>2. e = Simulate(q)
    BY <1>8 DEF e, PhaseData
  <2> HIDE DEF q
  <2>3. MovedIn(d, c.delta, E, e)
    BY <2>1, <2>2, SimulateIs DEF MovedIn
  <2>4. e.pending_delta = c.delta /\ e.pending_entropy = E /\ e.entropy_budget = d.entropy_budget
    BY <2>1, <2>2, SimulateIs
  <2> QED
    BY <1>8, <2>3, <2>4
<1>9. CASE k = 4
  <2> DEFINE q == p.data
  <2>1. /\ q \in CounterData /\ q.entropy_budget = d.entropy_budget /\ q.pending_entropy = E
        /\ MovedIn(d, c.delta, E, q)
    BY <1>9 DEF Midway, E
  <2> HIDE DEF q
  <2>2. e = [q EXCEPT !.entropy_budget = WrapAdd(@, q.pending_entropy), !.pending_delta = 0,
                      !.pending_entropy = 0]
    BY <1>9 DEF e, PhaseData, Settle, q
  <2>3. /\ e.entities = q.entities /\ e.entropy_budget = WrapAdd(d.entropy_budget, E)
        /\ e.pending_delta = 0 /\ e.pending_entropy = 0
    BY <2>1, <2>2 DEF CounterData, DataWith
  <2>4. MovedIn(d, c.delta, E, e)
    BY <2>1, <2>3 DEF MovedIn
  <2> QED
    BY <1>9, <2>3, <2>4
<1>10. CASE k = 5
  <2> DEFINE q == p.data
             m == Some(MarkerOf(t, p))
  <2>1. /\ q \in CleanData /\ q.entropy_budget = WrapAdd(d.entropy_budget, E)
        /\ q.pending_delta = 0 /\ q.pending_entropy = 0 /\ MovedIn(d, c.delta, E, q)
    BY <1>10 DEF Midway, E
  <2>2. e = [q EXCEPT !.finalize_marker = m]
    BY <1>10 DEF e, PhaseData, Finalize
  <2> HIDE DEF m
  <2>3. /\ e.entities = q.entities /\ e.entropy_budget = q.entropy_budget /\ e.finalize_marker = m
        /\ e.pending_delta = 0 /\ e.pending_entropy = 0
        /\ [e EXCEPT !.finalize_marker = None] = q
    <3> HIDE DEF q
    <3> QED
      BY <2>1, <2>2 DEF CleanData, DataWith
  <2>4. m = Some(PreviewFinalizeMarker(t, r))
    <3>1. [r EXCEPT !.data = [@ EXCEPT !.finalize_marker = None]].data = q
      BY <1>3, <2>3
    <3>2. [r EXCEPT !.data = [@ EXCEPT !.finalize_marker = None]].tick = p.tick
      BY <1>3
    <3> QED
      BY <3>1, <3>2 DEF m, PreviewFinalizeMarker, MarkerOf
  <2>5. MovedIn(d, c.delta, E, e)
    BY <2>1, <2>3 DEF MovedIn
  <2> QED
    BY <1>10, <2>1, <2>3, <2>4, <2>5
<1> QED
  BY <1>6, <1>7, <1>8, <1>9, <1>10

\* The committed state a tick starts from, and how far the tick has come.
LEMMA TickSteps ==
  ASSUME G!TypeOK, NEW s \in [tick : 0..MaxU64, data : CounterData], NEW x,
         x.tick \in 0..MaxU64, x.command \in CounterCommand, NEW k \in 1..5, NEW u,
         G!Executes(s, x, k - 1, u)
  PROVE  LET r == [u[k - 1] EXCEPT !.data = PhaseData(k, x.tick, u[k - 1], x.command)]
         IN  /\ CounterAccepts("BeforeTickBegin", x.tick, s)
             /\ Midway(k, s.data, x.tick, x.command, r)
             /\ r.tick = s.tick
<1> DEFINE t == x.tick
           c == x.command
           d == s.data
           R(j) == [u[j - 1] EXCEPT !.data = PhaseData(j, t, u[j - 1], c)]
<1>1. plan = CounterPlan
  BY TypesIs
<1>2. u[0] = s /\ CounterAccepts("BeforeTickBegin", t, s)
  BY DEF G!Executes
<1>3. d \in CounterData /\ PendingCleared(d)
  BY <1>2 DEF CounterAccepts, CheckpointValid
<1>4. ASSUME NEW j \in 1..k - 1
      PROVE  u[j] = R(j)
  <2>1. LET o == CounterStep(plan[j].name, x, u[j - 1])
        IN  u[j] = [u[j - 1] EXCEPT !.data = o.data]
    BY <1>4 DEF G!Executes
  <2>2. CounterStep(CounterPlan[j].name, x, u[j - 1]) = [ok |-> TRUE, data |-> PhaseData(j, t, u[j - 1], c)]
    BY <1>4, StepIs
  <2> QED
    BY <1>1, <2>1, <2>2
<1>5. ASSUME NEW j \in 1..k, u[j - 1] \in [tick : 0..MaxU64, data : CounterData],
             u[j - 1].tick = s.tick, j = 1 => u[j - 1] = s,
             j > 1 => Midway(j - 1, d, t, c, u[j - 1])
      PROVE  /\ Midway(j, d, t, c, R(j)) /\ R(j).tick = s.tick
             /\ R(j) \in [tick : 0..MaxU64, data : CounterData]
  <2>1. Midway(j, d, t, c, R(j))
    <3>1. j \in 1..5 /\ t \in 0..MaxU64 /\ c \in CounterCommand
      OBVIOUS
    <3>2. j = 1 => u[j - 1].data = d
      BY <1>5
    <3> HIDE DEF t, c, d
    <3> QED
      BY <1>3, <1>5, <3>1, <3>2, MidwayStep
  <2> QED
    BY <1>5, <2>1 DEF Midway
<1> HIDE DEF R, t, c, d
<1>6. Midway(1, d, t, c, R(1)) /\ R(1).tick = s.tick /\ R(1) \in [tick : 0..MaxU64, data : CounterData]
  BY <1>2, <1>5
<1>7. k >= 2 => Midway(2, d, t, c, R(2)) /\ R(2).tick = s.tick
                /\ R(2) \in [tick : 0..MaxU64, data : CounterData]
  BY <1>4, <1>5, <1>6
<1>8. k >= 3 => Midway(3, d, t, c, R(3)) /\ R(3).tick = s.tick
                /\ R(3) \in [tick : 0..MaxU64, data : CounterData]
  BY <1>4, <1>5, <1>7
<1>9. k >= 4 => Midway(4, d, t, c, R(4)) /\ R(4).tick = s.tick
                /\ R(4) \in [tick : 0..MaxU64, data : CounterData]
  BY <1>4, <1>5, <1>8
<1>10. k >= 5 => Midway(5, d, t, c, R(5)) /\ R(5).tick = s.tick
  BY <1>4, <1>5, <1>9
<1>11. Midway(k, d, t, c, R(k)) /\ R(k).tick = s.tick
  BY <1>6, <1>7, <1>8, <1>9, <1>10
<1> QED
  BY <1>2, <1>11 DEF R, t, c, d

\* Once a tick has begun, a checkpoint refuses nothing but exceeded limits.
LEMMA OnlyLimits ==
  ASSUME NEW s \in [tick : 0..MaxU64, data : CounterData], NEW t \in 0..MaxU64,
         NEW c \in CounterCommand, CounterAccepts("BeforeTickBegin", t, s), NEW k \in 1..5,
         NEW r, Midway(k, s.data, t, c, r), r.tick = s.tick,
         NEW b \in G!CheckpointAfter(CounterPlan, k)
  PROVE  CounterAccepts(b, t, r) <=> WithinLimits(r.data)
<1>1. r.data \in CounterData /\ SameStore(s.data, r.data)
  BY DEF Midway
<1>2. EntityStoreValid(r.data)
  BY <1>1, StoreKept DEF CounterAccepts
<1>3. r.tick = IF t > 0 THEN t - 1 ELSE 0
  BY DEF CounterAccepts
<1>4. CASE k = 2 \/ k = 3
  <2>1. b \in {"AfterInputApplied", "AfterSimulationGroup"}
    BY <1>4, CheckpointIs
  <2>2. r.data.finalize_marker = None
    BY <1>4 DEF Midway, CleanData, DataWith
  <2>3. CheckpointValid(b, t, r)
    BY <2>1, <2>2 DEF CheckpointValid
  <2> QED
    BY <1>2, <1>3, <2>3 DEF CounterAccepts
<1>5. CASE k = 5
  <2>1. b = "AfterFinalize"
    BY <1>5, CheckpointIs
  <2>2. PendingCleared(r.data) /\ r.data.finalize_marker = Some(PreviewFinalizeMarker(t, r))
    BY <1>5 DEF Midway, PendingCleared
  <2>3. CheckpointValid(b, t, r)
    BY <2>1, <2>2 DEF CheckpointValid
  <2> QED
    BY <1>2, <1>3, <2>3 DEF CounterAccepts
<1>6. CASE k = 1 \/ k = 4
  BY <1>6, CheckpointIs
<1> QED
  BY <1>4, <1>5, <1>6

\* What a committed tick has done.
LEMMA CommittedTick ==
  ASSUME G!TypeOK, G!AtomicInv, NEW i \in 1..Len(records), i - 1 \notin splices
  PROVE  LET s == G!Committed(i - 1)
             t == records[i].tick
         IN  /\ s \in [tick : 0..MaxU64, data : CounterData]
             /\ t = G!TickSucc(s.tick) /\ t \in 0..MaxU64
             /\ CounterAccepts("BeforeTickBegin", t, s)
             /\ \E r : /\ Midway(5, s.data, t, records[i].command, r)
                       /\ WithinLimits(r.data)
                       /\ records[i].checksum = [r EXCEPT !.tick = t]
<1> DEFINE s == G!Committed(i - 1)
           c == records[i].command
           x == G!ContextAfter(s, c)
<1>1. PICK u : /\ records[i].tick = x.tick
               /\ G!Executes(s, x, Len(plan), u)
               /\ records[i].checksum = [u[Len(plan)] EXCEPT !.tick = x.tick]
  BY Assumptions, G!CommittedSteps
<1>2. /\ plan = CounterPlan /\ Len(plan) = 5 /\ Len(records) \in Nat
      /\ c \in CounterCommand /\ records[i].tick \in 0..MaxU64
  BY TypesIs
<1>3. s \in [tick : 0..MaxU64, data : CounterData]
  BY <1>2, Assumptions, G!CommittedType DEF G!Snapshot
<1>4. x.tick = G!TickSucc(s.tick) /\ x.command = c
  BY DEF G!ContextAfter
<1> HIDE DEF x, s, c
<1>5. G!Executes(s, x, 4, u)
  BY <1>1, <1>2 DEF G!Executes
<1> DEFINE r == [u[4] EXCEPT !.data = PhaseData(5, x.tick, u[4], x.command)]
<1>6. CounterAccepts("BeforeTickBegin", x.tick, s) /\ Midway(5, s.data, x.tick, c, r) /\ r.tick = s.tick
  <2> DEFINE k == 5
  <2>1. k \in 1..5 /\ k - 1 = 4 /\ x.tick \in 0..MaxU64 /\ x.command \in CounterCommand
    BY <1>1, <1>2, <1>4
  <2>2. G!Executes(s, x, k - 1, u)
    BY <1>5, <2>1
  <2> HIDE DEF k
  <2>3. LET q == [u[k - 1] EXCEPT !.data = PhaseData(k, x.tick, u[k - 1], x.command)]
        IN  CounterAccepts("BeforeTickBegin", x.tick, s) /\ Midway(k, s.data, x.tick, x.command, q)
            /\ q.tick = s.tick
    BY <1>3, <2>1, <2>2, TickSteps
  <2> QED
    BY <1>4, <2>1, <2>3 DEF k, r
<1>7. u[5] = r /\ \A b \in G!Due(G!CheckpointAfter(CounterPlan, 5)) : CounterAccepts(b, x.tick, u[5])
  <2>1. LET o == CounterStep(CounterPlan[5].name, x, u[4])
        IN  u[5] = [u[4] EXCEPT !.data = o.data]
    BY <1>1, <1>2 DEF G!Executes
  <2>2. CounterStep(CounterPlan[5].name, x, u[4]) = [ok |-> TRUE, data |-> PhaseData(5, x.tick, u[4], x.command)]
    BY StepIs
  <2>3. \A b \in G!Due(G!CheckpointAfter(CounterPlan, 5)) : CounterAccepts(b, x.tick, u[5])
    BY <1>1, <1>2 DEF G!Executes
  <2> QED
    BY <2>1, <2>2, <2>3
<1> HIDE DEF r
<1>8. "AfterFinalize" \in G!Due(G!CheckpointAfter(CounterPlan, 5))
  BY CheckpointIs DEF G!Due, G!ShouldValidate
<1>9. WithinLimits(r.data)
  BY <1>7, <1>8 DEF CounterAccepts
<1> QED
  BY <1>1, <1>2, <1>3, <1>4, <1>6, <1>7, <1>9 DEF s, c

\* What a failed tick has left.
LEMMA FailedTick ==
  ASSUME G!TypeOK, G!AtomicInv, G!Wedged, Len(records) \notin splices
  PROVE  LET s == G!Committed(Len(records))
         IN  \/ state = s /\ ~CounterAccepts("BeforeTickBegin", G!TickSucc(s.tick), s)
             \/ ~WithinLimits(state.data)
<1> DEFINE s == G!Committed(Len(records))
           c == G!The(pending).command
           x == G!ContextAfter(s, c)
<1>1. /\ plan = CounterPlan /\ Len(plan) = 5 /\ Len(records) \in Nat /\ c \in CounterCommand
  BY TypesIs
<1>2. s \in [tick : 0..MaxU64, data : CounterData] /\ s.tick \in 0..MaxU64
  BY <1>1, Assumptions, G!CommittedType DEF G!Snapshot
<1>3. x.tick = G!TickSucc(s.tick) /\ x.command = c /\ x.tick \in 0..MaxU64
  BY <1>2, Assumptions, G!TickSuccType DEF G!ContextAfter
<1>4. \/ state = s /\ ~CounterAccepts("BeforeTickBegin", x.tick, s)
      \/ \E u : \E k \in 1..Len(plan) :
           LET o == CounterStep(plan[k].name, x, u[k - 1])
           IN  /\ G!Executes(s, x, k - 1, u)
               /\ state = [u[k - 1] EXCEPT !.data = o.data]
               /\ \/ ~o.ok /\ result # "InvariantViolation"
                  \/ /\ o.ok
                     /\ \E b \in G!Due(G!CheckpointAfter(plan, k)) : ~CounterAccepts(b, x.tick, state)
  BY Assumptions, G!FailedSteps
<1> HIDE DEF x, s, c
<1>5. ASSUME NEW u, NEW k \in 1..Len(plan),
             LET o == CounterStep(plan[k].name, x, u[k - 1])
             IN  /\ G!Executes(s, x, k - 1, u)
                 /\ state = [u[k - 1] EXCEPT !.data = o.data]
                 /\ \/ ~o.ok /\ result # "InvariantViolation"
                    \/ /\ o.ok
                       /\ \E b \in G!Due(G!CheckpointAfter(plan, k)) : ~CounterAccepts(b, x.tick, state)
      PROVE  ~WithinLimits(state.data)
  <2>1. k \in 1..5
    BY <1>1
  <2>2. CounterStep(CounterPlan[k].name, x, u[k - 1])
          = [ok |-> TRUE, data |-> PhaseData(k, x.tick, u[k - 1], x.command)]
    BY <2>1, StepIs
  <2>3. /\ G!Executes(s, x, k - 1, u)
        /\ state = [u[k - 1] EXCEPT !.data = PhaseData(k, x.tick, u[k - 1], x.command)]
        /\ \E b \in G!Due(G!CheckpointAfter(CounterPlan, k)) : ~CounterAccepts(b, x.tick, state)
    BY <1>1, <1>5, <2>2
  <2>4. /\ CounterAccepts("BeforeTickBegin", x.tick, s) /\ Midway(k, s.data, x.tick, c, state)
        /\ state.tick = s.tick
    BY <1>1, <1>2, <1>3, <2>1, <2>3, TickSteps
  <2>5. PICK b \in G!CheckpointAfter(CounterPlan, k) : ~CounterAccepts(b, x.tick, state)
    BY <2>3 DEF G!Due
  <2> QED
    BY <1>1, <1>2, <1>3, <2>1, <2>4, <2>5, OnlyLimits
<1> QED
  BY <1>3, <1>4, <1>5 DEF s

\* Neither end of i64 is committed by a configuration with limits below it.
LEMMA NoSaturation ==
  ASSUME Config.max_abs_velocity < MaxI64, Config.max_abs_value + MaxByte <= MaxI64,
         NEW value \in I64, NEW velocity \in I64, NEW delta \in I64, NEW entropy \in 0..MaxByte,
         NEW v, v = SatAdd(velocity, delta), Abs(v) <= Config.max_abs_velocity,
         NEW w, w = SatAdd(SatAdd(value, v), entropy), Abs(w) <= Config.max_abs_value
  PROVE  v = velocity + delta /\ w = value + v + entropy
<1>1. /\ value \in Int /\ velocity \in Int /\ delta \in Int /\ entropy \in Nat /\ entropy <= MaxByte
      /\ Config.max_abs_velocity \in Nat /\ Config.max_abs_value \in Nat
      /\ MaxI64 \in Nat /\ MaxByte \in Nat /\ MaxByte > 0
  BY I64Type, ConfigTypes, WidthAssumption
<1>2. v \in Int /\ v = velocity + delta
  BY <1>1 DEF SatAdd, Abs
<1> DEFINE m == SatAdd(value, v)
<1>3. /\ m \in Int /\ m >= -(MaxI64 + 1) /\ m <= MaxI64
      /\ m = value + v \/ m = MaxI64 \/ m = -(MaxI64 + 1)
  BY <1>1, <1>2 DEF SatAdd
<1> HIDE DEF m
<1>4. w = SatAdd(m, entropy)
  BY DEF m
<1>5. w = m + entropy /\ m # MaxI64 /\ m # -(MaxI64 + 1)
  BY <1>1, <1>3, <1>4 DEF SatAdd, Abs
<1> QED
  BY <1>1, <1>2, <1>3, <1>5

LEMMA TailKept ==
  ASSUME NEW T, NEW p \in Seq(T), NEW q \in Seq(T), Len(q) = Len(p), Len(p) >= 1,
         \A i \in 2..Len(p) : q[i] = p[i]
  PROVE  Tail(q) = Tail(p)
<1>1. Len(p) \in Nat /\ Tail(p) \in Seq(T) /\ Tail(q) \in Seq(T)
  OBVIOUS
<1>2. Len(Tail(p)) = Len(p) - 1 /\ Len(Tail(q)) = Len(p) - 1
  OBVIOUS
<1>3. \A i \in 1..Len(p) - 1 : Tail(p)[i] = p[i + 1] /\ Tail(q)[i] = q[i + 1]
  OBVIOUS
<1>4. \A i \in 1..Len(p) - 1 : Tail(p)[i] = Tail(q)[i]
  BY <1>1, <1>3
<1> QED
  BY <1>1, <1>2, <1>4

\* What was committed could be restored.
LEMMA CommittedRestorable ==
  ASSUME G!TypeOK, StoresInv, NEW n \in 0..Len(records)
  PROVE  CounterRestorable(G!Committed(n))
<1>1. CASE n = 0
  BY <1>1, InitialData DEF G!Committed
<1>2. CASE n # 0
  <2>1. n \in 1..Len(records)
    BY <1>2, TypesIs
  <2> QED
    BY <1>2, <2>1 DEF G!Committed, StoresInv
<1> QED
  BY <1>1, <1>2

LEMMA CommittedAddsUp ==
  ASSUME G!TypeOK, G!AtomicInv, StoresInv, NEW i \in 1..Len(records), i - 1 \notin splices,
         Config.max_abs_velocity < MaxI64, Config.max_abs_value + MaxByte <= MaxI64
  PROVE  LET before  == G!Committed(i - 1).data
             after   == records[i].checksum.data
             c       == records[i].command
             entropy == Entropy(records[i].tick, c)
         IN  /\ Primary(after).velocity = Primary(before).velocity + c.delta
             /\ Primary(after).value = Primary(before).value + Primary(after).velocity + entropy
             /\ after.entropy_budget = WrapAdd(before.entropy_budget, entropy)
             /\ Tail(after.entities) = Tail(before.entities)
<1> DEFINE s == G!Committed(i - 1)
           d == s.data
           e == records[i].checksum.data
           c == records[i].command
           t == records[i].tick
           E == Entropy(t, c)
<1>1. PICK r : /\ Midway(5, d, t, c, r)
               /\ WithinLimits(r.data)
               /\ records[i].checksum = [r EXCEPT !.tick = t]
  BY CommittedTick
<1>2. s \in [tick : 0..MaxU64, data : CounterData] /\ t \in 0..MaxU64 /\ c \in CounterCommand
      /\ Len(records) \in Nat
  BY CommittedTick, TypesIs
<1>3. r \in [tick : 0..MaxU64, data : CounterData] /\ e = r.data
  BY <1>1 DEF Midway
<1>4. CounterRestorable(s)
  <2>1. i - 1 \in 0..Len(records)
    BY <1>2
  <2> QED
    BY <2>1, CommittedRestorable
<1> HIDE DEF s, c, t, E
<1>5. d \in CounterData /\ e \in CounterData /\ SameStore(d, e) /\ MovedIn(d, c.delta, E, e)
      /\ e.entropy_budget = WrapAdd(d.entropy_budget, E)
  BY <1>1, <1>2, <1>3 DEF Midway, E
<1>6. CounterRestorable(r)
  BY <1>3, <1>4, <1>5, StoreKept
<1>7. EntityStoreValid(d) /\ \A j, k \in 1..Len(d.entities) : d.entities[j].id = d.entities[k].id => j = k
  BY <1>4 DEF CounterRestorable
<1>8. EntityStoreValid(e) /\ \A j, k \in 1..Len(e.entities) : e.entities[j].id = e.entities[k].id => j = k
  BY <1>3, <1>6 DEF CounterRestorable
<1> HIDE DEF d, e
<1>9. /\ Len(d.entities) >= 1 /\ Primary(d) = d.entities[1] /\ d.entities[1] \in CounterEntitySnapshot
      /\ \A j \in 1..Len(d.entities) : d.entities[j].id = d.primary_entity <=> j = 1
  BY <1>5, <1>7, PrimaryIsFirst
<1>10. Primary(e) = e.entities[1]
  BY <1>5, <1>8, PrimaryIsFirst
<1>11. /\ d.entities \in Seq(CounterEntitySnapshot) /\ e.entities \in Seq(CounterEntitySnapshot)
       /\ Len(d.entities) \in Nat /\ Len(e.entities) = Len(d.entities)
  BY <1>5 DEF CounterData, DataWith, MovedIn
<1>12. E \in 0..MaxByte /\ E \in 0..MaxU64 /\ Masked(E) = E /\ c.delta \in I64
  BY <1>2, EntropyRange DEF CounterCommand, E
<1>13. e.entities[1] = Moved(d.entities[1], c.delta, E)
  BY <1>5, <1>9, <1>11 DEF MovedIn
<1>14. /\ e.entities[1].velocity = SatAdd(d.entities[1].velocity, c.delta)
       /\ e.entities[1].value = SatAdd(SatAdd(d.entities[1].value, e.entities[1].velocity), E)
  BY <1>9, <1>12, <1>13, MovedIs
<1>15. Abs(e.entities[1].value) <= Config.max_abs_value /\ Abs(e.entities[1].velocity) <= Config.max_abs_velocity
  BY <1>1, <1>3, <1>10 DEF WithinLimits
<1>16. d.entities[1].value \in I64 /\ d.entities[1].velocity \in I64
  BY <1>9 DEF CounterEntitySnapshot
<1>17. /\ e.entities[1].velocity = d.entities[1].velocity + c.delta
       /\ e.entities[1].value = d.entities[1].value + e.entities[1].velocity + E
  BY <1>12, <1>14, <1>15, <1>16, NoSaturation
<1>18. Tail(e.entities) = Tail(d.entities)
  <2>1. ASSUME NEW j \in 2..Len(d.entities)
        PROVE  e.entities[j] = d.entities[j]
    BY <1>5, <1>9, <1>11, <2>1 DEF MovedIn
  <2> QED
    BY <1>9, <1>11, <2>1, TailKept
<1> QED
  BY <1>5, <1>9, <1>10, <1>17, <1>18 DEF s, d, e, c, t, E

\* Without a restored snapshot, every state a tick starts from passes BeforeTickBegin but for
\* the limits and the end of the clock.
LEMMA OnlyLimitsAtStart ==
  ASSUME CounterInv, G!AtomicInv, splices = {}, WithinLimits(G!Committed(Len(records)).data),
         G!Committed(Len(records)).tick # MaxU64
  PROVE  LET s == G!Committed(Len(records))
         IN  CounterAccepts("BeforeTickBegin", G!TickSucc(s.tick), s)
<1> DEFINE n == Len(records)
           s == G!Committed(n)
<1>1. G!TypeOK /\ StoresInv /\ n \in Nat /\ records \in Seq(G!RecordType)
  BY TypesIs DEF CounterInv, DomainInv
<1>2. s \in [tick : 0..MaxU64, data : CounterData]
  BY <1>1, Assumptions, G!CommittedType DEF G!Snapshot
<1>3. EntityStoreValid(s.data)
  BY <1>1, CommittedRestorable DEF CounterRestorable
<1>4. G!TickSucc(s.tick) = s.tick + 1
  BY <1>2, WidthAssumption DEF G!TickSucc
<1>5. PendingCleared(s.data) /\ PreviousMarker(s)
  <2>1. CASE n = 0
    <3>1. s = [tick |-> 0, data |-> FromConfig]
      BY <2>1 DEF G!Committed
    <3> QED
      BY <3>1 DEF PendingCleared, PreviousMarker, FromConfig
  <2>2. CASE n # 0
    <3> DEFINE p == G!Committed(n - 1)
               t == records[n].tick
    <3>1. n \in 1..Len(records) /\ n - 1 \notin splices
      BY <1>1, <2>2
    <3>2. PICK r : /\ Midway(5, p.data, t, records[n].command, r)
                   /\ records[n].checksum = [r EXCEPT !.tick = t]
      BY <1>1, <3>1, CommittedTick
    <3>3. t = G!TickSucc(p.tick) /\ t \in 0..MaxU64 /\ p.tick \in 0..MaxU64
      BY <1>1, <3>1, CommittedTick
    <3>4. s = records[n].checksum
      BY <2>2 DEF G!Committed
    <3> HIDE DEF p, t, s, n
    <3>5. s.data = r.data /\ s.tick = t
      BY <3>2, <3>4 DEF Midway
    <3>6. PendingCleared(s.data) /\ s.data.finalize_marker # None
      <4>1. \A y : Some(y) # None
        BY DEF Some, None
      <4>2. s.data.finalize_marker = Some(PreviewFinalizeMarker(t, r))
        BY <3>2, <3>5 DEF Midway
      <4>3. s.data.pending_delta = 0 /\ s.data.pending_entropy = 0
        BY <3>2, <3>5 DEF Midway
      <4> QED
        BY <4>1, <4>2, <4>3 DEF PendingCleared
    <3>7. t # 0
      <4>1. MaxU64 \in Nat /\ MaxU64 >= 1
        BY WidthAssumption, EntitiesAssumption, ConfigTypes
      <4> QED
        BY <3>3, <4>1 DEF G!TickSucc
    <3> QED
      BY <3>5, <3>6, <3>7 DEF PreviousMarker
  <2> QED
    BY <2>1, <2>2
<1>6. s.tick \in Nat /\ s.tick + 1 > 0 /\ (s.tick + 1) - 1 = s.tick
  BY <1>2, WidthAssumption
<1> HIDE DEF s
<1>7. WithinLimits(s.data)
  BY DEF s
<1>8. CounterAccepts("BeforeTickBegin", s.tick + 1, s)
  BY <1>3, <1>5, <1>6, <1>7 DEF CounterAccepts, CheckpointValid
<1> QED
  BY <1>4, <1>8 DEF s

\* The two inductive invariants together.
LEMMA CounterInvariants == Spec => [](CounterInv /\ G!AtomicInv)
<1>1. G!Spec /\ []G!TypeOK => []G!AtomicInv
  BY Assumptions, CounterIsAFunction, G!AtomicInvariant
<1>2. CounterInv => G!TypeOK
  BY DEF CounterInv
<1> QED
  BY <1>1, <1>2, Invariant, SameSpec, PTL DEF Spec

(***************************************************************************)
(* CommittedTicksAddUp, for every width, entropy and configuration whose   *)
(* limits leave room for one more tick: no committed tick has saturated.   *)
(***************************************************************************)
THEOREM CommitsAddUp == Spec => []CommittedTicksAddUp
<1>1. CounterInv /\ G!AtomicInv => CommittedTicksAddUp
  <2> SUFFICES ASSUME CounterInv, G!AtomicInv, NEW i \in 1..Len(records), i - 1 \notin splices,
                      Config.max_abs_velocity < MaxI64, Config.max_abs_value + MaxByte <= MaxI64
               PROVE  LET before  == Engine!Committed(i - 1).data
                          after   == records[i].checksum.data
                          c       == records[i].command
                          entropy == IF c.consume_entropy THEN Masked(EntropyAt(records[i].tick)) ELSE 0
                      IN  /\ Primary(after).velocity = Primary(before).velocity + c.delta
                          /\ Primary(after).value = Primary(before).value + Primary(after).velocity + entropy
                          /\ after.entropy_budget = WrapAdd(before.entropy_budget, entropy)
                          /\ Tail(after.entities) = Tail(before.entities)
    BY DEF CommittedTicksAddUp
  <2>1. G!TypeOK /\ StoresInv
    BY DEF CounterInv, DomainInv
  <2>2. Engine!Committed(i - 1) = G!Committed(i - 1)
    BY SameCommitted
  <2> QED
    BY <2>1, <2>2, CommittedAddsUp DEF Entropy
<1> QED
  BY <1>1, CounterInvariants, PTL

(***************************************************************************)
(* HalfTickIsRefused: whatever the configuration, the policy and the       *)
(* moment a tick fails at, the half executed state is the last committed   *)
(* one or is refused at the next BeforeTickBegin.                          *)
(***************************************************************************)
THEOREM HalfTicksAreRefused == Spec => []HalfTickIsRefused
<1>1. CounterInv /\ G!AtomicInv => HalfTickIsRefused
  <2> SUFFICES ASSUME CounterInv, G!AtomicInv, Wedged, Len(records) \notin splices
               PROVE  \/ state = Engine!Committed(Len(records))
                      \/ ~CounterAccepts("BeforeTickBegin", Engine!TickSucc(state.tick), state)
    BY DEF HalfTickIsRefused
  <2>1. G!TypeOK /\ G!Wedged
    BY SameWedged DEF CounterInv, Wedged
  <2>2. state = G!Committed(Len(records)) \/ ~WithinLimits(state.data)
    BY <2>1, FailedTick
  <2> QED
    BY <2>2, SameCommitted DEF CounterAccepts
<1> QED
  BY <1>1, CounterInvariants, PTL

(***************************************************************************)
(* OnlyLimitsAreRefused: whatever happens, an engine that was not restored *)
(* fails an invariant check only because a limit is exceeded, or at the    *)
(* last tick of the clock.                                                 *)
(***************************************************************************)
THEOREM RefusalsAreLimits == Spec => []OnlyLimitsAreRefused
<1>1. CounterInv /\ G!AtomicInv => OnlyLimitsAreRefused
  <2> SUFFICES ASSUME CounterInv, G!AtomicInv, Wedged, splices = {}
               PROVE  ~WithinLimits(state.data) \/ state.tick = MaxU64
    BY DEF OnlyLimitsAreRefused
  <2>1. G!TypeOK /\ G!Wedged /\ Len(records) \notin splices
    BY SameWedged DEF CounterInv, Wedged
  <2>2. \/ /\ state = G!Committed(Len(records))
           /\ ~CounterAccepts("BeforeTickBegin", G!TickSucc(state.tick), state)
        \/ ~WithinLimits(state.data)
    BY <2>1, FailedTick
  <2> QED
    BY <2>2, OnlyLimitsAtStart
<1> QED
  BY <1>1, CounterInvariants, PTL
=============================================================================
