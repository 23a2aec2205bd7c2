---------------------- MODULE SettlementEngine_proofs -----------------------
(***************************************************************************)
(* Proofs about SettlementEngine, for every configuration, every width of  *)
(* the integers and every policy.                                          *)
(***************************************************************************)
EXTENDS SettlementEngine, TLAPS

-----------------------------------------------------------------------------
(***************************************************************************)
(* Saturating arithmetic and the configuration.                            *)
(***************************************************************************)
LEMMA ClampRange ==
  ASSUME NEW n \in Int
  PROVE  /\ Clamp(n, MaxI64) \in I64
         /\ n \in I64 => Clamp(n, MaxI64) = n
         /\ n >= 0 => Clamp(n, MaxI64) \in 0..MaxI64
         /\ n > MaxI64 => Clamp(n, MaxI64) = MaxI64
BY WidthAssumption DEF Clamp, I64

LEMMA I64Type == I64 \subseteq Int /\ 0..MaxI64 \subseteq I64 /\ MaxI64 \in Nat
BY WidthAssumption DEF I64

LEMMA SatAddRange ==
  ASSUME NEW m \in I64, NEW n \in I64
  PROVE  /\ SatAdd(m, n) \in I64
         /\ m + n \in I64 => SatAdd(m, n) = m + n
         /\ m + n >= 0 => SatAdd(m, n) \in 0..MaxI64
         /\ m + n > MaxI64 => SatAdd(m, n) = MaxI64
<1>1. m + n \in Int
  BY I64Type
<1> QED
  BY <1>1, ClampRange DEF SatAdd

\* Adding an amount to a total neither of which is negative.
LEMMA SatAddCounts ==
  ASSUME NEW m \in 0..MaxI64, NEW n \in 0..MaxI64
  PROVE  /\ SatAdd(m, n) \in 0..MaxI64
         /\ m + n <= MaxI64 => SatAdd(m, n) = m + n
         /\ SatAdd(m, n) < MaxI64 => SatAdd(m, n) = m + n
BY WidthAssumption DEF SatAdd, Clamp

LEMMA SatSubRange ==
  ASSUME NEW m \in I64, NEW n \in I64
  PROVE  /\ SatSub(m, n) \in I64
         /\ m - n \in I64 => SatSub(m, n) = m - n
         /\ m - n >= 0 => SatSub(m, n) \in 0..MaxI64
<1>1. m - n \in Int
  BY I64Type
<1> QED
  BY <1>1, ClampRange DEF SatSub

LEMMA SatMulRange ==
  ASSUME NEW m \in Nat, NEW n \in Nat
  PROVE  SatMul(m, n) \in 0..MaxI64
<1>1. m * n \in Nat
  OBVIOUS
<1> QED
  BY <1>1, ClampRange DEF SatMul

LEMMA ConfigTypes ==
  /\ Config.population \in 0..MaxU32
  /\ Config.initial_allocation \in WorkerAllocation
  /\ \A r \in Resource : Config.initial[r] \in 0..MaxI64 /\ Config.yield[r] \in 0..MaxI64
  /\ Config.food_consumption_per_worker \in 0..MaxI64
  /\ Config.wood_consumption_per_tick \in 0..MaxI64
BY ConfigAssumption, WidthAssumption DEF ValidConfig

-----------------------------------------------------------------------------
(***************************************************************************)
(* What each phase does to the types of the data, and to the books: what   *)
(* is in store is what there was, plus what was produced, minus what was   *)
(* consumed, until a total saturates.  A total that has saturated stays    *)
(* so, because nothing negative is ever produced.                          *)
(***************************************************************************)
Books(d) ==
  /\ Conserved(d)
  /\ \A r \in Resource :
       /\ d.inventory[r] >= 0
       /\ d.cumulative_production[r] >= 0
       /\ d.cumulative_consumption[r] >= 0

LEMMA MarkerTypes ==
  /\ None \in Option(Marker)
  /\ \A d \in SettlementData : d.finalize_marker = None => d \in DataWith({None})
  /\ \A d \in DataWith({None}) : d \in SettlementData
<1>1. None \in Option(Marker)
  BY DEF None, Option
<1> QED
  BY <1>1 DEF SettlementData, DataWith

LEMMA InitialData ==
  FromConfig \in SettlementData /\ FromConfig.finalize_marker = None /\ Books(FromConfig)
<1>1. None \in Option(Marker)
  BY DEF None, Option
<1>2. Config.initial \in [Resource -> I64] /\ Zero \in [Resource -> I64]
  BY ConfigAssumption, WidthAssumption DEF ValidConfig, I64, Zero
<1>3. NoWorkers \in WorkerAllocation
  BY WidthAssumption DEF NoWorkers, WorkerAllocation
<1>4. {} \in SUBSET Resource /\ 0 \in 0..MaxTick /\ FALSE \in BOOLEAN
  BY WidthAssumption
<1>5. FromConfig \in SettlementData
  BY <1>1, <1>2, <1>3, <1>4, ConfigTypes DEF FromConfig, SettlementData, DataWith
<1>6. Books(FromConfig)
  BY ConfigTypes, I64Type DEF FromConfig, Zero, Books, Conserved
<1> QED
  BY <1>5, <1>6 DEF FromConfig

LEMMA ResetKeeps ==
  ASSUME NEW d \in SettlementData, Books(d)
  PROVE  /\ ResetFinalizeMarker(d) \in DataWith({None})
         /\ Books(ResetFinalizeMarker(d))
<1>1. ResetFinalizeMarker(d) \in DataWith({None})
  BY DEF ResetFinalizeMarker, SettlementData, DataWith
<1>2. Books(ResetFinalizeMarker(d))
  BY DEF ResetFinalizeMarker, SettlementData, DataWith, Books, Conserved
<1> QED
  BY <1>1, <1>2

LEMMA StageKeeps ==
  ASSUME NEW d \in DataWith({None}), Books(d), NEW a \in WorkerAllocation
  PROVE  /\ StageAllocation(d, a) \in DataWith({None})
         /\ Books(StageAllocation(d, a))
<1>1. StageAllocation(d, a) \in DataWith({None})
  BY DEF StageAllocation, DataWith
<1>2. Books(StageAllocation(d, a))
  BY DEF StageAllocation, DataWith, Books, Conserved
<1> QED
  BY <1>1, <1>2

LEMMA ApplyKeeps ==
  ASSUME NEW d \in DataWith({None}), Books(d)
  PROVE  /\ ApplyPendingAllocation(d) \in DataWith({None})
         /\ Books(ApplyPendingAllocation(d))
<1>1. NoWorkers \in WorkerAllocation
  BY WidthAssumption DEF NoWorkers, WorkerAllocation
<1>2. ApplyPendingAllocation(d) \in DataWith({None})
  BY <1>1 DEF ApplyPendingAllocation, DataWith
<1>3. Books(ApplyPendingAllocation(d))
  BY DEF ApplyPendingAllocation, DataWith, Books, Conserved
<1> QED
  BY <1>2, <1>3

LEMMA WorkersRange ==
  ASSUME NEW a \in WorkerAllocation, NEW r \in Resource
  PROVE  Workers(a)[r] \in Nat
<1>1. a.farmers \in Nat /\ a.loggers \in Nat
  BY WidthAssumption DEF WorkerAllocation
<1>2. r = "Food" \/ r = "Wood"
  BY DEF Resource
<1>3. Workers(a)["Food"] = a.farmers /\ Workers(a)["Wood"] = a.loggers
  BY DEF Workers
<1> QED
  BY <1>1, <1>2, <1>3

LEMMA ProduceKeeps ==
  ASSUME NEW d \in DataWith({None}), Books(d)
  PROVE  Produce(d) \in DataWith({None}) /\ Books(Produce(d))
<1> DEFINE produced  == [r \in Resource |-> SatMul(Workers(d.current_allocation)[r], Config.yield[r])]
           inventory == [r \in Resource |-> SatAdd(d.inventory[r], produced[r])]
           total     == [r \in Resource |-> SatAdd(d.cumulative_production[r], produced[r])]
<1>1. \A r \in Resource : produced[r] \in 0..MaxI64
  <2> SUFFICES ASSUME NEW r \in Resource PROVE produced[r] \in 0..MaxI64
    OBVIOUS
  <2>1. Workers(d.current_allocation)[r] \in Nat
    BY WorkersRange DEF DataWith
  <2>2. Config.yield[r] \in Nat
    BY ConfigTypes, I64Type
  <2>3. SatMul(Workers(d.current_allocation)[r], Config.yield[r]) \in 0..MaxI64
    BY <2>1, <2>2, SatMulRange
  <2> QED
    BY <2>3
<1>2. ASSUME NEW r \in Resource
      PROVE  /\ d.inventory[r] \in 0..MaxI64
             /\ d.cumulative_production[r] \in 0..MaxI64
             /\ d.cumulative_consumption[r] \in 0..MaxI64
  BY WidthAssumption DEF DataWith, Books, I64
<1>3. Produce(d) = [d EXCEPT !.last_production = produced,
                             !.inventory = inventory,
                             !.cumulative_production = total]
  BY DEF Produce, DataWith
<1>4. /\ DOMAIN produced = Resource /\ produced = [r \in Resource |-> produced[r]]
      /\ inventory = [r \in Resource |-> SatAdd(d.inventory[r], produced[r])]
      /\ total = [r \in Resource |-> SatAdd(d.cumulative_production[r], produced[r])]
  OBVIOUS
<1> HIDE DEF produced, inventory, total
<1>5. ASSUME NEW r \in Resource
      PROVE  /\ inventory[r] = SatAdd(d.inventory[r], produced[r])
             /\ total[r] = SatAdd(d.cumulative_production[r], produced[r])
             /\ inventory[r] \in 0..MaxI64
             /\ total[r] \in 0..MaxI64
             /\ d.inventory[r] + produced[r] <= MaxI64 =>
                  inventory[r] = d.inventory[r] + produced[r]
             /\ total[r] < MaxI64 => total[r] = d.cumulative_production[r] + produced[r]
  <2>1. inventory[r] = SatAdd(d.inventory[r], produced[r])
    BY <1>4
  <2>2. total[r] = SatAdd(d.cumulative_production[r], produced[r])
    BY <1>4
  <2>3. produced[r] \in 0..MaxI64
    BY <1>1
  <2> QED
    BY <1>2, <2>1, <2>2, <2>3, SatAddCounts
<1>6. Produce(d) \in DataWith({None})
  <2>1. produced \in [Resource -> I64]
    BY <1>1, <1>4, I64Type
  <2>2. inventory \in [Resource -> I64] /\ total \in [Resource -> I64]
    BY <1>4, <1>5, I64Type
  <2> QED
    BY <1>3, <2>1, <2>2 DEF DataWith
<1>7. /\ Produce(d).inventory = inventory
      /\ Produce(d).cumulative_production = total
      /\ Produce(d).cumulative_consumption = d.cumulative_consumption
  BY <1>3 DEF DataWith
<1>8. ASSUME NEW r \in Resource, Config.initial[r] + total[r] < MaxI64
      PROVE  inventory[r] = Config.initial[r] + total[r] - d.cumulative_consumption[r]
  <2>1. Config.initial[r] \in 0..MaxI64 /\ produced[r] \in 0..MaxI64
    BY <1>1, ConfigTypes
  <2>2. total[r] \in 0..MaxI64 /\ total[r] < MaxI64
    BY <1>5, <1>8, <2>1, WidthAssumption
  <2>3. total[r] = d.cumulative_production[r] + produced[r]
    BY <1>5, <2>2
  <2>4. d.inventory[r] = Config.initial[r] + d.cumulative_production[r] - d.cumulative_consumption[r]
    BY <1>2, <1>8, <2>1, <2>3, WidthAssumption DEF Books, Conserved
  <2>5. d.inventory[r] + produced[r] <= MaxI64
    BY <1>2, <1>8, <2>1, <2>3, <2>4, WidthAssumption
  <2> QED
    BY <1>2, <1>5, <2>1, <2>3, <2>4, <2>5, WidthAssumption
<1>9. Books(Produce(d))
  <2>1. ASSUME NEW r \in Resource PROVE inventory[r] >= 0 /\ total[r] >= 0
                                        /\ d.cumulative_consumption[r] >= 0
    BY <1>2, <1>5, WidthAssumption
  <2> QED
    BY <1>7, <1>8, <2>1 DEF Books, Conserved
<1> QED
  BY <1>6, <1>9

LEMMA RequiredRange ==
  ASSUME NEW population \in Nat, NEW r \in Resource
  PROVE  Required(population)[r] \in 0..MaxI64
<1>1. r = "Food" \/ r = "Wood"
  BY DEF Resource
<1>2. Config.food_consumption_per_worker \in Nat
  BY ConfigTypes, I64Type
<1>3. SatMul(population, Config.food_consumption_per_worker) \in 0..MaxI64
  BY <1>2, SatMulRange
<1>4. /\ Required(population)["Food"] = SatMul(population, Config.food_consumption_per_worker)
      /\ Required(population)["Wood"] = Config.wood_consumption_per_tick
  BY DEF Required
<1> QED
  BY <1>1, <1>3, <1>4, ConfigTypes

LEMMA ConsumeKeeps ==
  ASSUME NEW d \in DataWith({None}), Books(d)
  PROVE  Consume(d) \in DataWith({None}) /\ Books(Consume(d))
<1> DEFINE required  == Required(d.population)
           actual    == [r \in Resource |->
                           IF d.inventory[r] < required[r] THEN d.inventory[r] ELSE required[r]]
           shortage  == [r \in Resource |-> SatSub(required[r], actual[r])]
           inventory == [r \in Resource |-> SatSub(d.inventory[r], actual[r])]
           consumed  == [r \in Resource |-> SatAdd(d.cumulative_consumption[r], actual[r])]
           short     == [r \in Resource |-> SatAdd(d.cumulative_shortage[r], shortage[r])]
<1>1. ASSUME NEW r \in Resource
      PROVE  required[r] \in 0..MaxI64
  <2>1. d.population \in Nat
    BY WidthAssumption DEF DataWith
  <2> QED
    BY <2>1, RequiredRange
<1>2. ASSUME NEW r \in Resource
      PROVE  /\ d.inventory[r] \in 0..MaxI64
             /\ d.cumulative_production[r] \in 0..MaxI64
             /\ d.cumulative_consumption[r] \in 0..MaxI64
             /\ d.cumulative_shortage[r] \in I64
  BY WidthAssumption DEF DataWith, Books, I64
<1>3. Consume(d) = [d EXCEPT !.inventory = inventory,
                             !.last_shortage = shortage,
                             !.last_consumption = actual,
                             !.cumulative_consumption = consumed,
                             !.cumulative_shortage = short]
  BY DEF Consume, DataWith
<1>4. ASSUME NEW r \in Resource
      PROVE  /\ actual[r] = IF d.inventory[r] < required[r] THEN d.inventory[r] ELSE required[r]
             /\ shortage[r] = SatSub(required[r], actual[r])
             /\ inventory[r] = SatSub(d.inventory[r], actual[r])
             /\ consumed[r] = SatAdd(d.cumulative_consumption[r], actual[r])
             /\ short[r] = SatAdd(d.cumulative_shortage[r], shortage[r])
  OBVIOUS
<1>5. /\ actual = [r \in Resource |-> actual[r]]
      /\ shortage = [r \in Resource |-> shortage[r]]
      /\ inventory = [r \in Resource |-> inventory[r]]
      /\ consumed = [r \in Resource |-> consumed[r]]
      /\ short = [r \in Resource |-> short[r]]
  OBVIOUS
<1> HIDE DEF required, actual, shortage, inventory, consumed, short
<1>6. ASSUME NEW r \in Resource
      PROVE  /\ actual[r] \in 0..MaxI64
             /\ actual[r] <= d.inventory[r]
             /\ actual[r] <= required[r]
  BY <1>1, <1>2, <1>4, WidthAssumption
<1>7. ASSUME NEW r \in Resource
      PROVE  inventory[r] = d.inventory[r] - actual[r] /\ inventory[r] \in 0..MaxI64
  <2>1. d.inventory[r] - actual[r] \in 0..MaxI64
    BY <1>2, <1>6, WidthAssumption
  <2>2. d.inventory[r] \in I64 /\ actual[r] \in I64
    BY <1>2, <1>6, I64Type
  <2> QED
    BY <1>4, <2>1, <2>2, SatSubRange, I64Type
<1>8. ASSUME NEW r \in Resource
      PROVE  shortage[r] \in I64 /\ short[r] \in I64
  <2>1. required[r] \in I64 /\ actual[r] \in I64
    BY <1>1, <1>6, I64Type
  <2>2. shortage[r] \in I64
    BY <1>4, <2>1, SatSubRange
  <2> QED
    BY <1>2, <1>4, <2>2, SatAddRange
<1>9. ASSUME NEW r \in Resource
      PROVE  /\ consumed[r] \in 0..MaxI64
             /\ d.cumulative_consumption[r] + actual[r] <= MaxI64 =>
                  consumed[r] = d.cumulative_consumption[r] + actual[r]
  BY <1>2, <1>4, <1>6, SatAddCounts
<1>10. Consume(d) \in DataWith({None})
  <2>1. actual \in [Resource -> I64] /\ shortage \in [Resource -> I64]
    BY <1>5, <1>6, <1>8, I64Type
  <2>2. inventory \in [Resource -> I64] /\ consumed \in [Resource -> I64] /\ short \in [Resource -> I64]
    BY <1>5, <1>7, <1>8, <1>9, I64Type
  <2> QED
    BY <1>3, <2>1, <2>2 DEF DataWith
<1>11. /\ Consume(d).inventory = inventory
       /\ Consume(d).cumulative_production = d.cumulative_production
       /\ Consume(d).cumulative_consumption = consumed
  BY <1>3 DEF DataWith
<1>12. ASSUME NEW r \in Resource, Config.initial[r] + d.cumulative_production[r] < MaxI64
       PROVE  inventory[r] = Config.initial[r] + d.cumulative_production[r] - consumed[r]
  <2>1. d.inventory[r] = Config.initial[r] + d.cumulative_production[r] - d.cumulative_consumption[r]
    BY <1>12 DEF Books, Conserved
  <2>2. Config.initial[r] \in 0..MaxI64
    BY ConfigTypes
  <2>3. d.cumulative_consumption[r] + actual[r] <= MaxI64
    BY <1>2, <1>6, <1>12, <2>1, <2>2, WidthAssumption
  <2> QED
    BY <1>2, <1>6, <1>7, <1>9, <2>1, <2>2, <2>3, WidthAssumption
<1>13. Books(Consume(d))
  <2>1. ASSUME NEW r \in Resource
        PROVE  inventory[r] >= 0 /\ d.cumulative_production[r] >= 0 /\ consumed[r] >= 0
    BY <1>2, <1>7, <1>9, WidthAssumption
  <2> QED
    BY <1>11, <1>12, <2>1 DEF Books, Conserved
<1> QED
  BY <1>10, <1>13

LEMMA ResolveKeeps ==
  ASSUME NEW d \in DataWith({None}), Books(d)
  PROVE  ResolveShortage(d) \in DataWith({None}) /\ Books(ResolveShortage(d))
<1> DEFINE status == StatusOf(d.last_shortage)
           ticks  == IF status # {} /\ d.shortage_ticks < MaxTick THEN d.shortage_ticks + 1
                     ELSE d.shortage_ticks
<1>1. status \in SUBSET Resource
  BY DEF StatusOf
<1>2. ticks \in 0..MaxTick
  BY WidthAssumption DEF DataWith
<1>3. ResolveShortage(d) = [d EXCEPT !.last_status = status, !.shortage_ticks = ticks]
  BY DEF ResolveShortage, DataWith
<1> HIDE DEF status, ticks
<1>4. ResolveShortage(d) \in DataWith({None})
  BY <1>1, <1>2, <1>3 DEF DataWith
<1>5. Books(ResolveShortage(d))
  BY <1>3 DEF DataWith, Books, Conserved
<1> QED
  BY <1>4, <1>5

\* The marker is a hash of a state without one, so it can only be taken of such a state.
LEMMA FinalizeKeeps ==
  ASSUME NEW t \in 0..MaxTick, NEW s \in [tick : 0..MaxTick, data : DataWith({None})], Books(s.data)
  PROVE  Finalize(t, s) \in SettlementData /\ Books(Finalize(t, s))
<1>1. MarkerOf(t, s) \in Marker
  BY DEF MarkerOf, Marker
<1>2. Some(MarkerOf(t, s)) \in Option(Marker)
  BY <1>1 DEF Some, Option
<1> DEFINE m == Some(MarkerOf(t, s))
<1>3. Finalize(t, s) = [s.data EXCEPT !.finalize_marker = m]
  BY DEF Finalize
<1> HIDE DEF m
<1>4. m \in Option(Marker)
  BY <1>2 DEF m
<1>5. Finalize(t, s) \in SettlementData
  BY <1>3, <1>4 DEF SettlementData, DataWith
<1>6. Books(Finalize(t, s))
  BY <1>3 DEF DataWith, Books, Conserved
<1> QED
  BY <1>5, <1>6

-----------------------------------------------------------------------------
(***************************************************************************)
(* The plan, and what its n-th phase does.                                 *)
(***************************************************************************)
LEMMA PlanIs ==
  /\ SettlementPlan[1].name = "reset_settlement_finalize_marker"
  /\ SettlementPlan[2].name = "stage_settlement_command"
  /\ SettlementPlan[3].name = "apply_settlement_allocation"
  /\ SettlementPlan[4].name = "settlement_production"
  /\ SettlementPlan[5].name = "settlement_consumption"
  /\ SettlementPlan[6].name = "resolve_settlement_status"
  /\ SettlementPlan[7].name = "finalize_settlement"
BY DEF SettlementPlan, SettlementPhases

LEMMA PlanType ==
  /\ SettlementPlan \in Seq(Engine!Descriptor)
  /\ Len(SettlementPlan) = 7
  /\ \A i \in 1..7 : SettlementPlan[i] \in Engine!Descriptor
<1>1. {"PreInput", "Input", "Simulation", "Finalize"} \subseteq Engine!PhaseGroup
  BY DEF Engine!PhaseGroup, Engine!AllGroups
<1>2. \A i \in 1..7 : SettlementPhases[i][1] \in {"PreInput", "Input", "Simulation", "Finalize"}
  BY DEF SettlementPhases
<1>3. ASSUME NEW i \in 1..7
      PROVE  SettlementPlan[i] \in Engine!Descriptor
  <2>1. SettlementPlan[i] = [ordinal |-> i - 1, group |-> SettlementPhases[i][1],
                             name |-> SettlementPhases[i][2]]
    BY DEF SettlementPlan
  <2>2. i - 1 \in Nat /\ SettlementPhases[i][1] \in Engine!PhaseGroup
    BY <1>1, <1>2
  <2> QED
    BY <2>1, <2>2 DEF Engine!Descriptor
<1>4. SettlementPlan = [i \in 1..7 |-> SettlementPlan[i]]
  BY DEF SettlementPlan
<1> QED
  BY <1>3, <1>4

LEMMA StageCommandKeeps ==
  ASSUME NEW d \in DataWith({None}), Books(d), NEW c \in SettlementCommand
  PROVE  StageCommand(d, c).data \in DataWith({None}) /\ Books(StageCommand(d, c).data)
<1>1. NoWorkers \in WorkerAllocation
  BY WidthAssumption DEF NoWorkers, WorkerAllocation
<1>2. c.allocation \in WorkerAllocation
  BY <1>1 DEF SettlementCommand
<1>3. StageAllocation(d, c.allocation) \in DataWith({None}) /\ Books(StageAllocation(d, c.allocation))
  BY <1>2, StageKeeps
<1>4. StageCommand(d, c).data \in {d, StageAllocation(d, c.allocation)}
  BY DEF StageCommand, Done, Failed
<1> QED
  BY <1>3, <1>4

\* The reset finds any marker; every later phase relies on it and finds none.
LEMMA PhaseKeeps ==
  ASSUME NEW n \in 1..7, NEW t \in 0..MaxTick, NEW c \in SettlementCommand,
         NEW s \in [tick : 0..MaxTick, data : SettlementData],
         Books(s.data),
         n > 1 => s.data.finalize_marker = None,
         NEW o \in RunSettlementPhase(SettlementPlan[n].name, t, s, c)
  PROVE  /\ o.data \in SettlementData
         /\ Books(o.data)
         /\ n < 7 => o.data.finalize_marker = None
<1> DEFINE d == s.data
<1>1. d \in SettlementData /\ Books(d)
  OBVIOUS
<1>2. n > 1 => d \in DataWith({None})
  BY <1>1, MarkerTypes
<1>3. ASSUME NEW e \in DataWith({None})
      PROVE  e \in SettlementData /\ e.finalize_marker = None
  BY MarkerTypes DEF DataWith
<1>4. CASE n = 1
  <2>1. o = Done(ResetFinalizeMarker(d))
    BY <1>4, PlanIs DEF RunSettlementPhase
  <2>2. o.data = ResetFinalizeMarker(d)
    BY <2>1 DEF Done
  <2> QED
    BY <1>1, <1>3, <2>2, ResetKeeps
<1>5. CASE n = 2
  <2>1. o = StageCommand(d, c)
    BY <1>5, PlanIs DEF RunSettlementPhase
  <2> QED
    BY <1>1, <1>2, <1>3, <1>5, <2>1, StageCommandKeeps
<1>6. CASE n = 3
  <2>1. o = Done(ApplyPendingAllocation(d))
    BY <1>6, PlanIs DEF RunSettlementPhase
  <2>2. o.data = ApplyPendingAllocation(d)
    BY <2>1 DEF Done
  <2>3. ApplyPendingAllocation(d) \in DataWith({None}) /\ Books(ApplyPendingAllocation(d))
    BY <1>1, <1>2, <1>6, ApplyKeeps
  <2> QED
    BY <1>3, <2>2, <2>3
<1>7. CASE n = 4
  <2>1. o = Done(Produce(d))
    BY <1>7, PlanIs DEF RunSettlementPhase
  <2>2. o.data = Produce(d)
    BY <2>1 DEF Done
  <2>3. Produce(d) \in DataWith({None}) /\ Books(Produce(d))
    BY <1>1, <1>2, <1>7, ProduceKeeps
  <2> QED
    BY <1>3, <2>2, <2>3
<1>8. CASE n = 5
  <2>1. o = Done(Consume(d))
    BY <1>8, PlanIs DEF RunSettlementPhase
  <2>2. o.data = Consume(d)
    BY <2>1 DEF Done
  <2>3. Consume(d) \in DataWith({None}) /\ Books(Consume(d))
    BY <1>1, <1>2, <1>8, ConsumeKeeps
  <2> QED
    BY <1>3, <2>2, <2>3
<1>9. CASE n = 6
  <2>1. o = Done(ResolveShortage(d))
    BY <1>9, PlanIs DEF RunSettlementPhase
  <2>2. o.data = ResolveShortage(d)
    BY <2>1 DEF Done
  <2>3. ResolveShortage(d) \in DataWith({None}) /\ Books(ResolveShortage(d))
    BY <1>1, <1>2, <1>9, ResolveKeeps
  <2> QED
    BY <1>3, <2>2, <2>3
<1>10. CASE n = 7
  <2>1. o = Done(Finalize(t, s))
    BY <1>10, PlanIs DEF RunSettlementPhase
  <2>2. o.data = Finalize(t, s)
    BY <2>1 DEF Done
  <2>3. s \in [tick : 0..MaxTick, data : DataWith({None})]
    BY <1>2, <1>10
  <2> QED
    BY <1>1, <1>10, <2>2, <2>3, FinalizeKeeps
<1> QED
  BY <1>4, <1>5, <1>6, <1>7, <1>8, <1>9, <1>10

-----------------------------------------------------------------------------
(***************************************************************************)
(* The inductive invariant.  DeterministicEngine assumes of a domain that  *)
(* every phase keeps every well typed state well typed.  The settlement's  *)
(* last phase does not: run on a state with a marker it would take the     *)
(* hash of a hash.  What saves it is that the first phase of the same tick *)
(* has reset the marker and that no phase in between sets one, so the      *)
(* types are proved together with that fact.                               *)
(***************************************************************************)
MarkerReset ==
  /\ pc = "phases" /\ cursor \in 2..7 => state.data.finalize_marker = None
  /\ pc # "phases" => cursor = 1

\* Every state a later restore may bring back has the books that the present one has.
BooksKept ==
  /\ Books(state.data)
  /\ held # None => Conserved(Engine!The(held).data)
  /\ \A i \in 1..Len(records) :
       records[i].snapshot # None => Conserved(Engine!The(records[i].snapshot).data)

IInv == TypeOK /\ MarkerReset /\ BooksKept

LEMMA NoneType ==
  ASSUME NEW S
  PROVE  Engine!None \in Engine!Option(S) /\ Engine!None = None
BY DEF Engine!None, Engine!Option, None

LEMMA SomeType ==
  ASSUME NEW S, NEW x \in S
  PROVE  /\ Engine!Some(x) \in Engine!Option(S)
         /\ Engine!Some(x) # None
         /\ Engine!The(Engine!Some(x)) = x
BY DEF None, Engine!Some, Engine!The, Engine!Option

LEMMA TheType ==
  ASSUME NEW S, NEW o \in Engine!Option(S), o # None
  PROVE  Engine!The(o) \in S
<1>1. o \in Seq(S) /\ Len(o) <= 1 /\ o # <<>>
  BY DEF Engine!Option, None
<1>2. Len(o) \in Nat /\ (Len(o) = 0 => o = <<>>)
  BY <1>1
<1> DEFINE n == Len(o)
<1>3. n \in Nat /\ n <= 1 /\ n # 0
  BY <1>1, <1>2
<1> HIDE DEF n
<1>4. n = 1
  BY <1>3
<1> QED
  BY <1>1, <1>4 DEF Engine!The, n

LEMMA CheckpointAfterType ==
  ASSUME NEW p, NEW i
  PROVE  Engine!CheckpointAfter(p, i) \subseteq Engine!Checkpoints
BY DEF Engine!CheckpointAfter, Engine!Checkpoints

LEMMA WithSummariesType ==
  ASSUME NEW p \in Engine!PendingType, NEW cs \in SUBSET Engine!Checkpoints,
         NEW s \in Engine!Snapshot
  PROVE  Engine!WithSummaries(p, cs, s) \in Engine!PendingType
<1>1. CASE cs = {}
  BY <1>1 DEF Engine!WithSummaries
<1>2. CASE cs # {}
  <2> DEFINE c == CHOOSE c \in cs : TRUE
  <2>1. c \in Engine!Checkpoints
    BY <1>2
  <2>2. Engine!Summary(c, s) \in Engine!SummaryType
    BY <2>1 DEF Engine!Summary, Engine!SummaryType, Engine!Snapshot
  <2>3. Append(p.validation_summaries, Engine!Summary(c, s)) \in Seq(Engine!SummaryType)
    BY <2>2 DEF Engine!PendingType
  <2> QED
    BY <1>2, <2>3 DEF Engine!WithSummaries, Engine!PendingType
<1> QED
  BY <1>1, <1>2

LEMMA PlanVariable == ASSUME TypeOK PROVE plan = SettlementPlan /\ Len(plan) = 7
BY PlanType DEF TypeOK, Engine!TypeOK

LEMMA InvInit == Engine!Init => IInv
<1> SUFFICES ASSUME Engine!Init
             PROVE  IInv
  OBVIOUS
<1>1. /\ plan = SettlementPlan /\ Len(plan) = 7 /\ cursor = 1 /\ pc = "idle"
      /\ state = [tick |-> 0, data |-> FromConfig] /\ records = <<>>
      /\ held = None /\ pending = None
  BY PlanType, NoneType DEF Engine!Init
<1>2. state \in Engine!Snapshot
  BY <1>1, InitialData, WidthAssumption DEF Engine!Snapshot
<1>3. pending \in Engine!Option(Engine!PendingType) /\ held \in Engine!Option(Engine!Snapshot)
  BY <1>1, NoneType
<1>4. TypeOK
  BY <1>1, <1>2, <1>3 DEF Engine!Init, TypeOK, Engine!TypeOK
<1>5. BooksKept
  BY <1>1, InitialData DEF BooksKept
<1> QED
  BY <1>1, <1>4, <1>5 DEF IInv, MarkerReset

\* What the host can restore is well typed and has kept its books; what the
\* engine accepts of it has no negative stock or total either.
LEMMA RestoredKeeps ==
  ASSUME IInv, NEW s \in Engine!HostSnapshots
  PROVE  /\ s \in Engine!Snapshot
         /\ SettlementRestorable(s) => Books(s.data)
<1>1. s \in Engine!Snapshot /\ Conserved(s.data)
  <2>1. CASE s \in Imported
    BY <2>1, ImportedAssumption DEF Engine!Snapshot
  <2>2. CASE s \notin Imported
    <3>1. PICK o \in ({held} \cup {records[i].snapshot : i \in 1..Len(records)}) \ {Engine!None} :
            s = Engine!The(o)
      BY <2>2 DEF Engine!HostSnapshots
    <3>2. o # None
      BY <3>1 DEF Engine!None, None
    <3>3. \A i \in 1..Len(records) : records[i].snapshot \in Engine!Option(Engine!Snapshot)
      <4>1. records \in Seq(Engine!RecordType)
        BY DEF IInv, TypeOK, Engine!TypeOK
      <4>2. \A i \in 1..Len(records) : records[i] \in Engine!RecordType
        BY <4>1
      <4> QED
        BY <4>2 DEF Engine!RecordType
    <3>4. o \in Engine!Option(Engine!Snapshot)
      BY <3>1, <3>3 DEF IInv, TypeOK, Engine!TypeOK
    <3>5. Conserved(Engine!The(o).data)
      BY <3>1, <3>2 DEF IInv, BooksKept
    <3> QED
      BY <3>1, <3>2, <3>4, <3>5, TheType
  <2> QED
    BY <2>1, <2>2
<1>2. ASSUME SettlementRestorable(s)
      PROVE  Books(s.data)
  BY <1>1, <1>2 DEF SettlementRestorable, NonNegativeMetrics, Books
<1> QED
  BY <1>1, <1>2

\* Steps that leave the state and the snapshots as they are.
LEMMA BooksUntouched ==
  ASSUME BooksKept, UNCHANGED <<state, records, held>>
  PROVE  BooksKept'
BY DEF BooksKept

LEMMA InvBeginTick ==
  ASSUME IInv, NEW f \in Engine!Frame, Engine!BeginTick(f)
  PROVE  IInv'
<1>1. Engine!PendingRecord(f) \in Engine!PendingType
  BY DEF Engine!Frame, Engine!PendingType, Engine!PendingRecord
<1>2. pending' \in Engine!Option(Engine!PendingType) /\ pending' # Engine!None
  BY <1>1, SomeType, NoneType DEF Engine!BeginTick
<1>3. TypeOK'
  BY <1>2 DEF IInv, Engine!BeginTick, TypeOK, Engine!TypeOK, Engine!configuration
<1>4. BooksKept'
  BY BooksUntouched DEF IInv, Engine!BeginTick
<1> QED
  BY <1>3, <1>4 DEF IInv, MarkerReset, Engine!BeginTick

LEMMA InvValidateBeforeTick ==
  ASSUME IInv, Engine!ValidateBeforeTick
  PROVE  IInv'
<1> DEFINE due == Engine!Due({"BeforeTickBegin"})
<1>1. pending # None /\ Engine!The(pending) \in Engine!PendingType
  BY TheType, NoneType DEF IInv, TypeOK, Engine!TypeOK, Engine!ValidateBeforeTick
<1>2. due \in SUBSET Engine!Checkpoints
  BY DEF Engine!Due, Engine!Checkpoints
<1>3. Engine!WithSummaries(Engine!The(pending), due, state) \in Engine!PendingType
  BY <1>1, <1>2, WithSummariesType DEF IInv, TypeOK, Engine!TypeOK
<1>4. pending' \in Engine!Option(Engine!PendingType) /\ pending' # Engine!None
  BY <1>1, <1>3, SomeType, NoneType DEF Engine!ValidateBeforeTick, IInv, TypeOK, Engine!TypeOK
<1>5. Len(plan) = 7
  BY PlanVariable DEF IInv
<1>6. TypeOK'
  BY <1>4, <1>5 DEF IInv, Engine!ValidateBeforeTick, Engine!ReturnError, TypeOK, Engine!TypeOK,
                    Engine!configuration
<1>7. BooksKept'
  BY BooksUntouched DEF IInv, Engine!ValidateBeforeTick
<1>8. cursor' = 1
  BY DEF IInv, MarkerReset, Engine!ValidateBeforeTick, Engine!ReturnError
<1> QED
  BY <1>6, <1>7, <1>8 DEF IInv, MarkerReset

LEMMA InvRunPhase ==
  ASSUME IInv, Engine!RunPhase
  PROVE  IInv'
<1> DEFINE p == [Engine!The(pending) EXCEPT !.phase_markers = Append(@, plan[cursor])]
<1>1. PICK o \in RunSettlementPhase(plan[cursor].name, p.tick, state, p.command) :
        LET s   == [state EXCEPT !.data = o.data]
            due == IF o.ok THEN Engine!Due(Engine!CheckpointAfter(plan, cursor)) ELSE {}
        IN  /\ state' = s
            /\ \/ /\ ~o.ok
                  /\ Engine!ReturnError("PhaseFailed")
                  /\ pending' = Engine!Some(p)
               \/ /\ \E c \in due : ~SettlementAccepts(c, p.tick, s)
                  /\ Engine!ReturnError("InvariantViolation")
                  /\ pending' = Engine!Some(p)
               \/ /\ o.ok
                  /\ \A c \in due : SettlementAccepts(c, p.tick, s)
                  /\ pending' = Engine!Some(Engine!WithSummaries(p, due, s))
                  /\ cursor' = cursor + 1
                  /\ UNCHANGED <<pc, result>>
  BY DEF Engine!RunPhase
<1> DEFINE s   == [state EXCEPT !.data = o.data]
           due == IF o.ok THEN Engine!Due(Engine!CheckpointAfter(plan, cursor)) ELSE {}
<1>2. /\ pc = "phases" /\ plan = SettlementPlan /\ Len(plan) = 7
      /\ cursor \in 1..7 /\ plan[cursor] \in Engine!Descriptor
  <2>1. plan = SettlementPlan /\ Len(plan) = 7
    BY PlanVariable DEF IInv
  <2>2. pc = "phases" /\ cursor \in 1..Len(plan) + 1 /\ cursor <= Len(plan)
    BY DEF IInv, TypeOK, Engine!TypeOK, Engine!RunPhase
  <2>3. cursor \in 1..7
    BY <2>1, <2>2
  <2> QED
    BY <2>1, <2>2, <2>3, PlanType
<1>3. pending # None /\ Engine!The(pending) \in Engine!PendingType
  BY <1>2, TheType, NoneType DEF IInv, TypeOK, Engine!TypeOK
<1>4. p \in Engine!PendingType
  <2>1. Append(Engine!The(pending).phase_markers, plan[cursor]) \in Seq(Engine!Descriptor)
    BY <1>2, <1>3 DEF Engine!PendingType
  <2> QED
    BY <1>3, <2>1 DEF Engine!PendingType
<1>5. p.tick \in 0..MaxTick /\ p.command \in SettlementCommand
  BY <1>4, CommandsAssumption DEF Engine!PendingType
<1>6. state \in [tick : 0..MaxTick, data : SettlementData] /\ Books(state.data)
  BY DEF IInv, TypeOK, Engine!TypeOK, Engine!Snapshot, BooksKept
<1>7. cursor > 1 => state.data.finalize_marker = None
  BY <1>2 DEF IInv, MarkerReset
<1>8. /\ o.data \in SettlementData
      /\ Books(o.data)
      /\ cursor < 7 => o.data.finalize_marker = None
  <2> DEFINE t == p.tick
             c == p.command
             n == cursor
  <2>1. o \in RunSettlementPhase(SettlementPlan[n].name, t, state, c)
    BY <1>2
  <2>2. t \in 0..MaxTick /\ c \in SettlementCommand /\ n \in 1..7
    BY <1>2, <1>5
  <2> HIDE DEF t, c, n, p
  <2>3. n > 1 => state.data.finalize_marker = None
    BY <1>7 DEF n
  <2>4. o.data \in SettlementData /\ Books(o.data) /\ (n < 7 => o.data.finalize_marker = None)
    BY <1>6, <2>1, <2>2, <2>3, PhaseKeeps
  <2> QED
    BY <2>4 DEF n
<1>9. s \in Engine!Snapshot /\ s.data = o.data /\ state' = s
  BY <1>1, <1>6, <1>8 DEF Engine!Snapshot
<1>10. due \in SUBSET Engine!Checkpoints
  BY CheckpointAfterType DEF Engine!Due
<1>11. Engine!WithSummaries(p, due, s) \in Engine!PendingType
  BY <1>4, <1>9, <1>10, WithSummariesType
<1>12. pending' \in Engine!Option(Engine!PendingType) /\ pending' # None
  <2>1. pending' = Engine!Some(p) \/ pending' = Engine!Some(Engine!WithSummaries(p, due, s))
    BY <1>1
  <2> HIDE DEF p, s, due
  <2> QED
    BY <1>4, <1>11, <2>1, SomeType
<1>13. \/ pc' = "idle" /\ cursor' = 1 /\ result' \in {"PhaseFailed", "InvariantViolation"}
       \/ pc' = "phases" /\ cursor' = cursor + 1 /\ result' = result
  BY <1>1, <1>2 DEF Engine!ReturnError
<1>14. /\ UNCHANGED <<plan, snapshot_policy, validation_policy, records, held, splices>>
  BY DEF Engine!RunPhase, Engine!configuration
<1> HIDE DEF p, s, due
<1>15. TypeOK'
  <2>1. cursor' \in 1..8
    BY <1>2, <1>13
  <2>2. Len(plan') = 7
    BY <1>2, <1>14
  <2>3. cursor' \in 1..Len(plan') + 1
    BY <2>1, <2>2
  <2> QED
    BY <1>9, <1>12, <1>13, <1>14, <2>3, NoneType DEF IInv, TypeOK, Engine!TypeOK
<1>16. MarkerReset'
  BY <1>2, <1>8, <1>9, <1>13 DEF MarkerReset
<1>17. BooksKept'
  BY <1>8, <1>9, <1>14 DEF IInv, BooksKept
<1> QED
  BY <1>15, <1>16, <1>17 DEF IInv

LEMMA InvCompleteTick ==
  ASSUME IInv, Engine!CompleteTick
  PROVE  IInv'
<1> DEFINE p == Engine!The(pending)
           s == [state EXCEPT !.tick = p.tick]
           r == Engine!RecordOf(p, s)
           n == Len(records)
<1>1. pending # None /\ p \in Engine!PendingType
  BY TheType, NoneType DEF IInv, TypeOK, Engine!TypeOK, Engine!CompleteTick
<1>2. s \in Engine!Snapshot /\ s.data = state.data
  BY <1>1 DEF IInv, TypeOK, Engine!TypeOK, Engine!Snapshot, Engine!PendingType
<1>3. /\ state' = s /\ records' = Append(records, r) /\ pending' = Engine!None
      /\ pc' = "idle" /\ cursor' = 1 /\ result' = "Ok"
      /\ UNCHANGED <<plan, snapshot_policy, validation_policy, held, splices>>
  BY DEF Engine!CompleteTick, Engine!configuration
<1>4. r.snapshot = Engine!Some(s) \/ r.snapshot = Engine!None
  BY DEF Engine!RecordOf
<1>5. r.snapshot \in Engine!Option(Engine!Snapshot)
  BY <1>2, <1>4, SomeType, NoneType
<1>6. r \in Engine!RecordType
  <2>1. (IF Engine!ShouldCapture(snapshot_policy, p.tick) THEN Engine!Some(s) ELSE Engine!None)
          \in Engine!Option(Engine!Snapshot)
    BY <1>2, SomeType, NoneType
  <2> QED
    BY <1>1, <1>2, <2>1 DEF Engine!RecordOf, Engine!RecordType, Engine!PendingType
<1>7. r.snapshot # None => Conserved(Engine!The(r.snapshot).data)
  <2>1. Conserved(s.data)
    BY <1>2 DEF IInv, BooksKept, Books
  <2>2. Engine!The(Engine!Some(s)) = s
    BY <1>2, SomeType
  <2> QED
    BY <1>4, <2>1, <2>2, NoneType
<1> HIDE DEF p, s, r
<1>8. records \in Seq(Engine!RecordType)
  BY DEF IInv, TypeOK, Engine!TypeOK
<1>9. /\ records' \in Seq(Engine!RecordType)
      /\ n \in Nat /\ Len(records') = n + 1 /\ records'[n + 1] = r
      /\ \A i \in 1..n : records'[i] = records[i]
  BY <1>3, <1>6, <1>8
<1>10. TypeOK'
  <2>1. cursor' \in 1..Len(plan') + 1
    BY <1>3, PlanVariable DEF IInv
  <2>2. pending' \in Engine!Option(Engine!PendingType)
    BY <1>3, NoneType
  <2> QED
    BY <1>2, <1>3, <1>9, <2>1, <2>2 DEF IInv, TypeOK, Engine!TypeOK
<1>11. BooksKept'
  <2>1. Books(state'.data) /\ (held' # None => Conserved(Engine!The(held').data))
    BY <1>2, <1>3 DEF IInv, BooksKept
  <2>2. ASSUME NEW i \in 1..n + 1, records'[i].snapshot # None
        PROVE  Conserved(Engine!The(records'[i].snapshot).data)
    <3>1. CASE i = n + 1
      BY <1>7, <1>9, <2>2, <3>1
    <3>2. CASE i # n + 1
      <4>1. i \in 1..n /\ records'[i] = records[i]
        BY <1>9, <3>2
      <4> QED
        BY <2>2, <4>1 DEF IInv, BooksKept
    <3> QED
      BY <3>1, <3>2
  <2> QED
    BY <1>9, <2>1, <2>2 DEF BooksKept
<1> QED
  BY <1>3, <1>10, <1>11 DEF IInv, MarkerReset

LEMMA InvNext == IInv /\ [Engine!Next]_Engine!vars => IInv'
<1> SUFFICES ASSUME IInv, [Engine!Next]_Engine!vars
             PROVE  IInv'
  OBVIOUS
<1>1. ASSUME NEW f \in Engine!Frame, Engine!TickUnexpected(f) \/ Engine!TickWhilePending(f)
      PROVE  IInv'
  <2>1. TypeOK'
    BY <1>1 DEF IInv, TypeOK, Engine!TypeOK, Engine!TickUnexpected, Engine!TickWhilePending,
                Engine!configuration
  <2>2. BooksKept'
    BY <1>1, BooksUntouched DEF IInv, Engine!TickUnexpected, Engine!TickWhilePending
  <2> QED
    BY <1>1, <2>1, <2>2 DEF IInv, MarkerReset, Engine!TickUnexpected, Engine!TickWhilePending
<1>2. ASSUME NEW f \in Engine!Frame, Engine!BeginTick(f)
      PROVE  IInv'
  BY <1>2, InvBeginTick
<1>3. ASSUME Engine!EngineStep
      PROVE  IInv'
  BY <1>3, InvValidateBeforeTick, InvRunPhase, InvCompleteTick DEF Engine!EngineStep
<1>4. ASSUME Engine!ManualSnapshot
      PROVE  IInv'
  <2>1. held' = Engine!Some(state) /\ state \in Engine!Snapshot
    BY <1>4 DEF IInv, TypeOK, Engine!TypeOK, Engine!ManualSnapshot
  <2>2. held' \in Engine!Option(Engine!Snapshot) /\ Engine!The(held') = state
    BY <2>1, SomeType
  <2>3. TypeOK'
    BY <1>4, <2>2 DEF IInv, TypeOK, Engine!TypeOK, Engine!ManualSnapshot, Engine!configuration
  <2>4. BooksKept'
    BY <1>4, <2>2 DEF IInv, BooksKept, Books, Engine!ManualSnapshot
  <2> QED
    BY <1>4, <2>3, <2>4 DEF IInv, MarkerReset, Engine!ManualSnapshot
<1>5. ASSUME NEW s \in Engine!HostSnapshots, Engine!RestoreSnapshot(s)
      PROVE  IInv'
  <2>1. s \in Engine!Snapshot /\ Books(s.data)
    BY <1>5, RestoredKeeps DEF Engine!RestoreSnapshot
  <2>2. Len(records) \in Nat
    BY DEF IInv, TypeOK, Engine!TypeOK
  <2>3. TypeOK'
    BY <1>5, <2>1, <2>2 DEF IInv, TypeOK, Engine!TypeOK, Engine!RestoreSnapshot, Engine!configuration
  <2>4. BooksKept'
    BY <1>5, <2>1 DEF IInv, BooksKept, Engine!RestoreSnapshot
  <2> QED
    BY <1>5, <2>3, <2>4 DEF IInv, MarkerReset, Engine!RestoreSnapshot
<1>6. ASSUME NEW s \in Engine!HostSnapshots, Engine!RestorePanics(s)
      PROVE  IInv'
  <2>1. TypeOK'
    BY <1>6 DEF IInv, TypeOK, Engine!TypeOK, Engine!RestorePanics, Engine!configuration
  <2>2. BooksKept'
    BY <1>6, BooksUntouched DEF IInv, Engine!RestorePanics
  <2> QED
    BY <1>6, <2>1, <2>2 DEF IInv, MarkerReset, Engine!RestorePanics
<1>7. ASSUME Engine!NewEngine
      PROVE  IInv'
  <2>1. state' = [tick |-> 0, data |-> FromConfig] /\ state' \in Engine!Snapshot
    BY <1>7, InitialData, WidthAssumption DEF Engine!NewEngine, Engine!Snapshot
  <2>2. pending' \in Engine!Option(Engine!PendingType)
    BY <1>7, NoneType DEF Engine!NewEngine
  <2>3. cursor' \in 1..Len(plan') + 1
    BY <1>7, PlanVariable DEF IInv, Engine!NewEngine, Engine!configuration
  <2>4. TypeOK'
    BY <1>7, <2>1, <2>2, <2>3 DEF IInv, TypeOK, Engine!TypeOK, Engine!NewEngine, Engine!configuration
  <2>5. BooksKept'
    BY <1>7, <2>1, InitialData DEF IInv, BooksKept, Engine!NewEngine
  <2> QED
    BY <1>7, <2>4, <2>5 DEF IInv, MarkerReset, Engine!NewEngine
<1>8. CASE UNCHANGED Engine!vars
  <2>1. TypeOK'
    BY <1>8 DEF IInv, TypeOK, Engine!TypeOK, Engine!vars
  <2>2. BooksKept'
    BY <1>8, BooksUntouched DEF IInv, Engine!vars
  <2> QED
    BY <1>8, <2>1, <2>2 DEF IInv, MarkerReset, Engine!vars
<1> QED
  BY <1>1, <1>2, <1>3, <1>4, <1>5, <1>6, <1>7, <1>8 DEF Engine!Next, Engine!HostCall

-----------------------------------------------------------------------------
(***************************************************************************)
(* The inductive invariant holds: every variable keeps its type, the       *)
(* marker is a hash of a state that had none, and no stock and no total is *)
(* negative.                                                               *)
(***************************************************************************)
THEOREM InductiveInvariant == Spec => []IInv
BY InvInit, InvNext, PTL DEF Spec, Engine!Spec

(***************************************************************************)
(* Every variable keeps its type: whatever the phases of a settlement      *)
(* compute fits the 64 and 32 bits it is stored in, and Finalize never     *)
(* hashes a marker into the next one (settlement/mod.rs:647).              *)
(***************************************************************************)
THEOREM TypeCorrect == Spec => []TypeOK
BY InductiveInvariant, PTL DEF IInv

(***************************************************************************)
(* Nothing is lost or made up, in every settlement: after every phase, the *)
(* failed tick and the restored snapshot included, the stock is what the   *)
(* totals say, until a total saturates (settlement/mod.rs:563, 586).       *)
(***************************************************************************)
THEOREM StockIsConserved == Spec => []StockConserved
<1>1. IInv => StockConserved
  BY DEF IInv, BooksKept, Books, StockConserved
<1> QED
  BY <1>1, InductiveInvariant, PTL

-----------------------------------------------------------------------------
(***************************************************************************)
(* What the host can see between two calls can be restored.  Two facts     *)
(* are carried along the phases: the allocations fit the population and no *)
(* metric is negative, always; and the status explains the shortages,      *)
(* except between production, which fills the store again, and the phase   *)
(* that resolves the status.                                               *)
(***************************************************************************)
Orderly(d) ==
  /\ Fits(d.current_allocation, d.population)
  /\ Fits(d.pending_allocation, d.population)
  /\ d.pending_allocation_present \/ d.pending_allocation = NoWorkers
  /\ NonNegativeMetrics(d)

\* n is the position of the phase that runs next.
Explained(n, d) ==
  /\ n = 6 => \A r \in Resource : d.last_shortage[r] > 0 => d.inventory[r] = 0
  /\ n \notin {5, 6} => ShortageConsistent(d)

Presentable == Orderly(state.data) /\ Explained(cursor, state.data)

LEMMA NobodyFits ==
  ASSUME NEW d \in SettlementData
  PROVE  Fits(NoWorkers, d.population)
<1>1. TotalAssigned(NoWorkers) = 0
  BY WidthAssumption DEF TotalAssigned, NoWorkers, Clamp
<1>2. d.population \in Nat
  BY WidthAssumption DEF SettlementData, DataWith
<1> QED
  BY <1>1, <1>2 DEF Fits

LEMMA InitialOrderly == Orderly(FromConfig) /\ Explained(1, FromConfig)
<1>1. Fits(NoWorkers, FromConfig.population)
  BY InitialData, NobodyFits
<1>2. Orderly(FromConfig)
  BY <1>1, ConfigAssumption DEF Orderly, FromConfig, ValidConfig, NonNegativeMetrics, Zero
<1>3. ShortageConsistent(FromConfig)
  BY DEF ShortageConsistent, FromConfig, Zero, StatusOf
<1> QED
  BY <1>2, <1>3 DEF Explained

LEMMA ProduceOrderly ==
  ASSUME NEW d \in DataWith({None}), Books(d), Orderly(d)
  PROVE  Orderly(Produce(d))
<1> DEFINE produced  == [r \in Resource |-> SatMul(Workers(d.current_allocation)[r], Config.yield[r])]
           inventory == [r \in Resource |-> SatAdd(d.inventory[r], produced[r])]
           total     == [r \in Resource |-> SatAdd(d.cumulative_production[r], produced[r])]
<1>1. ASSUME NEW r \in Resource
      PROVE  produced[r] >= 0
  <2>1. Workers(d.current_allocation)[r] \in Nat
    BY WorkersRange DEF DataWith
  <2>2. Config.yield[r] \in Nat
    BY ConfigTypes, I64Type
  <2>3. SatMul(Workers(d.current_allocation)[r], Config.yield[r]) \in 0..MaxI64
    BY <2>1, <2>2, SatMulRange
  <2> QED
    BY <2>3, WidthAssumption
<1>2. Produce(d) = [d EXCEPT !.last_production = produced,
                             !.inventory = inventory,
                             !.cumulative_production = total]
  BY DEF Produce, DataWith
<1> HIDE DEF produced, inventory, total
<1>3. \A r \in Resource : Produce(d).cumulative_production[r] >= 0
  BY ProduceKeeps DEF Books
<1>4. Produce(d).last_production = produced
  BY <1>2 DEF DataWith
<1>5. \A r \in Resource :
        /\ Produce(d).last_consumption[r] >= 0 /\ Produce(d).cumulative_consumption[r] >= 0
        /\ Produce(d).last_shortage[r] >= 0 /\ Produce(d).cumulative_shortage[r] >= 0
  BY <1>2 DEF DataWith, Orderly, NonNegativeMetrics
<1>6. NonNegativeMetrics(Produce(d))
  BY <1>1, <1>3, <1>4, <1>5 DEF NonNegativeMetrics
<1> QED
  BY <1>2, <1>6 DEF DataWith, Orderly

\* Whatever is missing was taken from an empty store.
LEMMA ConsumeOrderly ==
  ASSUME NEW d \in DataWith({None}), Books(d), Orderly(d)
  PROVE  /\ Orderly(Consume(d))
         /\ \A r \in Resource :
              Consume(d).last_shortage[r] > 0 => Consume(d).inventory[r] = 0
<1> DEFINE required  == Required(d.population)
           actual    == [r \in Resource |->
                           IF d.inventory[r] < required[r] THEN d.inventory[r] ELSE required[r]]
           shortage  == [r \in Resource |-> SatSub(required[r], actual[r])]
           inventory == [r \in Resource |-> SatSub(d.inventory[r], actual[r])]
           consumed  == [r \in Resource |-> SatAdd(d.cumulative_consumption[r], actual[r])]
           short     == [r \in Resource |-> SatAdd(d.cumulative_shortage[r], shortage[r])]
<1>1. ASSUME NEW r \in Resource
      PROVE  required[r] \in 0..MaxI64
  <2>1. d.population \in Nat
    BY WidthAssumption DEF DataWith
  <2> QED
    BY <2>1, RequiredRange
<1>2. ASSUME NEW r \in Resource
      PROVE  d.inventory[r] \in 0..MaxI64 /\ d.cumulative_shortage[r] \in 0..MaxI64
  BY WidthAssumption DEF DataWith, Books, Orderly, NonNegativeMetrics, I64
<1>3. Consume(d) = [d EXCEPT !.inventory = inventory,
                             !.last_shortage = shortage,
                             !.last_consumption = actual,
                             !.cumulative_consumption = consumed,
                             !.cumulative_shortage = short]
  BY DEF Consume, DataWith
<1>4. ASSUME NEW r \in Resource
      PROVE  /\ actual[r] = IF d.inventory[r] < required[r] THEN d.inventory[r] ELSE required[r]
             /\ shortage[r] = SatSub(required[r], actual[r])
             /\ inventory[r] = SatSub(d.inventory[r], actual[r])
             /\ short[r] = SatAdd(d.cumulative_shortage[r], shortage[r])
  OBVIOUS
<1> HIDE DEF required, actual, shortage, inventory, consumed, short
<1>5. ASSUME NEW r \in Resource
      PROVE  actual[r] \in 0..MaxI64 /\ required[r] - actual[r] \in 0..MaxI64
  BY <1>1, <1>2, <1>4, WidthAssumption
<1>6. ASSUME NEW r \in Resource
      PROVE  shortage[r] = required[r] - actual[r] /\ shortage[r] \in 0..MaxI64
  <2>1. required[r] \in I64 /\ actual[r] \in I64 /\ required[r] - actual[r] \in I64
    BY <1>1, <1>5, I64Type
  <2> QED
    BY <1>4, <1>5, <2>1, SatSubRange
<1>7. ASSUME NEW r \in Resource
      PROVE  short[r] >= 0
  <2>1. SatAdd(d.cumulative_shortage[r], shortage[r]) \in 0..MaxI64
    BY <1>2, <1>6, SatAddCounts
  <2> QED
    BY <1>4, <2>1, WidthAssumption
<1>8. ASSUME NEW r \in Resource, shortage[r] > 0
      PROVE  inventory[r] = 0
  <2>1. actual[r] = d.inventory[r]
    BY <1>1, <1>2, <1>4, <1>6, <1>8, WidthAssumption
  <2>2. d.inventory[r] - actual[r] = 0 /\ 0 \in I64 /\ d.inventory[r] \in I64 /\ actual[r] \in I64
    BY <1>2, <2>1, I64Type
  <2> QED
    BY <1>4, <2>2, SatSubRange
<1>9. /\ Consume(d).last_shortage = shortage /\ Consume(d).inventory = inventory
      /\ Consume(d).last_consumption = actual /\ Consume(d).cumulative_shortage = short
  BY <1>3 DEF DataWith
<1>10. NonNegativeMetrics(Consume(d))
  <2> SUFFICES ASSUME NEW r \in Resource
               PROVE  /\ Consume(d).last_production[r] >= 0
                      /\ Consume(d).cumulative_production[r] >= 0
                      /\ Consume(d).last_consumption[r] >= 0
                      /\ Consume(d).cumulative_consumption[r] >= 0
                      /\ Consume(d).last_shortage[r] >= 0
                      /\ Consume(d).cumulative_shortage[r] >= 0
    BY DEF NonNegativeMetrics
  <2>1. Consume(d).cumulative_consumption[r] >= 0
    BY ConsumeKeeps DEF Books
  <2>2. Consume(d).last_production[r] >= 0 /\ Consume(d).cumulative_production[r] >= 0
    BY <1>3 DEF DataWith, Orderly, NonNegativeMetrics
  <2>3. actual[r] >= 0 /\ shortage[r] >= 0 /\ short[r] >= 0
    BY <1>5, <1>6, <1>7, WidthAssumption
  <2> QED
    BY <1>9, <2>1, <2>2, <2>3
<1>11. Orderly(Consume(d))
  BY <1>3, <1>10 DEF DataWith, Orderly
<1> QED
  BY <1>8, <1>9, <1>11

LEMMA PhaseOrderly ==
  ASSUME NEW n \in 1..7, NEW t \in 0..MaxTick, NEW c \in SettlementCommand,
         NEW s \in [tick : 0..MaxTick, data : SettlementData],
         Books(s.data), Orderly(s.data), Explained(n, s.data),
         n > 1 => s.data.finalize_marker = None,
         NEW o \in RunSettlementPhase(SettlementPlan[n].name, t, s, c)
  PROVE  Orderly(o.data) /\ Explained(n + 1, o.data) /\ (n \in {4, 5} => o.ok)
<1> DEFINE d == s.data
<1>1. d \in SettlementData /\ Books(d) /\ Orderly(d) /\ Explained(n, d)
  OBVIOUS
<1>2. n > 1 => d \in DataWith({None})
  BY <1>1, MarkerTypes
<1>3. CASE n = 1
  <2>1. o = Done(ResetFinalizeMarker(d))
    BY <1>3, PlanIs DEF RunSettlementPhase
  <2>2. o.data = [d EXCEPT !.finalize_marker = None]
    BY <2>1 DEF Done, ResetFinalizeMarker
  <2>3. ShortageConsistent(d)
    BY <1>1, <1>3 DEF Explained
  <2>4. Orderly(o.data) /\ ShortageConsistent(o.data)
    BY <1>1, <2>2, <2>3 DEF SettlementData, DataWith, Orderly, NonNegativeMetrics, ShortageConsistent
  <2> QED
    BY <1>3, <2>4 DEF Explained
<1>4. CASE n = 2
  <2>1. o = StageCommand(d, c)
    BY <1>4, PlanIs DEF RunSettlementPhase
  <2>2. ShortageConsistent(d)
    BY <1>1, <1>4 DEF Explained
  <2>3. CASE c.kind # "Hold" /\ Fits(c.allocation, d.population)
    <3>1. o.data = [d EXCEPT !.pending_allocation = c.allocation, !.pending_allocation_present = TRUE]
      BY <2>1, <2>3 DEF StageCommand, Done, StageAllocation
    <3>2. Orderly(o.data) /\ ShortageConsistent(o.data)
      BY <1>1, <2>2, <2>3, <3>1
         DEF SettlementData, DataWith, Orderly, NonNegativeMetrics, ShortageConsistent
    <3> QED
      BY <1>4, <3>2 DEF Explained
  <2>4. CASE ~(c.kind # "Hold" /\ Fits(c.allocation, d.population))
    <3>1. o.data = d
      BY <2>1, <2>4 DEF StageCommand, Done, Failed
    <3> QED
      BY <1>1, <1>4, <2>2, <3>1 DEF Explained
  <2> QED
    BY <2>3, <2>4
<1>5. CASE n = 3
  <2>1. o = Done(ApplyPendingAllocation(d))
    BY <1>5, PlanIs DEF RunSettlementPhase
  <2>2. o.data = ApplyPendingAllocation(d)
    BY <2>1 DEF Done
  <2>3. ShortageConsistent(d) /\ Fits(NoWorkers, d.population)
    BY <1>1, <1>5, NobodyFits DEF Explained
  <2>4. Orderly(o.data) /\ ShortageConsistent(o.data)
    BY <1>1, <2>2, <2>3
       DEF SettlementData, DataWith, ApplyPendingAllocation, Orderly, NonNegativeMetrics,
           ShortageConsistent
  <2> QED
    BY <1>5, <2>4 DEF Explained
<1>6. CASE n = 4
  <2>1. o = Done(Produce(d))
    BY <1>6, PlanIs DEF RunSettlementPhase
  <2>2. o.data = Produce(d) /\ o.ok
    BY <2>1 DEF Done
  <2>3. Orderly(o.data)
    BY <1>1, <1>2, <1>6, <2>2, ProduceOrderly
  <2> QED
    BY <1>6, <2>2, <2>3 DEF Explained
<1>7. CASE n = 5
  <2>1. o = Done(Consume(d))
    BY <1>7, PlanIs DEF RunSettlementPhase
  <2>2. o.data = Consume(d) /\ o.ok
    BY <2>1 DEF Done
  <2>3. /\ Orderly(o.data)
        /\ \A r \in Resource : o.data.last_shortage[r] > 0 => o.data.inventory[r] = 0
    BY <1>1, <1>2, <1>7, <2>2, ConsumeOrderly
  <2> QED
    BY <1>7, <2>2, <2>3 DEF Explained
<1>8. CASE n = 6
  <2>1. o = Done(ResolveShortage(d))
    BY <1>8, PlanIs DEF RunSettlementPhase
  <2> DEFINE status == StatusOf(d.last_shortage)
             ticks  == IF status # {} /\ d.shortage_ticks < MaxTick THEN d.shortage_ticks + 1
                       ELSE d.shortage_ticks
  <2>2. o.data = [d EXCEPT !.last_status = status, !.shortage_ticks = ticks]
    BY <2>1 DEF Done, ResolveShortage, SettlementData, DataWith
  <2>3. \A r \in Resource : d.last_shortage[r] > 0 => d.inventory[r] = 0
    BY <1>1, <1>8 DEF Explained
  <2>4. ShortageConsistent(o.data)
    BY <2>2, <2>3 DEF SettlementData, DataWith, ShortageConsistent
  <2>5. Orderly(o.data)
    BY <1>1, <2>2 DEF SettlementData, DataWith, Orderly, NonNegativeMetrics
  <2> QED
    BY <1>8, <2>4, <2>5 DEF Explained
<1>9. CASE n = 7
  <2>1. o = Done(Finalize(t, s))
    BY <1>9, PlanIs DEF RunSettlementPhase
  <2>2. o.data = [d EXCEPT !.finalize_marker = Some(MarkerOf(t, s))]
    BY <2>1 DEF Done, Finalize
  <2>3. ShortageConsistent(d)
    BY <1>1, <1>9 DEF Explained
  <2>4. Orderly(o.data) /\ ShortageConsistent(o.data)
    BY <1>1, <2>2, <2>3 DEF SettlementData, DataWith, Orderly, NonNegativeMetrics, ShortageConsistent
  <2> QED
    BY <1>9, <2>4 DEF Explained
<1> QED
  BY <1>3, <1>4, <1>5, <1>6, <1>7, <1>8, <1>9

\* Nothing is validated between production and the phase that resolves the status.
LEMMA NothingDue ==
  ASSUME plan = SettlementPlan, NEW n \in {4, 5}
  PROVE  Engine!Due(Engine!CheckpointAfter(plan, n)) = {}
<1>1. /\ SettlementPlan[4].group = "Simulation" /\ SettlementPlan[5].group = "Simulation"
      /\ SettlementPlan[6].group = "Simulation"
  BY DEF SettlementPlan, SettlementPhases
<1>2. Engine!CheckpointAfter(plan, n) = {}
  BY <1>1, PlanType DEF Engine!CheckpointAfter
<1> QED
  BY <1>2 DEF Engine!Due

LEMMA PresentableRunPhase ==
  ASSUME IInv, Presentable, Engine!RunPhase
  PROVE  Presentable'
<1> DEFINE p == [Engine!The(pending) EXCEPT !.phase_markers = Append(@, plan[cursor])]
<1>1. PICK o \in RunSettlementPhase(plan[cursor].name, p.tick, state, p.command) :
        LET s   == [state EXCEPT !.data = o.data]
            due == IF o.ok THEN Engine!Due(Engine!CheckpointAfter(plan, cursor)) ELSE {}
        IN  /\ state' = s
            /\ \/ /\ ~o.ok
                  /\ Engine!ReturnError("PhaseFailed")
                  /\ pending' = Engine!Some(p)
               \/ /\ \E c \in due : ~SettlementAccepts(c, p.tick, s)
                  /\ Engine!ReturnError("InvariantViolation")
                  /\ pending' = Engine!Some(p)
               \/ /\ o.ok
                  /\ \A c \in due : SettlementAccepts(c, p.tick, s)
                  /\ pending' = Engine!Some(Engine!WithSummaries(p, due, s))
                  /\ cursor' = cursor + 1
                  /\ UNCHANGED <<pc, result>>
  BY DEF Engine!RunPhase
<1>2. plan = SettlementPlan /\ pc = "phases" /\ cursor \in 1..7
  <2>1. plan = SettlementPlan /\ Len(plan) = 7
    BY PlanVariable DEF IInv
  <2>2. pc = "phases" /\ cursor \in 1..Len(plan) + 1 /\ cursor <= Len(plan)
    BY DEF IInv, TypeOK, Engine!TypeOK, Engine!RunPhase
  <2> QED
    BY <2>1, <2>2
<1>3. pending # None /\ Engine!The(pending) \in Engine!PendingType
  BY <1>2, TheType, NoneType DEF IInv, TypeOK, Engine!TypeOK
<1>4. p.tick \in 0..MaxTick /\ p.command \in SettlementCommand
  BY <1>3, CommandsAssumption DEF Engine!PendingType
<1>5. state \in [tick : 0..MaxTick, data : SettlementData] /\ Books(state.data)
  BY DEF IInv, TypeOK, Engine!TypeOK, Engine!Snapshot, BooksKept
<1>6. Orderly(o.data) /\ Explained(cursor + 1, o.data) /\ (cursor \in {4, 5} => o.ok)
  <2> DEFINE t == p.tick
             c == p.command
             n == cursor
  <2>1. o \in RunSettlementPhase(SettlementPlan[n].name, t, state, c)
    BY <1>2
  <2>2. t \in 0..MaxTick /\ c \in SettlementCommand /\ n \in 1..7
    BY <1>2, <1>4
  <2>3. Orderly(state.data) /\ Explained(n, state.data)
    BY DEF Presentable
  <2>4. n > 1 => state.data.finalize_marker = None
    BY <1>2 DEF IInv, MarkerReset
  <2> HIDE DEF t, c, n, p
  <2>5. Orderly(o.data) /\ Explained(n + 1, o.data) /\ (n \in {4, 5} => o.ok)
    BY <1>5, <2>1, <2>2, <2>3, <2>4, PhaseOrderly
  <2> QED
    BY <2>5 DEF n
<1>7. state'.data = o.data
  BY <1>1, <1>5
<1>8. CASE cursor' = cursor + 1
  BY <1>6, <1>7, <1>8 DEF Presentable
<1>9. CASE cursor' # cursor + 1
  <2>1. cursor' = 1 /\ cursor \notin {4, 5}
    BY <1>1, <1>2, <1>6, <1>9, NothingDue DEF Engine!ReturnError
  <2>2. Explained(1, o.data)
    BY <1>2, <1>6, <2>1 DEF Explained
  <2> QED
    BY <1>6, <1>7, <2>1, <2>2 DEF Presentable
<1> QED
  BY <1>8, <1>9

LEMMA PresentableNext == IInv /\ Presentable /\ [Engine!Next]_Engine!vars => Presentable'
<1> SUFFICES ASSUME IInv, Presentable, [Engine!Next]_Engine!vars
             PROVE  Presentable'
  OBVIOUS
<1>1. ASSUME UNCHANGED <<state, cursor>>
      PROVE  Presentable'
  BY <1>1 DEF Presentable
<1>2. ASSUME Engine!RunPhase
      PROVE  Presentable'
  BY <1>2, PresentableRunPhase
<1>3. ASSUME Engine!ValidateBeforeTick
      PROVE  Presentable'
  <2>1. UNCHANGED <<state, cursor>>
    BY <1>3 DEF IInv, MarkerReset, Engine!ValidateBeforeTick, Engine!ReturnError
  <2> QED
    BY <1>1, <2>1
<1>4. ASSUME Engine!CompleteTick
      PROVE  Presentable'
  <2>1. cursor' = 1 /\ cursor \in 1..8 /\ cursor > 7
    <3>1. Len(plan) = 7
      BY PlanVariable DEF IInv
    <3>2. cursor' = 1 /\ cursor \in 1..Len(plan) + 1 /\ cursor > Len(plan)
      BY <1>4 DEF IInv, TypeOK, Engine!TypeOK, Engine!CompleteTick
    <3> QED
      BY <3>1, <3>2
  <2>2. state'.data = state.data
    BY <1>4 DEF IInv, TypeOK, Engine!TypeOK, Engine!Snapshot, Engine!CompleteTick
  <2>3. Explained(1, state.data)
    BY <2>1 DEF Presentable, Explained
  <2> QED
    BY <2>1, <2>2, <2>3 DEF Presentable
<1>5. ASSUME NEW s \in Engine!HostSnapshots, Engine!RestoreSnapshot(s)
      PROVE  Presentable'
  <2>1. state' = s /\ SettlementRestorable(s) /\ cursor' = cursor /\ cursor = 1
    BY <1>5 DEF IInv, MarkerReset, Engine!RestoreSnapshot
  <2> QED
    BY <2>1 DEF Presentable, SettlementRestorable, Orderly, Explained
<1>6. ASSUME Engine!NewEngine
      PROVE  Presentable'
  BY <1>6, InitialOrderly DEF Presentable, Engine!NewEngine
<1>7. ASSUME NEW f \in Engine!Frame,
             Engine!TickUnexpected(f) \/ Engine!TickWhilePending(f) \/ Engine!BeginTick(f)
      PROVE  Presentable'
  BY <1>1, <1>7 DEF Engine!TickUnexpected, Engine!TickWhilePending, Engine!BeginTick
<1>8. ASSUME \/ Engine!ManualSnapshot
             \/ \E s \in Engine!HostSnapshots : Engine!RestorePanics(s)
             \/ UNCHANGED Engine!vars
      PROVE  Presentable'
  BY <1>1, <1>8 DEF Engine!ManualSnapshot, Engine!RestorePanics, Engine!vars
<1> QED
  BY <1>2, <1>3, <1>4, <1>5, <1>6, <1>7, <1>8 DEF Engine!Next, Engine!EngineStep, Engine!HostCall

(***************************************************************************)
(* Whatever the host can see between two calls can be restored, in every   *)
(* settlement: a manual snapshot of an idle engine, a failed one included, *)
(* never makes restore_snapshot panic (settlement/mod.rs:725).             *)
(***************************************************************************)
THEOREM VisibleIsRestorable == Spec => []VisibleStateIsRestorable
<1>1. Engine!Init => Presentable
  BY InitialOrderly DEF Engine!Init, Presentable
<1>2. IInv /\ Presentable => VisibleStateIsRestorable
  <2> SUFFICES ASSUME IInv, Presentable, pc = "idle"
               PROVE  SettlementRestorable(state)
    BY DEF VisibleStateIsRestorable
  <2>1. cursor = 1 /\ Books(state.data)
    BY DEF IInv, MarkerReset, BooksKept
  <2>2. ShortageConsistent(state.data) /\ Orderly(state.data)
    BY <2>1 DEF Presentable, Explained
  <2> QED
    BY <2>1, <2>2 DEF SettlementRestorable, Orderly, Books
<1> QED
  BY <1>1, <1>2, InductiveInvariant, PresentableNext, PTL DEF Spec, Engine!Spec

-----------------------------------------------------------------------------
(***************************************************************************)
(* A tick, phase by phase.  What is left of the data d a tick t began      *)
(* with, once k phases of it have run, whatever the checkpoint after the   *)
(* last of them says.                                                      *)
(***************************************************************************)
\* Every resource that was required is booked as consumed or as shortage.
DemandMet(d, e) ==
  \A x \in Resource :
    /\ e.last_consumption[x] \in 0..MaxI64 /\ e.last_shortage[x] \in 0..MaxI64
    /\ e.last_consumption[x] + e.last_shortage[x] = Required(d.population)[x]
    /\ e.cumulative_consumption[x] = SatAdd(d.cumulative_consumption[x], e.last_consumption[x])
    /\ e.cumulative_shortage[x] = SatAdd(d.cumulative_shortage[x], e.last_shortage[x])

Midway(k, d, t, r) ==
  LET e == r.data
  IN  /\ e.population = d.population
      /\ k = 1 => e = ResetFinalizeMarker(d)
      /\ k >= 3 => PendingCleared(e)
      /\ k < 5 => /\ e.cumulative_consumption = d.cumulative_consumption
                  /\ e.cumulative_shortage = d.cumulative_shortage
      /\ k >= 5 => DemandMet(d, e)
      /\ k < 6 => e.shortage_ticks = d.shortage_ticks
      /\ k >= 6 => /\ e.last_status = StatusOf(e.last_shortage)
                   /\ e.shortage_ticks = IF e.last_status # {} /\ d.shortage_ticks < MaxTick
                                         THEN d.shortage_ticks + 1 ELSE d.shortage_ticks
      /\ k = 7 => e.finalize_marker = Some(PreviewFinalizeMarker(t, r))

LEMMA ConsumeIs ==
  ASSUME NEW d \in DataWith({None}), Books(d), NonNegativeMetrics(d)
  PROVE  LET e == Consume(d)
         IN  /\ DemandMet(d, e)
             /\ \A f \in {"population", "pending_allocation", "pending_allocation_present", "shortage_ticks"} :
                  e[f] = d[f]
<1> DEFINE required  == Required(d.population)
           actual    == [r \in Resource |->
                           IF d.inventory[r] < required[r] THEN d.inventory[r] ELSE required[r]]
           shortage  == [r \in Resource |-> SatSub(required[r], actual[r])]
           inventory == [r \in Resource |-> SatSub(d.inventory[r], actual[r])]
           consumed  == [r \in Resource |-> SatAdd(d.cumulative_consumption[r], actual[r])]
           short     == [r \in Resource |-> SatAdd(d.cumulative_shortage[r], shortage[r])]
           e         == Consume(d)
<1>1. ASSUME NEW r \in Resource
      PROVE  required[r] \in 0..MaxI64
  <2>1. d.population \in Nat
    BY WidthAssumption DEF DataWith
  <2> QED
    BY <2>1, RequiredRange
<1>2. e = [d EXCEPT !.inventory = inventory,
                    !.last_shortage = shortage,
                    !.last_consumption = actual,
                    !.cumulative_consumption = consumed,
                    !.cumulative_shortage = short]
  BY DEF Consume, DataWith
<1>3. ASSUME NEW r \in Resource
      PROVE  /\ actual[r] = IF d.inventory[r] < required[r] THEN d.inventory[r] ELSE required[r]
             /\ shortage[r] = SatSub(required[r], actual[r])
             /\ consumed[r] = SatAdd(d.cumulative_consumption[r], actual[r])
             /\ short[r] = SatAdd(d.cumulative_shortage[r], shortage[r])
  OBVIOUS
<1> HIDE DEF required, actual, shortage, inventory, consumed, short, e
<1>4. ASSUME NEW r \in Resource
      PROVE  /\ actual[r] \in 0..MaxI64 /\ shortage[r] \in 0..MaxI64
             /\ actual[r] + shortage[r] = required[r]
  <2>1. d.inventory[r] \in 0..MaxI64
    BY WidthAssumption DEF DataWith, Books, I64
  <2>2. actual[r] \in 0..MaxI64 /\ required[r] - actual[r] \in 0..MaxI64
    BY <1>1, <1>3, <2>1, WidthAssumption
  <2>3. shortage[r] = required[r] - actual[r]
    BY <1>1, <1>3, <2>2, SatSubRange, I64Type
  <2> QED
    BY <1>1, <2>2, <2>3, WidthAssumption
<1>5. /\ e.last_consumption = actual /\ e.last_shortage = shortage
      /\ e.cumulative_consumption = consumed /\ e.cumulative_shortage = short
      /\ e.population = d.population /\ e.pending_allocation = d.pending_allocation
      /\ e.pending_allocation_present = d.pending_allocation_present
      /\ e.shortage_ticks = d.shortage_ticks
  BY <1>2 DEF DataWith
<1>6. DemandMet(d, e)
  BY <1>3, <1>4, <1>5 DEF DemandMet, required
<1> QED
  BY <1>5, <1>6 DEF e

\* The one outcome of each phase.
LEMMA OutcomeIs ==
  ASSUME NEW n \in 1..7, NEW t, NEW c, NEW s,
         NEW o \in RunSettlementPhase(SettlementPlan[n].name, t, s, c)
  PROVE  /\ n = 1 => o = Done(ResetFinalizeMarker(s.data))
         /\ n = 2 => o = StageCommand(s.data, c)
         /\ n = 3 => o = Done(ApplyPendingAllocation(s.data))
         /\ n = 4 => o = Done(Produce(s.data))
         /\ n = 5 => o = Done(Consume(s.data))
         /\ n = 6 => o = Done(ResolveShortage(s.data))
         /\ n = 7 => o = Done(Finalize(t, s))
<1>1. CASE n = 1
  BY <1>1, PlanIs DEF RunSettlementPhase
<1>2. CASE n = 2
  BY <1>2, PlanIs DEF RunSettlementPhase
<1>3. CASE n = 3
  BY <1>3, PlanIs DEF RunSettlementPhase
<1>4. CASE n = 4
  BY <1>4, PlanIs DEF RunSettlementPhase
<1>5. CASE n = 5
  BY <1>5, PlanIs DEF RunSettlementPhase
<1>6. CASE n = 6
  BY <1>6, PlanIs DEF RunSettlementPhase
<1>7. CASE n = 7
  BY <1>7, PlanIs DEF RunSettlementPhase
<1> QED
  BY <1>1, <1>2, <1>3, <1>4, <1>5, <1>6, <1>7

LEMMA MidwayStep ==
  ASSUME NEW n \in 1..7, NEW t \in 0..MaxTick, NEW c \in SettlementCommand, NEW d \in SettlementData,
         NEW s \in [tick : 0..MaxTick, data : SettlementData],
         Books(s.data), Orderly(s.data), n > 1 => s.data.finalize_marker = None,
         n = 1 => s.data = d, n > 1 => Midway(n - 1, d, t, s),
         NEW o \in RunSettlementPhase(SettlementPlan[n].name, t, s, c)
  PROVE  /\ Midway(n, d, t, [s EXCEPT !.data = o.data])
         /\ ~o.ok => n = 2 /\ o.data = s.data
<1> DEFINE q == s.data
           e == o.data
           r == [s EXCEPT !.data = e]
<1>1. q \in SettlementData /\ (n > 1 => q \in DataWith({None}))
  BY MarkerTypes
<1>2. r.data = e /\ r.tick = s.tick
  OBVIOUS
<1>3. CASE n = 1
  <2>1. o = Done(ResetFinalizeMarker(d))
    BY <1>3, OutcomeIs
  <2>2. o.ok /\ e = ResetFinalizeMarker(d)
    BY <2>1 DEF Done
  <2> HIDE DEF e, r
  <2>3. Midway(1, d, t, r)
    BY <1>2, <2>2 DEF Midway, ResetFinalizeMarker, SettlementData, DataWith
  <2> QED
    BY <1>3, <2>2, <2>3 DEF r, e
<1>4. CASE n = 2
  <2>1. o = StageCommand(q, c)
    BY <1>4, OutcomeIs
  <2>2. e = q \/ e = StageAllocation(q, c.allocation)
    BY <2>1 DEF StageCommand, Done, Failed
  <2>3. ~o.ok => e = q
    BY <2>1 DEF StageCommand, Done, Failed
  <2>4. Midway(1, d, t, s)
    BY <1>4
  <2> HIDE DEF e, r, q
  <2>5. /\ e.population = q.population /\ e.shortage_ticks = q.shortage_ticks
        /\ e.cumulative_consumption = q.cumulative_consumption
        /\ e.cumulative_shortage = q.cumulative_shortage
    BY <1>1, <2>2 DEF StageAllocation, SettlementData, DataWith
  <2>6. Midway(2, d, t, r)
    BY <1>2, <2>4, <2>5 DEF Midway, q
  <2> QED
    BY <1>4, <2>3, <2>6 DEF r, e, q
<1>5. CASE n = 3
  <2>1. o = Done(ApplyPendingAllocation(q))
    BY <1>5, OutcomeIs
  <2>2. o.ok /\ e = ApplyPendingAllocation(q)
    BY <2>1 DEF Done
  <2>3. Midway(2, d, t, s) /\ (q.pending_allocation_present \/ q.pending_allocation = NoWorkers)
    BY <1>5 DEF Orderly
  <2> HIDE DEF e, r, q
  <2>4. /\ e.population = q.population /\ e.shortage_ticks = q.shortage_ticks
        /\ e.cumulative_consumption = q.cumulative_consumption
        /\ e.cumulative_shortage = q.cumulative_shortage
        /\ ~e.pending_allocation_present /\ e.pending_allocation = NoWorkers
    BY <1>1, <2>2, <2>3 DEF ApplyPendingAllocation, SettlementData, DataWith
  <2>5. Midway(3, d, t, r)
    BY <1>2, <2>3, <2>4 DEF Midway, q, PendingCleared
  <2> QED
    BY <1>5, <2>2, <2>5 DEF r, e
<1>6. CASE n = 4
  <2>1. o = Done(Produce(q))
    BY <1>6, OutcomeIs
  <2>2. o.ok /\ e = Produce(q)
    BY <2>1 DEF Done
  <2>3. Midway(3, d, t, s)
    BY <1>6
  <2> HIDE DEF e, r, q
  <2>4. /\ e.population = q.population /\ e.shortage_ticks = q.shortage_ticks
        /\ e.cumulative_consumption = q.cumulative_consumption
        /\ e.cumulative_shortage = q.cumulative_shortage
        /\ e.pending_allocation_present = q.pending_allocation_present
        /\ e.pending_allocation = q.pending_allocation
    BY <1>1, <2>2 DEF Produce, SettlementData, DataWith
  <2>5. Midway(4, d, t, r)
    BY <1>2, <2>3, <2>4 DEF Midway, q, PendingCleared
  <2> QED
    BY <1>6, <2>2, <2>5 DEF r, e
<1>7. CASE n = 5
  <2>1. o = Done(Consume(q))
    BY <1>7, OutcomeIs
  <2>2. o.ok /\ e = Consume(q)
    BY <2>1 DEF Done
  <2>3. Midway(4, d, t, s) /\ q \in DataWith({None}) /\ Books(q) /\ NonNegativeMetrics(q)
    BY <1>1, <1>7 DEF Orderly
  <2> HIDE DEF e, r, q
  <2>4. /\ DemandMet(q, e)
        /\ e.population = q.population /\ e.shortage_ticks = q.shortage_ticks
        /\ e.pending_allocation_present = q.pending_allocation_present
        /\ e.pending_allocation = q.pending_allocation
    BY <2>2, <2>3, ConsumeIs
  <2>5. DemandMet(d, e)
    BY <2>3, <2>4 DEF DemandMet, Midway, q
  <2>6. Midway(5, d, t, r)
    BY <1>2, <2>3, <2>4, <2>5 DEF Midway, q, PendingCleared
  <2> QED
    BY <1>7, <2>2, <2>6 DEF r, e
<1>8. CASE n = 6
  <2>1. o = Done(ResolveShortage(q))
    BY <1>8, OutcomeIs
  <2>2. o.ok /\ e = ResolveShortage(q)
    BY <2>1 DEF Done
  <2>3. Midway(5, d, t, s)
    BY <1>8
  <2> DEFINE status == StatusOf(q.last_shortage)
             ticks  == IF status # {} /\ q.shortage_ticks < MaxTick THEN q.shortage_ticks + 1
                       ELSE q.shortage_ticks
  <2>4. ResolveShortage(q) = [q EXCEPT !.last_status = status, !.shortage_ticks = ticks]
    BY DEF ResolveShortage, SettlementData, DataWith
  <2> HIDE DEF e, r, q, status, ticks
  <2>5. /\ e.population = q.population
        /\ e.cumulative_consumption = q.cumulative_consumption
        /\ e.cumulative_shortage = q.cumulative_shortage
        /\ e.last_consumption = q.last_consumption /\ e.last_shortage = q.last_shortage
        /\ e.pending_allocation_present = q.pending_allocation_present
        /\ e.pending_allocation = q.pending_allocation
        /\ e.last_status = status /\ e.shortage_ticks = ticks
    BY <1>1, <2>2, <2>4 DEF SettlementData, DataWith
  <2>6. DemandMet(d, e) /\ q.shortage_ticks = d.shortage_ticks /\ q.population = d.population
    BY <2>3, <2>5 DEF DemandMet, Midway, q
  <2>7. PendingCleared(e)
    BY <2>3, <2>5 DEF Midway, q, PendingCleared
  <2>8. Midway(6, d, t, r)
    BY <1>2, <2>5, <2>6, <2>7 DEF Midway, status, ticks
  <2> QED
    BY <1>8, <2>2, <2>8 DEF r, e
<1>9. CASE n = 7
  <2> DEFINE m == Some(MarkerOf(t, s))
  <2>1. o = Done(Finalize(t, s))
    BY <1>9, OutcomeIs
  <2>2. o.ok /\ e = [q EXCEPT !.finalize_marker = m]
    BY <2>1 DEF Done, Finalize
  <2>3. Midway(6, d, t, s) /\ q \in DataWith({None})
    BY <1>1, <1>9
  <2> HIDE DEF e, r, m
  <2>4. /\ e.population = q.population
        /\ e.cumulative_consumption = q.cumulative_consumption
        /\ e.cumulative_shortage = q.cumulative_shortage
        /\ e.last_consumption = q.last_consumption /\ e.last_shortage = q.last_shortage
        /\ e.pending_allocation_present = q.pending_allocation_present
        /\ e.pending_allocation = q.pending_allocation
        /\ e.last_status = q.last_status /\ e.shortage_ticks = q.shortage_ticks
        /\ e.finalize_marker = m
        /\ [e EXCEPT !.finalize_marker = None] = q
    <3> HIDE DEF q
    <3> QED
      BY <2>2, <2>3 DEF DataWith
  <2>5. m = Some(PreviewFinalizeMarker(t, r))
    <3>1. [r EXCEPT !.data = [@ EXCEPT !.finalize_marker = None]].data = q
      BY <1>2, <2>4 DEF r
    <3>2. [r EXCEPT !.data = [@ EXCEPT !.finalize_marker = None]].tick = s.tick
      BY <1>2 DEF r
    <3> QED
      BY <3>1, <3>2 DEF m, PreviewFinalizeMarker, MarkerOf
  <2> HIDE DEF q
  <2>6. DemandMet(d, e) /\ PendingCleared(e) /\ e.population = d.population
    BY <2>3, <2>4 DEF DemandMet, Midway, q, PendingCleared
  <2>7. Midway(7, d, t, r)
    BY <1>2, <2>3, <2>4, <2>5, <2>6 DEF Midway, q
  <2> QED
    BY <1>9, <2>2, <2>7 DEF r, e
<1> QED
  BY <1>3, <1>4, <1>5, <1>6, <1>7, <1>8, <1>9


-----------------------------------------------------------------------------
(***************************************************************************)
(* What the checkpoints of a tick can find.  The tick began in a state s0  *)
(* that was accepted; after that only a store that is too full is refused. *)
(***************************************************************************)
LEMMA CheckpointIs ==
  ASSUME NEW k \in 1..7, NEW b \in Engine!CheckpointAfter(SettlementPlan, k)
  PROVE  \/ k = 2 /\ b = "AfterInputApplied"
         \/ k = 6 /\ b = "AfterSimulationGroup"
         \/ k = 7 /\ b = "AfterFinalize"
<1>1. /\ SettlementPlan[1].group = "PreInput" /\ SettlementPlan[2].group = "Input"
      /\ SettlementPlan[3].group = "Simulation" /\ SettlementPlan[4].group = "Simulation"
      /\ SettlementPlan[5].group = "Simulation" /\ SettlementPlan[6].group = "Simulation"
      /\ SettlementPlan[7].group = "Finalize"
  BY DEF SettlementPlan, SettlementPhases
<1>2. k # 1
  BY <1>1 DEF Engine!CheckpointAfter
<1>3. k # 3
  BY <1>1, PlanType DEF Engine!CheckpointAfter
<1>4. k # 4
  BY <1>1, PlanType DEF Engine!CheckpointAfter
<1>5. k # 5
  BY <1>1, PlanType DEF Engine!CheckpointAfter
<1>6. k = 2 => b = "AfterInputApplied"
  BY <1>1 DEF Engine!CheckpointAfter
<1>7. k = 6 => b = "AfterSimulationGroup"
  BY <1>1 DEF Engine!CheckpointAfter
<1>8. k = 7 => b = "AfterFinalize"
  BY <1>1 DEF Engine!CheckpointAfter
<1> QED
  BY <1>2, <1>3, <1>4, <1>5, <1>6, <1>7, <1>8

LEMMA OnlyStoresAreRefused ==
  ASSUME NEW k \in 1..7, NEW t, NEW s0, SettlementAccepts("BeforeTickBegin", t, s0),
         NEW r, r.tick = s0.tick, Orderly(r.data), Explained(k + 1, r.data),
         Midway(k, s0.data, t, r), k < 7 => r.data.finalize_marker = None,
         NEW b \in Engine!CheckpointAfter(SettlementPlan, k),
         InventoryWithinLimits(r.data)
  PROVE  SettlementAccepts(b, t, r)
<1>1. r.tick = IF t > 0 THEN t - 1 ELSE 0
  BY DEF SettlementAccepts
<1>2. AllocationValid(r.data) /\ NonNegativeMetrics(r.data)
  BY DEF Orderly, AllocationValid
<1>3. \/ k = 2 /\ b = "AfterInputApplied"
      \/ k = 6 /\ b = "AfterSimulationGroup"
      \/ k = 7 /\ b = "AfterFinalize"
  BY CheckpointIs
<1>4. ShortageConsistent(r.data)
  BY <1>3 DEF Explained
<1>5. k # 2 => PendingCleared(r.data)
  BY <1>3 DEF Midway
<1>6. k = 7 => r.data.finalize_marker = Some(PreviewFinalizeMarker(t, r))
  BY DEF Midway
<1>7. CASE k = 2
  BY <1>1, <1>2, <1>3, <1>4, <1>7 DEF SettlementAccepts
<1>8. CASE k = 6
  BY <1>1, <1>2, <1>3, <1>4, <1>5, <1>8 DEF SettlementAccepts
<1>9. CASE k = 7
  BY <1>1, <1>2, <1>3, <1>4, <1>5, <1>6, <1>9 DEF SettlementAccepts
<1> QED
  BY <1>3, <1>7, <1>8, <1>9

LEMMA BeforeIs ==
  ASSUME NEW t, NEW s
  PROVE  SettlementAccepts("BeforeTickBegin", t, s) <=>
           /\ s.tick = IF t > 0 THEN t - 1 ELSE 0
           /\ AllocationValid(s.data) /\ InventoryWithinLimits(s.data)
           /\ NonNegativeMetrics(s.data) /\ ShortageConsistent(s.data)
           /\ PendingCleared(s.data) /\ PreviousMarker(s)
BY DEF SettlementAccepts

\* A state is accepted at the start of the tick that follows it or of none.
LEMMA AcceptedNext ==
  ASSUME NEW s \in Engine!Snapshot,
         SettlementAccepts("BeforeTickBegin", Engine!TickSucc(s.tick), s)
  PROVE  /\ SettlementAccepts("BeforeTickBegin", s.tick + 1, s)
         /\ s.tick < MaxTick \/ MaxTick = 0
<1>1. s.tick \in 0..MaxTick
  BY DEF Engine!Snapshot
<1>2. s.tick = IF Engine!TickSucc(s.tick) > 0 THEN Engine!TickSucc(s.tick) - 1 ELSE 0
  BY DEF SettlementAccepts
<1>3. s.tick < MaxTick \/ MaxTick = 0
  BY <1>1, <1>2, WidthAssumption DEF Engine!TickSucc
<1> DEFINE t == s.tick + 1
<1>4. s.tick = IF t > 0 THEN t - 1 ELSE 0
  BY <1>1, WidthAssumption
<1>5. /\ AllocationValid(s.data) /\ InventoryWithinLimits(s.data)
      /\ NonNegativeMetrics(s.data) /\ ShortageConsistent(s.data)
      /\ PendingCleared(s.data) /\ PreviousMarker(s)
  BY BeforeIs
<1> HIDE DEF t
<1>6. SettlementAccepts("BeforeTickBegin", t, s)
  BY <1>4, <1>5, BeforeIs
<1> QED
  BY <1>3, <1>6 DEF t

-----------------------------------------------------------------------------
(***************************************************************************)
(* The books of a tick: if they were right before it, they are right after *)
(* it, with one more demand in them.                                       *)
(***************************************************************************)
LEMMA Distribute == \A m, n \in Nat : (m + 1) * n = m * n + n
OBVIOUS

LEMMA BookedWithoutMarker ==
  ASSUME NEW s \in Engine!Snapshot, Booked(s)
  PROVE  Booked([s EXCEPT !.data = ResetFinalizeMarker(s.data)])
<1> DEFINE r == [s EXCEPT !.data = ResetFinalizeMarker(s.data)]
<1>1. r.tick = s.tick /\ r.data = ResetFinalizeMarker(s.data)
  BY DEF Engine!Snapshot
<1> HIDE DEF r
<1>2. /\ r.data.population = s.data.population
      /\ r.data.last_consumption = s.data.last_consumption
      /\ r.data.last_shortage = s.data.last_shortage
      /\ r.data.cumulative_consumption = s.data.cumulative_consumption
      /\ r.data.cumulative_shortage = s.data.cumulative_shortage
      /\ r.data.shortage_ticks = s.data.shortage_ticks
      /\ r.data.last_status = s.data.last_status
  BY <1>1 DEF ResetFinalizeMarker, Engine!Snapshot, SettlementData, DataWith
<1>3. Booked(r)
  BY <1>1, <1>2 DEF Booked
<1> QED
  BY <1>3 DEF r

LEMMA InitialBooked == Booked([tick |-> 0, data |-> FromConfig])
<1>1. ASSUME NEW r \in Resource
      PROVE  0 * Required(FromConfig.population)[r] = 0
  <2>1. FromConfig.population \in Nat
    BY ConfigTypes, WidthAssumption DEF FromConfig
  <2>2. Required(FromConfig.population)[r] \in Nat
    BY <2>1, RequiredRange, WidthAssumption
  <2> QED
    BY <2>2
<1> QED
  BY <1>1 DEF Booked, FromConfig, Zero

LEMMA BookedTick ==
  ASSUME NEW s0 \in Engine!Snapshot, Booked(s0), NonNegativeMetrics(s0.data), s0.tick < MaxTick,
         NEW t, NEW r, Midway(7, s0.data, t, r),
         NEW s, s.tick = s0.tick + 1, s.data = r.data
  PROVE  Booked(s)
<1> DEFINE d   == s0.data
           e   == s.data
           required == Required(d.population)
           n   == s0.tick
<1>1. n \in Nat /\ MaxTick \in Nat /\ n < MaxTick /\ MaxI64 \in Nat
  BY WidthAssumption DEF Engine!Snapshot
<1>2. d \in SettlementData /\ d.population \in Nat /\ d.shortage_ticks \in Nat
  BY WidthAssumption DEF Engine!Snapshot, SettlementData, DataWith
<1>3. ASSUME NEW x \in Resource
      PROVE  /\ required[x] \in Nat
             /\ d.cumulative_consumption[x] \in 0..MaxI64
             /\ d.cumulative_shortage[x] \in 0..MaxI64
  <2>1. d.cumulative_consumption[x] \in I64 /\ d.cumulative_shortage[x] \in I64
    BY <1>2 DEF SettlementData, DataWith
  <2>2. d.cumulative_consumption[x] >= 0 /\ d.cumulative_shortage[x] >= 0
    BY DEF NonNegativeMetrics
  <2> QED
    BY <1>1, <1>2, <2>1, <2>2, RequiredRange DEF I64
<1>4. /\ e.population = d.population
      /\ DemandMet(d, e)
      /\ e.last_status = StatusOf(e.last_shortage)
      /\ e.shortage_ticks = IF e.last_status # {} /\ d.shortage_ticks < MaxTick
                            THEN d.shortage_ticks + 1 ELSE d.shortage_ticks
  BY DEF Midway
<1>5. /\ \A x \in Resource :
           /\ d.cumulative_consumption[x] < MaxI64 /\ d.cumulative_shortage[x] < MaxI64 =>
                d.cumulative_consumption[x] + d.cumulative_shortage[x] = n * required[x]
      /\ d.shortage_ticks <= n
      /\ d.shortage_ticks = 0 <=> \A x \in Resource : d.cumulative_shortage[x] = 0
  BY DEF Booked
<1> HIDE DEF d, e, required, n
<1>6. ASSUME NEW x \in Resource
      PROVE  /\ e.last_consumption[x] \in 0..MaxI64 /\ e.last_shortage[x] \in 0..MaxI64
             /\ e.last_consumption[x] + e.last_shortage[x] = required[x]
             /\ e.cumulative_consumption[x] = SatAdd(d.cumulative_consumption[x], e.last_consumption[x])
             /\ e.cumulative_shortage[x] = SatAdd(d.cumulative_shortage[x], e.last_shortage[x])
  BY <1>4 DEF DemandMet, required
<1>7. ASSUME NEW x \in Resource,
             e.cumulative_consumption[x] < MaxI64, e.cumulative_shortage[x] < MaxI64
      PROVE  e.cumulative_consumption[x] + e.cumulative_shortage[x] = (n + 1) * required[x]
  <2>1. /\ e.cumulative_consumption[x] = d.cumulative_consumption[x] + e.last_consumption[x]
        /\ e.cumulative_shortage[x] = d.cumulative_shortage[x] + e.last_shortage[x]
    <3>1. \A i, j \in 0..MaxI64 : SatAdd(i, j) < MaxI64 => SatAdd(i, j) = i + j
      BY SatAddCounts
    <3> QED
      BY <1>3, <1>6, <1>7, <3>1
  <2>2. d.cumulative_consumption[x] < MaxI64 /\ d.cumulative_shortage[x] < MaxI64
    BY <1>1, <1>3, <1>6, <1>7, <2>1
  <2>3. d.cumulative_consumption[x] + d.cumulative_shortage[x] = n * required[x]
    BY <1>5, <2>2
  <2>4. (n + 1) * required[x] = n * required[x] + required[x] /\ n * required[x] \in Nat
    BY <1>1, <1>3, Distribute
  <2> DEFINE a == n * required[x]
             b == (n + 1) * required[x]
  <2>5. b = a + required[x] /\ a \in Nat /\ d.cumulative_consumption[x] + d.cumulative_shortage[x] = a
    BY <2>3, <2>4
  <2> HIDE DEF a, b
  <2>6. e.cumulative_consumption[x] + e.cumulative_shortage[x] = b
    BY <1>1, <1>3, <1>6, <2>1, <2>5
  <2> QED
    BY <2>6 DEF b
<1>8. e.shortage_ticks = IF e.last_status # {} THEN d.shortage_ticks + 1 ELSE d.shortage_ticks
  BY <1>1, <1>2, <1>4, <1>5
<1>9. e.shortage_ticks <= n + 1 /\ (e.last_status # {} => e.shortage_ticks > 0)
  BY <1>1, <1>2, <1>5, <1>8
<1>10. e.shortage_ticks = 0 <=> \A x \in Resource : e.cumulative_shortage[x] = 0
  <2>1. CASE e.last_status = {}
    <3>1. ASSUME NEW x \in Resource
          PROVE  e.cumulative_shortage[x] = d.cumulative_shortage[x]
      <4>1. ~(e.last_shortage[x] > 0)
        BY <1>4, <2>1 DEF StatusOf
      <4>2. e.last_shortage[x] = 0
        BY <1>1, <1>6, <4>1
      <4> QED
        BY <1>1, <1>3, <1>6, <4>2, SatAddCounts
    <3> QED
      BY <1>5, <1>8, <2>1, <3>1
  <2>2. CASE e.last_status # {}
    <3>1. PICK x \in Resource : e.last_shortage[x] > 0
      BY <1>4, <2>2 DEF StatusOf
    <3>2. e.cumulative_shortage[x] # 0
      <4>1. e.cumulative_shortage[x] < MaxI64 =>
              e.cumulative_shortage[x] = d.cumulative_shortage[x] + e.last_shortage[x]
        BY <1>3, <1>6, SatAddCounts
      <4> QED
        BY <1>1, <1>3, <1>6, <3>1, <4>1
    <3>3. e.shortage_ticks # 0
      BY <1>2, <1>8, <2>2
    <3> QED
      BY <3>2, <3>3
  <2> QED
    BY <2>1, <2>2
<1>11. Booked(s)
  <2>1. Required(e.population) = required /\ s.tick = n + 1 /\ s.data = e
    BY <1>4 DEF required, n, e
  <2> QED
    BY <1>6, <1>7, <1>9, <1>10, <2>1 DEF Booked
<1> QED
  BY <1>11


-----------------------------------------------------------------------------
(***************************************************************************)
(* The invariant of a settlement's ticks.  A tick carries with it the      *)
(* state s0 it began in, which was accepted and has its demands booked; an *)
(* engine at rest is where its last record says; and an engine that failed *)
(* did so in one of three ways.                                            *)
(***************************************************************************)
BookedIfAccepted(s) == SettlementAccepts("BeforeTickBegin", s.tick + 1, s) => Booked(s)

LastCommitted == Engine!Committed(Len(records))

\* No snapshot was restored since the last record.
Unspliced == Len(records) \notin splices

TickNow == Engine!The(pending).tick

Began(s0) ==
  /\ TickNow = Engine!TickSucc(s0.tick)
  /\ SettlementAccepts("BeforeTickBegin", TickNow, s0)
  /\ Booked(s0)
  /\ Unspliced => s0 = LastCommitted
  /\ cursor = 1 => state = s0
  /\ cursor > 1 => Midway(cursor - 1, s0.data, TickNow, state) /\ state.tick = s0.tick

Underway ==
  /\ pc = "validate" => TickNow = Engine!TickSucc(state.tick)
  /\ pc = "phases" => \E s0 \in Engine!Snapshot : Began(s0)

AtRest == (pending = None \/ pc = "validate") /\ Unspliced => state = LastCommitted

\* Every state that a tick may begin in, now or after a restore, has its demands booked.
Bookings ==
  /\ pc # "phases" => BookedIfAccepted(state)
  /\ held # None => BookedIfAccepted(Engine!The(held))
  /\ \A i \in 1..Len(records) :
       records[i].snapshot # None => BookedIfAccepted(Engine!The(records[i].snapshot))

CompletedState(s) ==
  PendingCleared(s.data) /\ s.data.finalize_marker # None /\ (s.tick # 0 \/ MaxTick = 0)

Completed == \A i \in 1..Len(records) : CompletedState(records[i].checksum)

\* Before the tick, in a check of it, or in the phase that stages its command.
FailedHow ==
  \/ /\ state = LastCommitted
     /\ result = "InvariantViolation" =>
          ~SettlementAccepts("BeforeTickBegin", Engine!TickSucc(state.tick), state)
  \/ ~InventoryWithinLimits(state.data)
  \/ state.tick > 0 /\ state.data.finalize_marker = None /\ result # "InvariantViolation"

FailedInv == Wedged /\ Unspliced => FailedHow

TickInvariant == Underway /\ AtRest /\ Bookings /\ Completed /\ FailedInv

LEMMA TickInit == Engine!Init => TickInvariant
<1> SUFFICES ASSUME Engine!Init
             PROVE  TickInvariant
  OBVIOUS
<1>1. /\ state = [tick |-> 0, data |-> FromConfig] /\ pending = None /\ records = <<>>
      /\ pc = "idle" /\ held = None
  BY NoneType DEF Engine!Init
<1>2. Len(records) = 0
  BY <1>1
<1>3. Underway
  BY <1>1 DEF Underway
<1>4. AtRest
  BY <1>1, <1>2 DEF AtRest, LastCommitted, Engine!Committed
<1>5. Bookings
  BY <1>1, <1>2, InitialBooked DEF Bookings, BookedIfAccepted
<1>6. Completed
  BY <1>2 DEF Completed
<1>7. FailedInv
  BY <1>1, NoneType DEF FailedInv, Wedged, Engine!Wedged
<1> QED
  BY <1>3, <1>4, <1>5, <1>6, <1>7 DEF TickInvariant

\* Steps that leave the engine where it is and do not fail a check.
LEMMA TickUntouched ==
  ASSUME TickInvariant, UNCHANGED <<state, pending, records, cursor, held, splices>>,
         pc' = pc \/ (pc = "idle" /\ pc' = "panicked"),
         result' = result \/ result' # "InvariantViolation"
  PROVE  TickInvariant'
<1>1. UNCHANGED <<LastCommitted, Unspliced, TickNow>>
  BY DEF LastCommitted, Unspliced, TickNow, Engine!Committed
<1>2. Underway'
  BY <1>1 DEF TickInvariant, Underway, Began
<1>3. AtRest'
  BY <1>1 DEF TickInvariant, AtRest
<1>4. Bookings'
  BY DEF TickInvariant, Bookings
<1>5. Completed'
  BY DEF TickInvariant, Completed
<1>6. FailedInv'
  BY <1>1 DEF TickInvariant, FailedInv, FailedHow, Wedged, Engine!Wedged
<1> QED
  BY <1>2, <1>3, <1>4, <1>5, <1>6 DEF TickInvariant

LEMMA TickBeginTick ==
  ASSUME IInv, TickInvariant, NEW f \in Engine!Frame, Engine!BeginTick(f)
  PROVE  TickInvariant'
<1>1. /\ pc = "idle" /\ pc' = "validate" /\ pending = None /\ f.tick = Engine!TickSucc(state.tick)
      /\ pending' = Engine!Some(Engine!PendingRecord(f))
      /\ UNCHANGED <<state, records, cursor, held, splices>>
  BY NoneType DEF Engine!BeginTick
<1>2. UNCHANGED <<LastCommitted, Unspliced>>
  BY <1>1 DEF LastCommitted, Unspliced, Engine!Committed
<1>3. Engine!The(pending') = Engine!PendingRecord(f)
  BY <1>1, SomeType
<1>4. TickNow' = f.tick
  BY <1>3 DEF TickNow, Engine!PendingRecord
<1>5. Underway'
  BY <1>1, <1>4 DEF Underway
<1>6. AtRest'
  BY <1>1, <1>2 DEF TickInvariant, AtRest
<1>7. Bookings'
  BY <1>1 DEF TickInvariant, Bookings
<1>8. Completed'
  BY <1>1 DEF TickInvariant, Completed
<1>9. FailedInv'
  BY <1>1 DEF FailedInv, Wedged, Engine!Wedged
<1> QED
  BY <1>5, <1>6, <1>7, <1>8, <1>9 DEF TickInvariant

LEMMA WithSummariesTick ==
  ASSUME NEW p \in Engine!PendingType, NEW cs, NEW s
  PROVE  Engine!WithSummaries(p, cs, s).tick = p.tick
BY DEF Engine!WithSummaries, Engine!PendingType


LEMMA TickValidate ==
  ASSUME IInv, TickInvariant, Engine!ValidateBeforeTick
  PROVE  TickInvariant'
<1> DEFINE p   == Engine!The(pending)
           due == Engine!Due({"BeforeTickBegin"})
<1>1. due = {"BeforeTickBegin"}
  BY DEF Engine!Due, Engine!ShouldValidate
<1>2. /\ pc = "validate" /\ UNCHANGED <<state, records, held, splices>>
      /\ \/ /\ SettlementAccepts("BeforeTickBegin", p.tick, state)
            /\ pending' = Engine!Some(Engine!WithSummaries(p, due, state))
            /\ pc' = "phases" /\ UNCHANGED <<cursor, result>>
         \/ /\ ~SettlementAccepts("BeforeTickBegin", p.tick, state)
            /\ pc' = "idle" /\ cursor' = 1 /\ UNCHANGED pending
  BY <1>1 DEF Engine!ValidateBeforeTick, Engine!ReturnError
<1>3. pending # None /\ p \in Engine!PendingType /\ state \in Engine!Snapshot /\ cursor = 1
  BY <1>2, TheType, NoneType DEF IInv, TypeOK, Engine!TypeOK, MarkerReset
<1>4. p.tick = TickNow /\ TickNow = Engine!TickSucc(state.tick)
  BY <1>2 DEF TickInvariant, Underway, TickNow
<1>5. UNCHANGED <<LastCommitted, Unspliced>>
  BY <1>2 DEF LastCommitted, Unspliced, Engine!Committed
<1>6. BookedIfAccepted(state) /\ (Unspliced => state = LastCommitted)
  BY <1>2 DEF TickInvariant, Bookings, AtRest
<1>7. CASE pc' = "phases"
  <2>1. /\ SettlementAccepts("BeforeTickBegin", TickNow, state)
        /\ pending' = Engine!Some(Engine!WithSummaries(p, due, state)) /\ cursor' = 1
    BY <1>2, <1>3, <1>4, <1>7
  <2>2. Engine!The(pending') = Engine!WithSummaries(p, due, state)
    BY <2>1, SomeType
  <2>3. TickNow' = TickNow
    <3>1. TickNow' = Engine!WithSummaries(p, due, state).tick
      BY <2>2 DEF TickNow
    <3> QED
      BY <1>3, <1>4, <3>1, WithSummariesTick
  <2>4. Booked(state)
    BY <1>3, <1>4, <1>6, <2>1, AcceptedNext DEF BookedIfAccepted
  <2>5. Began(state)'
    <3>1. TickNow' = Engine!TickSucc(state'.tick)
      BY <1>2, <1>4, <2>3
    <3>2. SettlementAccepts("BeforeTickBegin", TickNow', state')
      BY <1>2, <2>1, <2>3
    <3>3. Booked(state') /\ (Unspliced' => state' = LastCommitted')
      BY <1>2, <1>5, <1>6, <2>4
    <3> QED
      BY <2>1, <3>1, <3>2, <3>3 DEF Began
  <2>6. Underway'
    BY <1>2, <1>3, <1>7, <2>5 DEF Underway
  <2>7. AtRest' /\ FailedInv'
    <3>1. pending' # None
      BY <2>1 DEF Engine!Some, None
    <3> QED
      BY <1>7, <3>1 DEF AtRest, FailedInv, Wedged, Engine!Wedged
  <2>8. Bookings' /\ Completed'
    BY <1>2, <1>7 DEF TickInvariant, Bookings, Completed
  <2> QED
    BY <2>6, <2>7, <2>8 DEF TickInvariant
<1>8. CASE pc' # "phases"
  <2>1. /\ ~SettlementAccepts("BeforeTickBegin", TickNow, state)
        /\ pc' = "idle" /\ UNCHANGED pending
    BY <1>2, <1>4, <1>8
  <2>2. Underway'
    BY <2>1 DEF Underway
  <2>3. AtRest'
    BY <1>2, <1>3, <2>1 DEF AtRest
  <2>4. Bookings' /\ Completed'
    BY <1>2, <1>6, <2>1 DEF TickInvariant, Bookings, Completed
  <2>5. FailedInv'
    BY <1>2, <1>4, <1>5, <1>6, <2>1 DEF FailedInv, FailedHow
  <2> QED
    BY <2>2, <2>3, <2>4, <2>5 DEF TickInvariant
<1> QED
  BY <1>7, <1>8

LEMMA TickRunPhase ==
  ASSUME IInv, Presentable, TickInvariant, Engine!RunPhase
  PROVE  TickInvariant'
<1> DEFINE p == [Engine!The(pending) EXCEPT !.phase_markers = Append(@, plan[cursor])]
<1>1. PICK o \in RunSettlementPhase(plan[cursor].name, p.tick, state, p.command) :
        LET s   == [state EXCEPT !.data = o.data]
            due == IF o.ok THEN Engine!Due(Engine!CheckpointAfter(plan, cursor)) ELSE {}
        IN  /\ state' = s
            /\ \/ /\ ~o.ok
                  /\ Engine!ReturnError("PhaseFailed")
                  /\ pending' = Engine!Some(p)
               \/ /\ \E c \in due : ~SettlementAccepts(c, p.tick, s)
                  /\ Engine!ReturnError("InvariantViolation")
                  /\ pending' = Engine!Some(p)
               \/ /\ o.ok
                  /\ \A c \in due : SettlementAccepts(c, p.tick, s)
                  /\ pending' = Engine!Some(Engine!WithSummaries(p, due, s))
                  /\ cursor' = cursor + 1
                  /\ UNCHANGED <<pc, result>>
  BY DEF Engine!RunPhase
<1> DEFINE t   == p.tick
           c   == p.command
           n   == cursor
           s   == [state EXCEPT !.data = o.data]
           due == IF o.ok THEN Engine!Due(Engine!CheckpointAfter(plan, cursor)) ELSE {}
<1>2. plan = SettlementPlan /\ pc = "phases" /\ n \in 1..7
  <2>1. plan = SettlementPlan /\ Len(plan) = 7
    BY PlanVariable DEF IInv
  <2>2. pc = "phases" /\ cursor \in 1..Len(plan) + 1 /\ cursor <= Len(plan)
    BY DEF IInv, TypeOK, Engine!TypeOK, Engine!RunPhase
  <2> QED
    BY <2>1, <2>2
<1>3. pending # None /\ Engine!The(pending) \in Engine!PendingType
  BY <1>2, TheType, NoneType DEF IInv, TypeOK, Engine!TypeOK
<1>4. p \in Engine!PendingType /\ t = TickNow
  <2>1. plan[cursor] \in Engine!Descriptor
    BY <1>2, PlanType
  <2>2. Append(Engine!The(pending).phase_markers, plan[cursor]) \in Seq(Engine!Descriptor)
    BY <1>3, <2>1 DEF Engine!PendingType
  <2> QED
    BY <1>3, <2>2 DEF Engine!PendingType, TickNow
<1>5. t \in 0..MaxTick /\ c \in SettlementCommand
  BY <1>4, CommandsAssumption DEF Engine!PendingType
<1>6. /\ state \in [tick : 0..MaxTick, data : SettlementData] /\ state \in Engine!Snapshot
      /\ Books(state.data) /\ Orderly(state.data) /\ Explained(n, state.data)
      /\ n > 1 => state.data.finalize_marker = None
  BY <1>2 DEF IInv, TypeOK, Engine!TypeOK, Engine!Snapshot, BooksKept, Presentable, MarkerReset
<1>7. PICK s0 \in Engine!Snapshot : Began(s0)
  BY <1>2 DEF TickInvariant, Underway
<1>8. /\ t = Engine!TickSucc(s0.tick) /\ SettlementAccepts("BeforeTickBegin", t, s0) /\ Booked(s0)
      /\ n = 1 => state = s0
      /\ n > 1 => Midway(n - 1, s0.data, t, state)
      /\ state.tick = s0.tick
  BY <1>2, <1>4, <1>7 DEF Began
<1>9. o \in RunSettlementPhase(SettlementPlan[n].name, t, state, c)
  BY <1>2
<1>10. /\ pc' = "idle" \/ pc' = "phases"
       /\ pending' = Engine!Some(p) \/ pending' = Engine!Some(Engine!WithSummaries(p, due, s))
       /\ state' = s /\ UNCHANGED <<records, held, splices>>
  BY <1>1, <1>2 DEF Engine!RunPhase, Engine!ReturnError
<1>11. \/ ~o.ok /\ pc' = "idle" /\ result' = "PhaseFailed"
       \/ /\ o.ok /\ pc' = "idle" /\ result' = "InvariantViolation"
          /\ \E b \in due : ~SettlementAccepts(b, t, s)
       \/ pc' = "phases" /\ cursor' = n + 1
  BY <1>1, <1>2 DEF Engine!ReturnError
<1>12. \A b \in due : b \in Engine!CheckpointAfter(SettlementPlan, n)
  BY <1>2 DEF Engine!Due
<1>13. TickNow' = t /\ pending' # None
  <2>1. Engine!The(Engine!Some(p)).tick = t
    BY <1>4, SomeType
  <2>2. Engine!The(Engine!Some(Engine!WithSummaries(p, due, s))).tick = t
    <3>1. Engine!WithSummaries(p, due, s).tick = p.tick
      BY <1>4, WithSummariesTick
    <3>2. Engine!The(Engine!Some(Engine!WithSummaries(p, due, s))) = Engine!WithSummaries(p, due, s)
      BY DEF Engine!The, Engine!Some
    <3> QED
      BY <3>1, <3>2
  <2>3. Engine!Some(p) # None /\ Engine!Some(Engine!WithSummaries(p, due, s)) # None
    BY DEF Engine!Some, None
  <2> QED
    BY <1>10, <2>1, <2>2, <2>3 DEF TickNow
<1>14. UNCHANGED <<LastCommitted, Unspliced>>
  BY <1>10 DEF LastCommitted, Unspliced, Engine!Committed
<1>15. s.data = o.data /\ s.tick = s0.tick
  BY <1>6, <1>8
<1> HIDE DEF p, due, t, c, n
<1>16. Midway(n, s0.data, t, s) /\ (~o.ok => n = 2 /\ o.data = state.data)
  <2>1. s0.data \in SettlementData
    BY DEF Engine!Snapshot
  <2> QED
    BY <1>2, <1>5, <1>6, <1>8, <1>9, <2>1, MidwayStep
<1>17. /\ Orderly(o.data) /\ Explained(n + 1, o.data)
       /\ n < 7 => o.data.finalize_marker = None
  BY <1>2, <1>5, <1>6, <1>9, PhaseOrderly, PhaseKeeps
<1> HIDE DEF s
<1>18. AtRest' /\ Completed'
  BY <1>10, <1>13 DEF TickInvariant, AtRest, Completed
<1>19. ASSUME pc' # "phases" => BookedIfAccepted(s)
       PROVE  Bookings'
  BY <1>10, <1>19 DEF TickInvariant, Bookings
<1>20. CASE pc' = "phases"
  <2>1. cursor' = n + 1 /\ cursor' - 1 = n /\ cursor' # 1
    BY <1>2, <1>11, <1>20
  <2>2. Began(s0)'
    <3>1. TickNow' = Engine!TickSucc(s0.tick) /\ SettlementAccepts("BeforeTickBegin", TickNow', s0)
      BY <1>8, <1>13
    <3>2. Unspliced' => s0 = LastCommitted'
      BY <1>7, <1>14 DEF Began
    <3>3. Midway(cursor' - 1, s0.data, TickNow', state')
      BY <1>10, <1>13, <1>16, <2>1
    <3>4. state'.tick = s0.tick
      BY <1>10, <1>15
    <3> QED
      BY <1>8, <2>1, <3>1, <3>2, <3>3, <3>4 DEF Began
  <2>3. Underway'
    BY <1>20, <2>2 DEF Underway, Engine!Snapshot
  <2>4. FailedInv'
    BY <1>20 DEF FailedInv, Wedged, Engine!Wedged
  <2> QED
    BY <1>18, <1>19, <1>20, <2>3, <2>4 DEF TickInvariant
<1>21. ASSUME pc' = "idle"
       PROVE  Underway'
  BY <1>21 DEF Underway
<1>22. CASE pc' = "idle" /\ result' = "InvariantViolation" /\ \E b \in due : ~SettlementAccepts(b, t, s)
  <2>1. ~InventoryWithinLimits(s.data)
    BY <1>2, <1>8, <1>12, <1>15, <1>16, <1>17, <1>22, OnlyStoresAreRefused
  <2>2. BookedIfAccepted(s)
    BY <2>1, BeforeIs DEF BookedIfAccepted
  <2>3. FailedInv'
    BY <1>10, <2>1 DEF FailedInv, FailedHow
  <2> QED
    BY <1>18, <1>19, <1>21, <1>22, <2>2, <2>3 DEF TickInvariant
<1>23. CASE ~o.ok /\ pc' = "idle" /\ result' = "PhaseFailed"
  <2> DEFINE r == [s0 EXCEPT !.data = ResetFinalizeMarker(s0.data)]
  <2>1. n = 2 /\ n - 1 = 1 /\ o.data = state.data
    BY <1>16, <1>23
  <2>2. Midway(1, s0.data, t, state)
    BY <1>8, <2>1
  <2>3. state.data = ResetFinalizeMarker(s0.data)
    BY <2>2 DEF Midway
  <2>4. s = r
    <3>1. s = [tick |-> s.tick, data |-> s.data]
      BY <1>6 DEF s
    <3>2. r = [tick |-> s0.tick, data |-> ResetFinalizeMarker(s0.data)]
      BY DEF Engine!Snapshot
    <3> QED
      BY <1>15, <2>1, <2>3, <3>1, <3>2
  <2>5. Booked(s)
    BY <1>8, <2>4, BookedWithoutMarker
  <2>6. s.data.finalize_marker = None
    BY <1>2, <1>15, <1>17, <2>1
  <2>7. s0.tick = 0 => s = s0
    <3> SUFFICES ASSUME s0.tick = 0 PROVE r = s0
      BY <2>4
    <3>1. s0.data.finalize_marker = None
      BY <1>8, BeforeIs DEF PreviousMarker
    <3>2. ResetFinalizeMarker(s0.data) = s0.data
      BY <3>1 DEF ResetFinalizeMarker, Engine!Snapshot, SettlementData, DataWith
    <3> QED
      BY <3>2 DEF Engine!Snapshot
  <2>8. s0.tick = 0 \/ s0.tick > 0
    BY WidthAssumption DEF Engine!Snapshot
  <2>9. FailedInv'
    <3> SUFFICES ASSUME Unspliced'
                 PROVE  FailedHow'
      BY DEF FailedInv
    <3>1. s0 = LastCommitted'
      BY <1>7, <1>14 DEF Began
    <3> QED
      BY <1>10, <1>15, <1>23, <2>6, <2>7, <2>8, <3>1 DEF FailedHow
  <2> QED
    BY <1>18, <1>19, <1>21, <1>23, <2>5, <2>9 DEF TickInvariant, BookedIfAccepted
<1> QED
  BY <1>11, <1>20, <1>22, <1>23


LEMMA TickCompleteTick ==
  ASSUME IInv, TickInvariant, Engine!CompleteTick
  PROVE  TickInvariant'
<1> DEFINE p == Engine!The(pending)
           s == [state EXCEPT !.tick = p.tick]
           r == Engine!RecordOf(p, s)
           n == Len(records)
<1>1. /\ pc = "phases" /\ cursor = 8
      /\ state' = s /\ records' = Append(records, r) /\ pending' = None
      /\ pc' = "idle" /\ UNCHANGED <<held, splices>>
  <2>1. Len(plan) = 7
    BY PlanVariable DEF IInv
  <2>2. cursor \in 1..8 /\ cursor > 7
    BY <2>1 DEF IInv, TypeOK, Engine!TypeOK, Engine!CompleteTick
  <2> QED
    BY <2>2, NoneType DEF Engine!CompleteTick
<1>2. /\ pending # None /\ p \in Engine!PendingType /\ state \in Engine!Snapshot
      /\ records \in Seq(Engine!RecordType)
  BY <1>1, TheType, NoneType DEF IInv, TypeOK, Engine!TypeOK
<1>3. s.tick = TickNow /\ s.data = state.data
  BY <1>2 DEF TickNow, Engine!Snapshot
<1>4. r.checksum = s /\ (r.snapshot = Engine!Some(s) \/ r.snapshot = None)
  BY NoneType DEF Engine!RecordOf
<1> HIDE DEF p, s, r
<1>5. n \in Nat /\ Len(records') = n + 1 /\ records'[n + 1] = r /\ \A i \in 1..n : records'[i] = records[i]
  BY <1>1, <1>2
<1>6. PICK s0 \in Engine!Snapshot : Began(s0)
  BY <1>1 DEF TickInvariant, Underway
<1>7. /\ TickNow = Engine!TickSucc(s0.tick) /\ SettlementAccepts("BeforeTickBegin", TickNow, s0)
      /\ Booked(s0) /\ Midway(7, s0.data, TickNow, state)
  <2>1. cursor - 1 = 7 /\ cursor > 1
    BY <1>1
  <2> QED
    BY <1>6, <2>1 DEF Began
<1>8. /\ PendingCleared(s.data) /\ s.data.finalize_marker # None
      /\ s0.tick < MaxTick => s.tick = s0.tick + 1
      /\ s.tick # 0 \/ MaxTick = 0
      /\ s0.tick < MaxTick \/ MaxTick = 0
  <2>1. PendingCleared(s.data) /\ s.data.finalize_marker = Some(PreviewFinalizeMarker(TickNow, state))
    BY <1>3, <1>7 DEF Midway
  <2>2. Some(PreviewFinalizeMarker(TickNow, state)) # None
    BY DEF Some, None
  <2>3. s0.tick \in 0..MaxTick /\ TickNow = IF s0.tick < MaxTick THEN s0.tick + 1 ELSE MaxTick
    BY <1>7 DEF Engine!Snapshot, Engine!TickSucc
  <2>4. s0.tick < MaxTick \/ MaxTick = 0
    BY <1>7, AcceptedNext
  <2> QED
    BY <1>3, <2>1, <2>2, <2>3, <2>4, WidthAssumption
<1>9. BookedIfAccepted(s)
  <2>1. CASE s0.tick < MaxTick
    <3>1. NonNegativeMetrics(s0.data)
      BY <1>7, BeforeIs
    <3>2. Booked(s)
      BY <1>3, <1>7, <1>8, <2>1, <3>1, BookedTick
    <3> QED
      BY <3>2 DEF BookedIfAccepted
  <2>2. CASE ~(s0.tick < MaxTick)
    <3>1. s.tick = 0
      BY <1>2, <1>3, <1>7, <1>8, <2>2, WidthAssumption DEF Engine!TickSucc, Engine!Snapshot
    <3>2. ~PreviousMarker(s)
      BY <1>8, <3>1 DEF PreviousMarker
    <3> QED
      BY <3>2, BeforeIs DEF BookedIfAccepted
  <2> QED
    BY <2>1, <2>2
<1>10. CompletedState(s)
  BY <1>8 DEF CompletedState
<1> HIDE DEF n
<1>11. LastCommitted' = s
  <2>1. Len(records') = n + 1 /\ n + 1 # 0 /\ records'[n + 1].checksum = s
    BY <1>4, <1>5
  <2> QED
    BY <2>1 DEF LastCommitted, Engine!Committed
<1>12. Underway' /\ AtRest'
  BY <1>1, <1>11 DEF Underway, AtRest
<1>13. FailedInv'
  BY <1>1, NoneType DEF FailedInv, Wedged, Engine!Wedged
<1>14. ASSUME NEW i \in 1..n + 1
       PROVE  i = n + 1 \/ (i \in 1..n /\ records'[i] = records[i])
  BY <1>5
<1>15. Completed'
  <2>1. \A i \in 1..n : CompletedState(records[i].checksum)
    BY DEF TickInvariant, Completed, n
  <2> QED
    BY <1>4, <1>5, <1>10, <1>14, <2>1 DEF Completed
<1>16. Bookings'
  <2>1. ASSUME NEW i \in 1..n + 1, records'[i].snapshot # None
        PROVE  BookedIfAccepted(Engine!The(records'[i].snapshot))
    <3>1. CASE i = n + 1
      <4>1. r.snapshot = Engine!Some(s) /\ records'[i].snapshot = r.snapshot
        BY <1>4, <1>5, <2>1, <3>1
      <4>2. Engine!The(records'[i].snapshot) = s
        BY <4>1 DEF Engine!The, Engine!Some
      <4> QED
        BY <1>9, <4>2
    <3>2. CASE i # n + 1
      <4>1. i \in 1..n /\ records'[i] = records[i]
        BY <1>14, <3>2
      <4>2. i \in 1..Len(records)
        BY <4>1 DEF n
      <4> QED
        BY <2>1, <4>1, <4>2 DEF TickInvariant, Bookings
    <3> QED
      BY <3>1, <3>2
  <2>2. BookedIfAccepted(state')
    BY <1>1, <1>9
  <2>3. held' # None => BookedIfAccepted(Engine!The(held'))
    BY <1>1 DEF TickInvariant, Bookings
  <2> QED
    BY <1>5, <2>1, <2>2, <2>3 DEF Bookings
<1> QED
  BY <1>12, <1>13, <1>15, <1>16 DEF TickInvariant

\* What the host can restore has been booked.
LEMMA RestoredBooked ==
  ASSUME IInv, TickInvariant, NEW s \in Engine!HostSnapshots
  PROVE  BookedIfAccepted(s)
<1>1. CASE s \in Imported
  BY <1>1, ImportedAssumption DEF BookedIfAccepted
<1>2. CASE s \notin Imported
  <2>1. PICK o \in ({held} \cup {records[i].snapshot : i \in 1..Len(records)}) \ {Engine!None} :
          s = Engine!The(o)
    BY <1>2 DEF Engine!HostSnapshots
  <2>2. o # None
    BY <2>1, NoneType
  <2> QED
    BY <2>1, <2>2 DEF TickInvariant, Bookings
<1> QED
  BY <1>1, <1>2

LEMMA TickNext == IInv /\ Presentable /\ TickInvariant /\ [Engine!Next]_Engine!vars => TickInvariant'
<1> SUFFICES ASSUME IInv, Presentable, TickInvariant, [Engine!Next]_Engine!vars
             PROVE  TickInvariant'
  OBVIOUS
<1>1. ASSUME NEW f \in Engine!Frame, Engine!TickUnexpected(f) \/ Engine!TickWhilePending(f)
      PROVE  TickInvariant'
  <2>1. /\ UNCHANGED <<state, pending, records, cursor, held, splices, pc>>
        /\ result' \in {"UnexpectedInputTick", "ReplayLifecycle"}
    BY <1>1 DEF Engine!TickUnexpected, Engine!TickWhilePending
  <2> QED
    BY <2>1, TickUntouched
<1>2. ASSUME NEW f \in Engine!Frame, Engine!BeginTick(f)
      PROVE  TickInvariant'
  BY <1>2, TickBeginTick
<1>3. ASSUME Engine!EngineStep
      PROVE  TickInvariant'
  BY <1>3, TickValidate, TickRunPhase, TickCompleteTick DEF Engine!EngineStep
<1>4. ASSUME Engine!ManualSnapshot
      PROVE  TickInvariant'
  <2>1. /\ pc = "idle" /\ held' = Engine!Some(state)
        /\ UNCHANGED <<state, pending, records, cursor, splices, pc, result>>
    BY <1>4 DEF Engine!ManualSnapshot
  <2>2. UNCHANGED <<LastCommitted, Unspliced, TickNow>>
    BY <2>1 DEF LastCommitted, Unspliced, TickNow, Engine!Committed
  <2>3. Engine!The(held') = state
    BY <2>1 DEF Engine!The, Engine!Some
  <2>4. BookedIfAccepted(state)
    BY <2>1 DEF TickInvariant, Bookings
  <2>5. Bookings'
    BY <2>1, <2>3, <2>4 DEF TickInvariant, Bookings
  <2>6. Underway' /\ AtRest' /\ Completed'
    BY <2>1, <2>2 DEF TickInvariant, Underway, AtRest, Completed
  <2>7. FailedInv'
    BY <2>1, <2>2 DEF TickInvariant, FailedInv, FailedHow, Wedged, Engine!Wedged
  <2> QED
    BY <2>5, <2>6, <2>7 DEF TickInvariant
<1>5. ASSUME NEW s \in Engine!HostSnapshots, Engine!RestoreSnapshot(s)
      PROVE  TickInvariant'
  <2>1. /\ pc' = "idle" /\ state' = s /\ UNCHANGED <<records, held>>
        /\ Len(records) \in splices'
    BY <1>5 DEF Engine!RestoreSnapshot
  <2>2. ~Unspliced'
    BY <2>1 DEF Unspliced
  <2>3. BookedIfAccepted(s)
    BY RestoredBooked
  <2>4. Bookings' /\ Completed'
    BY <2>1, <2>3 DEF TickInvariant, Bookings, Completed
  <2>5. Underway' /\ AtRest' /\ FailedInv'
    BY <2>1, <2>2 DEF Underway, AtRest, FailedInv
  <2> QED
    BY <2>4, <2>5 DEF TickInvariant
<1>6. ASSUME NEW s \in Engine!HostSnapshots, Engine!RestorePanics(s)
      PROVE  TickInvariant'
  <2>1. /\ UNCHANGED <<state, pending, records, cursor, held, splices, result>>
        /\ pc = "idle" /\ pc' = "panicked"
    BY <1>6 DEF Engine!RestorePanics
  <2> QED
    BY <2>1, TickUntouched
<1>7. ASSUME Engine!NewEngine
      PROVE  TickInvariant'
  <2>1. /\ state' = [tick |-> 0, data |-> FromConfig] /\ pending' = None /\ records' = <<>>
        /\ pc' = "idle" /\ held' = held
    BY <1>7, NoneType DEF Engine!NewEngine
  <2>2. Len(records') = 0
    BY <2>1
  <2>3. Underway' /\ AtRest'
    BY <2>1, <2>2 DEF Underway, AtRest, LastCommitted, Engine!Committed
  <2>4. Bookings' /\ Completed'
    BY <2>1, <2>2, InitialBooked DEF TickInvariant, Bookings, BookedIfAccepted, Completed
  <2>5. FailedInv'
    BY <2>1, NoneType DEF FailedInv, Wedged, Engine!Wedged
  <2> QED
    BY <2>3, <2>4, <2>5 DEF TickInvariant
<1>8. CASE UNCHANGED Engine!vars
  <2>1. UNCHANGED <<state, pending, records, cursor, held, splices, result, pc>>
    BY <1>8 DEF Engine!vars
  <2> QED
    BY <2>1, TickUntouched
<1> QED
  BY <1>1, <1>2, <1>3, <1>4, <1>5, <1>6, <1>7, <1>8 DEF Engine!Next, Engine!HostCall

LEMMA TicksHold == Spec => [](IInv /\ Presentable /\ TickInvariant)
<1>1. Engine!Init => Presentable
  BY InitialOrderly DEF Engine!Init, Presentable
<1> QED
  BY <1>1, InvInit, InvNext, PresentableNext, TickInit, TickNext, PTL DEF Spec, Engine!Spec

(***************************************************************************)
(* Every demand is booked once, in every settlement: in a state from which *)
(* the next tick may begin, what the population required since tick 0 is   *)
(* in the totals as consumed or as shortage, and the ticks with a shortage *)
(* are counted -- whatever ticks failed and whatever was restored before   *)
(* (settlement/mod.rs:586, 611).                                           *)
(***************************************************************************)
THEOREM DemandIsBooked == Spec => []DemandBooked
<1>1. TickInvariant => DemandBooked
  BY DEF TickInvariant, Bookings, BookedIfAccepted, DemandBooked, Resumable
<1> QED
  BY <1>1, TicksHold, PTL

(***************************************************************************)
(* A half executed tick cannot be resumed from: what a failed engine holds *)
(* is its last committed state, or is refused at the next BeforeTickBegin, *)
(* for every command and in every configuration (settlement/mod.rs:1003).  *)
(***************************************************************************)
THEOREM HalfTicksAreRefused == Spec => []HalfTickIsRefused
<1>1. IInv /\ TickInvariant => HalfTickIsRefused
  <2> SUFFICES ASSUME IInv, TickInvariant, Wedged, Unspliced
               PROVE  \/ state = LastCommitted
                      \/ ~SettlementAccepts("BeforeTickBegin", Engine!TickSucc(state.tick), state)
    BY DEF HalfTickIsRefused, Unspliced, LastCommitted
  <2>1. FailedHow
    BY DEF TickInvariant, FailedInv
  <2>2. state.tick > 0 /\ state.data.finalize_marker = None => ~PreviousMarker(state)
    BY DEF PreviousMarker
  <2> QED
    BY <2>1, <2>2, BeforeIs DEF FailedHow
<1> QED
  BY <1>1, TicksHold, PTL

(***************************************************************************)
(* The validator never stands in the way of a correct tick: unless it was  *)
(* restored from a snapshot, an engine fails an invariant check only when  *)
(* a resource has outgrown max_inventory, or at the last tick of the clock *)
(* (settlement/mod.rs:959).                                                *)
(***************************************************************************)
THEOREM OnlyFullStores == Spec => []OnlyFullStoresAreRefused
<1>1. IInv /\ Presentable /\ TickInvariant => OnlyFullStoresAreRefused
  <2> SUFFICES ASSUME IInv, Presentable, TickInvariant,
                      Wedged, result = "InvariantViolation", splices = {}, state.tick # MaxTick
               PROVE  \E r \in Resource : state.data.inventory[r] > Config.max_inventory
    BY DEF OnlyFullStoresAreRefused
  <2> DEFINE t == Engine!TickSucc(state.tick)
             n == Len(records)
  <2>1. /\ state \in Engine!Snapshot /\ records \in Seq(Engine!RecordType) /\ cursor = 1
        /\ Books(state.data)
    BY NoneType DEF IInv, TypeOK, Engine!TypeOK, MarkerReset, BooksKept, Wedged, Engine!Wedged
  <2>2. t = state.tick + 1 /\ state.tick \in Nat /\ MaxTick > 0
    BY <2>1, WidthAssumption DEF Engine!Snapshot, Engine!TickSucc
  <2>3. state.tick = IF t > 0 THEN t - 1 ELSE 0
    BY <2>2
  <2> HIDE DEF t
  <2>4. AllocationValid(state.data) /\ NonNegativeMetrics(state.data) /\ ShortageConsistent(state.data)
    BY <2>1 DEF Presentable, Orderly, Explained, AllocationValid
  <2>5. \/ state = LastCommitted /\ ~SettlementAccepts("BeforeTickBegin", t, state)
        \/ ~InventoryWithinLimits(state.data)
    BY DEF TickInvariant, FailedInv, FailedHow, Unspliced, t
  <2>6. state = LastCommitted => PendingCleared(state.data) /\ PreviousMarker(state)
    <3>1. CASE n = 0
      <4>1. LastCommitted = [tick |-> 0, data |-> FromConfig]
        BY <3>1 DEF LastCommitted, Engine!Committed
      <4> QED
        BY <4>1 DEF FromConfig, PendingCleared, PreviousMarker
    <3>2. CASE n # 0
      <4>1. n \in 1..Len(records)
        BY <2>1, <3>2
      <4>2. LastCommitted = records[n].checksum
        BY <3>2 DEF LastCommitted, Engine!Committed
      <4>3. CompletedState(LastCommitted)
        BY <4>1, <4>2 DEF TickInvariant, Completed
      <4> QED
        BY <2>2, <4>3 DEF CompletedState, PreviousMarker
    <3> QED
      BY <3>1, <3>2
  <2>7. ~InventoryWithinLimits(state.data)
    BY <2>3, <2>4, <2>5, <2>6, BeforeIs
  <2>8. PICK r \in Resource : state.data.inventory[r] \notin 0..Config.max_inventory
    BY <2>7 DEF InventoryWithinLimits
  <2>9. state.data.inventory[r] \in Int /\ state.data.inventory[r] >= 0
    BY <2>1, I64Type DEF Engine!Snapshot, SettlementData, DataWith, Books
  <2>10. Config.max_inventory \in Nat
    BY ConfigAssumption, WidthAssumption DEF ValidConfig
  <2> QED
    BY <2>8, <2>9, <2>10
<1> QED
  BY <1>1, TicksHold, PTL
=============================================================================
