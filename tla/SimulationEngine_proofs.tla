---------------------- MODULE SimulationEngine_proofs -----------------------
(***************************************************************************)
(* Proofs about SimulationEngine, for every state, system, adapter and     *)
(* duration that satisfies the assumptions of that module.                 *)
(***************************************************************************)
EXTENDS SimulationEngine, NaturalSets_proofs

-----------------------------------------------------------------------------
(***************************************************************************)
(* Checks.                                                                 *)
(***************************************************************************)
\* A nonempty set of positions below 6 has a least element.
LEMMA LeastPosition ==
  ASSUME NEW S \in SUBSET (1..5), S # {}
  PROVE  \E i \in S : \A j \in S : i <= j
<1>1. \A j \in S : j \in Nat /\ j \in {1, 2, 3, 4, 5}
  OBVIOUS
<1>2. \A j \in S : 1 <= j
  BY <1>1
<1>3. CASE 1 \in S
  BY <1>2, <1>3
<1>4. ASSUME 1 \notin S
      PROVE  \E i \in S : \A j \in S : i <= j
  <2>1. \A j \in S : 2 <= j
    BY <1>1, <1>4
  <2>2. CASE 2 \in S
    BY <2>1, <2>2
  <2>3. ASSUME 2 \notin S
        PROVE  \E i \in S : \A j \in S : i <= j
    <3>1. \A j \in S : 3 <= j
      BY <1>1, <1>4, <2>3
    <3>2. CASE 3 \in S
      BY <3>1, <3>2
    <3>3. ASSUME 3 \notin S
          PROVE  \E i \in S : \A j \in S : i <= j
      <4>1. \A j \in S : 4 <= j
        BY <1>1, <1>4, <2>3, <3>3
      <4>2. CASE 4 \in S
        BY <4>1, <4>2
      <4>3. CASE 4 \notin S
        <5>1. \A j \in S : j = 5
          BY <1>1, <1>4, <2>3, <3>3, <4>3
        <5>2. PICK j \in S : TRUE
          OBVIOUS
        <5> QED
          BY <1>1, <5>1, <5>2
      <4> QED
        BY <4>2, <4>3
    <3> QED
      BY <3>2, <3>3
  <2> QED
    BY <2>2, <2>3
<1> QED
  BY <1>3, <1>4

\* A list of checks yields "Ok" exactly if each of them does.
LEMMA FirstErrorIsOk ==
  ASSUME NEW checks, Len(checks) \in 1..5
  PROVE  FirstError(checks) = "Ok" <=> \A i \in 1..Len(checks) : checks[i] = "Ok"
<1> DEFINE IsFirst(i) == checks[i] # "Ok" /\ \A j \in 1..(i - 1) : checks[j] = "Ok"
           Failed == {i \in 1..Len(checks) : checks[i] # "Ok"}
<1>1. ASSUME NEW k \in 1..Len(checks), checks[k] # "Ok"
      PROVE  \E i \in 1..Len(checks) : IsFirst(i)
  <2>1. Failed \in SUBSET (1..5) /\ k \in Failed
    BY <1>1
  <2>2. PICK i \in Failed : \A j \in Failed : i <= j
    <3> HIDE DEF Failed
    <3> QED
      BY <2>1, LeastPosition
  <2>3. i \in 1..Len(checks) /\ checks[i] # "Ok"
    BY <2>2
  <2>4. ASSUME NEW j \in 1..(i - 1)
        PROVE  checks[j] = "Ok"
    <3>1. j \in 1..Len(checks) /\ ~(i <= j)
      BY <2>3, <2>4
    <3>2. j \notin Failed
      <4> HIDE DEF Failed
      <4> QED
        BY <2>2, <3>1
    <3> QED
      BY <3>1, <3>2
  <2> QED
    BY <2>3, <2>4
<1> QED
  BY <1>1 DEF FirstError

LEMMA ThreeChecks ==
  ASSUME NEW c1, NEW c2, NEW c3
  PROVE  FirstError(<<c1, c2, c3>>) = "Ok" <=> c1 = "Ok" /\ c2 = "Ok" /\ c3 = "Ok"
<1> DEFINE checks == <<c1, c2, c3>>
<1>1. Len(checks) = 3 /\ checks[1] = c1 /\ checks[2] = c2 /\ checks[3] = c3
  OBVIOUS
<1> HIDE DEF checks
<1>2. FirstError(checks) = "Ok" <=> \A i \in 1..Len(checks) : checks[i] = "Ok"
  <2>1. Len(checks) \in 1..5
    BY <1>1
  <2> QED
    BY <2>1, FirstErrorIsOk
<1>3. FirstError(checks) = "Ok" <=> c1 = "Ok" /\ c2 = "Ok" /\ c3 = "Ok"
  BY <1>1, <1>2
<1> QED
  BY <1>3 DEF checks

LEMMA FourChecks ==
  ASSUME NEW c1, NEW c2, NEW c3, NEW c4
  PROVE  FirstError(<<c1, c2, c3, c4>>) = "Ok" <=> c1 = "Ok" /\ c2 = "Ok" /\ c3 = "Ok" /\ c4 = "Ok"
<1> DEFINE checks == <<c1, c2, c3, c4>>
<1>1. Len(checks) = 4 /\ checks[1] = c1 /\ checks[2] = c2 /\ checks[3] = c3 /\ checks[4] = c4
  OBVIOUS
<1> HIDE DEF checks
<1>2. FirstError(checks) = "Ok" <=> \A i \in 1..Len(checks) : checks[i] = "Ok"
  <2>1. Len(checks) \in 1..5
    BY <1>1
  <2> QED
    BY <2>1, FirstErrorIsOk
<1>3. FirstError(checks) = "Ok" <=> c1 = "Ok" /\ c2 = "Ok" /\ c3 = "Ok" /\ c4 = "Ok"
  BY <1>1, <1>2
<1> QED
  BY <1>3 DEF checks

LEMMA FiveChecks ==
  ASSUME NEW c1, NEW c2, NEW c3, NEW c4, NEW c5
  PROVE  FirstError(<<c1, c2, c3, c4, c5>>) = "Ok"
           <=> c1 = "Ok" /\ c2 = "Ok" /\ c3 = "Ok" /\ c4 = "Ok" /\ c5 = "Ok"
<1> DEFINE checks == <<c1, c2, c3, c4, c5>>
<1>1. Len(checks) = 5 /\ checks[1] = c1 /\ checks[2] = c2 /\ checks[3] = c3 /\ checks[4] = c4 /\ checks[5] = c5
  OBVIOUS
<1> HIDE DEF checks
<1>2. FirstError(checks) = "Ok" <=> \A i \in 1..Len(checks) : checks[i] = "Ok"
  <2>1. Len(checks) \in 1..5
    BY <1>1
  <2> QED
    BY <2>1, FirstErrorIsOk
<1>3. FirstError(checks) = "Ok" <=> c1 = "Ok" /\ c2 = "Ok" /\ c3 = "Ok" /\ c4 = "Ok" /\ c5 = "Ok"
  BY <1>1, <1>2
<1> QED
  BY <1>3 DEF checks

\* What the checks of a snapshot, a boundary and an adapter come to.
LEMMA SnapshotErrorIsOk ==
  ASSUME NEW s
  PROVE  SnapshotError(s) = "Ok" <=>
           /\ Representable(s.tick)
           /\ s.elapsed = ElapsedAt(s.tick)
           /\ s.seed = Seed
           /\ s.state.last_completed_tick = s.tick
BY FourChecks DEF SnapshotError, Check

LEMMA MetadataErrorIsOk ==
  ASSUME NEW m
  PROVE  MetadataError(m) = "Ok" <=>
           /\ m.engine_version = CurrentEngineVersion
           /\ m.state_last_completed_tick = m.tick
           /\ Representable(m.tick)
           /\ m.elapsed = ElapsedAt(m.tick)
           /\ m.seed = Seed
BY FiveChecks DEF MetadataError, Check

LEMMA AdapterErrorIsOk ==
  ASSUME NEW a, NEW b
  PROVE  AdapterError(a, b) = "Ok" <=>
           /\ Supports(a, b.payload_version) # "throws"
           /\ Supports(a, b.payload_version) = "yes"
           /\ RestoreData(a, b.payload, b.payload_version) # None
BY ThreeChecks DEF AdapterError, Check

LEMMA CaptureErrorIsOk ==
  ASSUME NEW a, NEW s
  PROVE  CaptureError(a, s) = "Ok" <=>
           /\ s.state.last_completed_tick = s.tick
           /\ Supports(a, PayloadVersion(a)) = "yes"
           /\ CapturePayload(a, s.state.data) # None
<1> DEFINE c1 == Check(s.state.last_completed_tick = s.tick, "InvalidStateMetadata")
           c2 == Check(Supports(a, PayloadVersion(a)) = "yes", "AdapterContractViolation")
           c3 == Check(CapturePayload(a, s.state.data) # None, "adapter threw")
<1>1. CaptureError(a, s) = FirstError(<<c1, c2, c3>>)
  BY DEF CaptureError
<1>2. /\ c1 = "Ok" <=> s.state.last_completed_tick = s.tick
      /\ c2 = "Ok" <=> Supports(a, PayloadVersion(a)) = "yes"
      /\ c3 = "Ok" <=> CapturePayload(a, s.state.data) # None
  BY DEF Check
<1> HIDE DEF c1, c2, c3
<1>3. FirstError(<<c1, c2, c3>>) = "Ok" <=> c1 = "Ok" /\ c2 = "Ok" /\ c3 = "Ok"
  BY ThreeChecks
<1> QED
  BY <1>1, <1>2, <1>3

LEMMA BoundaryErrorIsOk ==
  ASSUME NEW a, NEW b, BoundaryError(a, b) = "Ok"
  PROVE  MetadataError(b.metadata) = "Ok" /\ AdapterError(a, b) = "Ok"
BY DEF BoundaryError

-----------------------------------------------------------------------------
(***************************************************************************)
(* Ticks and events.                                                       *)
(***************************************************************************)
LEMMA RepresentableTicks ==
  /\ MaxTime \div Duration \in Nat
  /\ \A t \in Nat : Representable(t) <=> t \in 0..(MaxTime \div Duration)
  /\ \A t \in Nat : Representable(t + 1) <=> t + 1 \in 1..(MaxTime \div Duration)
BY DurationAssumption DEF Representable

LEMMA RecordedType ==
  ASSUME TypeOK, NEW new \in Seq(EventType)
  PROVE  Recorded(new) \in Seq(EventType)
BY DEF TypeOK, Recorded

LEMMA EventTypes ==
  ASSUME NEW t \in Nat
  PROVE  /\ \A input \in Inputs : StartEvents(t, input) \in Seq(EventType)
         /\ \A system \in Systems : <<Event("SystemExecuted", t, Some(system))>> \in Seq(EventType)
         /\ \A kind \in {"TickCompleted", "SnapshotRestored"} : <<Event(kind, t, None)>> \in Seq(EventType)
<1>1. ASSUME NEW input \in Inputs
      PROVE  StartEvents(t, input) \in Seq(EventType)
  <2>1. Event("TickStarted", t, None) \in EventType /\ Event("InputApplied", t, Some(input)) \in EventType
    BY DEF Event, EventType
  <2> QED
    BY <2>1 DEF StartEvents
<1>2. \A system \in Systems : Event("SystemExecuted", t, Some(system)) \in EventType
  BY DEF Event, EventType
<1>3. \A kind \in {"TickCompleted", "SnapshotRestored"} : Event(kind, t, None) \in EventType
  BY DEF Event, EventType
<1> QED
  BY <1>1, <1>2, <1>3

LEMMA Extended ==
  ASSUME NEW es \in Seq(EventType), NEW new \in Seq(EventType)
  PROVE  /\ Len(es \o new) = Len(es) + Len(new)
         /\ \A k \in 1..Len(es) : (es \o new)[k] = es[k]
         /\ \A k \in 1..Len(new) : (es \o new)[Len(es) + k] = new[k]
OBVIOUS

\* Events that end no tick leave open where the engine is.
LEMMA EndsAtQuietly ==
  ASSUME NEW es \in Seq(EventType), NEW new \in Seq(EventType), NEW t, EndsAt(es, t),
         \A i \in 1..Len(new) : ~EndsTick(new[i])
  PROVE  EndsAt(es \o new, t)
<1> SUFFICES ASSUME NEW i \in 1..Len(es \o new), LastBoundary(es \o new, i, Len(es \o new))
             PROVE  (es \o new)[i].tick = t
  BY DEF EndsAt
<1>1. Len(es \o new) = Len(es) + Len(new)
  OBVIOUS
<1>2. \A j \in 1..Len(es) : (es \o new)[j] = es[j]
  OBVIOUS
<1>3. CASE i \in 1..Len(es)
  <2>1. LastBoundary(es, i, Len(es))
    BY <1>1, <1>2, <1>3 DEF LastBoundary
  <2> QED
    BY <1>2, <1>3, <2>1 DEF EndsAt
<1>4. CASE i \notin 1..Len(es)
  <2>1. i - Len(es) \in 1..Len(new) /\ (es \o new)[i] = new[i - Len(es)]
    BY <1>1, <1>4
  <2> QED
    BY <2>1 DEF LastBoundary
<1> QED
  BY <1>3, <1>4

\* An event that ends a tick tells where it is.
LEMMA EndsAtBoundary ==
  ASSUME NEW es \in Seq(EventType), NEW e \in EventType, EndsTick(e)
  PROVE  EndsAt(es \o <<e>>, e.tick)
<1>1. <<e>> \in Seq(EventType)
  OBVIOUS
<1>2. Len(es \o <<e>>) = Len(es) + 1 /\ (es \o <<e>>)[Len(es) + 1] = e
  BY <1>1
<1> QED
  BY <1>2 DEF EndsAt, LastBoundary

-----------------------------------------------------------------------------
(***************************************************************************)
(* The inductive invariant.  Inside step() the clock can still advance and *)
(* no call has failed; the clock never leaves the ticks that can be        *)
(* represented; and while assigning a state cannot throw, the state and    *)
(* the trace agree with the clock even between two systems.                *)
(***************************************************************************)
StepCanComplete == pc = "stepping" => result = "Ok" /\ Representable(clock + 1)

StateAtTheClock == ~copy_throws => state.last_completed_tick = clock

TraceAtTheClock == ~copy_throws /\ replay_capture_enabled => EndsAt(events, clock)

IInv ==
  /\ TypeOK
  /\ Representable(clock)
  /\ StepCanComplete
  /\ StateAtTheClock
  /\ TraceAtTheClock

LEMMA InvInit == Init => IInv
<1> SUFFICES ASSUME Init
             PROVE  IInv
  OBVIOUS
<1>1. TypeOK
  <2>1. copy_throws \in BOOLEAN
    BY EngineAssumption DEF Init
  <2>2. state \in States
    BY EngineAssumption DEF Init, States
  <2>3. \A i \in DOMAIN held : WellFormed(held[i])
    BY DEF Init, None
  <2>4. systems \in Seq(Systems) /\ events \in Seq(EventType)
    BY DEF Init
  <2> QED
    BY <2>1, <2>2, <2>3, <2>4 DEF Init, TypeOK
<1>2. Representable(clock)
  BY RepresentableTicks DEF Init
<1>3. EndsAt(events, clock)
  BY DEF Init, EndsAt
<1> QED
  BY <1>1, <1>2, <1>3 DEF Init, IInv, StepCanComplete, StateAtTheClock, TraceAtTheClock

\* A refused call, and a step that changes nothing.
LEMMA InvUntouched ==
  ASSUME IInv, UNCHANGED <<engineVars, others, pc>>, pc = "idle" \/ result' = result
  PROVE  IInv'
<1>1. UNCHANGED <<clock, state, systems, replay_capture_enabled, events, step, held, copy_throws, pc>>
  BY DEF engineVars, others
<1>2. TypeOK'
  <2>1. StepType' = StepType
    BY <1>1 DEF StepType
  <2> QED
    BY <1>1, <2>1 DEF IInv, TypeOK
<1> QED
  BY <1>1, <1>2 DEF IInv, StepCanComplete, StateAtTheClock, TraceAtTheClock

LEMMA InvBeginStep ==
  ASSUME IInv, NEW input \in Inputs, BeginStep(input)
  PROVE  IInv'
<1> DEFINE s   == [context |-> Context(clock + 1, input), done |-> {}, draws |-> 0]
           new == StartEvents(clock + 1, input)
<1>1. /\ pc' = "stepping" /\ step' = Some(s)
      /\ Representable(clock + 1)
      /\ events' = Recorded(new)
      /\ result' = "Ok"
      /\ UNCHANGED <<clock, state, systems, replay_capture_enabled, held, copy_throws>>
  BY DEF BeginStep, others
<1>2. clock + 1 \in Nat
  BY DEF IInv, TypeOK
<1>3. new \in Seq(EventType) /\ Len(new) = 2 /\ ~EndsTick(new[1]) /\ ~EndsTick(new[2])
  <2>1. new \in Seq(EventType)
    BY <1>2, EventTypes
  <2>2. Len(new) = 2 /\ new[1].kind = "TickStarted" /\ new[2].kind = "InputApplied"
    BY DEF StartEvents, Event
  <2> QED
    BY <2>1, <2>2 DEF EndsTick
<1>4. s \in StepType'
  <2> DEFINE Contexts == {Context(clock + 1, x) : x \in Inputs}
             Done     == SUBSET (1..Len(systems))
  <2>1. s.context \in Contexts /\ s.done \in Done /\ s.draws \in Draws
    BY RunAssumption
  <2>2. s = [context |-> s.context, done |-> s.done, draws |-> s.draws]
    OBVIOUS
  <2>3. StepType' = [context : Contexts, done : Done, draws : Draws]
    BY <1>1 DEF StepType
  <2> HIDE DEF Contexts, Done, s
  <2> QED
    BY <2>1, <2>2, <2>3
<1> HIDE DEF s, new
<1>5. TypeOK'
  <2>1. events' \in Seq(EventType)
    BY <1>1, <1>3, RecordedType DEF IInv
  <2>2. step' = Some(The(step')) /\ The(step') \in StepType'
    BY <1>1, <1>4 DEF Some, The
  <2> QED
    BY <1>1, <2>1, <2>2 DEF IInv, TypeOK
<1>6. TraceAtTheClock'
  <2> SUFFICES ASSUME ~copy_throws, replay_capture_enabled
               PROVE  EndsAt(events', clock)
    BY <1>1 DEF TraceAtTheClock
  <2>1. events' = events \o new
    BY <1>1 DEF Recorded
  <2>2. \A i \in 1..Len(new) : ~EndsTick(new[i])
    BY <1>3
  <2> QED
    BY <1>3, <2>1, <2>2, EndsAtQuietly DEF IInv, TypeOK, TraceAtTheClock
<1> QED
  BY <1>1, <1>5, <1>6 DEF IInv, StepCanComplete, StateAtTheClock

\* What a system makes of the state.
LEMMA OutcomeType ==
  ASSUME IInv, pc = "stepping", NEW i \in 1..Len(systems)
  PROVE  /\ systems[i] \in Systems
         /\ The(step) \in StepType
         /\ The(step).context.tick = clock + 1
         /\ Run(systems[i].name, The(step).context, [data |-> state.data, draws |-> The(step).draws])
              \in [ok : BOOLEAN, data : Data, draws : Draws]
<1>1. systems[i] \in Systems /\ The(step) \in StepType /\ state.data \in Data
  BY DEF IInv, TypeOK, States
<1>2. clock + 1 \in 1..(MaxTime \div Duration)
  BY RepresentableTicks DEF IInv, TypeOK, StepCanComplete
<1>3. PICK input \in Inputs : The(step).context = Context(clock + 1, input)
  BY <1>1 DEF StepType
<1>4. The(step).draws \in Draws
  BY <1>1 DEF StepType
<1>5. Run(systems[i].name, Context(clock + 1, input), [data |-> state.data, draws |-> The(step).draws])
        \in [ok : BOOLEAN, data : Data, draws : Draws]
  BY <1>1, <1>2, <1>4, RunAssumption
<1> QED
  BY <1>1, <1>3, <1>5 DEF Context

LEMMA InvRunSystem ==
  ASSUME IInv, NEW i \in 1..Len(systems), RunSystem(i)
  PROVE  IInv'
<1> DEFINE s       == The(step)
           outcome == Run(systems[i].name, s.context, [data |-> state.data, draws |-> s.draws])
           new     == <<Event("SystemExecuted", s.context.tick, Some(systems[i]))>>
<1>1. /\ pc = "stepping"
      /\ events' = Recorded(new)
      /\ state' = [state EXCEPT !.data = outcome.data]
      /\ \/ /\ step' = Some([s EXCEPT !.done = @ \cup {i}, !.draws = outcome.draws])
            /\ pc' = pc /\ result' = result
         \/ /\ step' = None
            /\ pc' = "idle"
      /\ UNCHANGED <<clock, systems, replay_capture_enabled, held, copy_throws>>
  BY DEF RunSystem, others
<1>2. /\ systems[i] \in Systems
      /\ s \in StepType
      /\ s.context.tick = clock + 1
      /\ outcome.data \in Data /\ outcome.draws \in Draws
  BY <1>1, OutcomeType
<1>3. new \in Seq(EventType)
  <2>1. clock + 1 \in Nat
    BY DEF IInv, TypeOK
  <2> QED
    BY <1>2, <2>1, EventTypes
<1>4. ~EndsTick(new[1]) /\ Len(new) = 1
  BY DEF Event, EndsTick
<1> HIDE DEF s, outcome, new
<1>5. state' \in States /\ state'.last_completed_tick = state.last_completed_tick
  BY <1>1, <1>2 DEF IInv, TypeOK, States
<1>6. \/ pc' = "idle" /\ step' = None
      \/ pc' = "stepping" /\ step' = Some(The(step')) /\ The(step') \in StepType'
  <2>1. CASE step' = None /\ pc' = "idle"
    BY <2>1
  <2>2. CASE step' = Some([s EXCEPT !.done = @ \cup {i}, !.draws = outcome.draws]) /\ pc' = pc
    <3>1. The(step') = [s EXCEPT !.done = @ \cup {i}, !.draws = outcome.draws]
      BY <2>2 DEF The, Some
    <3>2. [s EXCEPT !.done = @ \cup {i}, !.draws = outcome.draws] \in StepType
      BY <1>2 DEF StepType
    <3>3. StepType' = StepType
      BY <1>1 DEF StepType
    <3> QED
      BY <1>1, <2>2, <3>1, <3>2, <3>3
  <2> QED
    BY <1>1, <2>1, <2>2
<1>7. TypeOK'
  <2>1. events' \in Seq(EventType)
    BY <1>1, <1>3, RecordedType DEF IInv
  <2> QED
    BY <1>1, <1>5, <1>6, <2>1 DEF IInv, TypeOK
<1>8. TraceAtTheClock'
  <2> SUFFICES ASSUME ~copy_throws, replay_capture_enabled
               PROVE  EndsAt(events', clock)
    BY <1>1 DEF TraceAtTheClock
  <2>1. events' = events \o new
    BY <1>1 DEF Recorded
  <2> QED
    BY <1>3, <1>4, <2>1, EndsAtQuietly DEF IInv, TypeOK, TraceAtTheClock
<1>9. StepCanComplete'
  BY <1>1 DEF IInv, StepCanComplete
<1> QED
  BY <1>1, <1>5, <1>7, <1>8, <1>9 DEF IInv, StateAtTheClock, Representable

LEMMA InvCompleteStep ==
  ASSUME IInv, CompleteStep
  PROVE  IInv'
<1> DEFINE e == Event("TickCompleted", clock + 1, None)
<1>1. /\ pc = "stepping" /\ pc' = "idle" /\ step' = None
      /\ clock' = clock + 1
      /\ state' = [state EXCEPT !.last_completed_tick = clock + 1]
      /\ events' = Recorded(<<e>>)
      /\ UNCHANGED <<systems, replay_capture_enabled, held, copy_throws>>
  BY DEF CompleteStep, others
<1>2. clock + 1 \in Nat /\ Representable(clock')
  BY <1>1 DEF IInv, TypeOK, StepCanComplete
<1>3. <<e>> \in Seq(EventType) /\ e \in EventType /\ EndsTick(e) /\ e.tick = clock + 1
  BY <1>2, EventTypes DEF Event, EventType, EndsTick
<1> HIDE DEF e
<1>4. state' \in States /\ state'.last_completed_tick = clock'
  BY <1>1, <1>2 DEF IInv, TypeOK, States
<1>5. TypeOK'
  <2>1. events' \in Seq(EventType)
    BY <1>1, <1>3, RecordedType DEF IInv
  <2> QED
    BY <1>1, <1>2, <1>4, <2>1 DEF IInv, TypeOK
<1>6. TraceAtTheClock'
  <2> SUFFICES ASSUME replay_capture_enabled
               PROVE  EndsAt(events', clock')
    BY <1>1 DEF TraceAtTheClock
  <2>1. events' = events \o <<e>>
    BY <1>1 DEF Recorded
  <2> QED
    BY <1>1, <1>3, <2>1, EndsAtBoundary DEF IInv, TypeOK
<1> QED
  BY <1>1, <1>2, <1>4, <1>5, <1>6 DEF IInv, StepCanComplete, StateAtTheClock

\* The calls that change neither the clock nor the tick of the state.
LEMMA InvConfigure ==
  ASSUME IInv,
         \/ \E system \in Systems : AddSystem(system)
         \/ EnableReplayCapture \/ DisableReplayCapture \/ ClearReplayTrace
         \/ \E d \in Data : EditState(d)
  PROVE  IInv'
<1> USE DEF others
<1>1. /\ pc = "idle" /\ pc' = "idle" /\ step = None /\ step' = None
      /\ UNCHANGED <<clock, held, copy_throws>>
  BY DEF AddSystem, EnableReplayCapture, DisableReplayCapture, ClearReplayTrace, EditState, IInv, TypeOK
<1>2. systems' \in Seq(Systems)
  BY DEF AddSystem, EnableReplayCapture, DisableReplayCapture, ClearReplayTrace, EditState, IInv, TypeOK
<1>3. state' \in States /\ state'.last_completed_tick = state.last_completed_tick
  BY DEF AddSystem, EnableReplayCapture, DisableReplayCapture, ClearReplayTrace, EditState, IInv, TypeOK, States
<1>4. \/ events' = <<>>
      \/ events' = events /\ (replay_capture_enabled' => replay_capture_enabled)
  BY DEF AddSystem, EnableReplayCapture, DisableReplayCapture, ClearReplayTrace, EditState
<1>5. replay_capture_enabled' \in BOOLEAN
  BY DEF AddSystem, EnableReplayCapture, DisableReplayCapture, ClearReplayTrace, EditState, IInv, TypeOK
<1>6. TypeOK'
  <2>1. events' \in Seq(EventType)
    <3>1. events \in Seq(EventType)
      BY DEF IInv, TypeOK
    <3>2. <<>> \in Seq(EventType)
      OBVIOUS
    <3>3. events' = <<>> \/ events' = events
      BY <1>4
    <3> QED
      BY <3>1, <3>2, <3>3
  <2>2. clock' \in Nat /\ copy_throws' \in BOOLEAN /\ \A i \in DOMAIN held' : WellFormed(held'[i])
    BY <1>1 DEF IInv, TypeOK
  <2>3. States' = States /\ EventType' = EventType
    BY DEF States, EventType
  <2> QED
    BY <1>1, <1>2, <1>3, <1>5, <2>1, <2>2, <2>3 DEF TypeOK
<1>7. TraceAtTheClock'
  <2>1. CASE events' = <<>>
    BY <2>1 DEF TraceAtTheClock, EndsAt
  <2>2. CASE events' = events /\ (replay_capture_enabled' => replay_capture_enabled)
    BY <1>1, <2>2 DEF IInv, TraceAtTheClock
  <2> QED
    BY <1>4, <2>1, <2>2
<1> QED
  BY <1>1, <1>3, <1>6, <1>7 DEF IInv, StepCanComplete, StateAtTheClock

\* A boundary the engine has captured can be read only as what was captured.
LEMMA CapturedBoundary ==
  ASSUME IInv, NEW a \in Adapters, CaptureError(a, Snapshot) = "Ok",
         NEW r \in Adapters, AdapterError(r, BoundaryOf(a, Snapshot)) = "Ok"
  PROVE  LET b == BoundaryOf(a, Snapshot)
         IN  RestoreData(r, b.payload, b.payload_version) = Some(state.data)
<1> DEFINE captured == CapturePayload(a, state.data)
           restored == RestoreData(r, The(captured), PayloadVersion(a))
<1>1. state.data \in Data
  BY DEF IInv, TypeOK, States
<1>2. captured # None
  BY CaptureErrorIsOk DEF Snapshot
<1>3. /\ BoundaryOf(a, Snapshot).payload = The(captured)
      /\ BoundaryOf(a, Snapshot).payload_version = PayloadVersion(a)
  BY DEF BoundaryOf, Snapshot
<1>4. Supports(r, PayloadVersion(a)) = "yes" /\ restored # None
  BY <1>3, AdapterErrorIsOk
<1>5. restored \in {None, Some(state.data)}
  BY <1>1, <1>2, <1>4, AdapterAssumption
<1> QED
  BY <1>3, <1>4, <1>5

LEMMA InvCapture ==
  ASSUME IInv, CaptureSnapshot \/ \E a \in Adapters : CaptureSnapshotBoundary(a)
  PROVE  IInv'
<1>1. /\ pc = "idle"
      /\ UNCHANGED <<clock, state, systems, replay_capture_enabled, events, step, pc, copy_throws>>
  BY DEF CaptureSnapshot, CaptureSnapshotBoundary, engineVars
<1>2. \A i \in DOMAIN held' : WellFormed(held'[i])
  <2>1. CASE CaptureSnapshot
    <3> DEFINE g == Given("snapshot", Snapshot, reference)
    <3>1. WellFormed(g)
      BY DEF WellFormed, Given, Snapshot, IInv, TypeOK
    <3>2. held' = Some(g)
      BY <2>1 DEF CaptureSnapshot
    <3> QED
      BY <3>1, <3>2 DEF Some
  <2>2. ASSUME NEW a \in Adapters, CaptureSnapshotBoundary(a)
        PROVE  \A i \in DOMAIN held' : WellFormed(held'[i])
    <3> DEFINE g == Given("boundary", BoundaryOf(a, Snapshot), reference)
    <3>1. CASE CaptureError(a, Snapshot) = "Ok"
      <4>1. held' = Some(g)
        BY <2>2, <3>1 DEF CaptureSnapshotBoundary
      <4>2. g.value = BoundaryOf(a, Snapshot) /\ g.kind = "boundary"
        BY DEF Given
      <4>3. g.value.metadata.tick \in Nat
        BY <4>2 DEF BoundaryOf, MetadataOf, Snapshot, IInv, TypeOK
      <4>4. ASSUME NEW r \in Adapters, AdapterError(r, g.value) = "Ok"
            PROVE  The(RestoreData(r, g.value.payload, g.value.payload_version)) \in Data
        <5>1. RestoreData(r, g.value.payload, g.value.payload_version) = Some(state.data)
          BY <3>1, <4>2, <4>4, CapturedBoundary
        <5> QED
          BY <5>1 DEF Some, The, IInv, TypeOK, States
      <4>5. WellFormed(g)
        BY <4>2, <4>3, <4>4 DEF WellFormed
      <4> QED
        BY <4>1, <4>5 DEF Some
    <3>2. CASE CaptureError(a, Snapshot) # "Ok"
      BY <2>2, <3>2 DEF CaptureSnapshotBoundary, IInv, TypeOK
    <3> QED
      BY <3>1, <3>2
  <2> QED
    BY <2>1, <2>2
<1>3. TypeOK'
  <2>1. StepType' = StepType
    BY <1>1 DEF StepType
  <2> QED
    BY <1>1, <1>2, <2>1 DEF IInv, TypeOK
<1> QED
  BY <1>1, <1>3 DEF IInv, StepCanComplete, StateAtTheClock, TraceAtTheClock

\* What both restores do behind their checks.
LEMMA InvRestore ==
  ASSUME IInv, NEW s, NEW origin, pc = "idle", pc' = pc, UNCHANGED others, Restore(s, origin),
         s.tick \in Nat, s.state \in States, Representable(s.tick), s.state.last_completed_tick = s.tick
  PROVE  IInv'
<1> DEFINE e == Event("SnapshotRestored", s.tick, None)
<1>1. /\ clock' = s.tick
      /\ \/ state' = s.state /\ events' = Recorded(<<e>>)
         \/ /\ copy_throws
            /\ state' \in {state, [state EXCEPT !.last_completed_tick = s.state.last_completed_tick]}
            /\ events' = events
      /\ UNCHANGED <<systems, replay_capture_enabled, step, held, copy_throws>>
  BY DEF Restore, others
<1>2. <<e>> \in Seq(EventType) /\ e \in EventType /\ EndsTick(e) /\ e.tick = s.tick
  BY EventTypes DEF Event, EventType, EndsTick
<1> HIDE DEF e
<1>3. step = None
  BY DEF IInv, TypeOK
<1>4. state' \in States
  BY <1>1 DEF IInv, TypeOK, States
<1>5. TypeOK'
  <2>1. events' \in Seq(EventType)
    <3>1. events \in Seq(EventType) /\ Recorded(<<e>>) \in Seq(EventType)
      BY <1>2, RecordedType DEF IInv, TypeOK
    <3> QED
      BY <1>1, <3>1
  <2> QED
    BY <1>1, <1>3, <1>4, <2>1 DEF IInv, TypeOK
<1>6. StateAtTheClock'
  BY <1>1 DEF StateAtTheClock
<1>7. TraceAtTheClock'
  <2> SUFFICES ASSUME ~copy_throws, replay_capture_enabled
               PROVE  EndsAt(events', clock')
    BY <1>1 DEF TraceAtTheClock
  <2>1. events' = events \o <<e>>
    BY <1>1 DEF Recorded
  <2> QED
    BY <1>1, <1>2, <2>1, EndsAtBoundary DEF IInv, TypeOK
<1> QED
  BY <1>1, <1>5, <1>6, <1>7 DEF IInv, StepCanComplete

LEMMA RestorableIsWellFormed ==
  ASSUME TypeOK, NEW kind, NEW given \in Restorable(kind)
  PROVE  WellFormed(given) /\ given.kind = kind
BY ImportedAssumption DEF Restorable, TypeOK

LEMMA InvRestoreSnapshot ==
  ASSUME IInv, NEW given \in Restorable("snapshot"), RestoreSnapshot(given)
  PROVE  IInv'
<1> DEFINE s == given.value
<1>1. s.tick \in Nat /\ s.state \in States
  BY RestorableIsWellFormed DEF IInv, WellFormed
<1>2. CASE SnapshotError(s) = "Ok"
  <2>1. Restore(s, given.reference) /\ pc = "idle" /\ pc' = pc /\ UNCHANGED others
    BY <1>2 DEF RestoreSnapshot
  <2> QED
    BY <1>1, <1>2, <2>1, SnapshotErrorIsOk, InvRestore
<1>3. CASE SnapshotError(s) # "Ok"
  <2>1. pc = "idle" /\ UNCHANGED <<engineVars, others, pc>>
    BY <1>3 DEF RestoreSnapshot
  <2> QED
    BY <2>1, InvUntouched
<1> QED
  BY <1>2, <1>3

LEMMA InvRestoreSnapshotBoundary ==
  ASSUME IInv, NEW a \in Adapters, NEW given \in Restorable("boundary"), RestoreSnapshotBoundary(a, given)
  PROVE  IInv'
<1> DEFINE b == given.value
           s == SnapshotOfBoundary(a, b)
<1>1. CASE BoundaryError(a, b) = "Ok"
  <2>1. Restore(s, given.reference) /\ pc = "idle" /\ pc' = pc /\ UNCHANGED others
    BY <1>1 DEF RestoreSnapshotBoundary
  <2>2. MetadataError(b.metadata) = "Ok" /\ AdapterError(a, b) = "Ok"
    BY <1>1, BoundaryErrorIsOk
  <2>3. b.metadata.tick \in Nat /\ The(RestoreData(a, b.payload, b.payload_version)) \in Data
    BY <2>2, RestorableIsWellFormed DEF IInv, WellFormed
  <2>4. Representable(b.metadata.tick) /\ b.metadata.state_last_completed_tick = b.metadata.tick
    BY <2>2, MetadataErrorIsOk
  <2>5. /\ s.tick = b.metadata.tick
        /\ s.state \in States
        /\ s.state.last_completed_tick = b.metadata.tick
    BY <2>3, <2>4 DEF SnapshotOfBoundary, States
  <2> HIDE DEF s
  <2> QED
    BY <2>1, <2>3, <2>4, <2>5, InvRestore
<1>2. CASE BoundaryError(a, b) # "Ok"
  <2>1. pc = "idle" /\ UNCHANGED <<engineVars, others, pc>>
    BY <1>2 DEF RestoreSnapshotBoundary
  <2> QED
    BY <2>1, InvUntouched
<1> QED
  BY <1>1, <1>2

-----------------------------------------------------------------------------
LEMMA InvNext == IInv /\ [Next]_vars => IInv'
<1> SUFFICES ASSUME IInv, [Next]_vars
             PROVE  IInv'
  OBVIOUS
<1>1. CASE UNCHANGED vars
  BY <1>1, InvUntouched DEF vars
<1>2. CASE StepRefused
  BY <1>2, InvUntouched DEF StepRefused
<1>3. CASE \E input \in Inputs : BeginStep(input)
  BY <1>3, InvBeginStep
<1>4. CASE \E i \in 1..Len(systems) : RunSystem(i)
  BY <1>4, InvRunSystem
<1>5. CASE CompleteStep
  BY <1>5, InvCompleteStep
<1>6. CASE \/ \E system \in Systems : AddSystem(system)
           \/ EnableReplayCapture \/ DisableReplayCapture \/ ClearReplayTrace
           \/ \E d \in Data : EditState(d)
  BY <1>6, InvConfigure
<1>7. CASE CaptureSnapshot \/ \E a \in Adapters : CaptureSnapshotBoundary(a)
  BY <1>7, InvCapture
<1>8. CASE \E given \in Restorable("snapshot") : RestoreSnapshot(given)
  BY <1>8, InvRestoreSnapshot
<1>9. CASE \E a \in Adapters, given \in Restorable("boundary") : RestoreSnapshotBoundary(a, given)
  BY <1>9, InvRestoreSnapshotBoundary
<1> QED
  BY <1>1, <1>2, <1>3, <1>4, <1>5, <1>6, <1>7, <1>8, <1>9 DEF Next

LEMMA Invariant == Spec => []IInv
BY InvInit, InvNext, PTL DEF Spec

(***************************************************************************)
(* The engine's state has its type: inside step() the context is that of   *)
(* the tick behind the clock, and what the host holds could be restored    *)
(* (simulation_engine.hpp).                                                *)
(***************************************************************************)
THEOREM TypeCorrect == Spec => []TypeOK
<1>1. IInv => TypeOK
  BY DEF IInv
<1> QED
  BY <1>1, Invariant, PTL

(***************************************************************************)
(* What the engine captures it restores, for every state, duration and     *)
(* adapter, whatever was called before (simulation_engine.hpp:127, 251;    *)
(* snapshot_boundary.hpp:197).                                             *)
(***************************************************************************)
THEOREM CapturesRestore == Spec => []CapturesAreRestorable
<1>1. IInv => CapturesAreRestorable
  <2> SUFFICES ASSUME IInv, pc = "idle", ~copy_throws
               PROVE  /\ state.last_completed_tick = clock
                      /\ SnapshotError(Snapshot) = "Ok"
                      /\ \A a \in Adapters :
                           LET b == BoundaryOf(a, Snapshot)
                           IN  CaptureError(a, Snapshot) = "Ok" /\ AdapterError(a, b) = "Ok" =>
                                 /\ BoundaryError(a, b) = "Ok"
                                 /\ SnapshotOfBoundary(a, b) = Snapshot
    BY DEF CapturesAreRestorable
  <2>1. state.last_completed_tick = clock /\ Representable(clock) /\ state \in States
    BY DEF IInv, StateAtTheClock, TypeOK
  <2>2. SnapshotError(Snapshot) = "Ok"
    BY <2>1, SnapshotErrorIsOk DEF Snapshot
  <2>3. ASSUME NEW a \in Adapters, CaptureError(a, Snapshot) = "Ok",
               AdapterError(a, BoundaryOf(a, Snapshot)) = "Ok"
        PROVE  /\ BoundaryError(a, BoundaryOf(a, Snapshot)) = "Ok"
               /\ SnapshotOfBoundary(a, BoundaryOf(a, Snapshot)) = Snapshot
    <3> DEFINE b == BoundaryOf(a, Snapshot)
    <3>1. b.metadata = MetadataOf(Snapshot)
      BY DEF BoundaryOf
    <3>2. /\ b.metadata.engine_version = CurrentEngineVersion
          /\ b.metadata.tick = clock
          /\ b.metadata.elapsed = ElapsedAt(clock)
          /\ b.metadata.seed = Seed
          /\ b.metadata.state_last_completed_tick = clock
      BY <2>1, <3>1 DEF MetadataOf, Snapshot
    <3>3. MetadataError(b.metadata) = "Ok"
      BY <2>1, <3>2, MetadataErrorIsOk
    <3>4. The(RestoreData(a, b.payload, b.payload_version)) = state.data
      BY <2>3, CapturedBoundary DEF Some, The
    <3>5. state = [data |-> state.data, last_completed_tick |-> clock]
      BY <2>1 DEF States
    <3> HIDE DEF b
    <3>6. SnapshotOfBoundary(a, b) = Snapshot
      BY <3>2, <3>4, <3>5 DEF SnapshotOfBoundary, Snapshot
    <3> QED
      BY <2>3, <3>3, <3>6 DEF BoundaryError, b
  <2> QED
    BY <2>1, <2>2, <2>3
<1> QED
  BY <1>1, Invariant, PTL

(***************************************************************************)
(* While it is captured, the trace ends where the engine is, for every     *)
(* number of systems and events (simulation_engine.hpp:149, 223).          *)
(***************************************************************************)
THEOREM TraceEnds == Spec => []TraceEndsAtTheClock
<1>1. IInv => TraceEndsAtTheClock
  BY DEF IInv, TraceAtTheClock, TraceEndsAtTheClock
<1> QED
  BY <1>1, Invariant, PTL

(***************************************************************************)
(* A step that cannot begin and a restore that is refused leave the engine *)
(* as it was, for every adapter and every check it fails                   *)
(* (simulation_engine.hpp:158, 184).                                       *)
(***************************************************************************)
THEOREM RefusalsAreAtomic == Spec => RefusedCallsChangeNothing
<1> DEFINE Untouched == UNCHANGED <<clock, state, systems, events>>
           Refused   == result' \notin {"Ok", "system threw", "copy threw"}
<1>1. ASSUME IInv, [Next]_vars, Refused
      PROVE  Untouched
  <2>1. CASE UNCHANGED vars
    BY <2>1 DEF vars, engineVars
  <2>2. CASE StepRefused
    BY <2>2 DEF StepRefused, engineVars
  <2>3. CASE \E input \in Inputs : BeginStep(input)
    BY <1>1, <2>3 DEF BeginStep
  <2>4. CASE \E i \in 1..Len(systems) : RunSystem(i)
    <3>1. result' = "system threw" \/ (result' = result /\ result = "Ok")
      BY <1>1, <2>4 DEF RunSystem, IInv, StepCanComplete
    <3> QED
      BY <1>1, <3>1
  <2>5. CASE CompleteStep
    BY <1>1, <2>5 DEF CompleteStep
  <2>6. CASE \/ \E system \in Systems : AddSystem(system)
             \/ EnableReplayCapture \/ DisableReplayCapture \/ ClearReplayTrace
             \/ \E d \in Data : EditState(d)
    BY <1>1, <2>6 DEF AddSystem, EnableReplayCapture, DisableReplayCapture, ClearReplayTrace, EditState
  <2>7. CASE CaptureSnapshot \/ \E a \in Adapters : CaptureSnapshotBoundary(a)
    BY <2>7 DEF CaptureSnapshot, CaptureSnapshotBoundary, engineVars
  <2>8. CASE \E given \in Restorable("snapshot") : RestoreSnapshot(given)
    <3>1. PICK given : RestoreSnapshot(given)
      BY <2>8
    <3>2. SnapshotError(given.value) # "Ok"
      BY <1>1, <3>1 DEF RestoreSnapshot, Restore
    <3> QED
      BY <3>1, <3>2 DEF RestoreSnapshot, engineVars
  <2>9. CASE \E a \in Adapters, given \in Restorable("boundary") : RestoreSnapshotBoundary(a, given)
    <3>1. PICK a \in Adapters, given \in Restorable("boundary") : RestoreSnapshotBoundary(a, given)
      BY <2>9
    <3>2. BoundaryError(a, given.value) # "Ok"
      BY <1>1, <3>1 DEF RestoreSnapshotBoundary, Restore
    <3> QED
      BY <3>1, <3>2 DEF RestoreSnapshotBoundary, engineVars
  <2> QED
    BY <1>1, <2>1, <2>2, <2>3, <2>4, <2>5, <2>6, <2>7, <2>8, <2>9 DEF Next
<1>2. IInv /\ [Next]_vars => [Refused => Untouched]_vars
  BY <1>1
<1> QED
  BY <1>2, Invariant, PTL DEF Spec, RefusedCallsChangeNothing

-----------------------------------------------------------------------------
(***************************************************************************)
(* The order of the systems: Order(ss) is ss along Listing(ss).            *)
(***************************************************************************)
InPhase(ss, p) == {i \in 1..Len(ss) : ss[i].phase = Phases[p]}

Listing(ss) == Ascending(InPhase(ss, 1)) \o Ascending(InPhase(ss, 2)) \o Ascending(InPhase(ss, 3))

\* Of two positions of ss, the one that runs first.
Precedes(ss, i, j) ==
  \E p, q \in 1..3 :
    /\ ss[i].phase = Phases[p] /\ ss[j].phase = Phases[q]
    /\ p < q \/ (p = q /\ i < j)

RunsBefore(ss) == {e \in (1..Len(ss)) \X (1..Len(ss)) : Precedes(ss, e[1], e[2])}

LEMMA PhasesApart == \A p, q \in 1..3 : Phases[p] = Phases[q] => p = q
<1>1. Phases[1] = "PreUpdate" /\ Phases[2] = "Update" /\ Phases[3] = "PostUpdate"
  BY DEF Phases
<1>2. \A p \in 1..3 : p = 1 \/ p = 2 \/ p = 3
  OBVIOUS
<1> QED
  BY <1>1, <1>2

LEMMA RunsBeforeIsAnOrder ==
  ASSUME NEW ss \in Seq(Systems)
  PROVE  Asymmetric(RunsBefore(ss))
<1>1. ASSUME NEW i, NEW j, <<i, j>> \in RunsBefore(ss)
      PROVE  <<j, i>> \notin RunsBefore(ss)
  <2>1. i \in 1..Len(ss) /\ j \in 1..Len(ss) /\ Precedes(ss, i, j)
    BY <1>1 DEF RunsBefore
  <2>2. i \in Int /\ j \in Int
    BY <2>1
  <2>3. ~Precedes(ss, j, i)
    BY <2>1, <2>2, PhasesApart DEF Precedes
  <2> QED
    BY <2>3 DEF RunsBefore
<1> QED
  BY <1>1 DEF Asymmetric

LEMMA PhaseListed ==
  ASSUME NEW ss \in Seq(Systems), NEW p \in 1..3
  PROVE  LET a == Ascending(InPhase(ss, p))
         IN  /\ Lists(a, InPhase(ss, p), RunsBefore(ss))
             /\ a \in Seq(1..Len(ss))
             /\ Chosen(ss, InPhase(ss, p)) \in Seq(Systems)
             /\ Along(Chosen(ss, InPhase(ss, p)), ss, a)
<1> DEFINE S == InPhase(ss, p)
           a == Ascending(S)
<1>1. S \in SUBSET (1..Len(ss)) /\ Len(ss) \in Nat
  BY DEF InPhase
<1>2. \A i, j \in S : i < j => <<i, j>> \in RunsBefore(ss)
  BY DEF RunsBefore, Precedes, InPhase
<1> HIDE DEF S
<1>3. IsFiniteSet(S) /\ S \in SUBSET Nat /\ Chosen(ss, S) \in Seq(Systems) /\ Along(Chosen(ss, S), ss, a)
  BY <1>1, ChosenIs, ChosenAlong
<1>4. Lists(a, S, RunsBefore(ss))
  BY <1>2, <1>3, AscendingLists
<1> HIDE DEF a
<1>5. Len(a) \in Nat /\ a = [i \in 1..Len(a) |-> a[i]] /\ \A i \in 1..Len(a) : a[i] \in S
  BY <1>4 DEF Lists
<1>6. \A i \in 1..Len(a) : a[i] \in 1..Len(ss)
  BY <1>1, <1>5
<1>7. a \in Seq(1..Len(ss))
  BY <1>5, <1>6
<1> QED
  BY <1>3, <1>4, <1>7 DEF S, a

LEMMA UpTo ==
  ASSUME NEW n \in Nat
  PROVE  Cardinality(1..n) = n
BY FS_Interval

LEMMA OrderListed ==
  ASSUME NEW ss \in Seq(Systems)
  PROVE  /\ Lists(Listing(ss), 1..Len(ss), RunsBefore(ss))
         /\ Listing(ss) \in Seq(1..Len(ss)) /\ Len(Listing(ss)) = Len(ss)
         /\ Order(ss) \in Seq(Systems) /\ Len(Order(ss)) = Len(ss)
         /\ \A n \in 1..Len(ss) : Order(ss)[n] = ss[Listing(ss)[n]]
<1> DEFINE A(p) == Ascending(InPhase(ss, p))
           C(p) == Chosen(ss, InPhase(ss, p))
           P(p) == InPhase(ss, p)
           I == 1..Len(ss)
           R == RunsBefore(ss)
<1>1. \A p \in 1..3 : /\ Lists(A(p), P(p), R) /\ A(p) \in Seq(I)
                      /\ C(p) \in Seq(Systems) /\ Along(C(p), ss, A(p))
  BY PhaseListed
<1>2. /\ \A i \in P(1), j \in P(2) : <<i, j>> \in R
      /\ \A i \in P(1) \cup P(2), j \in P(3) : <<i, j>> \in R
  BY DEF RunsBefore, Precedes, InPhase
<1>3. P(1) \cup P(2) \cup P(3) = I
  <2>1. ASSUME NEW i \in I
        PROVE  \E p \in 1..3 : i \in P(p)
    <3>1. ss[i] \in Systems
      OBVIOUS
    <3>2. ss[i].phase \in {Phases[p] : p \in 1..3}
      BY <3>1, EngineAssumption
    <3> QED
      BY <3>2 DEF InPhase
  <2>2. \A p \in 1..3 : P(p) \subseteq I
    BY DEF InPhase
  <2>3. \A p \in 1..3 : p = 1 \/ p = 2 \/ p = 3
    OBVIOUS
  <2> QED
    BY <2>1, <2>2, <2>3
<1>4. Listing(ss) = A(1) \o A(2) \o A(3)
  BY DEF Listing
<1>5. Order(ss) = C(1) \o C(2) \o C(3)
  BY DEF Order, InPhase
<1> HIDE DEF A, C, P, R
<1>6. /\ Lists(A(1), P(1), R) /\ Lists(A(2), P(2), R) /\ Lists(A(3), P(3), R)
      /\ Along(C(1), ss, A(1)) /\ Along(C(2), ss, A(2)) /\ Along(C(3), ss, A(3))
  BY <1>1
<1>7. Lists(Listing(ss), I, R)
  <2>1. Lists(A(1) \o A(2), P(1) \cup P(2), R)
    BY <1>2, <1>6, ListsTogether
  <2>2. Lists(A(1) \o A(2) \o A(3), P(1) \cup P(2) \cup P(3), R)
    BY <1>2, <1>6, <2>1, ListsTogether
  <2> QED
    BY <1>3, <1>4, <2>2
<1>8. A(1) \in Seq(I) /\ A(2) \in Seq(I) /\ A(3) \in Seq(I)
      /\ C(1) \in Seq(Systems) /\ C(2) \in Seq(Systems) /\ C(3) \in Seq(Systems)
  BY <1>1
<1>9. A(1) \o A(2) \in Seq(I) /\ C(1) \o C(2) \in Seq(Systems)
  BY <1>8
<1>10. Along(C(1) \o C(2), ss, A(1) \o A(2))
  BY <1>6, <1>8, AlongTogether
<1>11. Along(Order(ss), ss, Listing(ss))
  <2>1. Along(C(1) \o C(2) \o C(3), ss, A(1) \o A(2) \o A(3))
    BY <1>6, <1>8, <1>9, <1>10, AlongTogether
  <2> QED
    BY <1>4, <1>5, <2>1
<1>12. Listing(ss) \in Seq(I) /\ Order(ss) \in Seq(Systems)
  BY <1>4, <1>5, <1>8, <1>9
<1>13. Len(Listing(ss)) = Len(ss)
  <2>1. Cardinality(I) = Len(Listing(ss))
    BY <1>7, ListedAt, RunsBeforeIsAnOrder DEF R
  <2>2. Cardinality(I) = Len(ss)
    <3>1. Len(ss) \in Nat
      OBVIOUS
    <3>2. Cardinality(1..Len(ss)) = Len(ss)
      BY ONLY <3>1, UpTo
    <3> QED
      BY ONLY <3>2 DEF I
  <2> QED
    BY <2>1, <2>2
<1> QED
  BY <1>7, <1>11, <1>12, <1>13 DEF Along, R

\* Before is that order.
LEMMA BeforeIs ==
  ASSUME TypeOK, NEW i \in 1..Len(systems), NEW j \in 1..Len(systems)
  PROVE  Before(i, j) <=> <<i, j>> \in RunsBefore(systems)
<1>1. systems[i] \in Systems /\ systems[j] \in Systems
  BY DEF TypeOK
<1>2. PICK p, q \in 1..3 : systems[i].phase = Phases[p] /\ systems[j].phase = Phases[q]
  BY <1>1, EngineAssumption
<1>3. Before(i, j) <=> p < q \/ (p = q /\ i < j)
  <2>1. Before(i, j) <=> (p = q => i < j) /\ \A r \in 1..(p - 1) : r # q
    <3>1. \A r \in 1..(p - 1) : r \in 1..3
      BY <1>2
    <3> QED
      BY <1>2, <3>1, PhasesApart DEF Before
  <2>2. (\A r \in 1..(p - 1) : r # q) <=> p <= q
    BY <1>2
  <2> QED
    BY <1>2, <2>1, <2>2
<1>4. Precedes(systems, i, j) <=> p < q \/ (p = q /\ i < j)
  BY <1>2, PhasesApart DEF Precedes
<1> QED
  BY <1>3, <1>4 DEF RunsBefore

-----------------------------------------------------------------------------
(***************************************************************************)
(* What the systems of a step come to: the function of WholeStep exists.   *)
(***************************************************************************)
NextRun(ss, context, i, r) == Run(ss[i].name, context, [data |-> r.data, draws |-> r.draws])

Runs(ss, context, data, n, run) ==
  run = [i \in 0..n |-> IF i = 0 THEN [ok |-> TRUE, data |-> data, draws |-> 0]
                        ELSE NextRun(ss, context, i, run[i - 1])]

RunOf(ss, context, data) == CHOOSE run : Runs(ss, context, data, Len(ss), run)

LEMMA RunsExist ==
  ASSUME NEW ss, NEW context, NEW data, NEW n \in Nat
  PROVE  \E run : Runs(ss, context, data, n, run)
<1> DEFINE first == [ok |-> TRUE, data |-> data, draws |-> 0]
           S == {m \in Nat : \E run : Runs(ss, context, data, m, run)}
<1> HIDE DEF first
<1>1. 0 \in S
  <2> DEFINE f == [i \in 0..0 |-> first]
  <2>1. \A i \in 0..0 : i = 0
    OBVIOUS
  <2>2. f = [i \in 0..0 |-> IF i = 0 THEN first ELSE NextRun(ss, context, i, f[i - 1])]
    BY <2>1
  <2>3. Runs(ss, context, data, 0, f)
    BY <2>2 DEF Runs, first
  <2> QED
    BY <2>3
<1>2. ASSUME NEW m \in Nat, m \in S
      PROVE  m + 1 \in S
  <2>1. PICK run : Runs(ss, context, data, m, run)
    BY <1>2
  <2>2. /\ run = [i \in 0..m |-> run[i]]
        /\ \A i \in 0..m : run[i] = IF i = 0 THEN first ELSE NextRun(ss, context, i, run[i - 1])
    BY <2>1 DEF Runs, first
  <2> DEFINE more == [i \in 0..m + 1 |-> IF i \in 0..m THEN run[i] ELSE NextRun(ss, context, i, run[i - 1])]
  <2>3. ASSUME NEW i \in 0..m + 1
        PROVE  more[i] = IF i = 0 THEN first ELSE NextRun(ss, context, i, more[i - 1])
    <3>1. i # 0 => i - 1 \in 0..m /\ more[i - 1] = run[i - 1]
      OBVIOUS
    <3>2. more[i] = IF i \in 0..m THEN run[i] ELSE NextRun(ss, context, i, run[i - 1])
      OBVIOUS
    <3>3. 0 \in 0..m
      OBVIOUS
    <3> HIDE DEF more
    <3>4. CASE i = 0
      BY <2>2, <3>2, <3>3, <3>4
    <3>5. CASE i # 0
      BY <2>2, <3>1, <3>2, <3>5
    <3> QED
      BY <3>4, <3>5
  <2>4. Runs(ss, context, data, m + 1, more)
    BY <2>3 DEF Runs, first
  <2> QED
    BY <2>4
<1> HIDE DEF S
<1>3. Nat \subseteq S
  BY <1>1, <1>2, SetInduction
<1> QED
  BY <1>3 DEF S

LEMMA RunUnfolds ==
  ASSUME NEW ss, NEW context, NEW data, Len(ss) \in Nat
  PROVE  /\ WholeStep(ss, context, data) = RunOf(ss, context, data)[Len(ss)].data
         /\ RunOf(ss, context, data)[0] = [ok |-> TRUE, data |-> data, draws |-> 0]
         /\ \A i \in 1..Len(ss) :
              RunOf(ss, context, data)[i] = NextRun(ss, context, i, RunOf(ss, context, data)[i - 1])
<1>1. Runs(ss, context, data, Len(ss), RunOf(ss, context, data))
  BY RunsExist DEF RunOf
<1>2. WholeStep(ss, context, data) = RunOf(ss, context, data)[Len(ss)].data
  BY DEF WholeStep, RunOf, Runs, NextRun
<1> DEFINE run == RunOf(ss, context, data)
           n   == Len(ss)
           first == [ok |-> TRUE, data |-> data, draws |-> 0]
<1> HIDE DEF run, n, first
<1>3. run = [i \in 0..n |-> IF i = 0 THEN first
                            ELSE NextRun(ss, context, i, run[i - 1])]
  BY <1>1 DEF Runs, run, n, first
<1>4. \A i \in 0..n : run[i] = IF i = 0 THEN first
                             ELSE NextRun(ss, context, i, run[i - 1])
  BY <1>3
<1>5. n \in Nat
  BY DEF n
<1>6. run[0] = first
  BY <1>4, <1>5
<1>7. ASSUME NEW i \in 1..n
      PROVE  run[i] = NextRun(ss, context, i, run[i - 1])
  <2>1. i \in 0..n /\ i # 0
    BY <1>5
  <2> QED
    BY <1>4, <2>1
<1> QED
  BY <1>2, <1>6, <1>7 DEF run, n, first

LEMMA WholeStepIs ==
  ASSUME NEW ss, NEW context, NEW data, Len(ss) \in Nat
  PROVE  WholeStep(ss, context, data) = RunOf(ss, context, data)[Len(ss)].data
BY RunUnfolds

LEMMA RunGoesOn ==
  ASSUME NEW ss, NEW context, NEW data, Len(ss) \in Nat, NEW i \in 1..Len(ss)
  PROVE  RunOf(ss, context, data)[i] = NextRun(ss, context, i, RunOf(ss, context, data)[i - 1])
BY RunUnfolds

-----------------------------------------------------------------------------
(***************************************************************************)
(* The second invariant.  In the middle of a step, the systems that have   *)
(* run are the first c of the listing; the uninterrupted engine has made   *)
(* of its data what is in the state, and of the random source what the     *)
(* step has left of it; and the trace ends with what was done.             *)
(***************************************************************************)
Ran(c) == {Listing(systems)[k] : k \in 1..c}

\* The step has come as far as the uninterrupted engine has after c systems.
AsTheReference(c) ==
  LET run == RunOf(Order(systems), The(step).context, The(reference).data)[c]
  IN  run.data = state.data /\ run.draws = The(step).draws

\* The trace ends with the beginning of the step and its first c systems.
Recording(c) ==
  LET first == Len(events) - c - 1
  IN  /\ first >= 1
      /\ events[first].kind = "TickStarted" /\ events[first].tick = clock + 1
      /\ events[first + 1].kind = "InputApplied" /\ events[first + 1].tick = clock + 1
      /\ \A k \in 1..c :
           events[first + 1 + k]
             = Event("SystemExecuted", clock + 1, Some(systems[Listing(systems)[k]]))

HasRun(c) ==
  /\ The(step).done = Ran(c)
  /\ reference # None => AsTheReference(c)
  /\ replay_capture_enabled => Recording(c)

StepUnderWay == pc = "stepping" => \E c \in 0..Len(systems) : HasRun(c)

\* The uninterrupted engine is where the engine is, except in the middle of a step.
ReferenceAtTheClock ==
  reference # None =>
    /\ reference = Some(The(reference)) /\ The(reference) \in States
    /\ The(reference).last_completed_tick = clock
    /\ state.last_completed_tick = clock
    /\ pc = "idle" => state = The(reference)

\* What the host holds leads to the state that the uninterrupted engine was in.
Matches(given) ==
  given.reference # None =>
    /\ given.reference = Some(The(given.reference))
    /\ given.kind = "snapshot" => given.value.state = The(given.reference)
    /\ given.kind = "boundary" =>
         \A a \in Adapters : AdapterError(a, given.value) = "Ok" =>
           SnapshotOfBoundary(a, given.value).state = The(given.reference)

HeldMatches == \A i \in DOMAIN held : Matches(held[i])

ReferenceInv == StepUnderWay /\ ReferenceAtTheClock /\ HeldMatches

\* The listing of the registered systems.
LEMMA SystemsListed ==
  ASSUME TypeOK
  PROVE  LET w == Listing(systems)
             N == Len(systems)
         IN  /\ N \in Nat /\ Len(w) = N
             /\ \A k \in 1..N : w[k] \in 1..N
             /\ \A i \in 1..N : \E k \in 1..N : w[k] = i
             /\ \A k, m \in 1..N : w[k] = w[m] => k = m
             /\ \A k, m \in 1..N : Before(w[k], w[m]) <=> k < m
             /\ Len(Order(systems)) = N
             /\ \A k \in 1..N : Order(systems)[k] = systems[w[k]]
<1> DEFINE w == Listing(systems)
           N == Len(systems)
<1>1. systems \in Seq(Systems) /\ N \in Nat
  BY DEF TypeOK
<1>2. /\ Lists(w, 1..N, RunsBefore(systems))
      /\ w \in Seq(1..N) /\ Len(w) = N
      /\ Len(Order(systems)) = N
      /\ \A k \in 1..N : Order(systems)[k] = systems[w[k]]
  BY <1>1, OrderListed
<1> HIDE DEF w
<1>3. /\ \A k, m \in 1..N : w[k] = w[m] => k = m
      /\ \A k, m \in 1..N : <<w[k], w[m]>> \in RunsBefore(systems) <=> k < m
  BY <1>1, <1>2, ListedAt, RunsBeforeIsAnOrder
<1>4. \A k \in 1..N : w[k] \in 1..N
  BY <1>2
<1>5. \A i \in 1..N : \E k \in 1..N : w[k] = i
  BY <1>2 DEF Lists
<1>6. \A k, m \in 1..N : Before(w[k], w[m]) <=> k < m
  BY <1>3, <1>4, BeforeIs
<1> QED
  BY <1>1, <1>2, <1>3, <1>4, <1>5, <1>6 DEF w

\* The system that runs next is the next of the listing.
LEMMA NextIs ==
  ASSUME TypeOK, NEW c \in 0..Len(systems), The(step).done = Ran(c),
         NEW i \in 1..Len(systems), IsNext(i)
  PROVE  /\ c + 1 \in 1..Len(systems)
         /\ i = Listing(systems)[c + 1]
         /\ The(step).done \cup {i} = Ran(c + 1)
<1> DEFINE w == Listing(systems)
           N == Len(systems)
<1>1. /\ N \in Nat /\ Len(w) = N
      /\ \A k \in 1..N : w[k] \in 1..N
      /\ \A k, m \in 1..N : w[k] = w[m] => k = m
      /\ \A k, m \in 1..N : Before(w[k], w[m]) <=> k < m
  BY SystemsListed
<1>2. PICK k \in 1..N : w[k] = i
  BY SystemsListed
<1>3. The(step).done = {w[m] : m \in 1..c}
  BY DEF Ran
<1>4. Waiting = (1..N) \ The(step).done
  BY DEF Waiting
<1> HIDE DEF w
<1>5. k \notin 1..c
  BY <1>2, <1>3, <1>4 DEF IsNext
<1>6. c \in Nat /\ k \in Nat /\ c < k /\ c + 1 \in 1..N
  BY <1>1, <1>5
<1>7. w[c + 1] \in Waiting
  <2>1. \A m \in 1..c : m \in 1..N /\ m # c + 1
    BY <1>1, <1>6
  <2>2. w[c + 1] \notin The(step).done
    BY <1>1, <1>3, <1>6, <2>1
  <2> QED
    BY <1>1, <1>4, <1>6, <2>2
<1>8. k = c + 1
  <2> SUFFICES ASSUME k # c + 1
               PROVE  FALSE
    OBVIOUS
  <2>1. w[c + 1] # i
    BY <1>1, <1>2, <1>6
  <2>2. Before(w[k], w[c + 1])
    BY <1>2, <1>7, <2>1 DEF IsNext
  <2> QED
    BY <1>1, <1>6, <2>2
<1>9. {w[m] : m \in 1..c} \cup {i} = {w[m] : m \in 1..c + 1}
  <2>1. \A m : m \in 1..c + 1 <=> m \in 1..c \/ m = c + 1
    BY <1>6
  <2> QED
    BY <1>2, <1>8, <2>1
<1> QED
  BY <1>2, <1>3, <1>6, <1>8, <1>9 DEF Ran, w

\* When none is left, all of them have run.
LEMMA AllHaveRun ==
  ASSUME TypeOK, NEW c \in 0..Len(systems), The(step).done = Ran(c), Waiting = {}
  PROVE  c = Len(systems)
<1> DEFINE w == Listing(systems)
           N == Len(systems)
<1> SUFFICES ASSUME c # N
             PROVE  FALSE
  OBVIOUS
<1>1. /\ N \in Nat
      /\ \A k \in 1..N : w[k] \in 1..N
      /\ \A k, m \in 1..N : w[k] = w[m] => k = m
  BY SystemsListed
<1>2. c + 1 \in 1..N /\ \A m \in 1..c : m \in 1..N /\ m # c + 1
  BY <1>1
<1>3. w[c + 1] \in The(step).done
  BY <1>1, <1>2 DEF Waiting
<1>4. PICK m \in 1..c : w[m] = w[c + 1]
  BY <1>3 DEF Ran
<1> HIDE DEF w
<1> QED
  BY <1>1, <1>2, <1>4

-----------------------------------------------------------------------------
(***************************************************************************)
(* The second invariant is kept.                                           *)
(***************************************************************************)
LEMMA ReferenceInit == Init => ReferenceInv
<1> SUFFICES ASSUME Init
             PROVE  ReferenceInv
  OBVIOUS
<1>1. reference = Some(state) /\ The(reference) = state /\ state \in States
  BY EngineAssumption DEF Init, Some, The, States
<1>2. ReferenceAtTheClock
  BY <1>1 DEF Init, ReferenceAtTheClock
<1>3. HeldMatches
  BY DEF Init, HeldMatches, None
<1> QED
  BY <1>2, <1>3 DEF Init, ReferenceInv, StepUnderWay

\* What the host holds is compared with nothing that changes.
LEMMA HeldUntouched ==
  ASSUME HeldMatches, held' = held
  PROVE  HeldMatches'
BY DEF HeldMatches, Matches

\* Steps between two calls that leave the engine's state and what it is compared with alone.
LEMMA ReferenceUntouched ==
  ASSUME ReferenceInv, UNCHANGED <<engineVars, pc>>, HeldMatches'
  PROVE  ReferenceInv'
<1>1. UNCHANGED <<clock, state, systems, replay_capture_enabled, events, step, reference, pc>>
  BY DEF engineVars
<1>2. StepUnderWay'
  <2>1. \A c : HasRun(c) => HasRun(c)'
    BY <1>1 DEF HasRun, Ran, AsTheReference, Recording
  <2> QED
    BY <1>1, <2>1 DEF ReferenceInv, StepUnderWay
<1>3. ReferenceAtTheClock'
  BY <1>1 DEF ReferenceInv, ReferenceAtTheClock
<1> QED
  BY <1>2, <1>3 DEF ReferenceInv

LEMMA ReferenceBeginStep ==
  ASSUME IInv, ReferenceInv, NEW input \in Inputs, BeginStep(input)
  PROVE  ReferenceInv'
<1> DEFINE s   == [context |-> Context(clock + 1, input), done |-> {}, draws |-> 0]
           new == StartEvents(clock + 1, input)
           L   == Len(events)
<1>1. /\ pc = "idle" /\ pc' = "stepping" /\ step' = Some(s)
      /\ events' = Recorded(new)
      /\ UNCHANGED <<clock, state, systems, replay_capture_enabled, reference, held>>
  BY DEF BeginStep, others
<1>2. The(step') = s
  BY <1>1 DEF Some, The
<1>3. TypeOK /\ clock \in Nat /\ events \in Seq(EventType) /\ L \in Nat /\ Len(systems) \in Nat
  BY DEF IInv, TypeOK
<1>4. The(step').done = Ran(0)'
  BY <1>2 DEF Ran
<1>5. reference # None => AsTheReference(0)'
  <2> SUFFICES ASSUME reference # None
               PROVE  AsTheReference(0)'
    OBVIOUS
  <2>1. state = The(reference)
    BY <1>1 DEF ReferenceInv, ReferenceAtTheClock
  <2>2. Len(Order(systems)) \in Nat
    BY <1>3, SystemsListed
  <2>3. RunOf(Order(systems), s.context, state.data)[0] = [ok |-> TRUE, data |-> state.data, draws |-> 0]
    BY <2>2, RunUnfolds
  <2> QED
    BY <1>1, <1>2, <2>1, <2>3 DEF AsTheReference
<1>6. replay_capture_enabled => Recording(0)'
  <2> SUFFICES ASSUME replay_capture_enabled
               PROVE  Recording(0)'
    OBVIOUS
  <2>1. events' = events \o new
    BY <1>1 DEF Recorded
  <2>2. /\ new \in Seq(EventType) /\ Len(new) = 2
        /\ new[1].kind = "TickStarted" /\ new[1].tick = clock + 1
        /\ new[2].kind = "InputApplied" /\ new[2].tick = clock + 1
    <3>1. clock + 1 \in Nat
      BY <1>3
    <3>2. new \in Seq(EventType)
      BY <3>1, EventTypes
    <3> QED
      BY <3>2 DEF StartEvents, Event
  <2> HIDE DEF new
  <2>3. Len(events') = L + 2 /\ events'[L + 1] = new[1] /\ events'[L + 2] = new[2]
    <3>1. 1 \in 1..Len(new) /\ 2 \in 1..Len(new) /\ Len(new) \in Nat
      BY <2>2
    <3>2. Len(events \o new) = L + Len(new) /\ \A k \in 1..Len(new) : (events \o new)[L + k] = new[k]
      BY <1>3, <2>2, Extended
    <3> QED
      BY <2>1, <2>2, <3>1, <3>2
  <2>4. Len(events') - 0 - 1 = L + 1 /\ L + 1 + 1 = L + 2
    BY <1>3, <2>3
  <2> QED
    BY <1>1, <1>3, <2>2, <2>3, <2>4 DEF Recording
<1>7. StepUnderWay'
  <2>1. HasRun(0)'
    BY <1>1, <1>4, <1>5, <1>6 DEF HasRun
  <2> QED
    BY <1>1, <1>3, <2>1 DEF StepUnderWay
<1>8. ReferenceAtTheClock'
  BY <1>1 DEF ReferenceInv, ReferenceAtTheClock
<1> QED
  BY <1>1, <1>7, <1>8, HeldUntouched DEF ReferenceInv

\* Where the events of a step that has run c systems are among L events.
LEMMA TailPositions ==
  ASSUME NEW L \in Nat, NEW c \in Nat, L - c - 1 >= 1
  PROVE  LET first == L - c - 1
         IN  /\ first \in 1..L /\ first + 1 \in 1..L /\ first + 1 \in 1..L + 1
             /\ first + 1 + (c + 1) = L + 1
             /\ \A k \in 1..c : first + 1 + k \in 1..L
             /\ \A k \in 1..c + 1 : k \in 1..c \/ k = c + 1
OBVIOUS

LEMMA ReferenceRunSystem ==
  ASSUME IInv, ReferenceInv, NEW i \in 1..Len(systems), RunSystem(i)
  PROVE  ReferenceInv'
<1> DEFINE s       == The(step)
           outcome == Run(systems[i].name, s.context, [data |-> state.data, draws |-> s.draws])
           e       == Event("SystemExecuted", s.context.tick, Some(systems[i]))
           t       == [s EXCEPT !.done = @ \cup {i}, !.draws = outcome.draws]
           L       == Len(events)
<1>1. /\ pc = "stepping" /\ IsNext(i)
      /\ events' = Recorded(<<e>>)
      /\ state' = [state EXCEPT !.data = outcome.data]
      /\ \/ step' = Some(t) /\ pc' = pc /\ reference' = reference
         \/ pc' = "idle" /\ reference' = None
      /\ UNCHANGED <<clock, systems, replay_capture_enabled, held>>
  BY DEF RunSystem, others
<1>2. TypeOK /\ state \in States /\ s \in StepType /\ s.context.tick = clock + 1 /\ e \in EventType
      /\ clock \in Nat /\ events \in Seq(EventType) /\ L \in Nat /\ systems[i] \in Systems
  <2>1. TypeOK /\ state \in States /\ clock \in Nat /\ events \in Seq(EventType) /\ L \in Nat
    BY DEF IInv, TypeOK
  <2>2. systems[i] \in Systems /\ s \in StepType /\ s.context.tick = clock + 1
    BY <1>1, OutcomeType
  <2>3. e \in EventType
    BY <2>1, <2>2 DEF Event, EventType
  <2> QED
    BY <2>1, <2>2, <2>3
<1>3. HeldMatches'
  BY <1>1, HeldUntouched DEF ReferenceInv
<1>4. CASE pc' = "idle" /\ reference' = None
  BY <1>3, <1>4 DEF ReferenceInv, StepUnderWay, ReferenceAtTheClock
<1>5. CASE step' = Some(t) /\ pc' = pc /\ reference' = reference
  <2>1. PICK c \in 0..Len(systems) : HasRun(c)
    BY <1>1 DEF ReferenceInv, StepUnderWay
  <2>2. /\ c + 1 \in 1..Len(systems)
        /\ i = Listing(systems)[c + 1]
        /\ s.done \cup {i} = Ran(c + 1)
    BY <1>1, <1>2, <2>1, NextIs DEF HasRun
  <2>3. c \in Nat /\ c + 1 \in 0..Len(systems)
    BY <1>2, <2>2 DEF TypeOK
  <2>4. The(step') = t /\ t.done = s.done \cup {i} /\ t.draws = outcome.draws /\ t.context = s.context
    <3>1. The(step') = t
      BY <1>5 DEF Some, The
    <3> QED
      BY <1>2, <3>1 DEF StepType
  <2>5. state'.data = outcome.data /\ state'.last_completed_tick = state.last_completed_tick
    BY <1>1, <1>2 DEF States
  <2>6. The(step').done = Ran(c + 1)'
    BY <1>1, <2>2, <2>4 DEF Ran
  <2>7. reference' # None => AsTheReference(c + 1)'
    <3> SUFFICES ASSUME reference # None
                 PROVE  AsTheReference(c + 1)'
      BY <1>5
    <3> DEFINE ss  == Order(systems)
               run == RunOf(ss, s.context, The(reference).data)
    <3>1. run[c].data = state.data /\ run[c].draws = s.draws
      BY <2>1 DEF HasRun, AsTheReference
    <3>2. Len(ss) = Len(systems) /\ Len(ss) \in Nat /\ ss[c + 1] = systems[i]
      BY <1>2, <2>2, SystemsListed
    <3>3. run[c + 1] = NextRun(ss, s.context, c + 1, run[c])
      <4>1. c + 1 \in 1..Len(ss) /\ c + 1 - 1 = c
        BY <2>2, <2>3, <3>2
      <4> HIDE DEF ss, s
      <4>2. run[c + 1] = NextRun(ss, s.context, c + 1, run[c + 1 - 1])
        BY <3>2, <4>1, RunGoesOn
      <4> HIDE DEF run
      <4> QED
        BY <4>1, <4>2
    <3> HIDE DEF run, ss
    <3>4. run[c + 1] = outcome
      BY <3>1, <3>2, <3>3 DEF NextRun
    <3> QED
      BY <1>1, <1>5, <2>4, <2>5, <3>4 DEF AsTheReference, run, ss
  <2>8. replay_capture_enabled' => Recording(c + 1)'
    <3> SUFFICES ASSUME replay_capture_enabled
                 PROVE  Recording(c + 1)'
      BY <1>1
    <3> DEFINE first == L - c - 1
    <3>1. /\ first >= 1
          /\ events[first].kind = "TickStarted" /\ events[first].tick = clock + 1
          /\ events[first + 1].kind = "InputApplied" /\ events[first + 1].tick = clock + 1
          /\ \A k \in 1..c :
               events[first + 1 + k] = Event("SystemExecuted", clock + 1, Some(systems[Listing(systems)[k]]))
      BY <2>1 DEF HasRun, Recording
    <3>2. events' = events \o <<e>>
      BY <1>1 DEF Recorded
    <3> HIDE DEF e
    <3>3. Len(events') = L + 1 /\ events'[L + 1] = e /\ \A k \in 1..L : events'[k] = events[k]
      BY <1>2, <3>2
    <3>4. /\ Len(events') - (c + 1) - 1 = first
          /\ first \in 1..L /\ first + 1 \in 1..L + 1 /\ first + 1 + (c + 1) = L + 1
          /\ \A k \in 1..c : first + 1 + k \in 1..L
          /\ \A k \in 1..c + 1 : k \in 1..c \/ k = c + 1
      <4>1. L \in Nat /\ c \in Nat /\ first >= 1
        BY <1>2, <2>3, <3>1
      <4>2. Len(events') - (c + 1) - 1 = first
        BY <3>3, <4>1
      <4> QED
        BY <4>1, <4>2, TailPositions
    <3>5. first + 1 \in 1..L
      <4>1. L \in Nat /\ c \in Nat /\ first >= 1
        BY <1>2, <2>3, <3>1
      <4> QED
        BY <4>1, TailPositions
    <3> HIDE DEF first
    <3>6. ASSUME NEW k \in 1..c + 1
          PROVE  events'[first + 1 + k] = Event("SystemExecuted", clock + 1, Some(systems[Listing(systems)[k]]))
      <4>1. CASE k \in 1..c
        BY <3>1, <3>3, <3>4, <4>1
      <4>2. CASE k = c + 1
        BY <1>2, <2>2, <3>3, <3>4, <4>2 DEF e
      <4> QED
        BY <3>4, <4>1, <4>2
    <3>7. /\ first >= 1
          /\ events'[first].kind = "TickStarted" /\ events'[first].tick = clock + 1
          /\ events'[first + 1].kind = "InputApplied" /\ events'[first + 1].tick = clock + 1
      BY <3>1, <3>3, <3>4, <3>5
    <3> QED
      BY <1>1, <3>4, <3>6, <3>7 DEF Recording
  <2>9. StepUnderWay'
    <3>1. HasRun(c + 1)'
      BY <2>6, <2>7, <2>8 DEF HasRun
    <3> QED
      BY <1>1, <2>3, <3>1 DEF StepUnderWay
  <2>10. ReferenceAtTheClock'
    BY <1>1, <1>5, <2>5 DEF ReferenceInv, ReferenceAtTheClock
  <2> QED
    BY <1>3, <2>9, <2>10 DEF ReferenceInv
<1> QED
  BY <1>1, <1>4, <1>5

LEMMA ReferenceCompleteStep ==
  ASSUME IInv, ReferenceInv, CompleteStep
  PROVE  ReferenceInv'
<1> DEFINE s     == The(step)
           input == s.context.input
           r     == The(reference)
           next  == Stepped(r, input)
<1>1. /\ pc = "stepping" /\ pc' = "idle" /\ Waiting = {}
      /\ clock' = clock + 1
      /\ state' = [state EXCEPT !.last_completed_tick = clock + 1]
      /\ reference' = [i \in DOMAIN reference |-> Stepped(reference[i], input)]
      /\ UNCHANGED <<systems, replay_capture_enabled, held>>
  BY DEF CompleteStep, others
<1>2. TypeOK /\ state \in States /\ s \in StepType /\ clock \in Nat /\ state.data \in Data
  BY <1>1 DEF IInv, TypeOK, States
<1>3. reference = None => reference' = None
  BY <1>1 DEF None
<1>4. ASSUME reference # None
      PROVE  reference' = Some(next) /\ state' = next
  <2>1. /\ reference = Some(r) /\ r \in States
        /\ r.last_completed_tick = clock
    BY <1>4 DEF ReferenceInv, ReferenceAtTheClock
  <2>2. reference' = Some(next)
    <3> HIDE DEF r, input
    <3>1. DOMAIN reference = 1..1 /\ reference[1] = r
      BY <2>1 DEF Some
    <3>2. reference' = [i \in 1..1 |-> next]
      <4>1. \A i \in 1..1 : i = 1
        OBVIOUS
      <4> QED
        BY <1>1, <3>1, <4>1
    <3> HIDE DEF next
    <3> QED
      BY <3>2 DEF Some
  <2>3. PICK c \in 0..Len(systems) : HasRun(c)
    BY <1>1 DEF ReferenceInv, StepUnderWay
  <2>4. c = Len(systems)
    BY <1>1, <1>2, <2>3, AllHaveRun DEF HasRun
  <2> DEFINE ss == Order(systems)
  <2>5. Len(ss) = Len(systems) /\ Len(ss) \in Nat
    BY <1>2, SystemsListed
  <2>6. RunOf(ss, s.context, r.data)[Len(ss)].data = state.data
    BY <1>4, <2>3, <2>4, <2>5 DEF HasRun, AsTheReference
  <2>7. WholeStep(ss, s.context, r.data) = state.data
    <3> HIDE DEF ss, s, r
    <3> QED
      BY <2>5, <2>6, WholeStepIs
  <2>8. s.context = Context(clock + 1, input)
    <3>1. PICK x \in Inputs : s.context = Context(clock + 1, x)
      BY <1>2 DEF StepType
    <3>2. input = x
      BY <3>1 DEF Context
    <3> QED
      BY <3>1, <3>2
  <2>9. next = [data |-> state.data, last_completed_tick |-> clock + 1]
    <3> HIDE DEF s, r, input, ss
    <3> QED
      BY <2>1, <2>7, <2>8 DEF Stepped, ss
  <2>10. state' = [data |-> state.data, last_completed_tick |-> clock + 1]
    BY <1>1, <1>2 DEF States
  <2> QED
    BY <2>2, <2>9, <2>10
<1>5. state' \in States /\ state'.last_completed_tick = clock'
  BY <1>1, <1>2 DEF States
<1>6. ReferenceAtTheClock'
  <2> HIDE DEF next
  <2>1. reference # None => The(reference') = next
    BY <1>4 DEF The, Some
  <2> QED
    BY <1>1, <1>3, <1>4, <1>5, <2>1 DEF ReferenceAtTheClock
<1>7. StepUnderWay'
  BY <1>1 DEF StepUnderWay
<1> QED
  BY <1>1, <1>6, <1>7, HeldUntouched DEF ReferenceInv

\* The host's calls between two steps that change neither the clock nor what it holds.
LEMMA ReferenceConfigure ==
  ASSUME IInv, ReferenceInv,
         \/ \E system \in Systems : AddSystem(system)
         \/ EnableReplayCapture \/ DisableReplayCapture \/ ClearReplayTrace
         \/ \E d \in Data : EditState(d)
  PROVE  ReferenceInv'
<1>1. /\ pc' = "idle" /\ pc = "idle"
      /\ UNCHANGED <<clock, held>>
      /\ \/ UNCHANGED <<state, reference>>
         \/ \E d \in Data : EditState(d)
  BY DEF AddSystem, EnableReplayCapture, DisableReplayCapture, ClearReplayTrace, EditState, others
<1>2. ASSUME NEW d \in Data, EditState(d)
      PROVE  ReferenceAtTheClock'
  <2>1. /\ state' = [state EXCEPT !.data = d]
        /\ reference' = [i \in DOMAIN reference |-> [reference[i] EXCEPT !.data = d]]
    BY <1>2 DEF EditState
  <2>2. state \in States
    BY DEF IInv, TypeOK
  <2>3. CASE reference = None
    BY <2>1, <2>3 DEF ReferenceAtTheClock, None
  <2>4. CASE reference # None
    <3>1. /\ reference = Some(state)
          /\ state.last_completed_tick = clock
      BY <1>1, <2>4 DEF ReferenceInv, ReferenceAtTheClock
    <3>2. DOMAIN reference = 1..1 /\ reference[1] = state
      BY <3>1 DEF Some
    <3>3. reference' = Some(state')
      <4>1. \A i \in 1..1 : i = 1
        OBVIOUS
      <4>2. reference' = [i \in 1..1 |-> state']
        BY <2>1, <3>2, <4>1
      <4> QED
        BY <4>2 DEF Some
    <3>4. The(reference') = state'
      BY <3>3 DEF Some, The
    <3>5. state' \in States /\ state'.last_completed_tick = clock
      BY <2>1, <2>2, <3>1 DEF States
    <3> QED
      BY <1>1, <3>3, <3>4, <3>5 DEF ReferenceAtTheClock
  <2> QED
    BY <2>3, <2>4
<1>3. ASSUME UNCHANGED <<state, reference>>
      PROVE  ReferenceAtTheClock'
  BY <1>1, <1>3 DEF ReferenceInv, ReferenceAtTheClock
<1>4. ReferenceAtTheClock'
  BY <1>1, <1>2, <1>3
<1> QED
  BY <1>1, <1>4, HeldUntouched DEF ReferenceInv, StepUnderWay

LEMMA ReferenceCapture ==
  ASSUME IInv, ReferenceInv, CaptureSnapshot \/ \E a \in Adapters : CaptureSnapshotBoundary(a)
  PROVE  ReferenceInv'
<1>1. pc = "idle" /\ UNCHANGED <<engineVars, pc>>
  BY DEF CaptureSnapshot, CaptureSnapshotBoundary
<1>2. reference # None => reference = Some(The(reference)) /\ The(reference) = state
  BY <1>1 DEF ReferenceInv, ReferenceAtTheClock
<1>3. CASE CaptureSnapshot
  <2> DEFINE g == Given("snapshot", Snapshot, reference)
  <2>1. held' = Some(g)
    BY <1>3 DEF CaptureSnapshot
  <2>2. g.kind = "snapshot" /\ g.value.state = state /\ g.reference = reference
    BY DEF Given, Snapshot
  <2> HIDE DEF g
  <2>3. Matches(g)
    BY <1>2, <2>2 DEF Matches
  <2>4. HeldMatches'
    BY <2>1, <2>3 DEF HeldMatches, Some
  <2> QED
    BY <1>1, <2>4, ReferenceUntouched
<1>4. ASSUME NEW a \in Adapters, CaptureSnapshotBoundary(a)
      PROVE  ReferenceInv'
  <2> DEFINE b == BoundaryOf(a, Snapshot)
             g == Given("boundary", b, reference)
  <2>1. CASE CaptureError(a, Snapshot) = "Ok"
    <3>1. held' = Some(g)
      BY <1>4, <2>1 DEF CaptureSnapshotBoundary
    <3>2. g.kind = "boundary" /\ g.value = b /\ g.reference = reference
      BY DEF Given
    <3>3. ASSUME NEW x \in Adapters, AdapterError(x, b) = "Ok"
          PROVE  SnapshotOfBoundary(x, b).state = state
      <4>1. RestoreData(x, b.payload, b.payload_version) = Some(state.data)
        BY <2>1, <3>3, CapturedBoundary
      <4>2. b.metadata.state_last_completed_tick = state.last_completed_tick
        BY DEF BoundaryOf, MetadataOf, Snapshot
      <4>3. state = [data |-> state.data, last_completed_tick |-> state.last_completed_tick]
        BY DEF IInv, TypeOK, States
      <4> HIDE DEF b
      <4> QED
        BY <4>1, <4>2, <4>3 DEF SnapshotOfBoundary, Some, The
    <3> HIDE DEF g, b
    <3>4. Matches(g)
      BY <1>2, <3>2, <3>3 DEF Matches
    <3>5. HeldMatches'
      BY <3>1, <3>4 DEF HeldMatches, Some
    <3> QED
      BY <1>1, <3>5, ReferenceUntouched
  <2>2. CASE CaptureError(a, Snapshot) # "Ok"
    <3>1. held' = held
      BY <1>4, <2>2 DEF CaptureSnapshotBoundary
    <3> QED
      BY <1>1, <3>1, ReferenceUntouched, HeldUntouched DEF ReferenceInv
  <2> QED
    BY <2>1, <2>2
<1> QED
  BY <1>3, <1>4

LEMMA RestorableMatches ==
  ASSUME ReferenceInv, NEW kind, NEW given \in Restorable(kind)
  PROVE  Matches(given) /\ given.kind = kind
BY ImportedAssumption DEF Restorable, ReferenceInv, HeldMatches, Matches

\* What both restores do behind their checks.
LEMMA ReferenceRestore ==
  ASSUME IInv, ReferenceInv, NEW s, NEW origin, pc = "idle", pc' = pc, UNCHANGED others,
         Restore(s, origin), s.state \in States, s.state.last_completed_tick = s.tick,
         origin # None => origin = Some(The(origin)) /\ s.state = The(origin)
  PROVE  ReferenceInv'
<1>1. /\ clock' = s.tick
      /\ (state' = s.state /\ reference' = origin) \/ reference' = None
      /\ held' = held
  BY DEF Restore, others
<1>2. ReferenceAtTheClock'
  BY <1>1 DEF ReferenceAtTheClock
<1> QED
  BY <1>1, <1>2, HeldUntouched DEF ReferenceInv, StepUnderWay

LEMMA ReferenceRefused ==
  ASSUME ReferenceInv, UNCHANGED <<engineVars, others, pc>>
  PROVE  ReferenceInv'
BY ReferenceUntouched, HeldUntouched DEF ReferenceInv, others

LEMMA ReferenceRestoreSnapshot ==
  ASSUME IInv, ReferenceInv, NEW given \in Restorable("snapshot"), RestoreSnapshot(given)
  PROVE  ReferenceInv'
<1> DEFINE s == given.value
<1>1. s.tick \in Nat /\ s.state \in States
  BY RestorableIsWellFormed DEF IInv, WellFormed
<1>2. CASE SnapshotError(s) = "Ok"
  <2>1. Restore(s, given.reference) /\ pc = "idle" /\ pc' = pc /\ UNCHANGED others
    BY <1>2 DEF RestoreSnapshot
  <2>2. s.state.last_completed_tick = s.tick
    BY <1>1, <1>2, SnapshotErrorIsOk
  <2>3. given.reference # None => given.reference = Some(The(given.reference)) /\ s.state = The(given.reference)
    BY RestorableMatches DEF Matches
  <2> QED
    BY <1>1, <2>1, <2>2, <2>3, ReferenceRestore
<1>3. CASE SnapshotError(s) # "Ok"
  <2>1. UNCHANGED <<engineVars, others, pc>>
    BY <1>3 DEF RestoreSnapshot
  <2> QED
    BY <2>1, ReferenceRefused
<1> QED
  BY <1>2, <1>3

LEMMA ReferenceRestoreSnapshotBoundary ==
  ASSUME IInv, ReferenceInv, NEW a \in Adapters, NEW given \in Restorable("boundary"),
         RestoreSnapshotBoundary(a, given)
  PROVE  ReferenceInv'
<1> DEFINE b == given.value
           s == SnapshotOfBoundary(a, b)
<1>1. CASE BoundaryError(a, b) = "Ok"
  <2>1. Restore(s, given.reference) /\ pc = "idle" /\ pc' = pc /\ UNCHANGED others
    BY <1>1 DEF RestoreSnapshotBoundary
  <2>2. MetadataError(b.metadata) = "Ok" /\ AdapterError(a, b) = "Ok"
    BY <1>1, BoundaryErrorIsOk
  <2>3. b.metadata.tick \in Nat /\ The(RestoreData(a, b.payload, b.payload_version)) \in Data
    BY <2>2, RestorableIsWellFormed DEF IInv, WellFormed
  <2>4. b.metadata.state_last_completed_tick = b.metadata.tick
    BY <2>2, <2>3, MetadataErrorIsOk
  <2>5. s.state \in States /\ s.state.last_completed_tick = s.tick
    BY <2>3, <2>4 DEF SnapshotOfBoundary, States
  <2>6. given.reference # None => given.reference = Some(The(given.reference)) /\ s.state = The(given.reference)
    BY <2>2, RestorableMatches DEF Matches
  <2> HIDE DEF s
  <2> QED
    BY <2>1, <2>5, <2>6, ReferenceRestore
<1>2. CASE BoundaryError(a, b) # "Ok"
  <2>1. UNCHANGED <<engineVars, others, pc>>
    BY <1>2 DEF RestoreSnapshotBoundary
  <2> QED
    BY <2>1, ReferenceRefused
<1> QED
  BY <1>1, <1>2

LEMMA ReferenceNext == IInv /\ ReferenceInv /\ [Next]_vars => ReferenceInv'
<1> SUFFICES ASSUME IInv, ReferenceInv, [Next]_vars
             PROVE  ReferenceInv'
  OBVIOUS
<1>1. CASE UNCHANGED vars
  BY <1>1, ReferenceRefused DEF vars
<1>2. CASE StepRefused
  BY <1>2, ReferenceRefused DEF StepRefused
<1>3. CASE \E input \in Inputs : BeginStep(input)
  BY <1>3, ReferenceBeginStep
<1>4. CASE \E i \in 1..Len(systems) : RunSystem(i)
  BY <1>4, ReferenceRunSystem
<1>5. CASE CompleteStep
  BY <1>5, ReferenceCompleteStep
<1>6. CASE \/ \E system \in Systems : AddSystem(system)
           \/ EnableReplayCapture \/ DisableReplayCapture \/ ClearReplayTrace
           \/ \E d \in Data : EditState(d)
  BY <1>6, ReferenceConfigure
<1>7. CASE CaptureSnapshot \/ \E a \in Adapters : CaptureSnapshotBoundary(a)
  BY <1>7, ReferenceCapture
<1>8. CASE \E given \in Restorable("snapshot") : RestoreSnapshot(given)
  BY <1>8, ReferenceRestoreSnapshot
<1>9. CASE \E a \in Adapters, given \in Restorable("boundary") : RestoreSnapshotBoundary(a, given)
  BY <1>9, ReferenceRestoreSnapshotBoundary
<1> QED
  BY <1>1, <1>2, <1>3, <1>4, <1>5, <1>6, <1>7, <1>8, <1>9 DEF Next

LEMMA ReferenceInvariant == Spec => [](IInv /\ ReferenceInv)
BY InvInit, InvNext, ReferenceInit, ReferenceNext, PTL DEF Spec

(***************************************************************************)
(* Restoring and going on is running without interruption, for every set   *)
(* of systems, order of registration and adapter: whatever was restored,   *)
(* refused or thrown before, the state is the one an engine reaches that   *)
(* takes the same steps in one piece (simulation_engine.hpp:190).          *)
(***************************************************************************)
THEOREM RestoredRuns == Spec => []RestoredRunsContinue
<1>1. ReferenceInv => RestoredRunsContinue
  BY DEF ReferenceInv, ReferenceAtTheClock, RestoredRunsContinue
<1> QED
  BY <1>1, ReferenceInvariant, PTL

-----------------------------------------------------------------------------
(***************************************************************************)
(* The trace.  Told says of the i-th of the events es, of an engine with   *)
(* the systems ss, what TraceTellsTheSteps says of it, with the start of   *)
(* its tick and the number of systems registered by then as witnesses.     *)
(***************************************************************************)
StartIsBehind(es, i) ==
  es[i].kind = "TickStarted" => \A j \in 1..i : LastBoundary(es, j, i) => es[i].tick = es[j].tick + 1

IsStart(es, start, i) ==
  es[start].kind = "TickStarted" /\ \A k \in (start + 1)..i : es[k].kind # "TickStarted"

Executed(es, start, i, order) ==
  /\ \A k \in start..i : es[k].tick = es[i].tick
  /\ es[start + 1].kind = "InputApplied"
  /\ i = start + 2 + Len(order)
  /\ \A k \in 1..Len(order) :
       es[start + 1 + k].kind = "SystemExecuted" /\ The(es[start + 1 + k].detail) = order[k]

CompletionTells(es, ss, i) ==
  es[i].kind = "TickCompleted" =>
    \E start \in 1..i, n \in 0..Len(ss) :
      IsStart(es, start, i) /\ Executed(es, start, i, Order(SubSeq(ss, 1, n)))

Told(es, ss, throws, i) == (~throws => StartIsBehind(es, i)) /\ CompletionTells(es, ss, i)

TraceTold(es, ss, throws) == \A i \in 1..Len(es) : Told(es, ss, throws, i)

LEMMA BeginningOf ==
  ASSUME NEW ss \in Seq(Systems), NEW n \in 0..Len(ss)
  PROVE  /\ SubSeq(ss, 1, n) \in Seq(Systems)
         /\ \A system \in Systems : SubSeq(Append(ss, system), 1, n) = SubSeq(ss, 1, n)
         /\ SubSeq(ss, 1, Len(ss)) = ss
OBVIOUS

LEMMA SectionBounds ==
  ASSUME NEW start \in Nat, NEW i \in Nat, NEW count \in Nat, 1 <= start, i = start + 2 + count
  PROVE  /\ start + 2 \in Nat /\ i - 1 \in Nat
         /\ 1 <= start + 2 /\ start + 2 <= i - 1 + 1 /\ i - 1 - (start + 2) + 1 = count
OBVIOUS

LEMMA SectionOf ==
  ASSUME NEW es \in Seq(EventType), NEW m \in Nat, NEW n \in Nat, 1 <= m, m <= n + 1, n <= Len(es)
  PROVE  /\ Len(SubSeq(es, m, n)) = n - m + 1
         /\ \A k \in 1..(n - m + 1) : SubSeq(es, m, n)[k] = es[m + k - 1]
OBVIOUS

LEMMA StepWithin ==
  ASSUME NEW start \in Nat, NEW i \in Nat, NEW count \in Nat, start >= 1, i = start + 2 + count
  PROVE  /\ start + 1 \in 1..i
         /\ \A k \in 1..count : start + 1 + k \in 1..i
         /\ \A k \in start..i : k \in 1..i
         /\ \A k \in (start + 1)..i : k \in 1..i
OBVIOUS

LEMMA ToldLonger ==
  ASSUME NEW es \in Seq(EventType), NEW new \in Seq(EventType), NEW ss \in Seq(Systems), NEW throws,
         TraceTold(es, ss, throws),
         \A k \in 1..Len(new) : Told(es \o new, ss, throws, Len(es) + k)
  PROVE  TraceTold(es \o new, ss, throws)
<1> DEFINE u == es \o new
           L == Len(es)
<1>1. L \in Nat /\ Len(new) \in Nat /\ Len(u) = L + Len(new) /\ \A k \in 1..L : u[k] = es[k]
  BY Extended
<1> HIDE DEF u
<1>2. ASSUME NEW i \in 1..L
      PROVE  Told(u, ss, throws, i)
  <2>1. Told(es, ss, throws, i) /\ i \in Nat /\ \A k \in 1..i : k \in 1..L
    BY <1>1 DEF TraceTold
  <2>2. \A j \in 1..i : LastBoundary(u, j, i) => LastBoundary(es, j, i)
    BY <1>1, <2>1 DEF LastBoundary
  <2>3. ~throws => StartIsBehind(u, i)
    BY <1>1, <2>1, <2>2 DEF StartIsBehind, Told
  <2>4. CompletionTells(u, ss, i)
    <3> SUFFICES ASSUME u[i].kind = "TickCompleted"
                 PROVE  \E start \in 1..i, n \in 0..Len(ss) :
                          IsStart(u, start, i) /\ Executed(u, start, i, Order(SubSeq(ss, 1, n)))
      BY DEF CompletionTells
    <3>1. PICK start \in 1..i, n \in 0..Len(ss) :
            IsStart(es, start, i) /\ Executed(es, start, i, Order(SubSeq(ss, 1, n)))
      BY <1>1, <2>1 DEF Told, CompletionTells
    <3> DEFINE order == Order(SubSeq(ss, 1, n))
    <3>2. order \in Seq(Systems) /\ Len(order) \in Nat
      <4>1. SubSeq(ss, 1, n) \in Seq(Systems)
        BY BeginningOf
      <4>2. order \in Seq(Systems)
        BY <4>1, OrderListed
      <4> QED
        BY <4>2
    <3> HIDE DEF order
    <3>3. Executed(es, start, i, order)
      BY <3>1 DEF order
    <3>4. /\ start \in Nat /\ i = start + 2 + Len(order) /\ start + 1 \in 1..i
          /\ \A k \in 1..Len(order) : start + 1 + k \in 1..i
          /\ \A k \in start..i : k \in 1..i
          /\ \A k \in (start + 1)..i : k \in 1..i
      <4>1. i \in Nat /\ start \in Nat /\ start >= 1
        BY <2>1
      <4>2. i = start + 2 + Len(order)
        BY <3>3 DEF Executed
      <4> QED
        BY <3>2, <4>1, <4>2, StepWithin
    <3>5. \A k \in 1..i : u[k] = es[k]
      BY <1>1, <2>1
    <3>6. IsStart(u, start, i)
      BY <3>1, <3>4, <3>5 DEF IsStart
    <3>7. Executed(u, start, i, order)
      <4>1. u[i] = es[i] /\ u[start + 1] = es[start + 1]
        BY <3>4, <3>5, <2>1
      <4>2. \A k \in start..i : u[k] = es[k]
        BY <3>4, <3>5
      <4>3. \A k \in 1..Len(order) : u[start + 1 + k] = es[start + 1 + k]
        BY <3>4, <3>5
      <4> QED
        <5>1. \A k \in start..i : u[k].tick = u[i].tick
          BY <3>3, <4>1, <4>2 DEF Executed
        <5>2. u[start + 1].kind = "InputApplied" /\ i = start + 2 + Len(order)
          BY <3>3, <4>1 DEF Executed
        <5>3. \A k \in 1..Len(order) :
                u[start + 1 + k].kind = "SystemExecuted" /\ The(u[start + 1 + k].detail) = order[k]
          BY <3>3, <4>3 DEF Executed
        <5> QED
          BY ONLY <5>1, <5>2, <5>3 DEF Executed
    <3> QED
      BY <3>6, <3>7 DEF order
  <2> QED
    BY <2>3, <2>4 DEF Told
<1>3. ASSUME NEW i \in 1..L + Len(new), i \notin 1..L
      PROVE  Told(u, ss, throws, i)
  <2>1. i - L \in 1..Len(new) /\ L + (i - L) = i
    BY <1>1, <1>3
  <2> QED
    BY <2>1 DEF u
<1> QED
  BY <1>1, <1>2, <1>3 DEF TraceTold, u

LEMMA ToldRegistered ==
  ASSUME NEW es, NEW ss \in Seq(Systems), NEW throws, NEW system \in Systems, TraceTold(es, ss, throws)
  PROVE  TraceTold(es, Append(ss, system), throws)
<1>1. Len(Append(ss, system)) = Len(ss) + 1 /\ Len(ss) \in Nat
  OBVIOUS
<1>2. \A n \in 0..Len(ss) : n \in 0..Len(ss) + 1 /\ SubSeq(Append(ss, system), 1, n) = SubSeq(ss, 1, n)
  BY <1>1, BeginningOf
<1>3. ASSUME NEW i \in 1..Len(es), CompletionTells(es, ss, i)
      PROVE  CompletionTells(es, Append(ss, system), i)
  BY <1>1, <1>2, <1>3 DEF CompletionTells
<1> QED
  BY <1>3 DEF TraceTold, Told

\* The witnesses are what the property asks for.
LEMMA ToldTells ==
  ASSUME TypeOK, TraceTold(events, systems, copy_throws)
  PROVE  TraceTellsTheSteps
<1>1. events \in Seq(EventType) /\ systems \in Seq(Systems)
  BY DEF TypeOK
<1>2. ASSUME NEW i \in 1..Len(events), events[i].kind = "TickStarted", ~copy_throws,
             NEW j \in 1..i, LastBoundary(events, j, i)
      PROVE  events[i].tick = events[j].tick + 1
  BY <1>2 DEF TraceTold, Told, StartIsBehind
<1>3. ASSUME NEW i \in 1..Len(events), events[i].kind = "TickCompleted"
      PROVE  LET t       == events[i].tick
                 start   == CHOOSE j \in 1..i : /\ events[j].kind = "TickStarted"
                                                /\ \A k \in (j + 1)..i : events[k].kind # "TickStarted"
                 ran     == SubSeq(events, start + 2, i - 1)
             IN  /\ \A k \in start..i : events[k].tick = t
                 /\ events[start + 1].kind = "InputApplied"
                 /\ \A k \in 1..Len(ran) : ran[k].kind = "SystemExecuted"
                 /\ \E n \in 0..Len(systems) :
                      [k \in 1..Len(ran) |-> The(ran[k].detail)] = Order(SubSeq(systems, 1, n))
  <2>1. PICK start \in 1..i, n \in 0..Len(systems) :
          IsStart(events, start, i) /\ Executed(events, start, i, Order(SubSeq(systems, 1, n)))
    BY <1>3 DEF TraceTold, Told, CompletionTells
  <2> DEFINE order == Order(SubSeq(systems, 1, n))
             ran   == SubSeq(events, start + 2, i - 1)
  <2>2. order \in Seq(Systems)
    BY <1>1, BeginningOf, OrderListed
  <2> HIDE DEF order
  <2>3. Executed(events, start, i, order)
    BY <2>1 DEF order
  <2>4. start \in Nat /\ i \in Nat /\ i <= Len(events) /\ Len(events) \in Nat /\ Len(order) \in Nat
        /\ order = [k \in 1..Len(order) |-> order[k]]
    BY <1>1, <2>2
  <2>5. (CHOOSE j \in 1..i : /\ events[j].kind = "TickStarted"
                             /\ \A k \in (j + 1)..i : events[k].kind # "TickStarted") = start
    <3>1. ASSUME NEW j \in 1..i, IsStart(events, j, i)
          PROVE  j = start
      <4>1. j \in Nat /\ ~(j \in (start + 1)..i) /\ ~(start \in (j + 1)..i)
        BY <2>1, <2>4, <3>1 DEF IsStart
      <4> QED
        BY <2>4, <4>1
    <3> QED
      BY <2>1, <3>1 DEF IsStart
  <2>6. i = start + 2 + Len(order)
    BY <2>3 DEF Executed
  <2>7. Len(ran) = Len(order) /\ \A k \in 1..Len(order) : ran[k] = events[start + 1 + k]
    <3>1. 1 <= start
      OBVIOUS
    <3> DEFINE count == Len(order)
               m == start + 2
               n2 == i - 1
    <3>2. m \in Nat /\ n2 \in Nat /\ 1 <= m /\ m <= n2 + 1 /\ n2 <= Len(events) /\ n2 - m + 1 = Len(order)
      <4>1. count \in Nat /\ i = start + 2 + count
        BY <2>4, <2>6
      <4> HIDE DEF count
      <4>2. m \in Nat /\ n2 \in Nat /\ 1 <= m /\ m <= n2 + 1 /\ n2 - m + 1 = count
        BY <2>4, <3>1, <4>1, SectionBounds
      <4>3. n2 <= Len(events)
        BY <2>4
      <4> QED
        BY <4>2, <4>3 DEF count
    <3>3. /\ Len(ran) = Len(order)
          /\ \A k \in 1..Len(order) : ran[k] = events[(start + 2) + k - 1]
      <4>1. ran = SubSeq(events, m, n2)
        OBVIOUS
      <4> HIDE DEF m, n2, ran
      <4>2. /\ Len(ran) = n2 - m + 1
            /\ \A k \in 1..(n2 - m + 1) : ran[k] = events[m + k - 1]
        BY <1>1, <3>2, <4>1, SectionOf
      <4> QED
        BY <3>2, <4>2 DEF m
    <3> HIDE DEF ran
    <3>4. \A k \in 1..Len(order) : (start + 2) + k - 1 = start + 1 + k
      BY <2>4
    <3> QED
      BY <2>4, <3>2, <3>3, <3>4
  <2> HIDE DEF ran
  <2>8. \A k \in 1..Len(order) : ran[k].kind = "SystemExecuted" /\ The(ran[k].detail) = order[k]
    BY <2>3, <2>7 DEF Executed
  <2>9. [k \in 1..Len(ran) |-> The(ran[k].detail)] = order
    BY <2>4, <2>7, <2>8
  <2>10. /\ \A k \in start..i : events[k].tick = events[i].tick
         /\ events[start + 1].kind = "InputApplied"
    BY <2>3 DEF Executed
  <2> QED
    BY <2>5, <2>7, <2>8, <2>9, <2>10 DEF order, ran
<1> QED
  BY <1>2, <1>3 DEF TraceTellsTheSteps

-----------------------------------------------------------------------------
(***************************************************************************)
(* The third invariant: the trace tells.  It rests on the two others: a    *)
(* step begins where the trace ends (TraceAtTheClock), and when it is      *)
(* complete the systems that have run are all there are, listed at the end *)
(* of the trace (StepUnderWay).                                            *)
(***************************************************************************)
TraceInv == TraceTold(events, systems, copy_throws)

\* Events that neither start nor complete a tick tell nothing to be refuted.
LEMMA ToldQuietly ==
  ASSUME TypeOK, TraceInv, NEW new \in Seq(EventType),
         \A k \in 1..Len(new) : new[k].kind \notin {"TickStarted", "TickCompleted"},
         events' = Recorded(new), UNCHANGED <<systems, copy_throws>>
  PROVE  TraceInv'
<1>1. events \in Seq(EventType) /\ systems \in Seq(Systems)
  BY DEF TypeOK
<1>2. CASE ~replay_capture_enabled
  BY <1>2 DEF Recorded, TraceInv
<1>3. CASE replay_capture_enabled
  <2>1. events' = events \o new
    BY <1>3 DEF Recorded
  <2>2. \A k \in 1..Len(new) : (events \o new)[Len(events) + k] = new[k]
    BY <1>1, Extended
  <2>3. \A k \in 1..Len(new) : Told(events \o new, systems, copy_throws, Len(events) + k)
    BY <2>2 DEF Told, StartIsBehind, CompletionTells
  <2>4. TraceTold(events \o new, systems, copy_throws)
    BY <1>1, <2>3, ToldLonger DEF TraceInv
  <2> QED
    BY <2>1, <2>4 DEF TraceInv
<1> QED
  BY <1>2, <1>3

LEMMA ToldBeginStep ==
  ASSUME IInv, TraceInv, NEW input \in Inputs, BeginStep(input)
  PROVE  TraceInv'
<1> DEFINE new == StartEvents(clock + 1, input)
           L   == Len(events)
           es  == events \o new
<1>1. events' = Recorded(new) /\ UNCHANGED <<systems, copy_throws>>
  BY DEF BeginStep, others
<1>2. events \in Seq(EventType) /\ systems \in Seq(Systems) /\ clock + 1 \in Nat /\ L \in Nat
  BY DEF IInv, TypeOK
<1>3. new \in Seq(EventType)
  BY <1>2, EventTypes
<1>4. /\ Len(new) = 2 /\ new[1].kind = "TickStarted" /\ new[1].tick = clock + 1
      /\ new[2].kind = "InputApplied"
  BY DEF StartEvents, Event
<1> HIDE DEF new
<1>5. CASE ~replay_capture_enabled
  BY <1>1, <1>5 DEF Recorded, TraceInv
<1>6. CASE replay_capture_enabled
  <2>1. events' = es
    BY <1>1, <1>6 DEF Recorded
  <2>2. /\ Len(es) = L + 2
        /\ \A k \in 1..L : es[k] = events[k]
        /\ es[L + 1] = new[1] /\ es[L + 2] = new[2]
    <3>1. /\ Len(es) = L + Len(new)
          /\ \A k \in 1..L : es[k] = events[k]
          /\ \A k \in 1..Len(new) : es[L + k] = new[k]
      BY <1>2, <1>3, Extended
    <3>2. 1 \in 1..2 /\ 2 \in 1..2
      OBVIOUS
    <3> QED
      BY <1>4, <3>1, <3>2
  <2> HIDE DEF es
  <2>3. Told(es, systems, copy_throws, L + 1)
    <3>1. ASSUME ~copy_throws, NEW j \in 1..L + 1, LastBoundary(es, j, L + 1)
          PROVE  es[L + 1].tick = es[j].tick + 1
      <4>1. EndsTick(es[j]) /\ \A k \in (j + 1)..L + 1 : ~EndsTick(es[k])
        BY <3>1 DEF LastBoundary
      <4>2. j # L + 1
        BY <1>4, <2>2, <4>1 DEF EndsTick
      <4>3. j \in 1..L /\ es[j] = events[j]
        BY <1>2, <2>2, <4>2
      <4>4. \A k \in (j + 1)..L : k \in (j + 1)..L + 1 /\ es[k] = events[k]
        BY <1>2, <2>2, <4>3
      <4>5. LastBoundary(events, j, L)
        BY <4>1, <4>3, <4>4 DEF LastBoundary
      <4>6. events[j].tick = clock
        BY <1>6, <3>1, <4>3, <4>5 DEF IInv, TraceAtTheClock, EndsAt
      <4> QED
        BY <1>4, <2>2, <4>3, <4>6
    <3>2. CompletionTells(es, systems, L + 1)
      BY <1>4, <2>2 DEF CompletionTells
    <3> QED
      BY <3>1, <3>2 DEF Told, StartIsBehind
  <2>4. Told(es, systems, copy_throws, L + 2)
    BY <1>4, <2>2 DEF Told, StartIsBehind, CompletionTells
  <2>5. \A k \in 1..Len(new) : Told(es, systems, copy_throws, L + k)
    <3>1. \A k \in 1..2 : k = 1 \/ k = 2
      OBVIOUS
    <3> QED
      BY <1>4, <2>3, <2>4, <3>1
  <2>6. TraceTold(es, systems, copy_throws)
    BY <1>2, <1>3, <2>5, ToldLonger DEF TraceInv, es
  <2> QED
    BY <1>1, <2>1, <2>6 DEF TraceInv
<1> QED
  BY <1>5, <1>6

\* The positions from the start of a step of n systems on.
LEMMA StepPositions ==
  ASSUME NEW first \in Nat, NEW n \in Nat, NEW k \in first..(first + 2 + n)
  PROVE  \/ k = first \/ k = first + 1 \/ k = first + 2 + n
         \/ \E m \in 1..n : k = first + 1 + m
<1>1. \/ k = first \/ k = first + 1 \/ k = first + 2 + n
      \/ k - (first + 1) \in 1..n /\ k = first + 1 + (k - (first + 1))
  OBVIOUS
<1> QED
  BY <1>1

LEMMA ToldCompleteStep ==
  ASSUME IInv, ReferenceInv, TraceInv, CompleteStep
  PROVE  TraceInv'
<1> DEFINE e   == Event("TickCompleted", clock + 1, None)
           L   == Len(events)
           es  == events \o <<e>>
           N   == Len(systems)
           w   == Listing(systems)
           order == Order(systems)
           first == L - N - 1
<1>1. /\ pc = "stepping" /\ Waiting = {}
      /\ events' = Recorded(<<e>>) /\ UNCHANGED <<systems, copy_throws>>
  BY DEF CompleteStep, others
<1>2. /\ TypeOK /\ events \in Seq(EventType) /\ systems \in Seq(Systems)
      /\ clock + 1 \in Nat /\ L \in Nat /\ N \in Nat
  BY DEF IInv, TypeOK
<1>3. <<e>> \in Seq(EventType)
  BY <1>2, EventTypes
<1>4. e.kind = "TickCompleted" /\ e.tick = clock + 1
  BY DEF Event
<1>5. CASE ~replay_capture_enabled
  BY <1>1, <1>5 DEF Recorded, TraceInv
<1>6. CASE replay_capture_enabled
  <2>1. events' = es
    BY <1>1, <1>6 DEF Recorded
  <2>2. /\ Len(es) = L + 1
        /\ \A k \in 1..L : es[k] = events[k]
        /\ es[L + 1] = e
    BY <1>2, <1>3, Extended
  <2> HIDE DEF es, e
  <2>3. Len(order) = N /\ \A k \in 1..N : order[k] = systems[w[k]]
    BY <1>2, SystemsListed
  <2>4. PICK c \in 0..N : HasRun(c)
    BY <1>1 DEF ReferenceInv, StepUnderWay
  <2>5. c = N
    BY <1>1, <1>2, <2>4, AllHaveRun DEF HasRun
  <2>6. Recording(N)
    BY <1>6, <2>4, <2>5 DEF HasRun
  <2> HIDE DEF w, order
  <2>7. /\ first >= 1
        /\ events[first].kind = "TickStarted" /\ events[first].tick = clock + 1
        /\ events[first + 1].kind = "InputApplied" /\ events[first + 1].tick = clock + 1
        /\ \A k \in 1..N :
             events[first + 1 + k] = Event("SystemExecuted", clock + 1, Some(systems[w[k]]))
    BY <2>6 DEF Recording, w
  <2>8. first \in Nat /\ L = first + 1 + N
    BY <1>2, <2>7
  <2> HIDE DEF first
  <2>9. /\ es[first].kind = "TickStarted" /\ es[first].tick = clock + 1
        /\ es[first + 1].kind = "InputApplied" /\ es[first + 1].tick = clock + 1
        /\ es[first + 2 + N].kind = "TickCompleted" /\ es[first + 2 + N].tick = clock + 1
    BY <1>2, <1>4, <2>2, <2>7, <2>8
  <2>10. ASSUME NEW k \in 1..N
         PROVE  /\ es[first + 1 + k].kind = "SystemExecuted"
                /\ es[first + 1 + k].tick = clock + 1
                /\ The(es[first + 1 + k].detail) = order[k]
    <3>1. first + 1 + k \in 1..L
      BY <1>2, <2>8
    <3>2. es[first + 1 + k] = Event("SystemExecuted", clock + 1, Some(systems[w[k]]))
      BY <2>2, <2>7, <3>1
    <3> QED
      BY <2>3, <3>2 DEF Event, Some, The
  <2>11. ASSUME NEW k \in first..(first + 2 + N)
         PROVE  es[k].tick = clock + 1 /\ (es[k].kind = "TickStarted" => k = first)
    <3>1. \/ k = first \/ k = first + 1 \/ k = first + 2 + N
          \/ \E m \in 1..N : k = first + 1 + m
      BY <1>2, <2>8, StepPositions
    <3> QED
      BY <2>9, <2>10, <3>1
  <2>12. IsStart(es, first, first + 2 + N)
    <3>1. \A k \in (first + 1)..(first + 2 + N) : k \in first..(first + 2 + N) /\ k # first
      BY <1>2, <2>8
    <3> QED
      BY <2>9, <2>11, <3>1 DEF IsStart
  <2>13. Executed(es, first, first + 2 + N, order)
    BY <2>3, <2>9, <2>10, <2>11 DEF Executed
  <2>14. Told(es, systems, copy_throws, first + 2 + N)
    <3>1. N \in 0..N /\ SubSeq(systems, 1, N) = systems /\ first \in 1..(first + 2 + N)
      <4>1. N \in 0..N /\ first \in 1..(first + 2 + N)
        BY <1>2, <2>7, <2>8
      <4> QED
        BY <1>2, <4>1, BeginningOf
    <3>2. CompletionTells(es, systems, first + 2 + N)
      BY <2>12, <2>13, <3>1 DEF CompletionTells, order
    <3> QED
      BY <2>9, <3>2 DEF Told, StartIsBehind
  <2>15. \A k \in 1..Len(<<e>>) : Told(es, systems, copy_throws, L + k)
    <3>1. Len(<<e>>) = 1 /\ L + 1 = first + 2 + N
      BY <1>2, <2>8
    <3>2. \A k \in 1..1 : k = 1
      OBVIOUS
    <3> QED
      BY <2>14, <3>1, <3>2
  <2>16. TraceTold(es, systems, copy_throws)
    BY <1>2, <1>3, <2>15, ToldLonger DEF TraceInv, es, e
  <2> QED
    BY <1>1, <2>1, <2>16 DEF TraceInv
<1> QED
  BY <1>5, <1>6

LEMMA ToldNext == IInv /\ ReferenceInv /\ TraceInv /\ [Next]_vars => TraceInv'
<1> SUFFICES ASSUME IInv, ReferenceInv, TraceInv, [Next]_vars
             PROVE  TraceInv'
  OBVIOUS
<1> DEFINE Same == UNCHANGED <<events, systems, copy_throws>>
<1>1. Same => TraceInv'
  BY DEF TraceInv
<1>2. ASSUME events' = <<>>
      PROVE  TraceInv'
  BY <1>2 DEF TraceInv, TraceTold
<1>3. ASSUME NEW kind \in {"SystemExecuted", "SnapshotRestored"}, NEW t, NEW detail,
             <<Event(kind, t, detail)>> \in Seq(EventType),
             events' = Recorded(<<Event(kind, t, detail)>>), UNCHANGED <<systems, copy_throws>>
      PROVE  TraceInv'
  <2> DEFINE new == <<Event(kind, t, detail)>>
  <2>1. Len(new) = 1 /\ new[1].kind = kind /\ \A k \in 1..1 : k = 1
    BY DEF Event
  <2>2. \A k \in 1..Len(new) : new[k].kind \notin {"TickStarted", "TickCompleted"}
    BY <2>1
  <2> HIDE DEF new
  <2> QED
    BY <1>3, <2>2, ToldQuietly DEF IInv, new
<1>4. CASE UNCHANGED vars
  BY <1>1, <1>4 DEF vars, engineVars, others
<1>5. CASE StepRefused
  BY <1>1, <1>5 DEF StepRefused, engineVars, others
<1>6. CASE \E input \in Inputs : BeginStep(input)
  BY <1>6, ToldBeginStep
<1>7. ASSUME NEW i \in 1..Len(systems), RunSystem(i)
      PROVE  TraceInv'
  <2>1. /\ pc = "stepping"
        /\ events' = Recorded(<<Event("SystemExecuted", The(step).context.tick, Some(systems[i]))>>)
        /\ UNCHANGED <<systems, copy_throws>>
    BY <1>7 DEF RunSystem, others
  <2>2. The(step).context.tick \in Nat /\ systems[i] \in Systems
    <3>1. The(step) \in StepType /\ clock + 1 \in Nat
      BY <2>1 DEF IInv, TypeOK
    <3>2. PICK x \in Inputs : The(step).context = Context(clock + 1, x)
      BY <3>1 DEF StepType
    <3> QED
      BY <3>1, <3>2 DEF Context, IInv, TypeOK
  <2>3. <<Event("SystemExecuted", The(step).context.tick, Some(systems[i]))>> \in Seq(EventType)
    BY <2>2, EventTypes
  <2> QED
    BY <1>3, <2>1, <2>3
<1>8. CASE CompleteStep
  BY <1>8, ToldCompleteStep
<1>9. ASSUME NEW system \in Systems, AddSystem(system)
      PROVE  TraceInv'
  <2>1. systems' = Append(systems, system) /\ UNCHANGED <<events, copy_throws>> /\ systems \in Seq(Systems)
    BY <1>9 DEF AddSystem, others, IInv, TypeOK
  <2> QED
    BY <2>1, ToldRegistered DEF TraceInv
<1>10. CASE EnableReplayCapture \/ ClearReplayTrace
  BY <1>2, <1>10 DEF EnableReplayCapture, ClearReplayTrace
<1>11. CASE DisableReplayCapture \/ \E d \in Data : EditState(d)
  BY <1>1, <1>11 DEF DisableReplayCapture, EditState, others
<1>12. CASE CaptureSnapshot \/ \E a \in Adapters : CaptureSnapshotBoundary(a)
  BY <1>1, <1>12 DEF CaptureSnapshot, CaptureSnapshotBoundary, engineVars
<1>13. ASSUME NEW s, NEW origin, Restore(s, origin), s.tick \in Nat, UNCHANGED others
       PROVE  TraceInv'
  <2>1. UNCHANGED <<systems, copy_throws>>
    BY <1>13 DEF Restore, others
  <2>2. CASE events' = Recorded(<<Event("SnapshotRestored", s.tick, None)>>)
    <3>1. <<Event("SnapshotRestored", s.tick, None)>> \in Seq(EventType)
      BY <1>13, EventTypes
    <3> QED
      BY <1>3, <2>1, <2>2, <3>1
  <2>3. CASE UNCHANGED events
    BY <1>1, <2>1, <2>3
  <2> QED
    BY <1>13, <2>2, <2>3 DEF Restore
<1>14. ASSUME NEW given \in Restorable("snapshot"), RestoreSnapshot(given)
       PROVE  TraceInv'
  <2>1. given.value.tick \in Nat
    BY RestorableIsWellFormed DEF IInv, WellFormed
  <2>2. CASE SnapshotError(given.value) = "Ok"
    BY <1>13, <1>14, <2>1, <2>2 DEF RestoreSnapshot
  <2>3. CASE SnapshotError(given.value) # "Ok"
    BY <1>1, <1>14, <2>3 DEF RestoreSnapshot, engineVars, others
  <2> QED
    BY <2>2, <2>3
<1>15. ASSUME NEW a \in Adapters, NEW given \in Restorable("boundary"), RestoreSnapshotBoundary(a, given)
       PROVE  TraceInv'
  <2> DEFINE b == given.value
             s == SnapshotOfBoundary(a, b)
  <2>1. b.metadata.tick \in Nat
    BY RestorableIsWellFormed DEF IInv, WellFormed
  <2>2. s.tick \in Nat
    BY <2>1 DEF SnapshotOfBoundary
  <2>3. CASE BoundaryError(a, b) = "Ok"
    <3>1. Restore(s, given.reference) /\ UNCHANGED others
      BY <1>15, <2>3 DEF RestoreSnapshotBoundary
    <3> HIDE DEF s
    <3> QED
      BY <1>13, <2>2, <3>1
  <2>4. CASE BoundaryError(a, b) # "Ok"
    BY <1>1, <1>15, <2>4 DEF RestoreSnapshotBoundary, engineVars, others
  <2> QED
    BY <2>3, <2>4
<1> QED
  BY <1>4, <1>5, <1>6, <1>7, <1>8, <1>9, <1>10, <1>11, <1>12, <1>14, <1>15 DEF Next

(***************************************************************************)
(* The trace tells what was executed, for every set of systems, order of   *)
(* registration and sequence of calls: a tick starts behind the tick the   *)
(* trace has come to, and a completed tick consists of its input and each  *)
(* system registered by then, once and in phase order                      *)
(* (simulation_engine.hpp:203).                                            *)
(***************************************************************************)
THEOREM TraceTells == Spec => []TraceTellsTheSteps
<1>1. Init => TraceInv
  BY DEF Init, TraceInv, TraceTold
<1>2. IInv /\ TraceInv => TraceTellsTheSteps
  BY ToldTells DEF IInv, TraceInv
<1> QED
  BY <1>1, <1>2, InvInit, InvNext, ReferenceInit, ReferenceNext, ToldNext, PTL DEF Spec
=============================================================================
