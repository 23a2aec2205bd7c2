-------------------------- MODULE SimulationEngine --------------------------
(***************************************************************************)
(* SimulationEngine of include/xenor/simulation_engine.hpp and a host that *)
(* steps it, edits its state, and captures and restores snapshots, by      *)
(* itself or through adapters.  A system is a function of the data, of the *)
(* step's context and of the random source the systems of a step share; it *)
(* may throw, which leaves step() with everything done so far in place.    *)
(***************************************************************************)
EXTENDS SnapshotBoundary, NaturalSets

CONSTANTS
  InitialData,
  Inputs,
  Systems,            \* what the host registers: [phase, name]
  Draws,              \* the states of a random source; a step begins with 0
  Run(_, _, _),       \* name, [tick, step_seed, input], [data, draws] -> [ok, data, draws]
  Imported,           \* snapshots and boundaries the host has from elsewhere
  CopyThrows,         \* the kinds of state: assigning one can throw, or cannot
  MaxSystems,         \* model bounds: registrations,
  MaxEvents           \* and events of a trace, checked before a call begins

\* ordered_system_phases.
Phases == <<"PreUpdate", "Update", "PostUpdate">>

ASSUME EngineAssumption ==
  /\ InitialData \in Data
  /\ CopyThrows \subseteq BOOLEAN
  /\ \A system \in Systems : system.phase \in {Phases[p] : p \in 1..3}
  /\ MaxSystems \in Nat
  /\ MaxEvents \in Nat

\* derive_step_seed, taken as injective.
StepSeed(tick) == <<Seed, tick>>

\* The context of a step; its elapsed duration is a function of the tick.
Context(tick, input) == [tick |-> tick, step_seed |-> StepSeed(tick), input |-> input]

States == [data : Data, last_completed_tick : Nat]

ASSUME RunAssumption ==
  /\ 0 \in Draws
  /\ \A system \in Systems, tick \in 1..(MaxTime \div Duration), input \in Inputs, d \in Data, n \in Draws :
       Run(system.name, Context(tick, input), [data |-> d, draws |-> n])
         \in [ok : BOOLEAN, data : Data, draws : Draws]

\* A snapshot or a boundary the C++ types allow: what an adapter reads from it is data.
WellFormed(given) ==
  \/ /\ given.kind = "snapshot"
     /\ given.value.tick \in Nat
     /\ given.value.state \in States
  \/ /\ given.kind = "boundary"
     /\ given.value.metadata.tick \in Nat
     /\ \A a \in Adapters :
          AdapterError(a, given.value) = "Ok" =>
            The(RestoreData(a, given.value.payload, given.value.payload_version)) \in Data

\* No engine that takes the same steps stands behind what comes from elsewhere.
ASSUME ImportedAssumption == \A given \in Imported : WellFormed(given) /\ given.reference = None

VARIABLES
  clock,     \* clock_.current_tick()
  state,     \* [data, last_completed_tick]
  systems,   \* systems_
  replay_capture_enabled,
  events,    \* replay_trace_.events
  pc,        \* "idle", or "stepping": inside step()
  step,      \* inside step(): the context, the systems run and the draws made so far
  result,    \* what the last call returned or threw
  copy_throws,  \* whether assigning the host's type of state can throw
  held,      \* Option: the snapshot or boundary the host holds, [kind, value, reference]
  reference  \* history, an Option: the state of an engine that takes the same steps in
             \* one piece and is never interrupted; None once a step has thrown

engineVars == <<clock, state, systems, replay_capture_enabled, events, step, reference>>
others     == <<held, copy_throws>>
vars       == <<engineVars, pc, result, others>>
-----------------------------------------------------------------------------
(***************************************************************************)
(* The systems and their order.                                            *)
(***************************************************************************)
\* A mutant of Before: in the order of their registration.
BeforeAsRegistered(i, j) == i < j

\* Of two systems, given by their positions, the one that runs first: the two loops of
\* step_impl go phase by phase, and in a phase as registered.
Before(i, j) ==
  \E p \in 1..3 :
    /\ systems[i].phase = Phases[p]
    /\ systems[j].phase = Phases[p] => i < j
    /\ \A q \in 1..(p - 1) : systems[j].phase # Phases[q]

Event(kind, tick, detail) == [kind |-> kind, tick |-> tick, detail |-> detail]

\* record_replay_event and record_replay_input.
Recorded(new) == IF replay_capture_enabled THEN events \o new ELSE events

StartEvents(tick, input) ==
  <<Event("TickStarted", tick, None), Event("InputApplied", tick, Some(input))>>

RoomForEvents == replay_capture_enabled => Len(events) < MaxEvents

Init ==
  /\ clock = 0
  /\ state = [data |-> InitialData, last_completed_tick |-> 0]
  /\ systems = <<>>
  /\ replay_capture_enabled = FALSE
  /\ events = <<>>
  /\ pc = "idle"
  /\ step = None
  /\ result = "Ok"
  /\ copy_throws \in CopyThrows
  /\ held = None
  /\ reference = Some(state)

-----------------------------------------------------------------------------
(***************************************************************************)
(* step().                                                                 *)
(***************************************************************************)
StepRefused ==
  /\ pc = "idle"
  /\ ~Representable(clock + 1)
  /\ result' = "overflow_error"
  /\ UNCHANGED <<engineVars, others, pc>>

\* A mutant of BeginStep: the step works on the tick that is already completed.
BeginStepBehind(input) ==
  /\ pc = "idle"
  /\ RoomForEvents
  /\ Representable(clock + 1)
  /\ pc' = "stepping"
  /\ step' = Some([context |-> Context(clock, input), done |-> {}, draws |-> 0])
  /\ events' = Recorded(StartEvents(clock, input))
  /\ result' = "Ok"
  /\ UNCHANGED <<clock, state, systems, replay_capture_enabled, reference, others>>

BeginStep(input) ==
  /\ pc = "idle"
  /\ RoomForEvents
  /\ Representable(clock + 1)
  /\ pc' = "stepping"
  /\ step' = Some([context |-> Context(clock + 1, input), done |-> {}, draws |-> 0])
  /\ events' = Recorded(StartEvents(clock + 1, input))
  /\ result' = "Ok"
  /\ UNCHANGED <<clock, state, systems, replay_capture_enabled, reference, others>>

\* The systems that have not run yet.
Waiting == (1..Len(systems)) \ The(step).done

\* The next of them.
IsNext(i) == i \in Waiting /\ \A j \in Waiting \ {i} : Before(i, j)

\* A mutant of RunSystem: every system gets a random source of its own.
RunSystemSeparately(i) ==
  /\ pc = "stepping"
  /\ IsNext(i)
  /\ LET s       == The(step)
         system  == systems[i]
         outcome == Run(system.name, s.context, [data |-> state.data, draws |-> 0])
     IN  /\ events' = Recorded(<<Event("SystemExecuted", s.context.tick, Some(system))>>)
         /\ state' = [state EXCEPT !.data = outcome.data]
         /\ \/ /\ outcome.ok
               /\ step' = Some([s EXCEPT !.done = @ \cup {i}, !.draws = outcome.draws])
               /\ UNCHANGED <<pc, result, reference>>
            \/ /\ ~outcome.ok
               /\ step' = None
               /\ pc' = "idle"
               /\ result' = "system threw"
               /\ reference' = None
  /\ UNCHANGED <<clock, systems, replay_capture_enabled, others>>

RunSystem(i) ==
  /\ pc = "stepping"
  /\ IsNext(i)
  /\ LET s       == The(step)
         system  == systems[i]
         outcome == Run(system.name, s.context, [data |-> state.data, draws |-> s.draws])
     IN  /\ events' = Recorded(<<Event("SystemExecuted", s.context.tick, Some(system))>>)
         /\ state' = [state EXCEPT !.data = outcome.data]
         /\ \/ /\ outcome.ok
               /\ step' = Some([s EXCEPT !.done = @ \cup {i}, !.draws = outcome.draws])
               /\ UNCHANGED <<pc, result, reference>>
            \/ /\ ~outcome.ok
               /\ step' = None
               /\ pc' = "idle"
               /\ result' = "system threw"
               /\ reference' = None
  /\ UNCHANGED <<clock, systems, replay_capture_enabled, others>>

\* The systems in the order in which a step runs them.
Order(ss) ==
  LET InPhase(p) == Chosen(ss, {i \in 1..Len(ss) : ss[i].phase = Phases[p]})
  IN  InPhase(1) \o InPhase(2) \o InPhase(3)

\* What all systems together make of the data in one step.
WholeStep(ss, context, data) ==
  LET run[i \in 0..Len(ss)] ==
        IF i = 0 THEN [ok |-> TRUE, data |-> data, draws |-> 0]
        ELSE Run(ss[i].name, context, [data |-> run[i - 1].data, draws |-> run[i - 1].draws])
  IN  run[Len(ss)].data

\* The state of the engine that takes the step in one piece.
Stepped(s, input) ==
  LET t == s.last_completed_tick + 1
  IN  [data |-> WholeStep(Order(systems), Context(t, input), s.data), last_completed_tick |-> t]

\* clock_.advance() cannot throw behind the checks of BeginStep.
CompleteStep ==
  /\ pc = "stepping"
  /\ Waiting = {}
  /\ clock' = clock + 1
  /\ state' = [state EXCEPT !.last_completed_tick = clock + 1]
  /\ events' = Recorded(<<Event("TickCompleted", clock + 1, None)>>)
  /\ step' = None
  /\ pc' = "idle"
  /\ result' = "Ok"
  /\ reference' = [i \in DOMAIN reference |-> Stepped(reference[i], The(step).context.input)]
  /\ UNCHANGED <<systems, replay_capture_enabled, others>>

-----------------------------------------------------------------------------
(***************************************************************************)
(* The host's other calls.                                                 *)
(***************************************************************************)
AddSystem(system) ==
  /\ pc = "idle"
  /\ Len(systems) < MaxSystems
  /\ systems' = Append(systems, system)
  /\ result' = "Ok"
  /\ UNCHANGED <<clock, state, replay_capture_enabled, events, pc, step, reference, others>>

EnableReplayCapture ==
  /\ pc = "idle"
  /\ replay_capture_enabled' = TRUE
  /\ events' = <<>>
  /\ result' = "Ok"
  /\ UNCHANGED <<clock, state, systems, pc, step, reference, others>>

DisableReplayCapture ==
  /\ pc = "idle"
  /\ replay_capture_enabled' = FALSE
  /\ result' = "Ok"
  /\ UNCHANGED <<clock, state, systems, events, pc, step, reference, others>>

ClearReplayTrace ==
  /\ pc = "idle"
  /\ events' = <<>>
  /\ result' = "Ok"
  /\ UNCHANGED <<clock, state, systems, replay_capture_enabled, pc, step, reference, others>>

\* Through the reference state() returns.
EditState(d) ==
  /\ pc = "idle"
  /\ state' = [state EXCEPT !.data = d]
  /\ reference' = [i \in DOMAIN reference |-> [reference[i] EXCEPT !.data = d]]
  /\ result' = "Ok"
  /\ UNCHANGED <<clock, systems, replay_capture_enabled, events, pc, step, others>>

\* capture_snapshot.
Snapshot == [tick |-> clock, elapsed |-> ElapsedAt(clock), seed |-> Seed, state |-> state]

Given(kind, value, origin) == [kind |-> kind, value |-> value, reference |-> origin]

CaptureSnapshot ==
  /\ pc = "idle"
  /\ held' = Some(Given("snapshot", Snapshot, reference))
  /\ result' = "Ok"
  /\ UNCHANGED <<engineVars, pc, copy_throws>>

\* capture_snapshot_boundary.
CaptureSnapshotBoundary(adapter) ==
  /\ pc = "idle"
  /\ result' = CaptureError(adapter, Snapshot)
  /\ held' = IF result' = "Ok"
             THEN Some(Given("boundary", BoundaryOf(adapter, Snapshot), reference))
             ELSE held
  /\ UNCHANGED <<engineVars, pc, copy_throws>>

\* A mutant of Restore: the restore is not recorded.
RestoreSilently(s, origin) ==
  /\ clock' = s.tick
  /\ state' = s.state
  /\ reference' = origin
  /\ result' = "Ok"
  /\ UNCHANGED <<systems, replay_capture_enabled, step, events>>

\* What both restores do behind their checks.  Assigning the state begins with the
\* tick it carries and may throw before it has the data.
Restore(s, origin) ==
  /\ clock' = s.tick
  /\ \/ /\ state' = s.state
        /\ events' = Recorded(<<Event("SnapshotRestored", s.tick, None)>>)
        /\ reference' = origin
        /\ result' = "Ok"
     \/ /\ copy_throws
        /\ state' \in {state, [state EXCEPT !.last_completed_tick = s.state.last_completed_tick]}
        /\ reference' = None
        /\ result' = "copy threw"
        /\ UNCHANGED events
  /\ UNCHANGED <<systems, replay_capture_enabled, step>>

\* What the host can hand to a restore: snapshots are plain structures.
Restorable(kind) == {g \in Imported \cup {held[i] : i \in DOMAIN held} : g.kind = kind}

\* restore_snapshot.
RestoreSnapshot(given) ==
  /\ pc = "idle"
  /\ RoomForEvents
  /\ LET s == given.value
     IN  IF SnapshotError(s) = "Ok"
         THEN Restore(s, given.reference)
         ELSE result' = SnapshotError(s) /\ UNCHANGED engineVars
  /\ UNCHANGED <<pc, others>>

\* A mutant of RestoreSnapshotBoundary: the clock is restored before the adapter is asked.
RestoreSnapshotBoundaryEarly(adapter, given) ==
  /\ pc = "idle"
  /\ RoomForEvents
  /\ LET b == given.value
     IN  IF BoundaryError(adapter, b) = "Ok"
         THEN Restore(SnapshotOfBoundary(adapter, b), given.reference)
         ELSE /\ result' = BoundaryError(adapter, b)
              /\ clock' = IF MetadataError(b.metadata) = "Ok" THEN b.metadata.tick ELSE clock
              /\ UNCHANGED <<state, systems, replay_capture_enabled, events, step, reference>>
  /\ UNCHANGED <<pc, others>>

\* restore_snapshot_boundary.
RestoreSnapshotBoundary(adapter, given) ==
  /\ pc = "idle"
  /\ RoomForEvents
  /\ LET b == given.value
     IN  IF BoundaryError(adapter, b) = "Ok"
         THEN Restore(SnapshotOfBoundary(adapter, b), given.reference)
         ELSE result' = BoundaryError(adapter, b) /\ UNCHANGED engineVars
  /\ UNCHANGED <<pc, others>>

Next ==
  \/ \E input \in Inputs : BeginStep(input)
  \/ StepRefused
  \/ \E i \in 1..Len(systems) : RunSystem(i)
  \/ CompleteStep
  \/ \E system \in Systems : AddSystem(system)
  \/ EnableReplayCapture \/ DisableReplayCapture \/ ClearReplayTrace
  \/ \E d \in Data : EditState(d)
  \/ CaptureSnapshot
  \/ \E adapter \in Adapters : CaptureSnapshotBoundary(adapter)
  \/ \E given \in Restorable("snapshot") : RestoreSnapshot(given)
  \/ \E adapter \in Adapters, given \in Restorable("boundary") : RestoreSnapshotBoundary(adapter, given)

Spec == Init /\ [][Next]_vars
-----------------------------------------------------------------------------
EventType ==
  [kind : {"TickStarted", "TickCompleted", "SnapshotRestored"}, tick : Nat, detail : {None}]
  \cup [kind : {"InputApplied"}, tick : Nat, detail : {Some(input) : input \in Inputs}]
  \cup [kind : {"SystemExecuted"}, tick : Nat, detail : {Some(system) : system \in Systems}]

StepType ==
  [context : {Context(clock + 1, input) : input \in Inputs}, done : SUBSET (1..Len(systems)), draws : Draws]

TypeOK ==
  /\ clock \in Nat
  /\ state \in States
  /\ systems \in Seq(Systems)
  /\ replay_capture_enabled \in BOOLEAN
  /\ copy_throws \in BOOLEAN
  /\ events \in Seq(EventType)
  /\ \/ pc = "idle" /\ step = None
     \/ pc = "stepping" /\ step = Some(The(step)) /\ The(step) \in StepType
  /\ \A i \in DOMAIN held : WellFormed(held[i])

(***************************************************************************)
(* What the engine captures it restores.  Whatever was called before --    *)
(* steps that threw, restores that were refused, foreign snapshots --      *)
(* clock and state agree again when a call returns: a snapshot taken now   *)
(* is accepted, and so is a boundary that an adapter can capture and read  *)
(* (simulation_engine.hpp:127, 251, snapshot_boundary.hpp:197).            *)
(***************************************************************************)
CapturesAreRestorable ==
  pc = "idle" /\ ~copy_throws =>
    /\ state.last_completed_tick = clock
    /\ SnapshotError(Snapshot) = "Ok"
    /\ \A a \in Adapters :
         LET b == BoundaryOf(a, Snapshot)
         IN  CaptureError(a, Snapshot) = "Ok" /\ AdapterError(a, b) = "Ok" =>
               /\ BoundaryError(a, b) = "Ok"
               /\ SnapshotOfBoundary(a, b) = Snapshot

(***************************************************************************)
(* A step that cannot begin and a restore that is refused, by the engine   *)
(* or by the adapter it asks, leave the engine as it was, whatever had     *)
(* been looked at before (simulation_engine.hpp:158, 184).                 *)
(***************************************************************************)
RefusedCallsChangeNothing ==
  [][result' \notin {"Ok", "system threw", "copy threw"} => UNCHANGED <<clock, state, systems, events>>]_vars

(***************************************************************************)
(* docs/architecture.md:191 says of a restore that it "either succeeds     *)
(* with validated metadata and authoritative engine state, or it fails     *)
(* before mutating engine state".  It does not if assigning the state      *)
(* throws.                                                                 *)
(***************************************************************************)
RestoreIsAllOrNothing ==
  [][result' = "copy threw" => UNCHANGED <<clock, state, systems, events>>]_vars

(***************************************************************************)
(* Restoring and going on is running without interruption.  However the    *)
(* engine came to its state -- by steps, by restoring its own snapshots    *)
(* and boundaries in any order, with restores refused and systems throwing *)
(* in between -- it is the one that an engine reaches which takes the same *)
(* steps uninterrupted: every step draws from the seed and its tick alone, *)
(* and nothing of an abandoned step is left after a restore                *)
(* (simulation_engine.hpp:190; docs/architecture.md:177).                  *)
(***************************************************************************)
RestoredRunsContinue ==
  pc = "idle" /\ reference # None => state = The(reference)

-----------------------------------------------------------------------------
(***************************************************************************)
(* The trace.                                                              *)
(***************************************************************************)
\* An event behind which the engine is in the event's tick, between two steps.
EndsTick(e) == e.kind \in {"TickCompleted", "SnapshotRestored"}

\* The i-th of the events es is the last of them among the first n.
LastBoundary(es, i, n) == EndsTick(es[i]) /\ \A j \in (i + 1)..n : ~EndsTick(es[j])

\* As far as the events es tell, the engine is in tick t.
EndsAt(es, t) == \A i \in 1..Len(es) : LastBoundary(es, i, Len(es)) => es[i].tick = t

(***************************************************************************)
(* While it is captured, the trace ends where the engine is, whatever was  *)
(* restored or thrown by a system (simulation_engine.hpp:149, 223).  Only  *)
(* a restore that throws half-way leaves the trace behind the engine.      *)
(***************************************************************************)
TraceEndsAtTheClock ==
  pc = "idle" /\ replay_capture_enabled /\ ~copy_throws => EndsAt(events, clock)

(***************************************************************************)
(* The trace tells what was executed: a tick starts behind the tick the    *)
(* trace has come to, and between the start of a tick and its completion   *)
(* are its input and each system registered by then, once, phase by phase  *)
(* and in a phase as registered, even if the same tick was begun before    *)
(* and a system threw (simulation_engine.hpp:203).                         *)
(***************************************************************************)
TraceTellsTheSteps ==
  \A i \in 1..Len(events) :
    /\ events[i].kind = "TickStarted" /\ ~copy_throws =>
         \A j \in 1..i : LastBoundary(events, j, i) => events[i].tick = events[j].tick + 1
    /\ events[i].kind = "TickCompleted" =>
         LET t       == events[i].tick
             start   == CHOOSE j \in 1..i : /\ events[j].kind = "TickStarted"
                                            /\ \A k \in (j + 1)..i : events[k].kind # "TickStarted"
             ran     == SubSeq(events, start + 2, i - 1)
         IN  /\ \A k \in start..i : events[k].tick = t
             /\ events[start + 1].kind = "InputApplied"
             /\ \A k \in 1..Len(ran) : ran[k].kind = "SystemExecuted"
             /\ \E n \in 0..Len(systems) :
                  [k \in 1..Len(ran) |-> The(ran[k].detail)] = Order(SubSeq(systems, 1, n))
=============================================================================
