# A verification of xenor-engine

TLA+ models of the two deterministic simulation engines of this repository and of
the artifacts one of them records, the TLC configurations that check them on small
instances, and theorems about the scheduler, both engines, the two domains, the
artifacts, the fixtures and the canonical text that TLAPS checks for every instance. `PROJECT.json` lists the runs, the mutants that show each property can fail, the source lines of every definition,
the hazards the properties are for, the findings and the theorems.

To check: `tlc -config MCDeterministicEngine.cfg MCDeterministicEngine` (and the
other runs below), and `tlapm DeterministicEngine_proofs.tla` (and the other
`..._proofs` modules).

## The system

Two engines live side by side: a Rust one (`rust/src`, some 12,000 lines), which
records, persists and replays what it does, and a header-only C++ one
(`include/xenor`), smaller and without persistence. Both are single-threaded:
nothing runs concurrently inside them. What makes them hard is failure in the
middle of a tick, the order of phases and checkpoints, hosts that restore
snapshots at any time, integer limits, and records and artifacts that have to
agree with the state they describe.

| Component | State | Operations | Must hold |
|---|---|---|---|
| Scheduler (`scheduler`) | registrations, next insertion order | `add_phase`, `phase_plan`, `visit_phases` | the plan and the walk agree; by group, stable |
| Engine (`engine`, `phases`, `input`) | state, policies, validator | `tick`, `manual_snapshot`, `restore_snapshot` | a tick commits as a whole or fails for good |
| Replay log (`replay`) | records, one pending record | `begin_tick`, `record_phase`, `record_validation`, `complete_tick`; comparison of two traces | a chain without holes; first divergence found |
| Validation (`validation`) | none | `should_validate`, four checkpoints | what is committed was accepted |
| Settlement (`settlement`, `api/settlement`) | two resources, workers, totals, marker | seven phases, validator, snapshot | stock and demand are booked; half ticks are recognised |
| Counter (`state`, `api/mod`, `config`) | entities, pending input, budget, marker | five phases, validator, snapshot, configuration | what is committed adds up; limits |
| Artifacts (`persistence`) | none; values | build, encode, decode, verify a replay, resume from a snapshot | what is recorded can be read and verified |
| Scenario, fixture, parity (`scenario`, `fixture`, `parity`, `api/settlement`) | none; values | execute, verify, bundle, catalogue; build, generate, encode, decode, verify a fixture | what is generated holds, what passes is genuine |
| Canonical text, serializers (`canonical`, `serialization`) | the lines, the reader's position and consumed keys | encode, decode | decoders read what encoders write, and nothing else |
| Random numbers, hashes, collections | generator state | pure functions | |
| C++ engine | clock, state, trace, systems | `step`, `capture`, `restore`, trace control | clock and state agree |
| C++ snapshot boundary | none | metadata checks around an adapter | a refused snapshot changes nothing |

**How they interact.** The host calls `tick(frame)`. The engine checks the tick
number, begins a record in the replay log, asks the validator, and lets the
scheduler call its visitor for each phase; the visitor records the phase, runs
it on the state through a `TickContext`, and asks the validator again where the
plan says a group ends. Then the engine advances the tick, takes the checksum,
applies the snapshot policy and completes the record. Each step may return an
error, and `?` leaves `tick()` at once with everything done so far in place. The
records are what the artifacts are built from; verification feeds an artifact's
inputs to a fresh engine and compares the two traces.

## Modules

| Module | Models |
|---|---|
| `NaturalSets` | what a loop that filters a vector takes from it: the elements at a set of positions, in order |
| `PhaseOrder` | the two walks of the scheduler over its registrations, as operators |
| `FixedScheduler` | the scheduler while the host registers phases |
| `TickRules` | the rules of a tick that do not depend on the domain: next tick, snapshot policy, checkpoints |
| `DeterministicEngine` | the tick with its early returns, the replay log, both policies, the host's other calls; generic in the domain |
| `EngineContract` | the abstract engine: a clock, a log, open or failed |
| `Settlement`, `Counter` | the two domains: phases, validator, snapshot validation, as operators on a state |
| `SettlementEngine`, `CounterEngine` | the engine the API builds for a domain: `DeterministicEngine` instantiated with it, and its properties |
| `AtomicTick` | a whole `tick()` as one function, for domains whose phases are deterministic |
| `AtomicEngine` | `DeterministicEngine` in such a domain, next to that function; `CounterEngine` instantiates it |
| `Artifacts` | artifacts as values: recording, the checks of a reader, the comparison of two traces, verification, resuming; built on `AtomicTick` |
| `ReplayArtifact` | a host that records, stores, reads back, verifies and resumes |
| `StoredArtifacts` | artifacts in which storage has changed one field |
| `Scenario` | scenarios, parity summaries, execution, verification, run summaries and bundles as values; on `Artifacts` |
| `GoldenFixture` | fixtures as values: the contract of their parts, summary, building, encoding, verification, the catalog; on `Scenario` |
| `FixtureHost` | a host that makes scenarios and fixtures, stores, reads back and verifies them |
| `CanonicalText` | one canonical text: an encoder pushing lines, storage editing them, a decoder reading them |
| `TextFormats` | the fields of the eleven texts, as encoders push them and as decoders ask for them |
| `SnapshotBoundary` | the C++ engine's checks of a snapshot and of a boundary behind an adapter |
| `SimulationEngine` | the C++ engine and its host |
| `MC...` | small instances for TLC; `MCDomain` is the small domain that `replay` and `fixtures` share |
| `FixedScheduler_proofs`, `DeterministicEngine_proofs`, `CounterEngine_proofs`, `SettlementEngine_proofs`, `SimulationEngine_proofs`, `CanonicalText_proofs` | theorems and lemmas about these modules |
| `Artifacts_proofs` | theorems and lemmas about `Artifacts`, `Scenario`, `GoldenFixture` and the two hosts that use them, `ReplayArtifact` and `FixtureHost` |
| `NaturalSets_proofs` | lemmas: induction on natural numbers, stated for sets; filtering lists what it takes in order |

### The Rust engine

**State.** `DeterministicEngine` has the fields of the Rust struct (`plan` stands
for the scheduler, `pending` and `records` for the replay log) plus the control
state a call of `tick()` has while it runs: `pc`, and `cursor`, the phase that
runs next. `result` is what the host was last told, `held` the snapshot the host
keeps, and `splices` a history variable: after how many records a snapshot was
restored.

**Actions.** `TickUnexpected`, `TickWhilePending` and `BeginTick` are the three
ways `tick()` begins; `ValidateBeforeTick`, one `RunPhase` per phase and
`CompleteTick` are the rest of it. A phase and the checkpoint after it are one
action, since nothing can be observed between them. `ManualSnapshot`,
`RestoreSnapshot`, `RestorePanics` (a domain's `restore_snapshot` panics on a
snapshot it finds invalid) and `NewEngine` are what a host can do between two
ticks.

**Abstractions.**
- A checksum or a digest is the state it is computed from: two are equal exactly
  when the states are. Collisions of the 64-bit hashes are out of scope.
- The finalize marker is the pair it hashes; it is never 0, which the source
  uses for "none" (a real hash is 0 once in 2^64 ticks).
- The seed is left out. Everything drawn from it in a tick is a function of the
  tick; the counter's entropy is the parameter `EntropyAt`.
- A phase writes the state's data. Through its `TickContext` it could also write
  the tick and the replay log; no phase of the repository does.
- A registration's phase is its name, and a plan is fixed once the engine is
  built, as the engine owns its scheduler and hands out only `&Sch`.
- Integers have their width where it matters: `MaxTick`, `MaxI64`, `MaxU32`,
  `MaxU64` stand for the largest values and are small in the runs.

### Artifacts

A function of the API over artifacts builds an engine, runs it and drops it before
it returns, so it is one action: `Record`, `Verify`, `Resume`, `ExtractSnapshot` (the
snapshot of a recorded tick), `ManualSnapshot` (of a running engine). What the engine
does inside is `AtomicTick`; that `DeterministicEngine` computes this function is proved
for every domain whose phases have one outcome (`TicksAreFunctions`). `StoreReplay` and `StoreSnapshot` write an
artifact and read it back with one field changed, if the reader accepts it; a
behaviour records once.

- An artifact is a record of its fields. The text they are written in is left out,
  but for what a field says of another (`record_count`, `total_ticks`).
- The engine family and the schema versions, which are only compared with the
  reader's, are one field, `format`. A config identity is the configuration.
- The refusals before an engine runs are one, `Refused`: they differ in wording, and
  nothing has changed yet. Checks that cannot fail are left out, such as that of the
  seed of the engine just built from it.
- Two facts of the code that the model shows: an artifact of a manual snapshot is
  refused by `Resume`, since a replay only holds snapshots of its policy; and so is
  one of tick 0, which has no record.

### Scenarios and fixtures

`FixtureHost` has the host's `scenario` and `fixture` and the `answer` to its last call.
Each call of the API over them (`BuildScenario`, `VerifyTheScenario`, `Bundle`, `Catalog`,
`Generate`, `BuildFromParts`, `VerifyTheFixture`) returns before the next one and works
on values, so it is one action. `StoreScenario` and `StoreFixture` write and read back
with one field changed; `StoreFixture` only where the decoder accepts it, while any
values of its fields are a scenario. Three history variables say where things came
from: `basis`, the run an expectation was taken from; `generated`, the fixture as it was
generated; `changes`, how much is not the host's own.

- A digest is the value it is taken of: that of a scenario is of its `Contract`, which
  leaves the expectation out. Of a parity summary only the fields that a comparison
  looks at are told apart; the versions no comparison looks at are one, `format`.
- Executing a scenario is `RecordReplay` of `Artifacts`, a function, so where the catalog
  executes the same scenario twice the model may compute it once.
- The `answer` about a run that fails carries its status, not its wording.
- Comparing two parity summaries gives the set of fields in which they differ; the code
  lists them, with both values, and passes what has an empty list.

### Canonical text

A line of text has a key, a datum and a spelling; a key is a field's name and the
indices of the groups it is in. `Push` and `FinishWriting` are an encoder, `Edit` is what
storage does (at most once: a line dropped, repeated, swapped, inserted, changed,
respelled, garbled or broken), `Open`, `ReadValue` and `Finish` are a decoder, up to its
first error. `Writes` and `Reads` are separate: the encoder and the decoder of a format
each name every field, and `TextFormats` gives both as they stand in the source. That
the two lists of a format fit together is an assumption of `CanonicalText`
(`ReadsFollowWrites`: the same names in the same places, a constant read as one, a flag
as a flag; `NamesTellTheFields`: no name twice where a key could not tell which is meant),
which TLC evaluates on the eleven: an encoder or a decoder with two fields swapped fails
there, and the properties are about what the writer, the reader, flags and counts make of
such lists.

- A datum is 0, 1, 2 or 3: what a flag or count says, and for a plain field one value that
  stands for all. The decoders of replays and scenarios call `Vec::with_capacity` on four
  of their counts before they look for what these announce (`ReservingCounts`); a count
  beyond `MaxCapacity`, which stands for the memory of the host, aborts them
  (`LacksRoom`). The other counts reserve nothing. What an encoder pushes as a constant is the datum 1 of its field.
- How a decoder treats a value is the field's kind: compared as text (`fixed`), parsed
  and compared (`known`), matched as one of some words (`word`, `flag`), parsed
  (`free`, `count`).
- A spelling is `canonical`; `otherwise`, for a text that parses to the same datum
  (`+5`, upper-case hexadecimals); `garbage`, which does not parse; or `no line`, which
  is not a key, a delimiter and a value.
- Texts nested in texts (hexadecimal payloads) are fields of the outer one and formats
  of their own. What fields must say of each other is checked on values, in `Artifacts`,
  `GoldenFixture` and the domains.

### The C++ engine

`step()` is `BeginStep`, one `RunSystem` per system and `CompleteStep`, so that a
system can throw between two of them; `StepRefused` is the overflow at its
beginning. The next system is the one that `IsNext`, by phase and then by registration
(`Before`). `run_for_ticks` and `run_for_sequence` are repeated steps. A system is a
function of the data, the context and the state of the step's random source (`Run`),
which each step begins with 0 and systems hand on (`Draws`). `Restore` is what both restores
share behind their checks; where `copy_throws` assigning the state may throw, which
leaves the old state, or the old data under the new tick, since the assignment
begins with the base class that holds it. Adapters are values, and operators say what they
answer, an error or a value. A host can write data through `state()`; it does not set the completed
tick, which the docs call the engine's. `Imported` are snapshots from elsewhere: a host
can fill in these structures by hand. The history variable `reference` is the state of
an engine that takes the same steps in one piece and is never interrupted.

The duration of a tick has 63 bits and the tick 64, so the overflow of the tick
itself lies behind that of the elapsed duration and is not modelled apart.

## What the runs check

| Run | Question | Bounds |
|---|---|---|
| `fixed_scheduler` | does the plan agree with the walk, by group and stable? | 4 registrations, 2 names, 5 groups: every interleaving of up to four; the scheduler stops when they are made, hence no deadlock check |
| `engine` | do records, state and failures fit together, for any domain? | 4 plans (groups interleaved, no Finalize, two Finalize, empty), both validation policies, 2 snapshot policies, 3 data values, 3 ticks, 2 records; a phase may turn the state into anything, or fail half-way |
| `settlement` | is everything booked, and what may a failed tick leave behind? | 2 workers, 4 commands, i64 cut to 7, 4 ticks, 2 records per engine |
| `counter` | does what is committed add up, and what is refused? | 2 entities, 3 commands, a snapshot every 2 ticks, i64 cut to -8..7, u64 to 0..5, 3 records |
| `replay` | is what is recorded readable, repeatable and genuine? | runs of up to 3 ticks, 3 configurations, 2 seeds, 2 commands, up to 2 changed fields |
| `simulation` | does the C++ engine restore what it captures and go on from it, and do refusals change nothing? | 3 data values, 2 ticks whose duration exists, up to 2 systems, 4 adapters, 13 foreign snapshots and boundaries, copies that throw or do not; no trace |
| `simulation_trace` | does the trace tell what happened? | traces of up to 9 events, no adapters |
| `fixtures` | do generated fixtures hold, and is what passes genuine? | scenarios of up to 3 ticks, 3 configurations, 2 seeds, one part or field that is not the host's own |
| `canonical_text` | do decoders read what encoders write, and nothing else? | the eleven formats, each flag set or not, groups of up to 2, one record of up to 2 phases, one edit; the reader stops, hence no deadlock check |
| `replay_two_finalize` | finding: is what is recorded readable? | two Finalize phases |
| `simulation_atomicity` | finding: does a failed restore change nothing? | as `simulation` |
| `run_summary` | finding: is a run summary of the tick the run ends with? | as `fixtures` |

`MaxRecords` bounds the records of one engine in `BeginTick`; in the C++ engine
`MaxEvents` bounds the trace at the beginning of a step or a restore and `MaxSystems`
the registrations; `MaxFaults` bounds the changed fields, `MaxCount` the groups an
encoder writes and `MaxCapacity` how many there is room for. No other guard has a bound.
With `MaxEvents = 0` an engine that captures a trace neither steps nor restores: these
runs are about the engine without it, and `simulation_trace` is about the trace. One edit or one changed field is what tells a
missing check from one that is there; two changes that hide one another are tried in
`replay`, and parts that do not belong together in `BuildFromParts`. Two records show everything that relates a record to the one before and
to the state after it; a restore, a second engine and imported snapshots take
the runs to later ticks, up to the last one of the clock. The bounds on integers
are the smallest at which every total saturates, each resource runs short, alone
and together, and both ends of the counter's range are passed; each was checked
to be reached.

*Engine.* `RecordChain`: the first digest of each record is of the state the previous one
committed, or of a snapshot restored in between that the domain does not refuse, and the
record is for the tick after that state. Only at the end of the clock, where the
expected tick saturates, does a tick repeat the number of the one before; the run gets
there, with a validator that does not look at the tick.
`IdleStateIsCommitted`: an idle engine that has not failed is in its last
recorded state, or in one restored since. `CommittedStateAccepted`: every digest was accepted, and with a
Finalize phase the last one is of the committed state. `FailureIsFinal`: after an
error inside a tick no call, restore included, makes the engine commit again.
`ImplementsContract`: it refines `EngineContract`, with the clock as the state's
tick, the log as the records' ticks and commands, and the status from the
pending record. `TickReturns`: a call returns.

*Settlement.* `StockConserved`: stock = initial + produced - consumed, after every
phase, until a total saturates. `DemandBooked`: every unit required since tick 0
is consumed or short, exactly once, whatever failed or was restored.
`OnlyFullStoresAreRefused`: a correct tick is refused only for `max_inventory` or
at the end of the clock. `VisibleStateIsRestorable`: no snapshot of an idle engine,
failed ones included, makes `restore_snapshot` panic. `HalfTickIsRefused`: a state
that a failed tick left is the last committed one or is refused at the next
`BeforeTickBegin`.

*Counter.* `CommittedTicksAddUp`: with limits that leave room, no saturated value
is ever committed. `OnlyLimitsAreRefused` and `HalfTickIsRefused` as above; a tick that fails
after Finalize is given away only by the limit that failed it.
`StagedDeltaWithinLimit`: under `EveryPhase` no committed delta exceeds
`max_abs_pending_delta`; under `TickBoundary` the limit is never looked at.

`TickIsAFunction`: every tick, committed, refused or failed, ends as `AtomicTick` says:
it depends on nothing but the state before it, the seed and the input.

*Artifacts.* `RecordModeEmits`: ticks that all succeed yield an artifact; what an
engine records is what readers ask for. `RecordedReplaysRepeat`: an unchanged artifact
verifies, and resumes from each snapshot of its policy, with the result of the
recording. `VerifiedReplaysAreGenuine`: what verifies, whatever storage did to it, is
what recording its inputs yields, but for the name of the snapshot policy.
`ResumedReplaysAreGenuine`: what resumes ends as an engine does that takes the remaining
inputs from the snapshot; the ticks before it are not vouched for.

*Fixtures.* `ExpectationTellsTheRun`: a scenario passes exactly if its expectation was
taken from a run of the same configuration, seed and frames. `GeneratedFixturesHold`: a
generated fixture can be stored and read and passes, though its summary and that of the
rerun get their digests from different places. `ChangesAreNoticed`: of a generated
fixture with one field changed nothing is read back, but for the expectation in its
scenario, the versions in its summary, and the snapshot artifact, which may be missing.
`PassedFixturesAreGenuine`: a fixture that passes, wherever its parts came from and
whether or not it was ever read, is the one its scenario or its inputs would generate.
`CatalogIsClean`: a scenario that runs, has a snapshot and is expected rightly gets an
entry in which everything agrees.

*Canonical text.* `WrittenTextIsRead`, `OnlyWrittenTextIsAccepted`: an unedited text is
read; an accepted one has the keys of the written one and differs at most in the value of
a plain field or in a spelling. `RefusalTellsTheEdit`: what was done to the text and the
error the reader gives go together as the docs list them; only a changed count can end
the reading without an error.

*C++ engine.* `CapturesAreRestorable`: whenever a call has returned, clock and state
agree, a snapshot taken now is accepted, and a boundary gives the same snapshot back
through any adapter that reads it. `RefusedCallsChangeNothing`: a step that cannot
begin and a refused restore, by the engine or by an adapter, change nothing.
`RestoredRunsContinue`: an engine that has restored its own snapshots, whatever threw
before, is in the state of the engine that was never interrupted. A step that throws
leaves its data half changed; this is visible to the host, accepted in a snapshot, and
gone after a restore. `TraceEndsAtTheClock`, `TraceTellsTheSteps`: the trace ends at
the engine's tick (where assigning a state cannot throw), ticks follow one another, and a completed tick lists its input and
each system once in order, also when it is the repetition of one that threw.

**Fairness.** `tick()` is a plain function call, so once it is entered it runs: weak
fairness of `EngineStep`, the three actions inside a tick, and of nothing else.
A host need not call anything. A phase is assumed to return; the repository's
phases have no loops.

**Findings.** Statements of the repository that the code does not keep, each with its
run: what an engine with two Finalize phases records is refused as corrupted, since
`AfterFinalize` is validated after each of them (`replay_two_finalize`); a restore of the
C++ engine whose copy of the state throws has set the clock (`simulation_atomicity`); and
under a policy of every n-th tick the run summary is of the last captured tick, not of
the final one (`run_summary`).

Met while modelling, and not a run of its own:
- at `u64::MAX` the tick just completed is accepted again (`engine/mod.rs:200`);
  `RecordChain` says that this is the only repetition;
- with a population of `u32::MAX` the saturating sum lets an allocation exceed the
  population (`settlement/mod.rs:54`);
- verification neither uses nor checks the recorded snapshot policy (`api/mod.rs:742`);
  `VerifiedReplaysAreGenuine` leaves it out;
- a fixture whose scenario carries a wrong expectation passes `verify_fixture`, which
  never looks at it; importing accepts a fixture that has lost its snapshot artifact;
- a changed count of a replay or a scenario can end the reading in a panic or an abort,
  not in an error, since room is made for it first (`persistence/mod.rs:661`, `694`, `736`,
  `scenario/mod.rs:342`; `docs/rust_architecture.md:538` lists the errors of a fail-fast
  decode). `RefusalTellsTheEdit` says that nothing but a changed count does this;
- other spellings of a number are accepted on import, so that import followed by export
  need not give the same bytes. The docs promise only that export, import and export do
  (`docs/rust_architecture.md:526`).

## What is proved

The runs show a property on small instances; the theorems are about every value of the
constants. An assumption is evaluated by TLC in each run whose module declares or
extends it; a hypothesis of a theorem is evaluated by the MC module named with it.

### The scheduler

`FixedScheduler_proofs` proves `PlanIsTheVisit` (`PlanMatchesVisit`) and
`PlanIsGroupedAndStable` (`GroupedAndStable`), for any names and number of
registrations. The invariant `InOrderOfInsertion` says that the counter numbers the
vector, so that sorting a group by it changes nothing (`SortedIsSame`). The walk is five
filtered vectors one behind the other; each lists its group (`AscendingLists`), what one
lists comes before what the next one does (`ListsTogether`), and in a list of everything
an entry is where as many are before it (`ListedAt`). Filters are written with `Chosen` of
`NaturalSets` instead of `SelectSeq`, of which TLAPS knows nothing.

### The engine, for every domain

`DeterministicEngine_proofs` assumes that the clock and the bounds are naturals, the
initial data is a state, plans are sequences of descriptors that end in a Finalize phase
if they have one, and that imported snapshots are snapshots. Of the domain it asks, as a
hypothesis, that a phase run on a state yields a state (`PhasesKeepTypes`, evaluated by
`MCDeterministicEngine`).

- `TypeCorrect`, `RecordsChain`, `IdleIsCommitted`, `CommitsAreAccepted`: the
  invariants `TypeOK`, `RecordChain`, `IdleStateIsCommitted`,
  `CommittedStateAccepted`;
- `FailuresAreFinal`: the action property `FailureIsFinal`;
- `RefinesContract`: the engine implements `EngineContract`.

The assumption on plans is what `GroupedAndStable` says of the scheduler; that one plan
stands for both walks is `PlanMatchesVisit`.

None of the invariants is inductive alone. When `CompleteTick` appends a record
one must know that the pending one began in the state the log ended with, that
what it has collected so far was accepted, and that its last digest is still the
state's. `IInv` adds these: `TickInProgress` (between `BeginTick` and `CompleteTick`
the pending record carries the tick after the state's; it has no digest until the
checkpoint before the tick, and afterwards its first digest is of a state with the tick
of the present one, which the last record committed or a restore has put in its place), `SummariesAccepted` (all digests of the pending record were accepted, and
behind a Finalize phase the last one is the state's) and `AtRest` (an idle engine has
its cursor at the beginning, and one that has failed has told the host an error).
Each action preserves each part in a step of its own; `IInv` itself was model-checked before it was proved.

### Ticks are functions

The theorem `TicksAreFunctions` of the same module is about `AtomicEngine`: where every phase has one outcome
(`PhasesAreFunctions`), a well typed engine computes `AtomicTick` (`TickIsAFunction`).
That the engine is well typed is a hypothesis about its states and not one about its
phases, so that domains can use the theorem whose phases keep types only on the states
they really meet. The invariant `AtomicInv` follows a tick through its actions:
`TickUnderWay` (between two phases, state and pending record are what the function has
come to after as many phases), `CommittedTicksAreAtomic` and `FailedTickIsAtomic`.
`AtomicTick` computes with a recursive function over the plan; that it exists is an
induction over the plan's length, done here with a set (`SetInduction` of
`NaturalSets_proofs`), because the library's induction theorems take an operator.

### The counter

`CounterEngine_proofs` assumes a valid configuration, widths that fit together (the range
of a byte divides that of a 64-bit unsigned, the ids of the entities fit in that, and so
does the entropy drawn), commands and imported snapshots of their types, and the plan the
scheduler makes of the registrations.

- `CounterTypeCorrect` (`TypeOK`), `CounterTicksAreFunctions` (`TickIsAFunction`),
  `StagedDeltas` (`StagedDeltaWithinLimit`), `CommitsAddUp` (`CommittedTicksAddUp`),
  `HalfTicksAreRefused` (`HalfTickIsRefused`), `RefusalsAreLimits` (`OnlyLimitsAreRefused`).

The phases keep the types only where the marker is none before the last of them, so the
invariant `CounterInv` joins the types with `DomainInv`: an engine between ticks is at the
first phase (`CursorAtRest`), there is no marker while the phases run (`MarkerReset`), the
entity store of the state and of what was committed could be restored (`StoresInv`), and
under `EveryPhase` the delta of a command has been looked at before it is simulated
(`StagedInv`). The last three theorems are about ticks that have ended, so they go through
`CounterTicksAreFunctions`: a committed tick and a failed one are what `AtomicTick` makes
of the last committed state, and the argument walks the five phases of that function once
(`Midway` says what they have come to), without the engine around them (`CommittedTick`,
`FailedTick`). A failed counter holds its last committed state, or one beyond a limit,
which the next `BeforeTickBegin` looks at again.

### The settlement

`SettlementEngine_proofs` proves about the settlement's engine, for every
configuration, every width of the integers, all commands and both policies:

- `TypeCorrect` (`TypeOK`), `StockIsConserved` (`StockConserved`),
  `VisibleIsRestorable` (`VisibleStateIsRestorable`), `DemandIsBooked` (`DemandBooked`),
  `HalfTicksAreRefused` (`HalfTickIsRefused`), `OnlyFullStores`
  (`OnlyFullStoresAreRefused`).

It assumes that the configuration is valid (`from_config` refuses any other), that the
commands are commands, and of snapshots from elsewhere that their fields have their types,
that their stock is what their totals say, and that their demand is booked wherever a tick
could begin; that nothing in them is negative is not assumed, but
checked by `restore_snapshot`. The theorems about `DeterministicEngine` cannot be used
here: they ask that each phase keeps every well typed state well typed, and the last
phase, run on a state that has a marker, would take the hash of a hash. The invariant
`IInv` therefore joins the types with `MarkerReset` (from the first phase to the last the
marker is none) and `BooksKept` (stock, totals, and the snapshots a restore may bring
back). Each phase has a lemma; the arithmetic is in `ProduceKeeps`, where a total that
does not saturate means that the stock did not either, and in `ConsumeKeeps`, where what
is taken is no more than what is there. `VisibleIsRestorable` needs `Presentable` on top:
between production and the phase that resolves the status the status does not explain
the shortages, and no checkpoint lies there (`NothingDue`), so `tick()` cannot return.

The last three theorems need `TickInvariant`, which relates the state to the one its tick
began in: `Underway` (that state was accepted and its demand booked, and the phases run so
far have made of it what `Midway` says), `AtRest` (between two ticks the state is the last
committed one), `Bookings` (every state a tick may begin in, now or after a restore, has
its demand booked), `Completed` (a committed state has a marker and nothing pending) and
`FailedInv` (a tick failed before its first phase, beyond a limit of the stores, or while
its marker was reset).

### Artifacts

`Artifacts_proofs` proves about `ReplayArtifact`, for every domain, configurations, inputs
and number of changed fields:

- `VerifiedAreGenuine` (`VerifiedReplaysAreGenuine`), `ResumedAreGenuine`
  (`ResumedReplaysAreGenuine`) and `RecordedRepeat` (`RecordedReplaysRepeat`), without
  any hypothesis on the domain;
- `TypeCorrect` (`TypeOK`: whatever the host holds can be decoded), where the domain
  accepts the snapshots of its own runs (`RunsAreRestorable`);
- `RecordingsCanBeRead` (`RecordModeEmits`), where moreover the plan finalizes at most once
  (`OneFinalizePhase`) and no run is longer than the clock (`InputsEndInTime`).

The three hypotheses are about what the functions over artifacts do not control:
`restore_snapshot` is the domain's; with two Finalize phases the statement is false, which is the
finding of `replay_two_finalize`; and at the end of the clock ticks saturate and two records
carry the same one. `MCReplayArtifact` evaluates all three.

The assumptions are that a plan is a sequence of descriptors in the order of their groups and that
inputs are frames. A run that ends well has passed through a
state after each of its inputs (`Steps`), and what `RunFrames` returns is made of these (`Done`);
so a run from a seam is the rest of the run across it (`StepsSplit`, `RunContinues`), which
is what resuming rests on. `SameTrace`: two traces of records of the right shape that are
compared without a divergence are equal, which is what verifying rests on. The `Changed...`
lemmas say which shape an artifact keeps when storage changes one of its fields. The invariant
`Inv` keeps what these need of what the host holds: shapes (`ArtifactInv`, `SnapshotInv`), that the
recording is one (`RecordedInv`), that the last report is what its call yields
(`ReportInv`), and that without faults nothing has changed (`FaultsInv`).

### Scenarios and fixtures

The same module proves about `FixtureHost`, again for every domain, plan, configurations,
inputs and number of changes, and without any hypothesis on them:

- `ExpectationsTellTheRun` (`ExpectationTellsTheRun`), `GeneratedHold`
  (`GeneratedFixturesHold`), `NoticedChanges` (`ChangesAreNoticed`), `PassedAreGenuine`
  (`PassedFixturesAreGenuine`), `CatalogsAreClean` (`CatalogIsClean`).

They rest on two facts. What `Execute` returns for a scenario that runs is its `Replay`,
the artifact of the records its frames yield (`ExecutedIs`), so that the summary of a
generated fixture and that of the rerun are the same although their digests are taken in
different places (`GeneratedAgrees`). And a summary determines the parts it is a summary
of, as far as a digest covers them (`AgreeingFixtures`): two fixtures that agree with
their summaries, whose summaries agree, are equal but for the snapshot, which may be
missing. The invariant `HostInv` says what each variable is: a scenario has the shape of
one and an expectation of the run in `basis` (`ScenarioInv`), a fixture agrees with its
own summary, wherever its parts came from (`FixtureInv`), what was generated was generated
from some scenario, and what is left of it still has a summary that agrees
(`GeneratedInv`), and the answer is that of a call on what the host still has
(`AnswerInv`). `GeneratedInv` is what makes `NoticedChanges` a theorem about any number of
changes, one after the other: a decoder lets a fixture through only with a summary that
agrees with the parts, so no change in a digest survives the first read.

### Canonical text

`CanonicalText_proofs` proves, for formats of any number and length, whose groups are
nested no deeper than a group in a group, for any counts, and for an edit at any line:

- `TextIsRead` (`WrittenTextIsRead`), `NothingElseIsRead` (`OnlyWrittenTextIsAccepted`),
  `RefusalsTell` (`RefusalTellsTheEdit`), all three from `TextInvariant`.

The assumptions are the two above on the lists of fields, and that
what is written has room (its counts are naturals up to `MaxCapacity`).
The invariant `CanonicalInv` is about what a text says of how it was written: to each text
there is a `T` with `T[i]` what was still to be pushed after line `i` (`WrittenBy`). No two
entries of a `T[i]`, nor what they bring with them, ever have the same key (`Tidy`), and
none of them has one that was written before (`Gone`); both come from
`NamesTellTheFields` and from the indices that tell the groups of a count apart. While the decoder reads, the lines up to its position are
those that were written, or differ in a way it does not see, and one of two things holds.
It `Follows`: what it will ask for is `T` at its position, entry by entry. Or it
`Strays`: it has read a flag or a count that was changed, and the two lists agree for some
entries and then part, one asking for more of the group where the other goes on behind it
(`Part`); so it cannot get to the end, and what it meets there is an edit it names rightly.
Where the edit lies ahead, the line it will meet is the one `Stored` says, which gives the
error. `CanonicalInv` was model-checked before it was proved, with `T` computed from the
written text.

### The C++ engine

`SimulationEngine_proofs` proves about the C++ engine, for every state, registry of
systems, random source, duration and adapter:

- `TypeCorrect` (`TypeOK`), `CapturesRestore` (`CapturesAreRestorable`), `TraceEnds`
  (`TraceEndsAtTheClock`) and, as an action property, `RefusalsAreAtomic`
  (`RefusedCallsChangeNothing`).

It assumes what the C++ types say: systems return data (`RunAssumption`), a snapshot from
elsewhere has a tick and a state, and what an adapter reads from a boundary is data
(`ImportedAssumption`); and of adapters that what they write they read back
(`SnapshotBoundary`). The invariant adds that the clock is at a tick whose duration
exists, that inside `step()` the next one is too, and, while assigning a state cannot
throw, that state and trace are at the clock even between two systems.

- `RestoredRuns` (`RestoredRunsContinue`). A step runs the systems one by one, each time
  the one before all others that wait; the engine in one piece folds `Run` over `Order`.
  `ReferenceInv` relates them: inside a step the systems that have run are the first `c` of
  the listing, and data and draws are what the fold has come to after `c` of them
  (`StepUnderWay`; `NextIs` and `AllHaveRun` say that the listing is what `Before`
  describes); between two steps state, clock and reference agree (`ReferenceAtTheClock`);
  and what the host holds leads to the reference it was captured with (`HeldMatches`).
- `TraceTells` (`TraceTellsTheSteps`), by the invariant `TraceInv`. A tick starts behind the
  tick of the last boundary because the trace ends at the clock; a completed one lists every
  system because `StepUnderWay` also says that the trace ends with the start, the input
  and the `c` systems run so far (`Recording`). What the trace tells stays true when it gets
  longer (`ToldLonger`) and when another system is registered (`ToldRegistered`), which is
  why the property speaks of the systems registered by then.

Of systems `EngineAssumption` says that their phases are the three the code has. A snapshot
from elsewhere carries no reference, which is about the history variable alone.

### Only model-checked

`TickReturns`, a liveness property, which is out of TLAPS's reach. Every other property
of a passing run is stated by a theorem. That the two lists of fields of the eleven formats
fit together is a matter of evaluating them, which TLC does. That the plans handed to
`DeterministicEngine` are those of a scheduler is an assumption there, which the theorems
about the scheduler justify.

## What is not modelled, and the plan

Still worth doing: `SettlementEconomy`, the seven phases as one atomic step, which
`SettlementEngine` implements.

Left out for good: the wording of errors, the text of the artifacts below the
level of fields, the arithmetic of the hashes and of SplitMix64 (pure functions
of which the models use only that they are functions), the bindings trait, the
inspection view of the settlement and the texts of its demo catalog (formatting), the
demos and benchmarks.
