------------------------ MODULE DeterministicEngine -------------------------
(***************************************************************************)
(* The tick lifecycle of rust/src/engine/mod.rs together with the replay   *)
(* log it writes (InMemoryReplayLog of rust/src/replay/mod.rs) and the     *)
(* validation policy it follows (rust/src/validation/mod.rs).              *)
(*                                                                         *)
(* The engine is generic in its domain, and so is this module: what a      *)
(* phase computes (Run), what the validator thinks of a state (Accepts)    *)
(* and which snapshots can be restored (Restorable) are parameters.  The   *)
(* modules Settlement and Counter supply them for the two domains of the   *)
(* repository.                                                             *)
(*                                                                         *)
(* A checksum or a state digest is modelled by the state it is computed    *)
(* from, so two are equal when the states are.  The seed of a tick is a    *)
(* function of the engine's seed and the tick and is left out.             *)
(***************************************************************************)
EXTENDS Integers, Sequences, PhaseOrder, TickRules

CONSTANTS
  Commands,          \* the commands an input frame can carry
  Data,              \* the values of the domain state, its tick apart
  InitialData,       \* the one the engine is built with
  Names,             \* the names of the phases
  Plans,             \* the plans of the schedulers the engine is built with
  SnapshotPolicies,  \* the snapshot policies it is built with
  ValidationPolicies,\* the validation policies it is built with
  Imported,          \* snapshots the host may hold that were taken elsewhere
  MaxRecords,        \* model bound: records one engine's replay log can hold
  Run(_, _, _, _),   \* phase name, tick, state, command -> the outcomes of Phase::run
  Accepts(_, _, _),  \* checkpoint, tick, state -> StateValidator::validate returns Ok
  Restorable(_)      \* snapshot -> SimulationState::restore_snapshot does not panic

Snapshot   == [tick : 0..MaxTick, data : Data]
Descriptor == [ordinal : Nat, group : PhaseGroup, name : Names]
Frame      == [tick : 0..MaxTick, command : Commands]

ASSUME BoundAssumption == MaxRecords \in Nat

ASSUME DataAssumption == InitialData \in Data

\* What the engine may expect of a scheduler: PlanMatchesVisit of FixedScheduler
\* is why one plan stands for phase_plan() and for the order of visit_phases().
ASSUME PlansAssumption == Plans \subseteq Seq(Descriptor)

\* If there is a Finalize phase, the last phase is one: GroupedAndStable of FixedScheduler.
ASSUME FinalizeLastAssumption ==
  \A p \in Plans : \A i \in 1..Len(p) :
    p[i].group = "Finalize" => p[Len(p)].group = "Finalize"

\* What a domain whose states are Data answers for: a phase computes one of them.
PhasesKeepTypes ==
  \A n \in Names, t \in 0..MaxTick, s \in Snapshot, c \in Commands :
    Run(n, t, s, c) \subseteq [ok : BOOLEAN, data : Data]

ASSUME ImportedAssumption == Imported \subseteq Snapshot

ASSUME PolicyAssumption ==
  /\ SnapshotPolicies \subseteq [kind : {"Never", "Manual", "Every"}, interval : Nat]
  /\ ValidationPolicies \subseteq {"TickBoundary", "EveryPhase"}

VARIABLES
  plan,              \* the scheduler's plan, fixed when the engine is built
  snapshot_policy,
  validation_policy,
  state,             \* the authoritative state: [tick, data]
  pending,           \* the replay log's Option<PendingReplayTickRecord>
  records,           \* the replay log's finished records
  pc,                \* where tick() is: "idle" between two calls of the host
  cursor,            \* the position in plan of the phase that runs next
  result,            \* what the host's last call of tick() returned
  held,              \* Option: the snapshot the host keeps from manual_snapshot()
  splices            \* history: the lengths of records at which a snapshot was restored

vars == <<plan, snapshot_policy, validation_policy, state, pending, records,
          pc, cursor, result, held, splices>>

configuration == <<plan, snapshot_policy, validation_policy>>
-----------------------------------------------------------------------------
\* The checkpoints among cs that the policy in force has validated.
Due(cs) == {c \in cs : ShouldValidate(validation_policy, c)}
-----------------------------------------------------------------------------
Init ==
  /\ plan \in Plans
  /\ snapshot_policy \in SnapshotPolicies
  /\ validation_policy \in ValidationPolicies
  /\ state = [tick |-> 0, data |-> InitialData]
  /\ pending = None
  /\ records = <<>>
  /\ pc = "idle"
  /\ cursor = 1
  /\ result = "None"
  /\ held = None
  /\ splices = {}

-----------------------------------------------------------------------------
(***************************************************************************)
(* tick(frame).  The three ways it begins, and its later steps.            *)
(***************************************************************************)
\* validate_ordered_input refuses a gap or a rewind.
TickUnexpected(f) ==
  /\ pc = "idle"
  /\ f.tick # TickSucc(state.tick)
  /\ result' = "UnexpectedInputTick"
  /\ UNCHANGED <<configuration, state, pending, records, pc, cursor, held, splices>>

\* begin_tick refuses to start a record while another one is pending.
TickWhilePending(f) ==
  /\ pc = "idle"
  /\ f.tick = TickSucc(state.tick)
  /\ pending # None
  /\ result' = "ReplayLifecycle"
  /\ UNCHANGED <<configuration, state, pending, records, pc, cursor, held, splices>>

\* The record begin_tick starts with.
PendingRecord(f) ==
  [tick |-> f.tick, command |-> f.command, phase_markers |-> <<>>, validation_summaries |-> <<>>]

\* A mutant of BeginTick: begin_tick replaces a record that is still pending.
BeginTickOverwrites(f) ==
  /\ pc = "idle"
  /\ f.tick = TickSucc(state.tick)
  /\ Len(records) < MaxRecords
  /\ pending' = Some(PendingRecord(f))
  /\ pc' = "validate"
  /\ UNCHANGED <<configuration, state, records, cursor, result, held, splices>>

\* A mutant of BeginTick: the new record is not stored.
BeginTickForgets(f) ==
  /\ pc = "idle"
  /\ f.tick = TickSucc(state.tick)
  /\ pending = None
  /\ Len(records) < MaxRecords
  /\ pc' = "validate"
  /\ UNCHANGED <<configuration, state, pending, records, cursor, result, held, splices>>

BeginTick(f) ==
  /\ pc = "idle"
  /\ f.tick = TickSucc(state.tick)
  /\ pending = None
  /\ Len(records) < MaxRecords
  /\ pending' = Some(PendingRecord(f))
  /\ pc' = "validate"
  /\ UNCHANGED <<configuration, state, records, cursor, result, held, splices>>

\* An error leaves tick() at once: nothing undoes what was done before it.
ReturnError(e) ==
  /\ result' = e
  /\ pc' = "idle"
  /\ cursor' = 1

\* A mutant of ValidateBeforeTick: a refused state is validated again.
ValidateUntilAccepted ==
  /\ pc = "validate"
  /\ IF Accepts("BeforeTickBegin", The(pending).tick, state)
     THEN pc' = "phases" /\ pending' = Some(WithSummaries(The(pending), {"BeforeTickBegin"}, state))
     ELSE UNCHANGED <<pc, pending>>
  /\ UNCHANGED <<configuration, state, records, cursor, result, held, splices>>

\* run_validation_checkpoint(BeforeTickBegin).
ValidateBeforeTick ==
  /\ pc = "validate"
  /\ LET due == Due({"BeforeTickBegin"})
         p   == The(pending)
     IN  \/ /\ \A c \in due : Accepts(c, p.tick, state)
            /\ pending' = Some(WithSummaries(p, due, state))
            /\ pc' = "phases"
            /\ UNCHANGED <<cursor, result>>
         \/ /\ \E c \in due : ~Accepts(c, p.tick, state)
            /\ ReturnError("InvariantViolation")
            /\ UNCHANGED pending
  /\ UNCHANGED <<configuration, state, records, held, splices>>

\* One round of the visitor of run_scheduler_phases: record the marker, run the
\* phase, and validate if a checkpoint follows it.
RunPhase ==
  /\ pc = "phases"
  /\ cursor <= Len(plan)
  /\ LET p == [The(pending) EXCEPT !.phase_markers = Append(@, plan[cursor])]
     IN  \E o \in Run(plan[cursor].name, p.tick, state, p.command) :
           LET s   == [state EXCEPT !.data = o.data]
               due == IF o.ok THEN Due(CheckpointAfter(plan, cursor)) ELSE {}
           IN  /\ state' = s
               /\ \/ /\ ~o.ok
                     /\ ReturnError("PhaseFailed")
                     /\ pending' = Some(p)
                  \/ /\ \E c \in due : ~Accepts(c, p.tick, s)
                     /\ ReturnError("InvariantViolation")
                     /\ pending' = Some(p)
                  \/ /\ o.ok
                     /\ \A c \in due : Accepts(c, p.tick, s)
                     /\ pending' = Some(WithSummaries(p, due, s))
                     /\ cursor' = cursor + 1
                     /\ UNCHANGED <<pc, result>>
  /\ UNCHANGED <<configuration, records, held, splices>>

\* A mutant of RecordOf: the checksum is taken before the tick is advanced.
RecordOfEarly(p, s) ==
  [tick |-> p.tick, command |-> p.command, phase_markers |-> p.phase_markers,
   validation_summaries |-> p.validation_summaries, checksum |-> state, snapshot |-> None]

\* The finished record of a tick that ends in state s.
RecordOf(p, s) ==
  [tick                 |-> p.tick,
   command              |-> p.command,
   phase_markers        |-> p.phase_markers,
   validation_summaries |-> p.validation_summaries,
   checksum             |-> s,
   snapshot             |-> IF ShouldCapture(snapshot_policy, p.tick) THEN Some(s) ELSE None]

\* The rest of tick(): advance the tick, checksum, snapshot policy, complete_tick.
CompleteTick ==
  /\ pc = "phases"
  /\ cursor > Len(plan)
  /\ LET p == The(pending)
         s == [state EXCEPT !.tick = p.tick]
     IN  state' = s /\ records' = Append(records, RecordOf(p, s))
  /\ pending' = None
  /\ pc' = "idle"
  /\ cursor' = 1
  /\ result' = "Ok"
  /\ UNCHANGED <<configuration, held, splices>>

-----------------------------------------------------------------------------
(***************************************************************************)
(* The other calls of the host, between two ticks.                         *)
(***************************************************************************)
ManualSnapshot ==
  /\ pc = "idle"
  /\ held' = Some(state)
  /\ UNCHANGED <<configuration, state, pending, records, pc, cursor, result, splices>>

\* The snapshots a host can pass to restore_snapshot: its own, those its engine
\* recorded, and those that came from elsewhere.
HostSnapshots ==
  Imported \cup {The(o) : o \in ({held} \cup {records[i].snapshot : i \in 1..Len(records)}) \ {None}}

\* A mutant of RestoreSnapshot: it also gives the pending record up.
RestoreSnapshotAborts(s) ==
  /\ pc = "idle"
  /\ Restorable(s)
  /\ state' = s
  /\ pending' = None
  /\ splices' = splices \cup {Len(records)}
  /\ UNCHANGED <<configuration, records, pc, cursor, result, held>>

\* restore_snapshot replaces the state and leaves the replay log as it is.
RestoreSnapshot(s) ==
  /\ pc = "idle"
  /\ Restorable(s)
  /\ state' = s
  /\ splices' = splices \cup {Len(records)}
  /\ UNCHANGED <<configuration, pending, records, pc, cursor, result, held>>

\* A domain's restore_snapshot panics on a snapshot it finds invalid.
RestorePanics(s) ==
  /\ pc = "idle"
  /\ ~Restorable(s)
  /\ pc' = "panicked"
  /\ UNCHANGED <<configuration, state, pending, records, cursor, result, held, splices>>

\* The host drops the engine and builds another one from the same configuration.
NewEngine ==
  /\ pc \in {"idle", "panicked"}
  /\ state' = [tick |-> 0, data |-> InitialData]
  /\ pending' = None
  /\ records' = <<>>
  /\ pc' = "idle"
  /\ cursor' = 1
  /\ result' = "None"
  /\ splices' = {}
  /\ UNCHANGED <<configuration, held>>

EngineStep == ValidateBeforeTick \/ RunPhase \/ CompleteTick

HostCall ==
  \/ \E f \in Frame : TickUnexpected(f) \/ TickWhilePending(f) \/ BeginTick(f)
  \/ ManualSnapshot
  \/ \E s \in HostSnapshots : RestoreSnapshot(s) \/ RestorePanics(s)
  \/ NewEngine

Next == EngineStep \/ HostCall

Spec == Init /\ [][Next]_vars

\* tick() is a plain call: once entered, it runs until it returns.
FairSpec == Spec /\ WF_vars(EngineStep)
-----------------------------------------------------------------------------
Option(S) == {o \in Seq(S) : Len(o) <= 1}

SummaryType ==
  [checkpoint : Checkpoints, state_tick : 0..MaxTick, state_digest : Data]

PendingType ==
  [tick : 0..MaxTick, command : Commands,
   phase_markers : Seq(Descriptor), validation_summaries : Seq(SummaryType)]

RecordType ==
  [tick : 0..MaxTick, command : Commands,
   phase_markers : Seq(Descriptor), validation_summaries : Seq(SummaryType),
   checksum : Snapshot, snapshot : Option(Snapshot)]

\* Every variable has its type, and a tick in progress has a pending record.
TypeOK ==
  /\ plan \in Plans
  /\ snapshot_policy \in SnapshotPolicies
  /\ validation_policy \in ValidationPolicies
  /\ state \in Snapshot
  /\ pending \in Option(PendingType)
  /\ records \in Seq(RecordType)
  /\ pc \in {"idle", "validate", "phases", "panicked"}
  /\ pc \in {"validate", "phases"} => pending # None
  /\ cursor \in 1..Len(plan) + 1
  /\ result \in {"None", "Ok", "UnexpectedInputTick", "ReplayLifecycle",
                 "PhaseFailed", "InvariantViolation"}
  /\ held \in Option(Snapshot)
  /\ splices \subseteq Nat

-----------------------------------------------------------------------------
\* The state after the n-th record, 0 standing for the engine as it was built.
Committed(n) ==
  IF n = 0 THEN [tick |-> 0, data |-> InitialData] ELSE records[n].checksum

\* A tick has failed: its record is pending and will never be completed.
Wedged == pending # None /\ pc \in {"idle", "panicked"}

\* What the record after the n-th may begin with: what the n-th has committed, or a
\* snapshot that was restored since, if it is one the domain does not refuse.
MayFollow(n, s) == s = Committed(n) \/ (n \in splices /\ Restorable(s))

\* The state of which a record, finished or pending, holds the digest it begins with.
BeganIn(r) ==
  [tick |-> r.validation_summaries[1].state_tick, data |-> r.validation_summaries[1].state_digest]

(***************************************************************************)
(* The replay log is a chain.  Each record begins with the digest that was *)
(* taken at BeforeTickBegin, and that is of the state the previous record  *)
(* ended with, or of one that was restored after it: nothing else changes  *)
(* the authoritative state between two ticks, and no failed tick leaves a  *)
(* hole.  The record is for the tick after that state, also across a       *)
(* restore; only at the end of the clock is a tick recorded under the      *)
(* number of the one before (engine/mod.rs:199, replay/mod.rs:119).        *)
(***************************************************************************)
RecordChain ==
  \A i \in 1..Len(records) :
    LET r == records[i]
    IN  /\ r.checksum.tick = r.tick
        /\ Len(r.validation_summaries) > 0
        /\ r.validation_summaries[1].checkpoint = "BeforeTickBegin"
        /\ MayFollow(i - 1, BeganIn(r))
        /\ \/ r.tick = BeganIn(r).tick + 1
           \/ r.tick = BeganIn(r).tick /\ r.tick = MaxTick

(***************************************************************************)
(* An engine that is waiting for its next tick is exactly in the state its *)
(* last record says, or in one the host restored since: a partly executed  *)
(* tick can only be seen in an engine that has failed.                     *)
(***************************************************************************)
IdleStateIsCommitted ==
  pc = "idle" /\ pending = None => MayFollow(Len(records), state)

(***************************************************************************)
(* What is committed was accepted: every digest of a record is of a state  *)
(* the validator accepted at that checkpoint, and if the plan has a        *)
(* Finalize phase the last digest is that of the committed state, so no    *)
(* phase touched the state after its last validation (engine/mod.rs:295).  *)
(***************************************************************************)
CommittedStateAccepted ==
  \A i \in 1..Len(records) :
    LET r  == records[i]
        vs == r.validation_summaries
    IN  /\ \A j \in 1..Len(vs) :
             Accepts(vs[j].checkpoint, r.tick, [tick |-> vs[j].state_tick, data |-> vs[j].state_digest])
        /\ (\E k \in 1..Len(plan) : plan[k].group = "Finalize") =>
             /\ vs[Len(vs)].checkpoint = "AfterFinalize"
             /\ vs[Len(vs)].state_digest = r.checksum.data

(***************************************************************************)
(* A failed tick is final.  complete_tick is the only thing that clears    *)
(* the pending record, and it is out of reach once tick() has returned an  *)
(* error: from then on the engine commits nothing, whatever the host calls *)
(* -- restore_snapshot included (engine/mod.rs:181, replay/mod.rs:120) --  *)
(* until it is replaced by a new one.                                      *)
(***************************************************************************)
FailureIsFinal ==
  [][Wedged => \/ Wedged' /\ UNCHANGED <<pending, records>> /\ result' # "Ok"
               \/ NewEngine]_vars

\* A call of tick() returns: no phase plan and no failure keeps it inside.
TickReturns == pc \in {"validate", "phases"} ~> pc = "idle"

Contract == INSTANCE EngineContract WITH
  clock  <- state.tick,
  log    <- [i \in 1..Len(records) |-> [tick |-> records[i].tick, command |-> records[i].command]],
  status <- IF Wedged THEN "failed" ELSE "open"

(***************************************************************************)
(* The engine keeps its contract: seen from outside, a call of tick() is   *)
(* one Commit, one Fail or nothing, and a failed engine stays failed until *)
(* it is replaced.                                                         *)
(***************************************************************************)
ImplementsContract == Contract!Spec
=============================================================================
