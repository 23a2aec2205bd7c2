--------------------- MODULE DeterministicEngine_proofs ---------------------
(***************************************************************************)
(* Proofs about DeterministicEngine, for every domain, scheduler plan and  *)
(* policy that satisfies the assumptions of that module.  What a domain    *)
(* has to show first is that its phases keep the state well typed; the     *)
(* theorems ask for PhasesKeepTypes, which is enough for it, and the       *)
(* lemmas that a domain with another argument needs ask for the types.     *)
(* The second half is about AtomicEngine: in every domain whose phases     *)
(* have one outcome, DeterministicEngine computes the function AtomicTick. *)
(***************************************************************************)
EXTENDS AtomicEngine, NaturalSets_proofs

-----------------------------------------------------------------------------
(***************************************************************************)
(* Options.                                                                *)
(***************************************************************************)
LEMMA NoneType ==
  ASSUME NEW S
  PROVE  None \in Option(S)
BY DEF None, Option

LEMMA SomeType ==
  ASSUME NEW S, NEW x \in S
  PROVE  Some(x) \in Option(S) /\ Some(x) # None /\ The(Some(x)) = x
BY DEF None, Some, The, Option

LEMMA TheType ==
  ASSUME NEW S, NEW o \in Option(S), o # None
  PROVE  The(o) \in S
<1>1. o \in Seq(S) /\ Len(o) <= 1 /\ o # <<>>
  BY DEF Option, None
<1>2. Len(o) = 1
  BY <1>1
<1> QED
  BY <1>1, <1>2 DEF The

LEMMA TickSuccType ==
  ASSUME NEW t \in 0..MaxTick
  PROVE  TickSucc(t) \in 0..MaxTick
BY TickAssumption DEF TickSucc

-----------------------------------------------------------------------------
(***************************************************************************)
(* Types.                                                                  *)
(***************************************************************************)
LEMMA PlanType ==
  ASSUME plan \in Plans
  PROVE  /\ Len(plan) \in Nat
         /\ \A i \in 1..Len(plan) : plan[i] \in Descriptor
BY PlansAssumption

LEMMA BeforeTickBeginIsDue ==
  /\ Due({"BeforeTickBegin"}) = {"BeforeTickBegin"}
  /\ (CHOOSE c \in {"BeforeTickBegin"} : TRUE) = "BeforeTickBegin"
BY DEF Due, ShouldValidate

LEMMA CheckpointAfterType ==
  ASSUME NEW p, NEW i
  PROVE  CheckpointAfter(p, i) \subseteq Checkpoints
BY DEF CheckpointAfter, Checkpoints

\* A record under way keeps its type when a summary is added to it.
LEMMA WithSummariesType ==
  ASSUME NEW p \in PendingType, NEW cs \in SUBSET Checkpoints, NEW s \in Snapshot
  PROVE  WithSummaries(p, cs, s) \in PendingType
<1>1. CASE cs = {}
  BY <1>1 DEF WithSummaries
<1>2. CASE cs # {}
  <2> DEFINE c == CHOOSE c \in cs : TRUE
  <2>1. c \in Checkpoints
    BY <1>2
  <2>2. Summary(c, s) \in SummaryType
    BY <2>1 DEF Summary, SummaryType, Snapshot
  <2>3. Append(p.validation_summaries, Summary(c, s)) \in Seq(SummaryType)
    BY <2>2 DEF PendingType
  <2> QED
    BY <1>2, <2>3 DEF WithSummaries, PendingType
<1> QED
  BY <1>1, <1>2

\* The snapshots the host can restore are snapshots.
LEMMA HostSnapshotsType ==
  ASSUME TypeOK
  PROVE  HostSnapshots \subseteq Snapshot
<1> SUFFICES ASSUME NEW s \in HostSnapshots
             PROVE  s \in Snapshot
  OBVIOUS
<1>1. CASE s \in Imported
  BY <1>1, ImportedAssumption
<1>2. CASE s \notin Imported
  <2>1. PICK o \in ({held} \cup {records[i].snapshot : i \in 1..Len(records)}) \ {None} :
          s = The(o)
    BY <1>2 DEF HostSnapshots
  <2>2. o \in Option(Snapshot)
    <3>1. \A i \in 1..Len(records) : records[i] \in RecordType
      BY DEF TypeOK
    <3> QED
      BY <2>1, <3>1 DEF TypeOK, RecordType
  <2> QED
    BY <2>1, <2>2, TheType
<1> QED
  BY <1>1, <1>2

LEMMA TypeInit == Init => TypeOK
<1> SUFFICES ASSUME Init
             PROVE  TypeOK
  OBVIOUS
<1>1. state \in Snapshot
  BY TickAssumption, DataAssumption DEF Init, Snapshot
<1>2. pending \in Option(PendingType) /\ held \in Option(Snapshot)
  BY NoneType DEF Init
<1>3. cursor \in 1..Len(plan) + 1
  BY PlanType DEF Init
<1> QED
  BY <1>1, <1>2, <1>3 DEF Init, TypeOK

\* The state is well typed and every phase keeps it so.
LEMMA PhaseType ==
  ASSUME PhasesKeepTypes, TypeOK, pc = "phases", cursor <= Len(plan),
         NEW o \in Run(plan[cursor].name, The(pending).tick, state, The(pending).command)
  PROVE  [state EXCEPT !.data = o.data] \in Snapshot
<1>1. The(pending) \in PendingType
  BY TheType DEF TypeOK
<1>2. plan[cursor] \in Descriptor
  BY PlanType DEF TypeOK
<1>3. o \in [ok : BOOLEAN, data : Data]
  BY <1>1, <1>2 DEF PhasesKeepTypes, TypeOK, PendingType, Descriptor
<1> QED
  BY <1>3 DEF TypeOK, Snapshot

\* The record under way gets the marker of the phase that runs.
LEMMA MarkedType ==
  ASSUME TypeOK, pc = "phases", cursor <= Len(plan)
  PROVE  [The(pending) EXCEPT !.phase_markers = Append(@, plan[cursor])] \in PendingType
<1>1. The(pending) \in PendingType
  BY TheType DEF TypeOK
<1>2. plan[cursor] \in Descriptor
  BY PlanType DEF TypeOK
<1>3. Append(The(pending).phase_markers, plan[cursor]) \in Seq(Descriptor)
  BY <1>1, <1>2 DEF PendingType
<1> QED
  BY <1>1, <1>3 DEF PendingType

\* Every step keeps the types, if a phase keeps that of the state.
LEMMA TypeNext ==
  ASSUME TypeOK, [Next]_vars, RunPhase => state' \in Snapshot
  PROVE  TypeOK'
<1>1. ASSUME NEW f \in Frame, TickUnexpected(f)
      PROVE  TypeOK'
  BY <1>1 DEF TickUnexpected, TypeOK, configuration
<1>2. ASSUME NEW f \in Frame, TickWhilePending(f)
      PROVE  TypeOK'
  BY <1>2 DEF TickWhilePending, TypeOK, configuration
<1>3. ASSUME NEW f \in Frame, BeginTick(f)
      PROVE  TypeOK'
  <2>1. PendingRecord(f) \in PendingType
    BY DEF Frame, PendingType, PendingRecord
  <2>2. pending' \in Option(PendingType) /\ pending' # None
    BY <1>3, <2>1, SomeType DEF BeginTick
  <2> QED
    BY <1>3, <2>2 DEF BeginTick, TypeOK, configuration
<1>4. ASSUME ValidateBeforeTick
      PROVE  TypeOK'
  <2>1. The(pending) \in PendingType
    BY <1>4, TheType DEF ValidateBeforeTick, TypeOK
  <2>2. Due({"BeforeTickBegin"}) \in SUBSET Checkpoints
    BY DEF Due, Checkpoints
  <2>3. WithSummaries(The(pending), Due({"BeforeTickBegin"}), state) \in PendingType
    BY <2>1, <2>2, WithSummariesType DEF TypeOK
  <2>4. pending' \in Option(PendingType) /\ pending' # None
    BY <1>4, <2>3, SomeType DEF ValidateBeforeTick, TypeOK
  <2>5. Len(plan) \in Nat
    BY PlanType DEF TypeOK
  <2> QED
    BY <1>4, <2>4, <2>5 DEF ValidateBeforeTick, ReturnError, TypeOK, configuration
<1>5. ASSUME RunPhase
      PROVE  TypeOK'
  <2> DEFINE p == [The(pending) EXCEPT !.phase_markers = Append(@, plan[cursor])]
  <2>1. PICK o \in Run(plan[cursor].name, p.tick, state, p.command) : 
          LET s   == [state EXCEPT !.data = o.data]
              due == IF o.ok THEN Due(CheckpointAfter(plan, cursor)) ELSE {}
          IN  /\ state' = s
              /\ \/ /\ ~o.ok
                    /\ ReturnError("PhaseFailed")
                    /\ pending' = Some(p)
                 \/ /\ \E c \in due : ~Accepts(c, p.tick, s)
                    /\ ReturnError("InvariantViolation")
                    /\ pending' = Some(p)
                 \/ /\ o.ok
                    /\ \A c \in due : Accepts(c, p.tick, s)
                    /\ pending' = Some(WithSummaries(p, due, s))
                    /\ cursor' = cursor + 1
                    /\ UNCHANGED <<pc, result>>
    BY <1>5 DEF RunPhase
  <2> DEFINE s   == [state EXCEPT !.data = o.data]
             due == IF o.ok THEN Due(CheckpointAfter(plan, cursor)) ELSE {}
  <2>2. s \in Snapshot
    BY <1>5, <2>1
  <2>3. p \in PendingType
    BY <1>5, MarkedType DEF RunPhase
  <2>4. s \in Snapshot /\ p \in PendingType
    BY <2>2, <2>3
  <2>5. due \in SUBSET Checkpoints
    BY CheckpointAfterType DEF Due
  <2>6. WithSummaries(p, due, s) \in PendingType
    BY <2>4, <2>5, WithSummariesType
  <2>7. Some(p) \in Option(PendingType) /\ Some(p) # None
    BY <2>4, SomeType
  <2>8. Some(WithSummaries(p, due, s)) \in Option(PendingType) /\ Some(WithSummaries(p, due, s)) # None
    BY <2>6, SomeType
  <2>9. pending' \in Option(PendingType) /\ pending' # None
    BY <2>1, <2>7, <2>8
  <2>10. state' \in Snapshot
    BY <2>1, <2>4
  <2>11. Len(plan) \in Nat
    BY PlanType DEF TypeOK
  <2>12. cursor' \in 1..Len(plan) + 1
    BY <1>5, <2>1, <2>11 DEF RunPhase, ReturnError, TypeOK
  <2>13. pc' \in {"idle", "phases"}
    BY <1>5, <2>1 DEF RunPhase, ReturnError
  <2>14. result' \in {"PhaseFailed", "InvariantViolation"} \/ result' = result
    BY <2>1 DEF ReturnError
  <2> QED
    BY <1>5, <2>9, <2>10, <2>12, <2>13, <2>14 DEF RunPhase, TypeOK, configuration
<1>6. ASSUME CompleteTick
      PROVE  TypeOK'
  <2> DEFINE p == The(pending)
             s == [state EXCEPT !.tick = p.tick]
             r == RecordOf(p, s)
  <2>1. p \in PendingType
    BY <1>6, TheType DEF CompleteTick, TypeOK
  <2>2. s \in Snapshot
    BY <2>1 DEF TypeOK, Snapshot, PendingType
  <2>3. (IF ShouldCapture(snapshot_policy, p.tick) THEN Some(s) ELSE None) \in Option(Snapshot)
    BY <2>2, SomeType, NoneType
  <2>4. r \in RecordType
    BY <2>1, <2>2, <2>3 DEF RecordOf, RecordType, PendingType
  <2>5. state' = s /\ records' = Append(records, r)
    BY <1>6 DEF CompleteTick
  <2>6. records' \in Seq(RecordType)
    BY <2>4, <2>5 DEF TypeOK
  <2>7. cursor' \in 1..Len(plan) + 1
    BY <1>6, PlanType DEF CompleteTick, TypeOK
  <2>8. pending' \in Option(PendingType)
    BY <1>6, NoneType DEF CompleteTick
  <2> QED
    BY <1>6, <2>2, <2>5, <2>6, <2>7, <2>8 DEF CompleteTick, TypeOK, configuration
<1>7. ASSUME ManualSnapshot
      PROVE  TypeOK'
  <2>1. held' \in Option(Snapshot)
    BY <1>7, SomeType DEF ManualSnapshot, TypeOK
  <2> QED
    BY <1>7, <2>1 DEF ManualSnapshot, TypeOK, configuration
<1>8. ASSUME NEW s \in HostSnapshots, RestoreSnapshot(s)
      PROVE  TypeOK'
  <2>1. s \in Snapshot
    BY HostSnapshotsType
  <2>2. Len(records) \in Nat
    BY DEF TypeOK
  <2> QED
    BY <1>8, <2>1, <2>2 DEF RestoreSnapshot, TypeOK, configuration
<1>9. ASSUME NEW s \in HostSnapshots, RestorePanics(s)
      PROVE  TypeOK'
  BY <1>9 DEF RestorePanics, TypeOK, configuration
<1>10. ASSUME NewEngine
       PROVE  TypeOK'
  <2>1. state' \in Snapshot
    BY <1>10, TickAssumption, DataAssumption DEF NewEngine, Snapshot
  <2>2. cursor' \in 1..Len(plan) + 1
    BY <1>10, PlanType DEF NewEngine, TypeOK
  <2>3. pending' \in Option(PendingType)
    BY <1>10, NoneType DEF NewEngine
  <2> QED
    BY <1>10, <2>1, <2>2, <2>3 DEF NewEngine, TypeOK, configuration
<1>11. CASE UNCHANGED vars
  BY <1>11 DEF vars, TypeOK
<1> QED
  BY <1>1, <1>2, <1>3, <1>4, <1>5, <1>6, <1>7, <1>8, <1>9, <1>10, <1>11
     DEF Next, EngineStep, HostCall

(***************************************************************************)
(* Every variable keeps its type, whatever the domain's phases compute     *)
(* within its data, and a tick in progress always has the pending record   *)
(* that the phases append to.                                              *)
(***************************************************************************)
THEOREM TypeCorrect == ASSUME PhasesKeepTypes PROVE Spec => []TypeOK
<1>1. ASSUME TypeOK, RunPhase
      PROVE  state' \in Snapshot
  <2> DEFINE p == [The(pending) EXCEPT !.phase_markers = Append(@, plan[cursor])]
  <2>1. PICK o \in Run(plan[cursor].name, p.tick, state, p.command) :
          state' = [state EXCEPT !.data = o.data]
    BY <1>1 DEF RunPhase
  <2>2. The(pending) \in PendingType /\ pc = "phases" /\ cursor <= Len(plan)
    BY <1>1, TheType DEF RunPhase, TypeOK
  <2>3. p.tick = The(pending).tick /\ p.command = The(pending).command
    BY <2>2 DEF PendingType
  <2> QED
    BY <1>1, <2>1, <2>2, <2>3, PhaseType
<1>2. TypeOK /\ [Next]_vars => TypeOK'
  BY <1>1, TypeNext
<1> QED
  BY <1>2, TypeInit, PTL DEF Spec

-----------------------------------------------------------------------------
(***************************************************************************)
(* The inductive invariant.  RecordChain and CommittedStateAccepted speak  *)
(* of finished records only; what makes a record right is known while its  *)
(* tick is still running, in the pending record and in the state.          *)
(***************************************************************************)
\* A record under way is for the tick after that of the state, and it was opened with
\* the digest of one that may follow the last record.
TickInProgress ==
  pc \in {"validate", "phases"} =>
    /\ The(pending).tick = TickSucc(state.tick)
    /\ pc = "validate" =>
         /\ The(pending).validation_summaries = <<>>
         /\ MayFollow(Len(records), state)
    /\ pc = "phases" =>
         /\ Len(The(pending).validation_summaries) > 0
         /\ The(pending).validation_summaries[1].checkpoint = "BeforeTickBegin"
         /\ BeganIn(The(pending)).tick = state.tick
         /\ MayFollow(Len(records), BeganIn(The(pending)))

\* Its summaries so far are of accepted states, and the last is of the present
\* state if a Finalize phase ran last.
SummariesAccepted ==
  pc = "phases" =>
    LET p  == The(pending)
        vs == p.validation_summaries
    IN  /\ \A j \in 1..Len(vs) :
             Accepts(vs[j].checkpoint, p.tick, [tick |-> vs[j].state_tick, data |-> vs[j].state_digest])
        /\ cursor > 1 /\ plan[cursor - 1].group = "Finalize" =>
             /\ vs[Len(vs)].checkpoint = "AfterFinalize"
             /\ vs[Len(vs)].state_digest = state.data

\* Outside the phases the cursor is back at the start; a failed engine has said so.
AtRest ==
  /\ pc # "phases" => cursor = 1
  /\ Wedged => result \notin {"None", "Ok"}

IInv ==
  /\ TypeOK
  /\ RecordChain
  /\ IdleStateIsCommitted
  /\ CommittedStateAccepted
  /\ TickInProgress
  /\ SummariesAccepted
  /\ AtRest

LEMMA InvInit == Init => IInv
<1> SUFFICES ASSUME Init
             PROVE  IInv
  OBVIOUS
<1>1. records = <<>> /\ Len(records) = 0
  BY DEF Init
<1>2. RecordChain /\ CommittedStateAccepted
  BY <1>1 DEF RecordChain, CommittedStateAccepted
<1>3. IdleStateIsCommitted
  BY <1>1 DEF IdleStateIsCommitted, MayFollow, Committed, Init
<1>4. TickInProgress /\ SummariesAccepted
  BY DEF TickInProgress, SummariesAccepted, Init
<1>5. AtRest
  BY DEF AtRest, Wedged, Init
<1> QED
  BY TypeInit, <1>2, <1>3, <1>4, <1>5 DEF IInv

\* Steps that only add a splice leave what the finished records say as it is.
LEMMA LogUntouched ==
  ASSUME RecordChain, CommittedStateAccepted,
         UNCHANGED <<plan, records>>, splices \subseteq splices'
  PROVE  RecordChain' /\ CommittedStateAccepted'
<1>1. \A n : Committed(n)' = Committed(n)
  BY DEF Committed
<1>2. ASSUME NEW i \in 1..Len(records)
      PROVE  MayFollow(i - 1, BeganIn(records[i]))'
  BY <1>1 DEF RecordChain, MayFollow, BeganIn
<1>3. RecordChain'
  BY <1>2 DEF RecordChain, BeganIn
<1>4. CommittedStateAccepted'
  BY DEF CommittedStateAccepted
<1> QED
  BY <1>3, <1>4

\* Steps between two calls that leave the engine alone.
LEMMA EngineUntouched ==
  ASSUME IInv, UNCHANGED <<plan, state, pending, records, pc, cursor, splices>>
  PROVE  /\ RecordChain' /\ CommittedStateAccepted'
         /\ IdleStateIsCommitted' /\ TickInProgress' /\ SummariesAccepted'
         /\ Wedged' = Wedged
<1>1. RecordChain' /\ CommittedStateAccepted'
  BY LogUntouched DEF IInv
<1>2. \A n : Committed(n)' = Committed(n)
  BY DEF Committed
<1>3. IdleStateIsCommitted'
  BY <1>2 DEF IInv, IdleStateIsCommitted, MayFollow
<1>4. TickInProgress'
  BY <1>2 DEF IInv, TickInProgress, MayFollow, BeganIn
<1>5. SummariesAccepted'
  BY DEF IInv, SummariesAccepted
<1>6. Wedged' = Wedged
  BY DEF Wedged
<1> QED
  BY <1>1, <1>3, <1>4, <1>5, <1>6

\* The record that BeginTick opens is for the tick after that of the state.
LEMMA InvBeginTick ==
  ASSUME IInv, NEW f \in Frame, BeginTick(f)
  PROVE  RecordChain' /\ CommittedStateAccepted' /\ IdleStateIsCommitted'
           /\ TickInProgress' /\ SummariesAccepted' /\ AtRest'
<1>1. RecordChain' /\ CommittedStateAccepted'
  BY LogUntouched DEF IInv, BeginTick, configuration
<1>2. \A n : Committed(n)' = Committed(n)
  BY DEF Committed, BeginTick
<1>3. pc' = "validate"
  BY DEF BeginTick
<1>4. /\ The(pending').tick = TickSucc(state.tick)
      /\ The(pending').validation_summaries = <<>>
  BY DEF BeginTick, PendingRecord, The, Some
<1>5. MayFollow(Len(records), state)
  BY DEF IInv, IdleStateIsCommitted, BeginTick
<1>6. TickInProgress'
  BY <1>2, <1>3, <1>4, <1>5 DEF TickInProgress, MayFollow, BeginTick
<1>7. AtRest'
  BY <1>3 DEF IInv, AtRest, Wedged, BeginTick
<1> QED
  BY <1>1, <1>3, <1>6, <1>7 DEF IdleStateIsCommitted, SummariesAccepted

LEMMA InvValidateBeforeTick ==
  ASSUME IInv, ValidateBeforeTick
  PROVE  RecordChain' /\ CommittedStateAccepted' /\ IdleStateIsCommitted'
           /\ TickInProgress' /\ SummariesAccepted' /\ AtRest'
<1> DEFINE p == The(pending)
<1>1. RecordChain' /\ CommittedStateAccepted'
  BY LogUntouched DEF IInv, ValidateBeforeTick, configuration
<1>2. \A n : Committed(n)' = Committed(n)
  BY DEF Committed, ValidateBeforeTick
<1>3. pending # None /\ p \in PendingType /\ p.validation_summaries = <<>>
  BY TheType DEF IInv, TypeOK, TickInProgress, ValidateBeforeTick
<1>4. CASE pc' = "idle"
  <2>1. pending' = pending /\ result' = "InvariantViolation"
    BY <1>4 DEF ValidateBeforeTick, ReturnError
  <2>2. IdleStateIsCommitted' /\ TickInProgress' /\ SummariesAccepted'
    BY <1>3, <1>4, <2>1 DEF IdleStateIsCommitted, TickInProgress, SummariesAccepted
  <2>3. cursor' = 1
    BY <1>4 DEF IInv, AtRest, ValidateBeforeTick, ReturnError
  <2> QED
    BY <1>1, <2>1, <2>2, <2>3 DEF AtRest
<1>5. CASE pc' # "idle"
  <2>1. /\ Accepts("BeforeTickBegin", p.tick, state)
        /\ pending' = Some(WithSummaries(p, {"BeforeTickBegin"}, state))
        /\ pc' = "phases"
        /\ cursor' = cursor
    BY <1>5, BeforeTickBeginIsDue DEF ValidateBeforeTick, ReturnError
  <2> DEFINE sum == Summary("BeforeTickBegin", state)
             q   == [p EXCEPT !.validation_summaries = <<sum>>]
  <2>2. WithSummaries(p, {"BeforeTickBegin"}, state) = q
    BY <1>3, BeforeTickBeginIsDue DEF WithSummaries
  <2>3. The(pending') = q
    BY <2>1, <2>2 DEF The, Some
  <2>4. q.tick = p.tick /\ q.validation_summaries = <<sum>>
    BY <1>3 DEF PendingType
  <2>5. IdleStateIsCommitted' /\ AtRest'
    BY <2>1 DEF IdleStateIsCommitted, AtRest, Wedged
  <2>6. TickInProgress'
    <3>1. p.tick = TickSucc(state.tick) /\ MayFollow(Len(records), state)
      BY DEF TickInProgress, IInv, ValidateBeforeTick
    <3>2. UNCHANGED <<state, records, splices>>
      BY DEF ValidateBeforeTick
    <3>3. The(pending').validation_summaries = <<sum>> /\ The(pending').tick = p.tick
      BY <2>3, <2>4
    <3> HIDE DEF sum, q, p
    <3>4. Len(The(pending').validation_summaries) > 0 /\ The(pending').validation_summaries[1] = sum
      BY <3>3
    <3>5. BeganIn(The(pending')) = state
      BY <3>4 DEF BeganIn, sum, Summary, IInv, TypeOK, Snapshot
    <3>6. MayFollow(Len(records), BeganIn(The(pending)))'
      BY <1>2, <3>1, <3>2, <3>5 DEF MayFollow, BeganIn
    <3> QED
      BY <2>1, <3>1, <3>2, <3>3, <3>4, <3>5, <3>6 DEF TickInProgress, BeganIn, sum, Summary
  <2>7. SummariesAccepted'
    <3>1. cursor' = 1
      BY <2>1 DEF IInv, AtRest, ValidateBeforeTick
    <3>2. sum.checkpoint = "BeforeTickBegin" /\ [tick |-> sum.state_tick, data |-> sum.state_digest] = state
      BY DEF IInv, TypeOK, Snapshot, Summary
    <3>3. The(pending').validation_summaries = <<sum>> /\ The(pending').tick = p.tick
      BY <2>3, <2>4
    <3> HIDE DEF sum, q
    <3>4. \A j \in 1..Len(The(pending').validation_summaries) :
            The(pending').validation_summaries[j] = sum
      BY <3>3
    <3> QED
      BY <2>1, <3>1, <3>2, <3>3, <3>4 DEF SummariesAccepted
  <2> QED
    BY <1>1, <2>5, <2>6, <2>7
<1> QED
  BY <1>4, <1>5

\* What WithSummaries adds to a record.
LEMMA WithSummariesAdds ==
  ASSUME NEW p \in PendingType, NEW cs, NEW s
  PROVE  LET q == WithSummaries(p, cs, s)
         IN  /\ q.tick = p.tick
             /\ cs = {} => q.validation_summaries = p.validation_summaries
             /\ cs # {} => \E c \in cs :
                  q.validation_summaries = Append(p.validation_summaries, Summary(c, s))
<1>1. CASE cs = {}
  BY <1>1 DEF WithSummaries
<1>2. CASE cs # {}
  <2> DEFINE c == CHOOSE c \in cs : TRUE
  <2>1. c \in cs
    BY <1>2
  <2>2. WithSummaries(p, cs, s).validation_summaries = Append(p.validation_summaries, Summary(c, s))
    BY <1>2 DEF WithSummaries, PendingType
  <2>3. WithSummaries(p, cs, s).tick = p.tick
    BY <1>2 DEF WithSummaries, PendingType
  <2> QED
    BY <1>2, <2>1, <2>2, <2>3
<1> QED
  BY <1>1, <1>2

\* A phase of the Finalize group is always followed by a validation.
LEMMA FinalizeIsDue ==
  ASSUME NEW i, plan[i].group = "Finalize"
  PROVE  Due(CheckpointAfter(plan, i)) = {"AfterFinalize"}
<1>1. CheckpointAfter(plan, i) = {"AfterFinalize"}
  BY DEF CheckpointAfter
<1> QED
  BY <1>1 DEF Due, ShouldValidate

LEMMA InvRunPhase ==
  ASSUME IInv, RunPhase, state' \in Snapshot
  PROVE  RecordChain' /\ CommittedStateAccepted' /\ IdleStateIsCommitted'
           /\ TickInProgress' /\ SummariesAccepted' /\ AtRest'
<1> DEFINE p == [The(pending) EXCEPT !.phase_markers = Append(@, plan[cursor])]
<1>1. PICK o \in Run(plan[cursor].name, p.tick, state, p.command) :
        LET s   == [state EXCEPT !.data = o.data]
            due == IF o.ok THEN Due(CheckpointAfter(plan, cursor)) ELSE {}
        IN  /\ state' = s
            /\ \/ /\ ~o.ok
                  /\ ReturnError("PhaseFailed")
                  /\ pending' = Some(p)
               \/ /\ \E c \in due : ~Accepts(c, p.tick, s)
                  /\ ReturnError("InvariantViolation")
                  /\ pending' = Some(p)
               \/ /\ o.ok
                  /\ \A c \in due : Accepts(c, p.tick, s)
                  /\ pending' = Some(WithSummaries(p, due, s))
                  /\ cursor' = cursor + 1
                  /\ UNCHANGED <<pc, result>>
  BY DEF RunPhase
<1> DEFINE s   == [state EXCEPT !.data = o.data]
           due == IF o.ok THEN Due(CheckpointAfter(plan, cursor)) ELSE {}
<1>2. RecordChain' /\ CommittedStateAccepted'
  BY LogUntouched DEF IInv, RunPhase, configuration
<1>3. \A n : Committed(n)' = Committed(n)
  BY DEF Committed, RunPhase
<1>4. /\ pc = "phases" /\ pending # None /\ The(pending) \in PendingType
      /\ cursor \in Nat /\ cursor >= 1
  BY TheType, PlanType DEF IInv, TypeOK, RunPhase
<1>5. /\ p.tick = The(pending).tick /\ p.command = The(pending).command
      /\ p.validation_summaries = The(pending).validation_summaries
  BY <1>4 DEF PendingType
<1>6. s \in Snapshot /\ p \in PendingType
  BY <1>1, MarkedType DEF IInv, RunPhase
<1>7. s.tick = state.tick /\ state' = s
  BY <1>1 DEF IInv, TypeOK, Snapshot
<1>8. CASE pc' = "idle"
  <2>1. pending' = Some(p) /\ result' \in {"PhaseFailed", "InvariantViolation"} /\ cursor' = 1
    BY <1>1, <1>4, <1>8 DEF ReturnError
  <2>2. pending' # None
    BY <2>1 DEF Some, None
  <2> QED
    BY <1>2, <1>8, <2>1, <2>2
       DEF IdleStateIsCommitted, TickInProgress, SummariesAccepted, AtRest
<1>9. CASE pc' # "idle"
  <2> DEFINE q == WithSummaries(p, due, s)
  <2>1. /\ o.ok
        /\ \A c \in due : Accepts(c, p.tick, s)
        /\ pending' = Some(q)
        /\ cursor' = cursor + 1
        /\ pc' = pc
    BY <1>1, <1>9 DEF ReturnError
  <2>2. The(pending') = q
    BY <2>1 DEF The, Some
  <2>3. due = Due(CheckpointAfter(plan, cursor))
    BY <2>1
  <2>4. UNCHANGED <<plan, records, splices>>
    BY DEF RunPhase, configuration
  <2> DEFINE vs == p.validation_summaries
             ws == q.validation_summaries
  <2> HIDE DEF p, s, due
  <2>5. /\ q.tick = p.tick
        /\ due = {} => ws = vs
        /\ due # {} => \E c \in due : ws = Append(vs, Summary(c, s))
    BY <1>6, WithSummariesAdds
  <2>6. vs \in Seq(SummaryType) /\ Len(vs) > 0
    BY <1>4, <1>5 DEF PendingType, IInv, TickInProgress
  <2> HIDE DEF q, vs, ws
  <2>7. Len(ws) > 0 /\ ws[1] = vs[1]
    BY <2>5, <2>6
  <2>8. IdleStateIsCommitted' /\ AtRest'
    BY <1>4, <2>1 DEF IdleStateIsCommitted, AtRest, Wedged
  <2>9. TickInProgress'
    <3>1. /\ p.tick = TickSucc(state.tick)
          /\ vs[1].checkpoint = "BeforeTickBegin"
          /\ BeganIn(The(pending)).tick = state.tick
          /\ MayFollow(Len(records), BeganIn(The(pending)))
      BY <1>4, <1>5 DEF IInv, TickInProgress, vs
    <3>2. BeganIn(The(pending')) = BeganIn(The(pending))
      BY <1>5, <2>2, <2>7 DEF BeganIn, vs, ws
    <3>3. MayFollow(Len(records), BeganIn(The(pending)))'
      BY <1>3, <2>4, <3>1, <3>2 DEF MayFollow, BeganIn
    <3> QED
      BY <1>4, <1>7, <2>1, <2>2, <2>4, <2>5, <2>6, <2>7, <3>1, <3>2, <3>3 DEF TickInProgress, BeganIn, ws
  <2>10. SummariesAccepted'
    <3>1. \A j \in 1..Len(vs) :
            Accepts(vs[j].checkpoint, p.tick, [tick |-> vs[j].state_tick, data |-> vs[j].state_digest])
      BY <1>4, <1>5 DEF IInv, SummariesAccepted, vs
    <3>2. ASSUME NEW j \in 1..Len(ws)
          PROVE  Accepts(ws[j].checkpoint, p.tick,
                         [tick |-> ws[j].state_tick, data |-> ws[j].state_digest])
      <4>1. CASE due = {}
        BY <2>5, <3>1, <4>1
      <4>2. CASE due # {}
        <5>1. PICK c \in due : ws = Append(vs, Summary(c, s))
          BY <2>5, <4>2
        <5>2. CASE j = Len(vs) + 1
          <6>1. ws[j] = Summary(c, s)
            BY <2>6, <5>1, <5>2
          <6>2. [tick |-> ws[j].state_tick, data |-> ws[j].state_digest] = s
            BY <1>6, <6>1 DEF Summary, Snapshot
          <6> QED
            BY <2>1, <6>1, <6>2 DEF Summary
        <5>3. CASE j # Len(vs) + 1
          <6>1. j \in 1..Len(vs) /\ ws[j] = vs[j]
            BY <2>6, <5>1, <5>3
          <6> QED
            BY <3>1, <6>1
        <5> QED
          BY <5>2, <5>3
      <4> QED
        BY <4>1, <4>2
    <3>3. ASSUME plan[cursor].group = "Finalize"
          PROVE  ws[Len(ws)].checkpoint = "AfterFinalize" /\ ws[Len(ws)].state_digest = s.data
      <4>1. due = {"AfterFinalize"}
        BY <2>3, <3>3, FinalizeIsDue
      <4>2. ws = Append(vs, Summary("AfterFinalize", s))
        BY <2>5, <4>1
      <4>3. ws[Len(ws)] = Summary("AfterFinalize", s)
        BY <2>6, <4>2
      <4> QED
        BY <4>3 DEF Summary
    <3>4. cursor' - 1 = cursor
      BY <1>4, <2>1
    <3> QED
      BY <1>4, <1>7, <2>1, <2>2, <2>4, <2>5, <3>2, <3>3, <3>4 DEF SummariesAccepted, ws
  <2> QED
    BY <1>2, <2>8, <2>9, <2>10
<1> QED
  BY <1>8, <1>9

LEMMA InvCompleteTick ==
  ASSUME IInv, CompleteTick
  PROVE  RecordChain' /\ CommittedStateAccepted' /\ IdleStateIsCommitted'
           /\ TickInProgress' /\ SummariesAccepted' /\ AtRest'
<1> DEFINE p == The(pending)
           s == [state EXCEPT !.tick = p.tick]
           r == RecordOf(p, s)
           n == Len(records)
           vs == p.validation_summaries
<1>1. /\ state' = s /\ records' = Append(records, r) /\ pending' = None
      /\ pc' = "idle" /\ cursor' = 1 /\ result' = "Ok" /\ pc = "phases" /\ cursor > Len(plan)
      /\ UNCHANGED <<plan, splices>>
  BY DEF CompleteTick, configuration
<1>2. pending # None /\ p \in PendingType
  BY <1>1, TheType DEF IInv, TypeOK
<1>3. s \in Snapshot /\ s.tick = p.tick /\ s.data = state.data
  BY <1>2 DEF IInv, TypeOK, Snapshot, PendingType
<1>4. records \in Seq(RecordType) /\ n \in Nat
  BY DEF IInv, TypeOK
<1>5. r.tick = p.tick /\ r.checksum = s /\ r.validation_summaries = vs
  BY DEF RecordOf
<1> HIDE DEF s, r, vs
<1>6. Len(records') = n + 1 /\ records'[n + 1] = r /\ \A i \in 1..n : records'[i] = records[i]
  BY <1>1, <1>4
<1>7. Committed(Len(records))' = s
  BY <1>4, <1>5, <1>6 DEF Committed
<1>8. \A i \in 0..n : Committed(i)' = Committed(i)
  BY <1>4, <1>6 DEF Committed
<1>9. RecordChain'
  <2> DEFINE Follows(k, x) ==
        /\ x.checksum.tick = x.tick
        /\ Len(x.validation_summaries) > 0
        /\ x.validation_summaries[1].checkpoint = "BeforeTickBegin"
        /\ MayFollow(k, BeganIn(x))
        /\ x.tick = BeganIn(x).tick + 1 \/ (x.tick = BeganIn(x).tick /\ x.tick = MaxTick)
  <2>1. BeganIn(r) = BeganIn(p)
    BY <1>5 DEF BeganIn, vs
  <2>2. /\ p.tick = TickSucc(state.tick) /\ state.tick \in 0..MaxTick
        /\ Len(vs) > 0 /\ vs[1].checkpoint = "BeforeTickBegin"
        /\ BeganIn(p).tick = state.tick
        /\ MayFollow(n, BeganIn(p))
    BY <1>1 DEF IInv, TypeOK, Snapshot, TickInProgress, vs
  <2>3. Follows(n, r)
    BY <1>3, <1>5, <2>1, <2>2, TickAssumption DEF TickSucc
  <2>4. \A i \in 1..n : Follows(i - 1, records[i])
    BY DEF IInv, RecordChain
  <2> HIDE DEF Follows
  <2>5. ASSUME NEW i \in 1..n + 1
        PROVE  Follows(i - 1, records'[i])
    <3>1. CASE i = n + 1
      <4>1. i - 1 = n /\ records'[i] = r
        BY <1>4, <1>6, <3>1
      <4> QED
        BY <2>3, <4>1
    <3>2. CASE i # n + 1
      <4>1. i \in 1..n /\ records'[i] = records[i]
        BY <1>4, <1>6, <3>2
      <4> QED
        BY <2>4, <4>1
    <3> QED
      BY <3>1, <3>2
  <2> USE DEF Follows
  <2>6. ASSUME NEW i \in 1..n + 1
        PROVE  MayFollow(i - 1, BeganIn(records[i]))'
    <3>1. i - 1 \in 0..n /\ Committed(i - 1)' = Committed(i - 1)
      BY <1>4, <1>8
    <3>2. MayFollow(i - 1, BeganIn(records'[i]))
      BY <2>5
    <3> QED
      BY <1>1, <3>1, <3>2 DEF MayFollow, BeganIn
  <2> QED
    BY <1>6, <2>5, <2>6 DEF RecordChain, BeganIn
<1>10. CommittedStateAccepted'
  <2> DEFINE AcceptedRecord(x) ==
        LET xs == x.validation_summaries
        IN  /\ \A j \in 1..Len(xs) :
                 Accepts(xs[j].checkpoint, x.tick, [tick |-> xs[j].state_tick, data |-> xs[j].state_digest])
            /\ (\E k \in 1..Len(plan) : plan[k].group = "Finalize") =>
                 /\ xs[Len(xs)].checkpoint = "AfterFinalize"
                 /\ xs[Len(xs)].state_digest = x.checksum.data
  <2>1. \A i \in 1..n : AcceptedRecord(records[i])
    BY DEF IInv, CommittedStateAccepted
  <2>2. /\ \A j \in 1..Len(vs) :
              Accepts(vs[j].checkpoint, p.tick, [tick |-> vs[j].state_tick, data |-> vs[j].state_digest])
        /\ cursor > 1 /\ plan[cursor - 1].group = "Finalize" =>
             /\ vs[Len(vs)].checkpoint = "AfterFinalize"
             /\ vs[Len(vs)].state_digest = state.data
    BY <1>1 DEF IInv, SummariesAccepted, vs
  <2>3. ASSUME NEW k \in 1..Len(plan), plan[k].group = "Finalize"
        PROVE  cursor > 1 /\ plan[cursor - 1].group = "Finalize"
    <3>1. Len(plan) \in Nat /\ cursor = Len(plan) + 1 /\ Len(plan) > 0
      BY <1>1, PlanType DEF IInv, TypeOK
    <3>2. plan[Len(plan)].group = "Finalize"
      BY <2>3, FinalizeLastAssumption DEF IInv, TypeOK
    <3> QED
      BY <3>1, <3>2
  <2>4. AcceptedRecord(r)
    BY <1>3, <1>5, <2>2, <2>3
  <2> HIDE DEF AcceptedRecord
  <2>5. \A i \in 1..n + 1 : AcceptedRecord(records'[i])
    BY <1>4, <1>6, <2>1, <2>4
  <2> USE DEF AcceptedRecord
  <2> QED
    BY <1>1, <1>6, <2>5 DEF CommittedStateAccepted
<1>11. IdleStateIsCommitted'
  BY <1>1, <1>7 DEF IdleStateIsCommitted, MayFollow
<1>12. TickInProgress' /\ SummariesAccepted' /\ AtRest'
  BY <1>1 DEF TickInProgress, SummariesAccepted, AtRest, Wedged
<1> QED
  BY <1>9, <1>10, <1>11, <1>12

LEMMA InvNewEngine ==
  ASSUME IInv, NewEngine
  PROVE  RecordChain' /\ CommittedStateAccepted' /\ IdleStateIsCommitted'
           /\ TickInProgress' /\ SummariesAccepted' /\ AtRest'
<1>1. records' = <<>> /\ Len(records') = 0 /\ pc' = "idle" /\ pending' = None
      /\ cursor' = 1 /\ state' = [tick |-> 0, data |-> InitialData]
  BY DEF NewEngine
<1>2. RecordChain' /\ CommittedStateAccepted'
  BY <1>1 DEF RecordChain, CommittedStateAccepted
<1>3. IdleStateIsCommitted'
  BY <1>1 DEF IdleStateIsCommitted, MayFollow, Committed
<1>4. TickInProgress' /\ SummariesAccepted' /\ AtRest'
  BY <1>1 DEF TickInProgress, SummariesAccepted, AtRest, Wedged
<1> QED
  BY <1>2, <1>3, <1>4

LEMMA InvNext ==
  ASSUME IInv, TypeOK', [Next]_vars
  PROVE  IInv'
<1> DEFINE Rest == RecordChain /\ CommittedStateAccepted /\ IdleStateIsCommitted
                     /\ TickInProgress /\ SummariesAccepted /\ AtRest
<1>1. TypeOK'
  OBVIOUS
<1>2. ASSUME NEW f \in Frame, TickUnexpected(f)
      PROVE  Rest'
  <2>1. UNCHANGED <<plan, state, pending, records, pc, cursor, splices>> /\ result' = "UnexpectedInputTick"
    BY <1>2 DEF TickUnexpected, configuration
  <2> QED
    BY <2>1, EngineUntouched DEF AtRest, IInv
<1>3. ASSUME NEW f \in Frame, TickWhilePending(f)
      PROVE  Rest'
  <2>1. UNCHANGED <<plan, state, pending, records, pc, cursor, splices>> /\ result' = "ReplayLifecycle"
    BY <1>3 DEF TickWhilePending, configuration
  <2> QED
    BY <2>1, EngineUntouched DEF AtRest, IInv
<1>4. ASSUME NEW f \in Frame, BeginTick(f)
      PROVE  Rest'
  BY <1>4, InvBeginTick
<1>5. ASSUME ValidateBeforeTick
      PROVE  Rest'
  BY <1>5, InvValidateBeforeTick
<1>6. ASSUME RunPhase
      PROVE  Rest'
  BY <1>6, InvRunPhase DEF TypeOK
<1>7. ASSUME CompleteTick
      PROVE  Rest'
  BY <1>7, InvCompleteTick
<1>8. ASSUME ManualSnapshot
      PROVE  Rest'
  <2>1. UNCHANGED <<plan, state, pending, records, pc, cursor, splices, result>>
    BY <1>8 DEF ManualSnapshot, configuration
  <2> QED
    BY <2>1, EngineUntouched DEF AtRest, IInv
<1>9. ASSUME NEW s \in HostSnapshots, RestoreSnapshot(s)
      PROVE  Rest'
  <2>1. /\ UNCHANGED <<plan, pending, records, pc, cursor, result>>
        /\ pc = "idle" /\ splices' = splices \cup {Len(records)}
        /\ state' = s /\ Restorable(s)
    BY <1>9 DEF RestoreSnapshot, configuration
  <2>2. RecordChain' /\ CommittedStateAccepted'
    BY <2>1, LogUntouched DEF IInv
  <2>3. IdleStateIsCommitted'
    BY <2>1 DEF IdleStateIsCommitted, MayFollow
  <2>4. TickInProgress' /\ SummariesAccepted' /\ AtRest'
    BY <2>1 DEF IInv, TickInProgress, SummariesAccepted, AtRest, Wedged
  <2> QED
    BY <2>2, <2>3, <2>4
<1>10. ASSUME NEW s \in HostSnapshots, RestorePanics(s)
       PROVE  Rest'
  <2>1. UNCHANGED <<plan, state, pending, records, cursor, splices, result>>
        /\ pc = "idle" /\ pc' = "panicked"
    BY <1>10 DEF RestorePanics, configuration
  <2>2. RecordChain' /\ CommittedStateAccepted'
    BY <2>1, LogUntouched DEF IInv
  <2>3. IdleStateIsCommitted' /\ TickInProgress' /\ SummariesAccepted'
    BY <2>1 DEF IdleStateIsCommitted, TickInProgress, SummariesAccepted
  <2>4. AtRest'
    BY <2>1 DEF IInv, AtRest, Wedged
  <2> QED
    BY <2>2, <2>3, <2>4
<1>11. ASSUME NewEngine
       PROVE  Rest'
  BY <1>11, InvNewEngine
<1>12. ASSUME UNCHANGED vars
       PROVE  Rest'
  <2>1. UNCHANGED <<plan, state, pending, records, pc, cursor, splices, result>>
    BY <1>12 DEF vars
  <2> QED
    BY <2>1, EngineUntouched DEF AtRest, IInv
<1>13. Rest'
  <2> HIDE DEF Rest
  <2> QED
    BY <1>2, <1>3, <1>4, <1>5, <1>6, <1>7, <1>8, <1>9, <1>10, <1>11, <1>12
       DEF Next, EngineStep, HostCall
<1> QED
  BY <1>1, <1>13 DEF IInv

-----------------------------------------------------------------------------
LEMMA Invariant == Spec /\ []TypeOK => []IInv
<1>1. IInv /\ TypeOK' /\ [Next]_vars => IInv'
  BY InvNext
<1> QED
  BY <1>1, InvInit, PTL DEF Spec

(***************************************************************************)
(* The replay log is a chain, for any domain, plan and policy: every       *)
(* record opens with the digest of the state the previous one ended with,  *)
(* or of a snapshot that was restored in between, and is for the tick      *)
(* after that state, except at the end of the clock.                       *)
(***************************************************************************)
THEOREM RecordsChain == ASSUME PhasesKeepTypes PROVE Spec => []RecordChain
BY TypeCorrect, Invariant, PTL DEF IInv

(***************************************************************************)
(* An engine that waits for its next tick is in the state of its last      *)
(* record, or in one that the host restored since.                         *)
(***************************************************************************)
THEOREM IdleIsCommitted == ASSUME PhasesKeepTypes PROVE Spec => []IdleStateIsCommitted
BY TypeCorrect, Invariant, PTL DEF IInv

(***************************************************************************)
(* Only accepted states are committed, and the last check of a record is   *)
(* of the state it commits, if its schedule has a Finalize phase.          *)
(***************************************************************************)
THEOREM CommitsAreAccepted == ASSUME PhasesKeepTypes PROVE Spec => []CommittedStateAccepted
BY TypeCorrect, Invariant, PTL DEF IInv

(***************************************************************************)
(* A failed tick is final: until the engine is replaced it commits nothing *)
(* more and reports every further call of tick() as an error.              *)
(***************************************************************************)
THEOREM FailuresAreFinal == ASSUME PhasesKeepTypes PROVE Spec => FailureIsFinal
<1> DEFINE Stays == Wedged => \/ Wedged' /\ UNCHANGED <<pending, records>> /\ result' # "Ok"
                              \/ NewEngine
<1>1. IInv /\ [Next]_vars => [Stays]_vars
  <2> SUFFICES ASSUME IInv, Next, Wedged, ~NewEngine
               PROVE  Wedged' /\ UNCHANGED <<pending, records>> /\ result' # "Ok"
    OBVIOUS
  <2>1. pending # None /\ pc \in {"idle", "panicked"} /\ result # "Ok"
    BY DEF Wedged, IInv, AtRest
  <2>2. ~EngineStep
    BY <2>1 DEF EngineStep, ValidateBeforeTick, RunPhase, CompleteTick
  <2>3. ASSUME NEW f \in Frame, TickUnexpected(f) \/ TickWhilePending(f) \/ BeginTick(f)
        PROVE  Wedged' /\ UNCHANGED <<pending, records>> /\ result' # "Ok"
    BY <2>1, <2>3 DEF Wedged, TickUnexpected, TickWhilePending, BeginTick
  <2>4. ASSUME ManualSnapshot
        PROVE  Wedged' /\ UNCHANGED <<pending, records>> /\ result' # "Ok"
    BY <2>1, <2>4 DEF Wedged, ManualSnapshot
  <2>5. ASSUME NEW s \in HostSnapshots, RestoreSnapshot(s) \/ RestorePanics(s)
        PROVE  Wedged' /\ UNCHANGED <<pending, records>> /\ result' # "Ok"
    BY <2>1, <2>5 DEF Wedged, RestoreSnapshot, RestorePanics
  <2> QED
    BY <2>2, <2>3, <2>4, <2>5 DEF Next, HostCall
<1> QED
  BY <1>1, TypeCorrect, Invariant, PTL DEF Spec, FailureIsFinal

-----------------------------------------------------------------------------
(***************************************************************************)
(* The engine implements EngineContract.                                   *)
(***************************************************************************)
LogOf(rs) == [i \in 1..Len(rs) |-> [tick |-> rs[i].tick, command |-> rs[i].command]]

LEMMA SequenceIsFunction ==
  ASSUME NEW S, NEW s \in Seq(S)
  PROVE  s = [i \in 1..Len(s) |-> s[i]]
OBVIOUS

LEMMA LogOfAppend ==
  ASSUME NEW S, NEW rs \in Seq(S), NEW r \in S
  PROVE  LogOf(Append(rs, r)) = Append(LogOf(rs), [tick |-> r.tick, command |-> r.command])
<1> DEFINE e(x) == [tick |-> x.tick, command |-> x.command]
           L    == LogOf(rs)
           M    == LogOf(Append(rs, r))
<1>1. /\ Len(rs) \in Nat /\ Len(Append(rs, r)) = Len(rs) + 1
      /\ \A i \in 1..Len(rs) : Append(rs, r)[i] = rs[i]
      /\ Append(rs, r)[Len(rs) + 1] = r
  OBVIOUS
<1>2. L = [i \in 1..Len(rs) |-> e(rs[i])] /\ M = [i \in 1..Len(rs) + 1 |-> e(Append(rs, r)[i])]
  BY <1>1 DEF LogOf
<1> DEFINE T == {e(rs[i]) : i \in 1..Len(rs)} \cup {e(r)}
<1> HIDE DEF e, L, M
<1>3. L \in Seq(T) /\ Len(L) = Len(rs) /\ e(r) \in T
  BY <1>1, <1>2
<1>4. \A i \in 1..Len(rs) + 1 : M[i] = Append(L, e(r))[i]
  BY <1>1, <1>2, <1>3
<1>5. Append(L, e(r)) = [i \in 1..Len(rs) + 1 |-> Append(L, e(r))[i]]
  <2>1. Append(L, e(r)) \in Seq(T) /\ Len(Append(L, e(r))) = Len(rs) + 1
    BY <1>1, <1>3
  <2> QED
    BY <2>1, SequenceIsFunction
<1>6. M = Append(L, e(r))
  BY <1>2, <1>4, <1>5
<1> QED
  BY <1>6 DEF e, L, M

\* The step of the contract that a step of the engine is.
LEMMA ContractNext == IInv /\ [Next]_vars => [Contract!Next]_Contract!vars
<1> SUFFICES ASSUME IInv, [Next]_vars
             PROVE  [Contract!Next]_Contract!vars
  OBVIOUS
<1> DEFINE status == IF Wedged THEN "failed" ELSE "open"
           Stutters == UNCHANGED <<state.tick, LogOf(records), status>>
<1>1. Stutters => UNCHANGED Contract!vars
  BY DEF Contract!vars, LogOf
<1>2. ASSUME UNCHANGED <<state, pending, records, pc>>
      PROVE  Stutters
  BY <1>2 DEF Wedged
<1>3. ASSUME NEW f \in Frame, TickUnexpected(f) \/ TickWhilePending(f) \/ BeginTick(f)
      PROVE  Stutters
  <2>1. CASE BeginTick(f)
    BY <2>1 DEF BeginTick, Wedged, None, Some
  <2>2. CASE ~BeginTick(f)
    BY <1>2, <1>3, <2>2 DEF TickUnexpected, TickWhilePending
  <2> QED
    BY <2>1, <2>2
<1>4. ASSUME ValidateBeforeTick
      PROVE  [Contract!Next]_Contract!vars
  <2>1. ~Wedged /\ pending # None /\ UNCHANGED <<state, records>>
    BY <1>4 DEF ValidateBeforeTick, Wedged, IInv, TypeOK
  <2>2. CASE pc' = "idle"
    <3>1. Wedged'
      BY <1>4, <2>1, <2>2 DEF ValidateBeforeTick, Wedged
    <3>2. Contract!Fail
      BY <2>1, <3>1 DEF Contract!Fail
    <3> QED
      BY <3>2 DEF Contract!Next
  <2>3. CASE pc' # "idle"
    <3>1. ~Wedged'
      BY <1>4, <2>3 DEF ValidateBeforeTick, ReturnError, Wedged
    <3> QED
      BY <1>1, <2>1, <3>1
  <2> QED
    BY <2>2, <2>3
<1>5. ASSUME RunPhase
      PROVE  [Contract!Next]_Contract!vars
  <2>1. ~Wedged /\ UNCHANGED <<state.tick, records>>
    BY <1>5 DEF RunPhase, Wedged, IInv, TypeOK, Snapshot
  <2>2. CASE pc' = "idle"
    <3>1. Wedged'
      BY <1>5, <2>2 DEF RunPhase, Wedged, None, Some
    <3>2. Contract!Fail
      BY <2>1, <3>1 DEF Contract!Fail
    <3> QED
      BY <3>2 DEF Contract!Next
  <2>3. CASE pc' # "idle"
    <3>1. ~Wedged'
      BY <1>5, <2>3 DEF RunPhase, ReturnError, Wedged
    <3> QED
      BY <1>1, <2>1, <3>1
  <2> QED
    BY <2>2, <2>3
<1>6. ASSUME CompleteTick
      PROVE  Contract!Next
  <2> DEFINE p == The(pending)
  <2>1. pending # None /\ p \in PendingType /\ p.tick = TickSucc(state.tick)
    BY <1>6, TheType DEF CompleteTick, IInv, TypeOK, TickInProgress
  <2>2. state'.tick = p.tick
    BY <1>6 DEF CompleteTick, IInv, TypeOK, Snapshot
  <2>3. PICK c \in Commands : c = p.command
    BY <2>1 DEF PendingType
  <2>4. PICK r : records' = Append(records, r) /\ r.tick = p.tick /\ r.command = c
    BY <1>6, <2>3 DEF CompleteTick, RecordOf
  <2> HIDE DEF p
  <2>5. records \in Seq(RecordType \cup {r}) /\ r \in RecordType \cup {r}
    BY DEF IInv, TypeOK
  <2>6. LogOf(Append(records, r)) = Append(LogOf(records), [tick |-> r.tick, command |-> r.command])
    BY <2>5, LogOfAppend
  <2>7. LogOf(records') = Append(LogOf(records), [tick |-> p.tick, command |-> c])
    BY <2>4, <2>6
  <2>8. ~Wedged /\ ~Wedged'
    BY <1>6 DEF CompleteTick, Wedged
  <2>9. Contract!Commit(c)
    BY <2>1, <2>2, <2>7, <2>8 DEF Contract!Commit, LogOf, TickSucc
  <2> QED
    BY <2>9 DEF Contract!Next
<1>7. ASSUME ManualSnapshot
      PROVE  Stutters
  BY <1>2, <1>7 DEF ManualSnapshot
<1>8. ASSUME NEW s \in HostSnapshots, RestoreSnapshot(s)
      PROVE  Contract!Next
  <2>1. s.tick \in 0..MaxTick
    BY HostSnapshotsType DEF IInv, Snapshot
  <2>2. Contract!Restore(s.tick)
    BY <1>8 DEF RestoreSnapshot, Wedged, Contract!Restore
  <2> QED
    BY <2>1, <2>2 DEF Contract!Next
<1>9. ASSUME NEW s \in HostSnapshots, RestorePanics(s)
      PROVE  Stutters
  BY <1>9 DEF RestorePanics, Wedged
<1>10. ASSUME NewEngine
       PROVE  Contract!Next
  <2>1. LogOf(records') = <<>> /\ state'.tick = 0 /\ ~Wedged'
    BY <1>10 DEF NewEngine, LogOf, Wedged
  <2>2. Contract!Replace
    BY <2>1 DEF Contract!Replace, LogOf
  <2> QED
    BY <2>2 DEF Contract!Next
<1>11. ASSUME UNCHANGED vars
       PROVE  Stutters
  BY <1>2, <1>11 DEF vars
<1> HIDE DEF Stutters
<1> QED
  BY <1>1, <1>3, <1>4, <1>5, <1>6, <1>7, <1>8, <1>9, <1>10, <1>11
     DEF Next, EngineStep, HostCall

(***************************************************************************)
(* For every domain, the engine refines its contract: each call of tick()  *)
(* commits one tick as a whole, fails once and for all, or does nothing.   *)
(***************************************************************************)
THEOREM RefinesContract == ASSUME PhasesKeepTypes PROVE Spec => ImplementsContract
<1>1. Init => Contract!Init
  <2> SUFFICES ASSUME Init
               PROVE  Contract!Init
    OBVIOUS
  <2>1. LogOf(records) = <<>> /\ ~Wedged /\ state.tick = 0
    BY DEF Init, LogOf, Wedged
  <2> QED
    BY <2>1 DEF Contract!Init, LogOf
<1> QED
  BY <1>1, TypeCorrect, Invariant, ContractNext, PTL DEF Spec, ImplementsContract, Contract!Spec

-----------------------------------------------------------------------------
(***************************************************************************)
(* AtomicTick in terms of DeterministicEngine: the rules of a tick are the *)
(* same, and the function Work of AtomicTick exists.                       *)
(***************************************************************************)
LEMMA SameRules ==
  /\ \A t : Atomic!TickSucc(t) = TickSucc(t)
  /\ \A p, c : Atomic!ShouldValidate(p, c) = ShouldValidate(p, c)
  /\ \A p, t : Atomic!ShouldCapture(p, t) = ShouldCapture(p, t)
  /\ \A p, i : Atomic!CheckpointAfter(p, i) = CheckpointAfter(p, i)
  /\ \A c, s : Atomic!Summary(c, s) = Summary(c, s)
  /\ \A p, cs, s : Atomic!WithSummaries(p, cs, s) = WithSummaries(p, cs, s)
  /\ Atomic!None = None /\ \A x : Atomic!Some(x) = Some(x)
<1>1. \A t : Atomic!TickSucc(t) = TickSucc(t)
  BY DEF Atomic!TickSucc, TickSucc
<1>2. \A p, c : Atomic!ShouldValidate(p, c) = ShouldValidate(p, c)
  BY DEF Atomic!ShouldValidate, ShouldValidate
<1>3. \A p, t : Atomic!ShouldCapture(p, t) = ShouldCapture(p, t)
  BY DEF Atomic!ShouldCapture, ShouldCapture
<1>4. \A p, i : Atomic!CheckpointAfter(p, i) = CheckpointAfter(p, i)
  BY Zenon DEF Atomic!CheckpointAfter, CheckpointAfter
<1>5. \A c, s : Atomic!Summary(c, s) = Summary(c, s)
  BY DEF Atomic!Summary, Summary
<1>6. \A p, cs, s : Atomic!WithSummaries(p, cs, s) = WithSummaries(p, cs, s)
  BY <1>5 DEF Atomic!WithSummaries, WithSummaries
<1>7. Atomic!None = None /\ \A x : Atomic!Some(x) = Some(x)
  BY DEF Atomic!None, None, Atomic!Some, Some
<1> QED
  BY <1>1, <1>2, <1>3, <1>4, <1>5, <1>6, <1>7

\* How Work begins and goes on, and what a function must satisfy to be its first n + 1 values.
FirstWork(e, s, x) ==
  Atomic!Validated([status |-> "Ok", state |-> s, phase_markers |-> <<>>, validation_summaries |-> <<>>],
                   e.validation_policy, {"BeforeTickBegin"}, x.tick)

NextWork(e, x, i, w) == IF w.status = "Ok" THEN Atomic!AfterPhase(w, e, i, x) ELSE w

Works(e, s, x, n, work) ==
  work = [i \in 0..n |-> IF i = 0 THEN FirstWork(e, s, x) ELSE NextWork(e, x, i, work[i - 1])]

WorkOf(e, s, x) == CHOOSE work : Works(e, s, x, Len(e.plan), work)

LEMMA WorksExist ==
  ASSUME NEW e, NEW s, NEW x, NEW n \in Nat
  PROVE  \E work : Works(e, s, x, n, work)
<1> DEFINE S == {m \in Nat : \E work : Works(e, s, x, m, work)}
<1>1. 0 \in S
  <2> DEFINE first == [i \in 0..0 |-> FirstWork(e, s, x)]
  <2>1. \A i \in 0..0 : i = 0
    OBVIOUS
  <2>2. first = [i \in 0..0 |-> IF i = 0 THEN FirstWork(e, s, x) ELSE NextWork(e, x, i, first[i - 1])]
    BY <2>1
  <2>3. Works(e, s, x, 0, first)
    BY <2>2 DEF Works
  <2> QED
    BY <2>3
<1>2. ASSUME NEW m \in Nat, m \in S
      PROVE  m + 1 \in S
  <2>1. PICK work : Works(e, s, x, m, work)
    BY <1>2
  <2>2. /\ work = [i \in 0..m |-> work[i]]
        /\ \A i \in 0..m : work[i] = IF i = 0 THEN FirstWork(e, s, x) ELSE NextWork(e, x, i, work[i - 1])
    BY <2>1 DEF Works
  <2> DEFINE more == [i \in 0..m + 1 |-> IF i \in 0..m THEN work[i] ELSE NextWork(e, x, i, work[i - 1])]
  <2>3. ASSUME NEW i \in 0..m + 1
        PROVE  more[i] = IF i = 0 THEN FirstWork(e, s, x) ELSE NextWork(e, x, i, more[i - 1])
    <3>1. i # 0 => i - 1 \in 0..m /\ more[i - 1] = work[i - 1]
      OBVIOUS
    <3>2. more[i] = IF i \in 0..m THEN work[i] ELSE NextWork(e, x, i, work[i - 1])
      OBVIOUS
    <3>3. 0 \in 0..m
      OBVIOUS
    <3> HIDE DEF more
    <3>4. CASE i = 0
      BY <2>2, <3>2, <3>3, <3>4
    <3>5. CASE i # 0
      BY <2>2, <3>1, <3>2, <3>5
    <3> QED
      BY <3>4, <3>5
  <2>4. Works(e, s, x, m + 1, more)
    BY <2>3 DEF Works
  <2> QED
    BY <2>4
<1> HIDE DEF S
<1>3. Nat \subseteq S
  BY <1>1, <1>2, SetInduction
<1> QED
  BY <1>3 DEF S

LEMMA WorkUnfolds ==
  ASSUME NEW e, NEW s, NEW x, Len(e.plan) \in Nat
  PROVE  /\ Atomic!Work(e, s, x) = WorkOf(e, s, x)[Len(e.plan)]
         /\ WorkOf(e, s, x)[0] = FirstWork(e, s, x)
         /\ \A i \in 1..Len(e.plan) :
              WorkOf(e, s, x)[i] = NextWork(e, x, i, WorkOf(e, s, x)[i - 1])
<1>1. Works(e, s, x, Len(e.plan), WorkOf(e, s, x))
  BY WorksExist DEF WorkOf
<1>2. Atomic!Work(e, s, x) = WorkOf(e, s, x)[Len(e.plan)]
  BY DEF Atomic!Work, WorkOf, Works, FirstWork, NextWork
<1> QED
  BY <1>1, <1>2 DEF Works

\* A tick that has failed does nothing more.
LEMMA FailedStays ==
  ASSUME NEW e, NEW s, NEW x, Len(e.plan) \in Nat, NEW k \in 0..Len(e.plan),
         WorkOf(e, s, x)[k].status # "Ok"
  PROVE  \A i \in k..Len(e.plan) : WorkOf(e, s, x)[i] = WorkOf(e, s, x)[k]
<1> DEFINE w == WorkOf(e, s, x)
           S == {m \in Nat : k + m <= Len(e.plan) => w[k + m] = w[k]}
<1>1. 0 \in S
  OBVIOUS
<1>2. ASSUME NEW m \in Nat, m \in S
      PROVE  m + 1 \in S
  <2> SUFFICES ASSUME k + (m + 1) <= Len(e.plan)
               PROVE  w[k + (m + 1)] = w[k]
    OBVIOUS
  <2>1. k + (m + 1) \in 1..Len(e.plan) /\ k + (m + 1) - 1 = k + m /\ k + m <= Len(e.plan)
    OBVIOUS
  <2>2. w[k + m] = w[k]
    BY <1>2, <2>1
  <2>3. w[k + (m + 1)] = NextWork(e, x, k + (m + 1), w[k + m])
    BY <2>1, WorkUnfolds
  <2> HIDE DEF w
  <2> QED
    BY <2>2, <2>3 DEF NextWork, w
<1>3. Nat \subseteq S
  <2> HIDE DEF S
  <2> QED
    BY <1>1, <1>2, SetInduction
<1>4. ASSUME NEW i \in k..Len(e.plan)
      PROVE  w[i] = w[k]
  <2>1. i - k \in Nat /\ k + (i - k) = i /\ i <= Len(e.plan)
    OBVIOUS
  <2>2. i - k \in S
    BY <1>3, <2>1
  <2> HIDE DEF w
  <2> QED
    BY <2>1, <2>2
<1> QED
  BY <1>4

-----------------------------------------------------------------------------
(***************************************************************************)
(* The inductive invariant: in the middle of a tick the engine is as far   *)
(* as the function is after the same number of phases.  Where the host     *)
(* restored a snapshot since the last record nothing is said.              *)
(***************************************************************************)
\* What the function has come to when the engine is about to run its next phase.
WorkBefore(i) ==
  WorkOf(Configured, Committed(Len(records)),
         ContextAfter(Committed(Len(records)), The(pending).command))[i - 1]

TickUnderWay ==
  /\ pc # "phases" => cursor = 1
  /\ Len(records) \notin splices =>
       /\ pc = "validate" \/ pending = None => state = Committed(Len(records))
       /\ pc \in {"validate", "phases"} => The(pending).tick = TickSucc(Committed(Len(records)).tick)
       /\ pc = "validate" =>
            The(pending).phase_markers = <<>> /\ The(pending).validation_summaries = <<>>
       /\ pc = "phases" =>
            WorkBefore(cursor) = [status |-> "Ok", state |-> state,
                                  phase_markers |-> The(pending).phase_markers,
                                  validation_summaries |-> The(pending).validation_summaries]

FailedTickIsAtomic ==
  Wedged /\ Len(records) \notin splices =>
    LET outcome == OutcomeAfter(Len(records), The(pending).command)
    IN  /\ outcome.status # "Ok" /\ state = outcome.state
        /\ result \in {outcome.status, "UnexpectedInputTick", "ReplayLifecycle"}

RecordIsAtomic(i) ==
  LET outcome == OutcomeAfter(i - 1, records[i].command)
  IN  outcome.status = "Ok" /\ records[i] = Logged(outcome.records[1])

CommittedTicksAreAtomic ==
  \A i \in 1..Len(records) : i - 1 \notin splices => RecordIsAtomic(i)

AtomicInv == TickUnderWay /\ FailedTickIsAtomic /\ CommittedTicksAreAtomic

LEMMA CommittedType ==
  ASSUME TypeOK
  PROVE  /\ Len(records) \in Nat
         /\ \A n \in 0..Len(records) : Committed(n) \in Snapshot
<1>1. records \in Seq(RecordType) /\ Len(records) \in Nat
  BY DEF TypeOK
<1>2. \A n \in 1..Len(records) : records[n].checksum \in Snapshot
  <2>1. \A n \in 1..Len(records) : records[n] \in RecordType
    BY <1>1
  <2> QED
    BY <2>1 DEF RecordType
<1>3. [tick |-> 0, data |-> InitialData] \in Snapshot
  BY DataAssumption, TickAssumption DEF Snapshot
<1> QED
  BY <1>1, <1>2, <1>3 DEF Committed

\* A tick in terms of Work, for the frame the engine expects next.
LEMMA OutcomeIs ==
  ASSUME NEW n, NEW c
  PROVE  LET s == Committed(n)
             x == ContextAfter(s, c)
         IN  OutcomeAfter(n, c)
               = Atomic!TickEnd(Configured, [tick |-> TickSucc(s.tick), command |-> c], x,
                                Atomic!Work(Configured, s, x))
BY SameRules DEF OutcomeAfter, Atomic!TickOutcome, ContextAfter, Configured

\* A tick whose function has failed after k phases has that outcome.
LEMMA FailedOutcome ==
  ASSUME NEW n, NEW c, Len(plan) \in Nat, NEW k \in 0..Len(plan),
         WorkOf(Configured, Committed(n), ContextAfter(Committed(n), c))[k].status # "Ok"
  PROVE  LET v == WorkOf(Configured, Committed(n), ContextAfter(Committed(n), c))[k]
         IN  OutcomeAfter(n, c) = [status |-> v.status, state |-> v.state, records |-> <<>>]
<1> DEFINE s == Committed(n)
           x == ContextAfter(s, c)
           w == WorkOf(Configured, s, x)
<1>1. Configured.plan = plan
  BY DEF Configured
<1>2. Atomic!Work(Configured, s, x) = w[Len(plan)]
  BY <1>1, WorkUnfolds
<1>3. w[Len(plan)] = w[k]
  <2>1. Len(plan) \in k..Len(plan)
    OBVIOUS
  <2> QED
    BY <1>1, <2>1, FailedStays
<1> HIDE DEF w, x
<1>4. w[k].status # "Ok"
  BY DEF w, x
<1> HIDE DEF s
<1>5. OutcomeAfter(n, c) = [status |-> w[k].status, state |-> w[k].state, records |-> <<>>]
  BY <1>2, <1>3, <1>4, OutcomeIs DEF Atomic!TickEnd, s, x
<1> QED
  BY <1>5 DEF w, x, s

\* Steps that end no tick and begin none.
LEMMA Untouched ==
  ASSUME AtomicInv,
         UNCHANGED <<plan, snapshot_policy, validation_policy, state, pending, records, pc,
                     cursor, splices>>,
         result' \in {result, "UnexpectedInputTick", "ReplayLifecycle"}
  PROVE  AtomicInv'
BY DEF AtomicInv, TickUnderWay, FailedTickIsAtomic, CommittedTicksAreAtomic, RecordIsAtomic,
       WorkBefore, Wedged, OutcomeAfter,
       Committed, Configured

\* The records and what they are compared with stay as they are.
LEMMA RecordsUntouched ==
  ASSUME CommittedTicksAreAtomic,
         UNCHANGED <<plan, snapshot_policy, validation_policy, records>>,
         splices' = splices \/ splices' = splices \cup {Len(records)},
         Len(records) \in Nat
  PROVE  CommittedTicksAreAtomic'
<1>1. ASSUME NEW i \in 1..Len(records), i - 1 \notin splices'
      PROVE  i - 1 \notin splices
  BY <1>1
<1> QED
  BY <1>1 DEF CommittedTicksAreAtomic, RecordIsAtomic, OutcomeAfter, Committed, Configured

LEMMA AtomicInit == Init => AtomicInv
<1> SUFFICES ASSUME Init
             PROVE  AtomicInv
  OBVIOUS
<1>1. records = <<>> /\ pc = "idle" /\ pending = None /\ cursor = 1
      /\ state = [tick |-> 0, data |-> InitialData]
  BY DEF Init
<1>2. TickUnderWay
  BY <1>1 DEF TickUnderWay, Committed
<1>3. FailedTickIsAtomic /\ CommittedTicksAreAtomic
  BY <1>1 DEF FailedTickIsAtomic, CommittedTicksAreAtomic, Wedged
<1> QED
  BY <1>2, <1>3 DEF AtomicInv

LEMMA AtomicBeginTick ==
  ASSUME TypeOK, AtomicInv, NEW f \in Frame, BeginTick(f)
  PROVE  AtomicInv'
<1>1. /\ pc = "idle" /\ pending = None /\ f.tick = TickSucc(state.tick)
      /\ pending' = Some(PendingRecord(f)) /\ pc' = "validate"
      /\ UNCHANGED <<plan, snapshot_policy, validation_policy, state, records, cursor, splices>>
  BY DEF BeginTick, configuration
<1>2. Len(records) \in Nat
  BY CommittedType
<1>3. CommittedTicksAreAtomic'
  BY <1>1, <1>2, RecordsUntouched DEF AtomicInv
<1>4. FailedTickIsAtomic'
  BY <1>1 DEF FailedTickIsAtomic, Wedged
<1>5. The(pending') = PendingRecord(f)
  BY <1>1 DEF The, Some
<1>6. TickUnderWay'
  BY <1>1, <1>5 DEF AtomicInv, TickUnderWay, PendingRecord, Committed
<1> QED
  BY <1>3, <1>4, <1>6 DEF AtomicInv

\* The two ways the function begins.
LEMMA FirstWorkIs ==
  ASSUME NEW s, NEW x
  PROVE  FirstWork(Configured, s, x)
           = IF Accepts("BeforeTickBegin", x.tick, s)
             THEN [status |-> "Ok", state |-> s, phase_markers |-> <<>>,
                   validation_summaries |-> <<Summary("BeforeTickBegin", s)>>]
             ELSE [status |-> "InvariantViolation", state |-> s, phase_markers |-> <<>>,
                   validation_summaries |-> <<>>]
<1> DEFINE begun == [status |-> "Ok", state |-> s, phase_markers |-> <<>>, validation_summaries |-> <<>>]
           due   == {c \in {"BeforeTickBegin"} : ShouldValidate(validation_policy, c)}
<1>1. due = {"BeforeTickBegin"} /\ (CHOOSE c \in due : TRUE) = "BeforeTickBegin"
  BY BeforeTickBeginIsDue DEF Due
<1>2. FirstWork(Configured, s, x)
        = IF \A c \in due : Accepts(c, x.tick, s)
          THEN WithSummaries(begun, due, s)
          ELSE [begun EXCEPT !.status = "InvariantViolation"]
  BY SameRules DEF FirstWork, Atomic!Validated, Configured
<1>3. WithSummaries(begun, due, s)
        = [begun EXCEPT !.validation_summaries = Append(@, Summary("BeforeTickBegin", s))]
  BY <1>1 DEF WithSummaries
<1>4. Append(<<>>, Summary("BeforeTickBegin", s)) = <<Summary("BeforeTickBegin", s)>>
  OBVIOUS
<1> QED
  BY <1>1, <1>2, <1>3, <1>4

\* What the function goes on to from state s, with the i-th phase.
WorkAfter(s, pm, vs, x, i) ==
  LET o   == Step(plan[i].name, x, s)
      t   == [s EXCEPT !.data = o.data]
      due == Due(CheckpointAfter(plan, i))
      ms  == Append(pm, plan[i])
  IN  IF ~o.ok
      THEN [status |-> "PhaseFailed", state |-> t, phase_markers |-> ms, validation_summaries |-> vs]
      ELSE IF \A c \in due : Accepts(c, x.tick, t)
      THEN WithSummaries([status |-> "Ok", state |-> t, phase_markers |-> ms,
                          validation_summaries |-> vs], due, t)
      ELSE [status |-> "InvariantViolation", state |-> t, phase_markers |-> ms,
            validation_summaries |-> vs]

LEMMA NextWorkIs ==
  ASSUME NEW w, NEW x, NEW i, w.status = "Ok"
  PROVE  NextWork(Configured, x, i, w)
           = WorkAfter(w.state, w.phase_markers, w.validation_summaries, x, i)
<1> DEFINE o   == Step(plan[i].name, x, w.state)
           t   == [w.state EXCEPT !.data = o.data]
           due == Due(CheckpointAfter(plan, i))
           ms  == Append(w.phase_markers, plan[i])
           run == [status |-> "Ok", state |-> t, phase_markers |-> ms,
                   validation_summaries |-> w.validation_summaries]
<1>1. NextWork(Configured, x, i, w) = Atomic!AfterPhase(w, Configured, i, x)
  BY DEF NextWork
<1>2. Atomic!AfterPhase(w, Configured, i, x)
        = IF o.ok
          THEN Atomic!Validated(run, validation_policy, CheckpointAfter(plan, i), x.tick)
          ELSE [run EXCEPT !.status = "PhaseFailed"]
  <2>1. Configured.plan = plan /\ Configured.validation_policy = validation_policy
    BY DEF Configured
  <2> QED
    BY <2>1, SameRules, Zenon DEF Atomic!AfterPhase
<1>3. Atomic!Validated(run, validation_policy, CheckpointAfter(plan, i), x.tick)
        = IF \A c \in due : Accepts(c, x.tick, t)
          THEN WithSummaries(run, due, t)
          ELSE [run EXCEPT !.status = "InvariantViolation"]
  BY SameRules DEF Atomic!Validated, Due
<1> QED
  BY <1>1, <1>2, <1>3 DEF WorkAfter

LEMMA AtomicValidate ==
  ASSUME TypeOK, AtomicInv, ValidateBeforeTick
  PROVE  AtomicInv'
<1> DEFINE n   == Len(records)
           p   == The(pending)
           s   == Committed(n)
           x   == ContextAfter(s, p.command)
<1>1. /\ pc = "validate" /\ cursor = 1 /\ cursor' = 1 /\ pending # None
      /\ UNCHANGED <<plan, snapshot_policy, validation_policy, state, records, splices>>
  BY DEF ValidateBeforeTick, ReturnError, configuration, AtomicInv, TickUnderWay, TypeOK
<1>2. n \in Nat /\ Len(plan) \in Nat /\ p \in PendingType
  BY <1>1, CommittedType, PlanType, TheType DEF TypeOK
<1>3. CommittedTicksAreAtomic'
  BY <1>1, <1>2, RecordsUntouched DEF AtomicInv
<1>4. \/ /\ Accepts("BeforeTickBegin", p.tick, state)
         /\ pending' = Some(WithSummaries(p, {"BeforeTickBegin"}, state))
         /\ pc' = "phases"
      \/ /\ ~Accepts("BeforeTickBegin", p.tick, state)
         /\ pending' = pending
         /\ pc' = "idle" /\ result' = "InvariantViolation"
  BY BeforeTickBeginIsDue DEF ValidateBeforeTick, ReturnError
<1>5. CASE n \in splices
  BY <1>1, <1>3, <1>4, <1>5 DEF AtomicInv, TickUnderWay, FailedTickIsAtomic
<1>6. CASE n \notin splices
  <2>1. /\ state = s /\ p.tick = x.tick
        /\ p.phase_markers = <<>> /\ p.validation_summaries = <<>>
    BY <1>1, <1>6 DEF AtomicInv, TickUnderWay, ContextAfter
  <2>2. WorkOf(Configured, s, x)[0] = FirstWork(Configured, s, x)
    BY <1>2, WorkUnfolds DEF Configured
  <2>3. CASE pc' = "phases"
    <3>1. Accepts("BeforeTickBegin", p.tick, state) /\ pending' = Some(WithSummaries(p, {"BeforeTickBegin"}, state))
      BY <1>4, <2>3
    <3> DEFINE q == WithSummaries(p, {"BeforeTickBegin"}, state)
    <3>2. The(pending') = q
      BY <3>1 DEF The, Some
    <3>3. /\ q.tick = p.tick /\ q.command = p.command /\ q.phase_markers = <<>>
          /\ q.validation_summaries = <<Summary("BeforeTickBegin", state)>>
      BY <1>2, <2>1, BeforeTickBeginIsDue DEF WithSummaries, PendingType
    <3>4. WorkOf(Configured, s, x)[0]
            = [status |-> "Ok", state |-> s, phase_markers |-> <<>>,
               validation_summaries |-> <<Summary("BeforeTickBegin", s)>>]
      BY <2>1, <2>2, <3>1, FirstWorkIs
    <3> HIDE DEF q
    <3>5. x' = ContextAfter(s, q.command) /\ s' = s /\ Configured' = Configured
      BY <1>1, <3>2 DEF ContextAfter, Committed, Configured
    <3>6. WorkBefore(cursor)' = WorkOf(Configured, s, x)[0]
      BY <1>1, <3>2, <3>3, <3>5 DEF WorkBefore
    <3>7. The(pending').tick = TickSucc(Committed(n).tick)
      BY <2>1, <3>2, <3>3 DEF ContextAfter
    <3>8. TickUnderWay'
      BY <1>1, <2>1, <2>3, <3>2, <3>3, <3>4, <3>6, <3>7 DEF TickUnderWay, Committed, Some, None
    <3>9. FailedTickIsAtomic'
      BY <2>3 DEF FailedTickIsAtomic, Wedged
    <3> QED
      BY <1>3, <3>8, <3>9 DEF AtomicInv
  <2>4. CASE pc' # "phases"
    <3>1. /\ ~Accepts("BeforeTickBegin", p.tick, state)
          /\ pending' = pending /\ pc' = "idle" /\ result' = "InvariantViolation"
      BY <1>4, <2>4
    <3>2. WorkOf(Configured, s, x)[0]
            = [status |-> "InvariantViolation", state |-> s, phase_markers |-> <<>>,
               validation_summaries |-> <<>>]
      BY <2>1, <2>2, <3>1, FirstWorkIs
    <3>3. /\ OutcomeAfter(n, p.command).status = "InvariantViolation"
          /\ OutcomeAfter(n, p.command).state = s
      <4>1. 0 \in 0..Len(plan)
        BY <1>2
      <4> QED
        BY <1>2, <3>2, <4>1, FailedOutcome
    <3>4. FailedTickIsAtomic'
      BY <1>1, <2>1, <3>1, <3>3 DEF FailedTickIsAtomic, OutcomeAfter, Committed, Configured
    <3>5. TickUnderWay'
      BY <1>1, <2>1, <3>1 DEF TickUnderWay, Committed
    <3> QED
      BY <1>3, <3>4, <3>5 DEF AtomicInv
  <2> QED
    BY <2>3, <2>4
<1> QED
  BY <1>5, <1>6

LEMMA SummaryAdded ==
  ASSUME NEW s, NEW pm, NEW vs, NEW d
  PROVE  [[status |-> "Ok", state |-> s, phase_markers |-> pm, validation_summaries |-> vs]
            EXCEPT !.validation_summaries = Append(@, d)]
           = [status |-> "Ok", state |-> s, phase_markers |-> pm,
              validation_summaries |-> Append(vs, d)]
<1> DEFINE begun == [status |-> "Ok", state |-> s, phase_markers |-> pm, validation_summaries |-> vs]
           more  == Append(vs, d)
<1>1. begun.validation_summaries = vs
  OBVIOUS
<1>2. [begun EXCEPT !.validation_summaries = Append(@, d)] = [begun EXCEPT !.validation_summaries = more]
  BY <1>1
<1> HIDE DEF more
<1>3. [begun EXCEPT !.validation_summaries = more]
        = [status |-> "Ok", state |-> s, phase_markers |-> pm, validation_summaries |-> more]
  OBVIOUS
<1> QED
  BY <1>2, <1>3 DEF more

\* A digest is added to the function's work as it is to the record under way.
LEMMA WithSummariesSame ==
  ASSUME NEW p \in PendingType, NEW s, NEW cs
  PROVE  LET w == WithSummaries([status |-> "Ok", state |-> s, phase_markers |-> p.phase_markers,
                                 validation_summaries |-> p.validation_summaries], cs, s)
             q == WithSummaries(p, cs, s)
         IN  /\ w = [status |-> "Ok", state |-> s, phase_markers |-> q.phase_markers,
                     validation_summaries |-> q.validation_summaries]
             /\ q.tick = p.tick /\ q.command = p.command
<1> DEFINE d == Summary(CHOOSE c \in cs : TRUE, s)
<1>1. CASE cs = {}
  BY <1>1 DEF WithSummaries
<1>2. CASE cs # {}
  <2> DEFINE b == [status |-> "Ok", state |-> s, phase_markers |-> p.phase_markers,
                   validation_summaries |-> p.validation_summaries]
  <2>1. /\ WithSummaries(b, cs, s) = [b EXCEPT !.validation_summaries = Append(@, d)]
        /\ WithSummaries(p, cs, s) = [p EXCEPT !.validation_summaries = Append(@, d)]
    BY <1>2 DEF WithSummaries
  <2> HIDE DEF d
  <2>2. [b EXCEPT !.validation_summaries = Append(@, d)]
          = [status |-> "Ok", state |-> s, phase_markers |-> p.phase_markers,
             validation_summaries |-> Append(p.validation_summaries, d)]
    BY SummaryAdded
  <2>3. LET q == [p EXCEPT !.validation_summaries = Append(@, d)]
        IN  /\ q.validation_summaries = Append(p.validation_summaries, d)
            /\ q.phase_markers = p.phase_markers /\ q.tick = p.tick /\ q.command = p.command
    BY DEF PendingType
  <2> HIDE DEF b
  <2> QED
    BY <2>1, <2>2, <2>3 DEF b
<1> QED
  BY <1>1, <1>2

LEMMA AtomicRunPhase ==
  ASSUME TypeOK, AtomicInv, PhasesAreFunctions, RunPhase
  PROVE  AtomicInv'
<1> DEFINE n   == Len(records)
           q   == The(pending)
           p   == [q EXCEPT !.phase_markers = Append(@, plan[cursor])]
           s   == Committed(n)
           x   == ContextAfter(s, q.command)
           w   == WorkOf(Configured, s, x)
           due == Due(CheckpointAfter(plan, cursor))
<1>1. PICK o \in Run(plan[cursor].name, p.tick, state, p.command) :
        LET u   == [state EXCEPT !.data = o.data]
            ds  == IF o.ok THEN due ELSE {}
        IN  /\ state' = u
            /\ \/ /\ ~o.ok
                  /\ ReturnError("PhaseFailed")
                  /\ pending' = Some(p)
               \/ /\ \E c \in ds : ~Accepts(c, p.tick, u)
                  /\ ReturnError("InvariantViolation")
                  /\ pending' = Some(p)
               \/ /\ o.ok
                  /\ \A c \in ds : Accepts(c, p.tick, u)
                  /\ pending' = Some(WithSummaries(p, ds, u))
                  /\ cursor' = cursor + 1
                  /\ UNCHANGED <<pc, result>>
  BY DEF RunPhase
<1> DEFINE u == [state EXCEPT !.data = o.data]
<1>2. /\ pc = "phases" /\ pending # None /\ cursor \in 1..Len(plan)
      /\ UNCHANGED <<plan, snapshot_policy, validation_policy, records, splices>>
  BY PlanType DEF RunPhase, TypeOK, configuration
<1>3. n \in Nat /\ Len(plan) \in Nat /\ plan[cursor].name \in Names /\ q \in PendingType
  BY <1>2, CommittedType, PlanType, TheType DEF TypeOK, Descriptor
<1>4. CommittedTicksAreAtomic'
  BY <1>2, <1>3, RecordsUntouched DEF AtomicInv
<1>5. /\ p \in PendingType /\ p.tick = q.tick /\ p.command = q.command
      /\ p.phase_markers = Append(q.phase_markers, plan[cursor])
      /\ p.validation_summaries = q.validation_summaries
  BY <1>2, <1>3, MarkedType DEF PendingType
<1>6. state' = u
  BY <1>1
<1>7. \/ /\ ~o.ok \/ \E c \in due : ~Accepts(c, p.tick, u)
         /\ pc' = "idle" /\ cursor' = 1 /\ pending' = Some(p)
         /\ result' = IF o.ok THEN "InvariantViolation" ELSE "PhaseFailed"
      \/ /\ o.ok /\ \A c \in due : Accepts(c, p.tick, u)
         /\ pc' = "phases" /\ cursor' = cursor + 1
         /\ pending' = Some(WithSummaries(p, due, u))
  BY <1>1, <1>2 DEF ReturnError
<1>8. CASE n \in splices
  BY <1>2, <1>4, <1>7, <1>8 DEF AtomicInv, TickUnderWay, FailedTickIsAtomic
<1>9. CASE n \notin splices
  <2>1. /\ q.tick = x.tick
        /\ w[cursor - 1] = [status |-> "Ok", state |-> state, phase_markers |-> q.phase_markers,
                            validation_summaries |-> q.validation_summaries]
    BY <1>2, <1>9 DEF AtomicInv, TickUnderWay, WorkBefore, ContextAfter
  <2>2. o = Step(plan[cursor].name, x, state)
    <3>1. Run(plan[cursor].name, q.tick, state, q.command)
            = {Step(plan[cursor].name, [tick |-> q.tick, tick_seed |-> Atomic!TickSeed(0, q.tick),
                                        command |-> q.command], state)}
      BY <1>3 DEF PhasesAreFunctions, TypeOK, PendingType
    <3>2. x = [tick |-> q.tick, tick_seed |-> Atomic!TickSeed(0, q.tick), command |-> q.command]
      BY <2>1 DEF ContextAfter
    <3> HIDE DEF p, q, x
    <3> QED
      BY <1>5, <3>1, <3>2
  <2>3. w[cursor]
          = IF ~o.ok
            THEN [status |-> "PhaseFailed", state |-> u, phase_markers |-> p.phase_markers,
                  validation_summaries |-> p.validation_summaries]
            ELSE IF \A c \in due : Accepts(c, p.tick, u)
            THEN WithSummaries([status |-> "Ok", state |-> u, phase_markers |-> p.phase_markers,
                                validation_summaries |-> p.validation_summaries], due, u)
            ELSE [status |-> "InvariantViolation", state |-> u, phase_markers |-> p.phase_markers,
                  validation_summaries |-> p.validation_summaries]
    <3>1. w[cursor] = NextWork(Configured, x, cursor, w[cursor - 1])
      BY <1>2, <1>3, WorkUnfolds DEF Configured
    <3>2. x.tick = p.tick
      BY <1>5, <2>1
    <3> HIDE DEF w, x, p, q
    <3>3. w[cursor] = WorkAfter(state, q.phase_markers, q.validation_summaries, x, cursor)
      <4> DEFINE v == w[cursor - 1]
      <4>1. /\ v.status = "Ok" /\ v.state = state /\ v.phase_markers = q.phase_markers
            /\ v.validation_summaries = q.validation_summaries
        BY <2>1
      <4> HIDE DEF v
      <4> QED
        BY <3>1, <4>1, NextWorkIs DEF v
    <3> HIDE DEF u, due
    <3>4. [state EXCEPT !.data = o.data] = u
      BY DEF u
    <3>5. Due(CheckpointAfter(plan, cursor)) = due
      BY DEF due
    <3> QED
      BY <1>5, <2>2, <3>2, <3>3, <3>4, <3>5 DEF WorkAfter
  <2>4. Configured' = Configured /\ s' = s
    BY <1>2 DEF Configured, Committed
  <2>5. CASE ~o.ok \/ \E c \in due : ~Accepts(c, p.tick, u)
    <3>1. /\ pc' = "idle" /\ cursor' = 1 /\ pending' = Some(p)
          /\ result' = IF o.ok THEN "InvariantViolation" ELSE "PhaseFailed"
      BY <1>7, <2>5
    <3>2. w[cursor].status = result' /\ result' # "Ok" /\ w[cursor].state = u
      <4> HIDE DEF w, p, q, due, u
      <4> QED
        BY <2>3, <2>5, <3>1
    <3>3. /\ OutcomeAfter(n, q.command).status = result' /\ result' # "Ok"
          /\ OutcomeAfter(n, q.command).state = u
      <4>1. cursor \in 0..Len(plan)
        BY <1>2
      <4> HIDE DEF u
      <4> QED
        BY <1>3, <3>2, <4>1, FailedOutcome
    <3>4. The(pending') = p /\ pending' # None
      BY <3>1 DEF The, Some, None
    <3>5. OutcomeAfter(n, q.command)' = OutcomeAfter(n, p.command)
      <4> HIDE DEF p
      <4> QED
        BY <1>2, <1>5, <2>4, <3>4 DEF OutcomeAfter, Committed, Configured
    <3>6. FailedTickIsAtomic'
      <4> HIDE DEF p, q, u
      <4> QED
        BY <1>2, <1>5, <1>6, <3>3, <3>4, <3>5 DEF FailedTickIsAtomic, OutcomeAfter, Committed, Configured
    <3>7. TickUnderWay'
      BY <3>1, <3>4 DEF TickUnderWay
    <3> QED
      BY <1>4, <3>6, <3>7 DEF AtomicInv
  <2>6. CASE o.ok /\ \A c \in due : Accepts(c, p.tick, u)
    <3> DEFINE r == WithSummaries(p, due, u)
    <3>1. pc' = "phases" /\ cursor' = cursor + 1 /\ pending' = Some(r)
      BY <1>7, <2>6
    <3>2. The(pending') = r /\ pending' # None
      BY <3>1 DEF The, Some, None
    <3>3. /\ w[cursor] = [status |-> "Ok", state |-> u, phase_markers |-> r.phase_markers,
                          validation_summaries |-> r.validation_summaries]
          /\ r.tick = p.tick /\ r.command = p.command
      <4> HIDE DEF w, p, q, due, u
      <4> QED
        BY <1>5, <2>3, <2>6, WithSummariesSame
    <3> HIDE DEF r
    <3>4. WorkBefore(cursor') = w[cursor' - 1]
      BY DEF WorkBefore
    <3>5. cursor' - 1 = cursor /\ cursor' # cursor
      BY <1>2, <3>1
    <3>6. x' = x
      <4> HIDE DEF p
      <4> QED
        BY <1>5, <2>4, <3>2, <3>3 DEF ContextAfter
    <3>7. WorkBefore(cursor)' = w[cursor]
      <4>1. WorkBefore(cursor)' = WorkOf(Configured', s', x')[cursor' - 1]
        BY DEF WorkBefore
      <4> QED
        BY <2>4, <3>5, <3>6, <4>1
    <3>8. TickUnderWay'
      <4>1. The(pending').tick = TickSucc(s'.tick)
        BY <1>5, <2>1, <2>4, <3>2, <3>3 DEF ContextAfter
      <4> HIDE DEF w, p, q, u
      <4> QED
        BY <1>6, <3>1, <3>2, <3>3, <3>7, <4>1 DEF TickUnderWay
    <3>9. FailedTickIsAtomic'
      BY <3>1 DEF FailedTickIsAtomic, Wedged
    <3> QED
      BY <1>4, <3>8, <3>9 DEF AtomicInv
  <2> QED
    BY <2>5, <2>6
<1> QED
  BY <1>8, <1>9

\* What the replay log keeps of the record of a tick that has ended.
LEMMA EndIsLogged ==
  ASSUME NEW s, NEW c, NEW x, NEW w, w.status = "Ok"
  PROVE  LET frame   == [tick |-> TickSucc(s.tick), command |-> c]
             outcome == Atomic!TickEnd(Configured, frame, x, w)
             end     == [w.state EXCEPT !.tick = x.tick]
             kept    == IF ShouldCapture(snapshot_policy, x.tick) THEN <<end>> ELSE <<>>
         IN  /\ outcome.status = "Ok"
             /\ end.tick = x.tick =>
                  Logged(outcome.records[1])
                    = [tick |-> x.tick, command |-> c, phase_markers |-> w.phase_markers,
                       validation_summaries |-> w.validation_summaries, checksum |-> end, snapshot |-> kept]
<1> DEFINE frame == [tick |-> TickSucc(s.tick), command |-> c]
           end   == [w.state EXCEPT !.tick = x.tick]
           shot  == Atomic!PolicySnapshot(snapshot_policy, w.state, end)
           rec   == [tick |-> x.tick, input |-> frame, tick_seed |-> x.tick_seed,
                     phase_markers |-> w.phase_markers, validation_summaries |-> w.validation_summaries,
                     checksum |-> end, snapshot |-> shot]
           kept  == IF ShouldCapture(snapshot_policy, x.tick) THEN <<end>> ELSE <<>>
<1>1. Atomic!TickEnd(Configured, frame, x, w) = [status |-> "Ok", state |-> end, records |-> <<rec>>]
  BY DEF Atomic!TickEnd, Configured
<1>2. ASSUME end.tick = x.tick
      PROVE  (IF shot = <<>> THEN <<>> ELSE <<shot[1].payload>>) = kept
  <2> DEFINE taken == Atomic!SnapshotRecord(Atomic!PolicyInterval(snapshot_policy), end)
  <2>1. shot = IF ShouldCapture(snapshot_policy, x.tick) THEN Some(taken) ELSE None
    BY <1>2, SameRules DEF Atomic!PolicySnapshot
  <2>2. taken.payload = end
    BY DEF Atomic!SnapshotRecord
  <2>3. Some(taken) # <<>> /\ Some(taken)[1] = taken /\ None = <<>>
    BY DEF Some, None
  <2> HIDE DEF shot, taken, end
  <2> QED
    BY <2>1, <2>2, <2>3
<1>3. ASSUME end.tick = x.tick
      PROVE  Logged(rec) = [tick |-> x.tick, command |-> c, phase_markers |-> w.phase_markers,
                       validation_summaries |-> w.validation_summaries, checksum |-> end, snapshot |-> kept]
  <2> HIDE DEF end, shot, kept
  <2>1. /\ rec.tick = x.tick /\ rec.input.command = c /\ rec.phase_markers = w.phase_markers
        /\ rec.validation_summaries = w.validation_summaries /\ rec.checksum = end
        /\ rec.snapshot = shot
    OBVIOUS
  <2> HIDE DEF rec
  <2> QED
    BY <1>2, <1>3, <2>1 DEF Logged
<1> HIDE DEF rec
<1> QED
  BY <1>1, <1>3

LEMMA AtomicCompleteTick ==
  ASSUME TypeOK, AtomicInv, CompleteTick
  PROVE  AtomicInv'
<1> DEFINE n   == Len(records)
           p   == The(pending)
           s   == Committed(n)
           x   == ContextAfter(s, p.command)
           w   == WorkOf(Configured, s, x)
           end == [state EXCEPT !.tick = p.tick]
<1>1. /\ pc = "phases" /\ pending # None /\ cursor = Len(plan) + 1 /\ Len(plan) \in Nat
      /\ state' = end /\ records' = Append(records, RecordOf(p, end))
      /\ pending' = None /\ pc' = "idle" /\ cursor' = 1
      /\ UNCHANGED <<plan, snapshot_policy, validation_policy, splices>>
  BY PlanType DEF CompleteTick, TypeOK, configuration
<1>2. n \in Nat /\ p \in PendingType /\ records \in Seq(RecordType) /\ state \in Snapshot
  BY <1>1, CommittedType, TheType DEF TypeOK
<1>3. /\ Len(records') = n + 1 /\ records'[n + 1] = RecordOf(p, end)
      /\ \A i \in 1..n : records'[i] = records[i]
  BY <1>1, <1>2
<1>4. \A i \in 0..n : Committed(i)' = Committed(i)
  BY <1>2, <1>3 DEF Committed
<1>5. Configured' = Configured
  BY <1>1 DEF Configured
<1>6. \A m \in 0..n : \A c : OutcomeAfter(m, c)' = OutcomeAfter(m, c)
  BY <1>4, <1>5 DEF OutcomeAfter
<1>7. ASSUME n \notin splices
      PROVE  LET outcome == OutcomeAfter(n, p.command)
             IN  outcome.status = "Ok" /\ RecordOf(p, end) = Logged(outcome.records[1])
  <2>1. /\ p.tick = x.tick
        /\ w[Len(plan)] = [status |-> "Ok", state |-> state, phase_markers |-> p.phase_markers,
                           validation_summaries |-> p.validation_summaries]
    BY <1>1, <1>7 DEF AtomicInv, TickUnderWay, WorkBefore, ContextAfter
  <2>2. OutcomeAfter(n, p.command)
          = Atomic!TickEnd(Configured, [tick |-> TickSucc(s.tick), command |-> p.command], x, w[Len(plan)])
    BY <1>1, OutcomeIs, WorkUnfolds DEF Configured
  <2>3. end.tick = p.tick
    BY <1>2 DEF Snapshot
  <2> DEFINE v == w[Len(plan)]
  <2>4. /\ v.status = "Ok" /\ v.state = state /\ v.phase_markers = p.phase_markers
        /\ v.validation_summaries = p.validation_summaries
    BY <2>1
  <2> HIDE DEF v, x, p, s
  <2>5. /\ OutcomeAfter(n, p.command).status = "Ok"
        /\ Logged(OutcomeAfter(n, p.command).records[1])
             = [tick |-> x.tick, command |-> p.command, phase_markers |-> p.phase_markers,
                validation_summaries |-> p.validation_summaries, checksum |-> end,
                snapshot |-> IF ShouldCapture(snapshot_policy, x.tick) THEN <<end>> ELSE <<>>]
    BY <2>1, <2>2, <2>3, <2>4, EndIsLogged DEF v
  <2> HIDE DEF end
  <2> QED
    BY <2>1, <2>5 DEF RecordOf, Some, None
<1>8. CommittedTicksAreAtomic'
  <2> SUFFICES ASSUME NEW i \in 1..n + 1, i - 1 \notin splices
               PROVE  RecordIsAtomic(i)'
    BY <1>1, <1>3 DEF CommittedTicksAreAtomic
  <2>1. i - 1 \in 0..n
    BY <1>2
  <2>2. ASSUME NEW r, records'[i] = r,
               LET outcome == OutcomeAfter(i - 1, r.command)
               IN  outcome.status = "Ok" /\ r = Logged(outcome.records[1])
        PROVE  RecordIsAtomic(i)'
    BY <1>6, <2>1, <2>2 DEF RecordIsAtomic
  <2>3. CASE i = n + 1
    <3>1. i - 1 = n /\ RecordOf(p, end).command = p.command
      BY <1>2, <2>3 DEF RecordOf
    <3> HIDE DEF p, end
    <3> QED
      BY <1>3, <1>7, <2>2, <2>3, <3>1
  <2>4. CASE i \in 1..n
    <3>1. RecordIsAtomic(i)
      BY <2>4 DEF AtomicInv, CommittedTicksAreAtomic
    <3> QED
      BY <1>3, <2>2, <2>4, <3>1 DEF RecordIsAtomic
  <2> QED
    BY <1>2, <2>3, <2>4
<1>9. FailedTickIsAtomic'
  BY <1>1 DEF FailedTickIsAtomic, Wedged
<1>10. TickUnderWay'
  <2>1. Committed(Len(records))' = end
    BY <1>2, <1>3 DEF Committed, RecordOf
  <2> QED
    BY <1>1, <2>1 DEF TickUnderWay
<1> QED
  BY <1>8, <1>9, <1>10 DEF AtomicInv

LEMMA AtomicHostCall ==
  ASSUME TypeOK, AtomicInv, HostCall
  PROVE  AtomicInv'
<1>1. Len(records) \in Nat
  BY CommittedType
<1>2. ASSUME NEW f \in Frame, TickUnexpected(f) \/ TickWhilePending(f)
      PROVE  AtomicInv'
  BY <1>2, Untouched DEF TickUnexpected, TickWhilePending, configuration
<1>3. ASSUME NEW f \in Frame, BeginTick(f)
      PROVE  AtomicInv'
  BY <1>3, AtomicBeginTick
<1>4. CASE ManualSnapshot
  BY <1>4, Untouched DEF ManualSnapshot, configuration
<1>5. ASSUME NEW s, RestoreSnapshot(s)
      PROVE  AtomicInv'
  <2>1. CommittedTicksAreAtomic'
    BY <1>1, <1>5, RecordsUntouched DEF RestoreSnapshot, configuration, AtomicInv
  <2>2. FailedTickIsAtomic' /\ TickUnderWay'
    BY <1>5 DEF RestoreSnapshot, AtomicInv, FailedTickIsAtomic, TickUnderWay
  <2> QED
    BY <2>1, <2>2 DEF AtomicInv
<1>6. ASSUME NEW s, RestorePanics(s)
      PROVE  AtomicInv'
  <2>1. CommittedTicksAreAtomic'
    BY <1>1, <1>6, RecordsUntouched DEF RestorePanics, configuration, AtomicInv
  <2>2. FailedTickIsAtomic'
    BY <1>6 DEF RestorePanics, AtomicInv, FailedTickIsAtomic, Wedged, OutcomeAfter, Committed, Configured,
                configuration
  <2>3. TickUnderWay'
    BY <1>6 DEF RestorePanics, AtomicInv, TickUnderWay, Committed
  <2> QED
    BY <2>1, <2>2, <2>3 DEF AtomicInv
<1>7. CASE NewEngine
  <2>1. /\ records' = <<>> /\ pc' = "idle" /\ pending' = None /\ cursor' = 1
        /\ state' = [tick |-> 0, data |-> InitialData]
    BY <1>7 DEF NewEngine
  <2>2. TickUnderWay'
    BY <2>1 DEF TickUnderWay, Committed
  <2>3. FailedTickIsAtomic' /\ CommittedTicksAreAtomic'
    BY <2>1 DEF FailedTickIsAtomic, CommittedTicksAreAtomic, Wedged
  <2> QED
    BY <2>2, <2>3 DEF AtomicInv
<1> QED
  BY <1>2, <1>3, <1>4, <1>5, <1>6, <1>7 DEF HostCall

LEMMA AtomicNext ==
  ASSUME TypeOK, AtomicInv, PhasesAreFunctions, [Next]_vars
  PROVE  AtomicInv'
<1>1. CASE UNCHANGED vars
  BY <1>1, Untouched DEF vars
<1>2. CASE EngineStep
  BY <1>2, AtomicValidate, AtomicRunPhase, AtomicCompleteTick DEF EngineStep
<1>3. CASE HostCall
  BY <1>3, AtomicHostCall
<1> QED
  BY <1>1, <1>2, <1>3 DEF Next

LEMMA AtomicInvIsEnough ==
  ASSUME TypeOK, AtomicInv
  PROVE  TickIsAFunction
<1> SUFFICES ASSUME pc = "idle"
             PROVE  LET n == Len(records)
                    IN  /\ n > 0 /\ n - 1 \notin splices =>
                             LET outcome == OutcomeAfter(n - 1, records[n].command)
                             IN  outcome.status = "Ok" /\ records[n] = Logged(outcome.records[1])
                        /\ Wedged /\ n \notin splices =>
                             LET outcome == OutcomeAfter(n, The(pending).command)
                             IN  outcome.status # "Ok" /\ state = outcome.state
  BY DEF TickIsAFunction
<1>1. Len(records) \in Nat
  BY CommittedType
<1> QED
  BY <1>1 DEF AtomicInv, FailedTickIsAtomic, CommittedTicksAreAtomic, RecordIsAtomic

LEMMA AtomicInvariant ==
  ASSUME PhasesAreFunctions
  PROVE  Spec /\ []TypeOK => []AtomicInv
<1>1. Init => AtomicInv
  BY AtomicInit
<1>2. TypeOK /\ AtomicInv /\ [Next]_vars => AtomicInv'
  BY AtomicNext
<1> QED
  BY <1>1, <1>2, PTL DEF Spec

(***************************************************************************)
(* TickIsAFunction in every domain whose phases have one outcome, from the *)
(* invariant AtomicInv: a record, and the state a failed tick leaves, are  *)
(* the function AtomicTick of the committed state and the command.         *)
(***************************************************************************)
THEOREM TicksAreFunctions ==
  ASSUME PhasesAreFunctions
  PROVE  Spec /\ []TypeOK => []TickIsAFunction
<1>1. TypeOK /\ AtomicInv => TickIsAFunction
  BY AtomicInvIsEnough
<1> QED
  BY <1>1, AtomicInvariant, PTL

-----------------------------------------------------------------------------
(***************************************************************************)
(* A tick phase by phase, for proofs about a domain: the states a          *)
(* committed tick went through, and those of a failed one up to the phase  *)
(* that failed it.                                                         *)
(***************************************************************************)
\* The states of a tick from s through its first m phases, of which none failed
\* and none was followed by a state that was refused.
Executes(s, x, m, u) ==
  /\ u[0] = s
  /\ Accepts("BeforeTickBegin", x.tick, s)
  /\ \A k \in 1..m :
       LET o == Step(plan[k].name, x, u[k - 1])
       IN  /\ o.ok
           /\ u[k] = [u[k - 1] EXCEPT !.data = o.data]
           /\ \A c \in Due(CheckpointAfter(plan, k)) : Accepts(c, x.tick, u[k])

\* What a phase makes of the function's work.
LEMMA WorkAfterIs ==
  ASSUME NEW s, NEW pm, NEW vs, NEW x, NEW i
  PROVE  LET o == Step(plan[i].name, x, s)
             t == [s EXCEPT !.data = o.data]
             r == WorkAfter(s, pm, vs, x, i)
         IN  /\ r.state = t
             /\ r.status = IF ~o.ok THEN "PhaseFailed"
                           ELSE IF \A c \in Due(CheckpointAfter(plan, i)) : Accepts(c, x.tick, t)
                           THEN "Ok" ELSE "InvariantViolation"
<1> DEFINE o   == Step(plan[i].name, x, s)
           t   == [s EXCEPT !.data = o.data]
           due == Due(CheckpointAfter(plan, i))
           run == [status |-> "Ok", state |-> t, phase_markers |-> Append(pm, plan[i]),
                   validation_summaries |-> vs]
<1>1. WithSummaries(run, due, t).status = "Ok" /\ WithSummaries(run, due, t).state = t
  BY DEF WithSummaries
<1> QED
  BY <1>1 DEF WorkAfter

LEMMA ExecutesTo ==
  ASSUME Len(plan) \in Nat, NEW s, NEW x, NEW m \in 0..Len(plan),
         WorkOf(Configured, s, x)[m].status = "Ok"
  PROVE  Executes(s, x, m, [k \in 0..m |-> WorkOf(Configured, s, x)[k].state])
<1> DEFINE w == WorkOf(Configured, s, x)
           u == [k \in 0..m |-> w[k].state]
<1>1. Configured.plan = plan
  BY DEF Configured
<1>2. ASSUME NEW k \in 0..m
      PROVE  w[k].status = "Ok"
  <2> SUFFICES ASSUME w[k].status # "Ok"
               PROVE  FALSE
    OBVIOUS
  <2>1. k \in 0..Len(plan) /\ m \in k..Len(plan)
    OBVIOUS
  <2>2. w[m] = w[k]
    BY <1>1, <2>1, FailedStays
  <2> HIDE DEF w
  <2> QED
    BY <2>2 DEF w
<1>3. u[0] = s /\ Accepts("BeforeTickBegin", x.tick, s)
  <2>1. w[0] = FirstWork(Configured, s, x) /\ 0 \in 0..m
    BY <1>1, WorkUnfolds
  <2>2. w[0].status = "Ok"
    BY <1>2, <2>1
  <2> HIDE DEF w
  <2> QED
    BY <2>1, <2>2, FirstWorkIs
<1>4. ASSUME NEW k \in 1..m
      PROVE  LET o == Step(plan[k].name, x, u[k - 1])
             IN  /\ o.ok
                 /\ u[k] = [u[k - 1] EXCEPT !.data = o.data]
                 /\ \A c \in Due(CheckpointAfter(plan, k)) : Accepts(c, x.tick, u[k])
  <2>1. k - 1 \in 0..m /\ k \in 0..m /\ k \in 1..Len(plan)
    OBVIOUS
  <2>2. w[k] = NextWork(Configured, x, k, w[k - 1])
    BY <1>1, <2>1, WorkUnfolds
  <2>3. w[k - 1].status = "Ok" /\ w[k].status = "Ok"
    BY <1>2, <2>1
  <2>4. u[k - 1] = w[k - 1].state /\ u[k] = w[k].state
    BY <2>1
  <2> HIDE DEF u, w
  <2>5. w[k] = WorkAfter(u[k - 1], w[k - 1].phase_markers, w[k - 1].validation_summaries, x, k)
    BY <2>2, <2>3, <2>4, NextWorkIs
  <2> QED
    BY <2>3, <2>4, <2>5, WorkAfterIs
<1> HIDE DEF u
<1>5. Executes(s, x, m, u)
  BY <1>3, <1>4 DEF Executes
<1> QED
  BY <1>5 DEF u

LEMMA EndState ==
  ASSUME NEW frame, NEW x, NEW w, w.status = "Ok"
  PROVE  LET r == Atomic!TickEnd(Configured, frame, x, w).records[1]
         IN  Logged(r).tick = x.tick /\ Logged(r).checksum = [w.state EXCEPT !.tick = x.tick]
BY DEF Atomic!TickEnd, Logged

\* The states a committed tick went through.
LEMMA CommittedSteps ==
  ASSUME TypeOK, AtomicInv, NEW i \in 1..Len(records), i - 1 \notin splices
  PROVE  LET s == Committed(i - 1)
             x == ContextAfter(s, records[i].command)
         IN  /\ records[i].tick = x.tick
             /\ \E u : /\ Executes(s, x, Len(plan), u)
                       /\ records[i].checksum = [u[Len(plan)] EXCEPT !.tick = x.tick]
<1> DEFINE c == records[i].command
           s == Committed(i - 1)
           x == ContextAfter(s, c)
           m == Len(plan)
           w == WorkOf(Configured, s, x)
           v == w[m]
           u == [k \in 0..m |-> w[k].state]
<1>1. m \in Nat /\ Configured.plan = plan
  BY PlanType DEF TypeOK, Configured
<1>2. OutcomeAfter(i - 1, c).status = "Ok" /\ records[i] = Logged(OutcomeAfter(i - 1, c).records[1])
  BY DEF AtomicInv, CommittedTicksAreAtomic, RecordIsAtomic
<1>3. OutcomeAfter(i - 1, c)
        = Atomic!TickEnd(Configured, [tick |-> TickSucc(s.tick), command |-> c], x, v)
  BY <1>1, OutcomeIs, WorkUnfolds
<1>4. u[m] = v.state
  BY <1>1
<1> HIDE DEF w, u
<1>5. v.status = "Ok"
  <2> HIDE DEF v, x, s
  <2> QED
    BY <1>2, <1>3 DEF Atomic!TickEnd
<1>6. Executes(s, x, m, u)
  BY <1>1, <1>5, ExecutesTo DEF w, u
<1>7. records[i].tick = x.tick /\ records[i].checksum = [v.state EXCEPT !.tick = x.tick]
  <2> DEFINE outcome == Atomic!TickEnd(Configured, [tick |-> TickSucc(s.tick), command |-> c], x, v)
  <2> HIDE DEF v, x, s, c
  <2>1. /\ Logged(outcome.records[1]).tick = x.tick
        /\ Logged(outcome.records[1]).checksum = [v.state EXCEPT !.tick = x.tick]
    BY <1>5, EndState
  <2> HIDE DEF outcome
  <2>2. records[i] = Logged(outcome.records[1])
    BY <1>2, <1>3 DEF outcome
  <2> QED
    BY <2>1, <2>2
<1> QED
  BY <1>4, <1>6, <1>7

\* The states of a failed tick, up to the one that it left.
LEMMA FailedSteps ==
  ASSUME TypeOK, AtomicInv, Wedged, Len(records) \notin splices
  PROVE  LET s == Committed(Len(records))
             x == ContextAfter(s, The(pending).command)
         IN  \/ state = s /\ ~Accepts("BeforeTickBegin", x.tick, s)
             \/ \E u : \E k \in 1..Len(plan) :
                  LET o == Step(plan[k].name, x, u[k - 1])
                  IN  /\ Executes(s, x, k - 1, u)
                      /\ state = [u[k - 1] EXCEPT !.data = o.data]
                      /\ \/ ~o.ok /\ result # "InvariantViolation"
                         \/ /\ o.ok
                            /\ \E c \in Due(CheckpointAfter(plan, k)) : ~Accepts(c, x.tick, state)
<1> DEFINE n == Len(records)
           q == The(pending)
           s == Committed(n)
           x == ContextAfter(s, q.command)
           m == Len(plan)
           w == WorkOf(Configured, s, x)
           S == {k \in 0..m : w[k].status # "Ok"}
<1>1. m \in Nat /\ Configured.plan = plan
  BY PlanType DEF TypeOK, Configured
<1>2. /\ OutcomeAfter(n, q.command).status # "Ok"
      /\ state = OutcomeAfter(n, q.command).state
      /\ result \in {OutcomeAfter(n, q.command).status, "UnexpectedInputTick", "ReplayLifecycle"}
  BY DEF AtomicInv, FailedTickIsAtomic
<1>3. OutcomeAfter(n, q.command)
        = Atomic!TickEnd(Configured, [tick |-> TickSucc(s.tick), command |-> q.command], x, w[m])
  BY <1>1, OutcomeIs, WorkUnfolds
<1>4. w[m].status # "Ok"
  <2> DEFINE v == w[m]
  <2> HIDE DEF v, x, s, q
  <2> QED
    BY <1>2, <1>3 DEF Atomic!TickEnd, v
<1>5. PICK k \in S : \A j \in S : k <= j
  <2>1. S \subseteq Nat /\ m \in S
    BY <1>1, <1>4
  <2> HIDE DEF S
  <2> QED
    BY <2>1, LeastNatural
<1>6. k \in 0..m /\ w[k].status # "Ok"
  BY <1>5
<1>7. OutcomeAfter(n, q.command) = [status |-> w[k].status, state |-> w[k].state, records |-> <<>>]
  BY <1>1, <1>6, FailedOutcome
<1>8. state = w[k].state /\ (result = "InvariantViolation" => w[k].status = "InvariantViolation")
  <2> HIDE DEF w, x, s, q
  <2> QED
    BY <1>2, <1>7
<1>9. CASE k = 0
  <2>1. w[0] = FirstWork(Configured, s, x)
    BY <1>1, WorkUnfolds
  <2> HIDE DEF w, x, s, q
  <2>2. state = s /\ ~Accepts("BeforeTickBegin", x.tick, s)
    BY <1>6, <1>8, <1>9, <2>1, FirstWorkIs
  <2> QED
    BY <2>2 DEF x, s, q
<1>10. CASE k # 0
  <2> DEFINE u == [j \in 0..k - 1 |-> w[j].state]
             o == Step(plan[k].name, x, u[k - 1])
  <2>1. k \in 1..m /\ k - 1 \in 0..m /\ k - 1 \in 0..k - 1 /\ ~(k <= k - 1)
    BY <1>6, <1>10
  <2>2. w[k - 1].status = "Ok"
    BY <1>5, <2>1
  <2>3. Executes(s, x, k - 1, u)
    BY <1>1, <2>1, <2>2, ExecutesTo
  <2>4. w[k] = NextWork(Configured, x, k, w[k - 1])
    BY <1>1, <2>1, WorkUnfolds
  <2>5. u[k - 1] = w[k - 1].state
    BY <2>1
  <2> HIDE DEF u, w
  <2>6. w[k] = WorkAfter(u[k - 1], w[k - 1].phase_markers, w[k - 1].validation_summaries, x, k)
    BY <2>2, <2>4, <2>5, NextWorkIs
  <2>7. /\ state = [u[k - 1] EXCEPT !.data = o.data]
        /\ w[k].status = IF ~o.ok THEN "PhaseFailed"
                         ELSE IF \A c \in Due(CheckpointAfter(plan, k)) : Accepts(c, x.tick, state)
                         THEN "Ok" ELSE "InvariantViolation"
    BY <1>8, <2>6, WorkAfterIs
  <2>8. \/ ~o.ok /\ result # "InvariantViolation"
        \/ o.ok /\ \E c \in Due(CheckpointAfter(plan, k)) : ~Accepts(c, x.tick, state)
    BY <1>6, <1>8, <2>7
  <2> QED
    BY <2>1, <2>3, <2>7, <2>8
<1> QED
  BY <1>9, <1>10
=============================================================================
