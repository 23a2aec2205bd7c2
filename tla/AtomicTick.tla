---------------------------- MODULE AtomicTick ------------------------------
(***************************************************************************)
(* A whole call of DeterministicEngine::tick (rust/src/engine/mod.rs) as   *)
(* one function of the engine's configuration, its state and the input     *)
(* frame: what a caller sees that does not look between two phases.  It    *)
(* exists only for domains whose phases are deterministic, as those of the *)
(* repository are; AtomicEngine states that the engine computes it.        *)
(***************************************************************************)
EXTENDS TickRules

CONSTANTS
  Step(_, _, _),     \* phase name, [tick, tick_seed, command], state -> [ok, data]
  Accepts(_, _, _)   \* checkpoint, tick, state -> StateValidator::validate returns Ok

\* core::tick_seed: a hash of the two, taken as injective.
TickSeed(seed, t) == <<seed, t>>

\* run_validation_checkpoint, for the at most one checkpoint of cs.
Validated(work, policy, cs, t) ==
  LET due == {c \in cs : ShouldValidate(policy, c)}
  IN  IF \A c \in due : Accepts(c, t, work.state)
      THEN WithSummaries(work, due, work.state)
      ELSE [work EXCEPT !.status = "InvariantViolation"]

\* One round of the visitor of run_scheduler_phases, for the i-th phase of the plan.
AfterPhase(work, engine, i, ctx) ==
  LET outcome == Step(engine.plan[i].name, ctx, work.state)
      run     == [status               |-> "Ok",
                  state                |-> [work.state EXCEPT !.data = outcome.data],
                  phase_markers        |-> Append(work.phase_markers, engine.plan[i]),
                  validation_summaries |-> work.validation_summaries]
  IN  IF outcome.ok
      THEN Validated(run, engine.validation_policy, CheckpointAfter(engine.plan, i), ctx.tick)
      ELSE [run EXCEPT !.status = "PhaseFailed"]

\* A tick up to its last phase, or to the error that ends it.
Work(engine, state, ctx) ==
  LET begun == [status |-> "Ok", state |-> state, phase_markers |-> <<>>, validation_summaries |-> <<>>]
      work[i \in 0..Len(engine.plan)] ==
        IF i = 0 THEN Validated(begun, engine.validation_policy, {"BeforeTickBegin"}, ctx.tick)
        ELSE IF work[i - 1].status = "Ok" THEN AfterPhase(work[i - 1], engine, i, ctx)
        ELSE work[i - 1]
  IN  work[Len(engine.plan)]

SnapshotRecord(reason, s) ==
  [metadata |-> [source_tick |-> s.tick, capture_checksum |-> s], reason |-> reason, payload |-> s]

PolicyInterval(policy) == [kind |-> "PolicyInterval", interval |-> policy.interval]

\* A mutant of PolicySnapshot: the payload is taken before the tick is advanced.
PolicySnapshotStale(policy, before, after) ==
  IF ShouldCapture(policy, after.tick)
  THEN Some([SnapshotRecord(PolicyInterval(policy), after) EXCEPT !.payload = before])
  ELSE None

\* The snapshot the policy asks for at the end of a tick.
PolicySnapshot(policy, before, after) ==
  IF ShouldCapture(policy, after.tick) THEN Some(SnapshotRecord(PolicyInterval(policy), after)) ELSE None

\* What a tick that has run its phases, or failed in one, leaves and returns.
TickEnd(engine, frame, ctx, work) ==
  LET end == [work.state EXCEPT !.tick = ctx.tick]
  IN  IF work.status # "Ok"
      THEN [status |-> work.status, state |-> work.state, records |-> <<>>]
      ELSE [status  |-> "Ok",
            state   |-> end,
            records |-> << [tick                 |-> ctx.tick,
                            input                |-> frame,
                            tick_seed            |-> ctx.tick_seed,
                            phase_markers        |-> work.phase_markers,
                            validation_summaries |-> work.validation_summaries,
                            checksum             |-> end,
                            snapshot             |-> PolicySnapshot(engine.snapshot_policy, work.state, end)] >>]

(***************************************************************************)
(* tick(frame): what it returns, the state it leaves and, if it returns    *)
(* Ok, the record it appends.  An engine is [seed, plan,                   *)
(* validation_policy, snapshot_policy].                                    *)
(***************************************************************************)
TickOutcome(engine, state, frame) ==
  LET t   == TickSucc(state.tick)
      ctx == [tick |-> t, tick_seed |-> TickSeed(engine.seed, t), command |-> frame.command]
  IN  IF frame.tick # t
      THEN [status |-> "UnexpectedInputTick", state |-> state, records |-> <<>>]
      ELSE TickEnd(engine, frame, ctx, Work(engine, state, ctx))
=============================================================================
