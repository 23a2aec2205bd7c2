----------------------------- MODULE TickRules ------------------------------
(***************************************************************************)
(* The rules of a tick that do not depend on the domain: which tick comes  *)
(* next, when a snapshot is captured, and which checkpoint follows a phase *)
(* (rust/src/engine/mod.rs, rust/src/validation/mod.rs).                   *)
(***************************************************************************)
EXTENDS Integers, Sequences

CONSTANT MaxTick     \* u64::MAX, where saturating_add stops

ASSUME TickAssumption == MaxTick \in Nat
-----------------------------------------------------------------------------
\* An Option is a sequence of at most one element.
None    == <<>>
Some(x) == <<x>>
The(o)  == o[1]

\* A mutant of TickSucc: wrapping_add(1).
TickSuccWraps(t) == (t + 1) % (MaxTick + 1)

\* saturating_add(1).
TickSucc(t) == IF t < MaxTick THEN t + 1 ELSE MaxTick

Checkpoints ==
  {"BeforeTickBegin", "AfterInputApplied", "AfterSimulationGroup", "AfterFinalize"}

\* A mutant of ShouldValidate: the tick boundary is only where a tick begins.
ShouldValidateOnce(policy, c) == policy = "EveryPhase" \/ c = "BeforeTickBegin"

\* A mutant of ShouldValidate: both policies validate the boundaries only.
ShouldValidateBoundary(policy, c) == c \in {"BeforeTickBegin", "AfterFinalize"}

\* ValidationPolicy::should_validate.
ShouldValidate(policy, c) ==
  policy = "EveryPhase" \/ c \in {"BeforeTickBegin", "AfterFinalize"}

\* SnapshotPolicy::should_capture.
ShouldCapture(policy, t) ==
  /\ policy.kind = "Every"
  /\ policy.interval # 0
  /\ t % policy.interval = 0

\* A mutant of CheckpointAfter: it does not look at the group of the next phase.
CheckpointAfterEvery(p, i) ==
  CASE p[i].group = "Input"      -> {"AfterInputApplied"}
    [] p[i].group = "Simulation" -> {"AfterSimulationGroup"}
    [] p[i].group = "Finalize"   -> {"AfterFinalize"}
    [] OTHER                     -> {}

\* The checkpoint that follows the i-th phase of a plan, if any: the visitor of
\* run_scheduler_phases looks at the group of this phase and of the next one.
CheckpointAfter(p, i) ==
  LET group == p[i].group
      last  == i = Len(p) \/ p[i + 1].group # group
  IN  CASE group = "Input" /\ last      -> {"AfterInputApplied"}
        [] group = "Simulation" /\ last -> {"AfterSimulationGroup"}
        [] group = "Finalize"           -> {"AfterFinalize"}
        [] OTHER                        -> {}

\* A digest is the data it is computed from.
Summary(c, s) == [checkpoint |-> c, state_tick |-> s.tick, state_digest |-> s.data]

\* record_validation for the at most one checkpoint of cs.
WithSummaries(p, cs, s) ==
  IF cs = {} THEN p
  ELSE [p EXCEPT !.validation_summaries = Append(@, Summary(CHOOSE c \in cs : TRUE, s))]
=============================================================================
