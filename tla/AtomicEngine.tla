---------------------------- MODULE AtomicEngine ----------------------------
(***************************************************************************)
(* DeterministicEngine in a domain whose phases have one outcome, as those *)
(* of the repository's domains do, next to the function that AtomicTick    *)
(* makes of a whole tick.                                                  *)
(***************************************************************************)
EXTENDS DeterministicEngine

CONSTANT Step(_, _, _)     \* phase name, [tick, tick_seed, command], state -> [ok, data]

Atomic == INSTANCE AtomicTick

\* The engine's configuration; its seed is left out here.
Configured ==
  [seed |-> 0, plan |-> plan, validation_policy |-> validation_policy,
   snapshot_policy |-> snapshot_policy]

\* What a phase of the tick after state s is told of it.
ContextAfter(s, c) ==
  [tick |-> TickSucc(s.tick), tick_seed |-> Atomic!TickSeed(0, TickSucc(s.tick)), command |-> c]

\* What a tick of command c comes to after n records, all at once.
OutcomeAfter(n, c) ==
  LET s == Committed(n)
  IN  Atomic!TickOutcome(Configured, s, [tick |-> TickSucc(s.tick), command |-> c])

\* What DeterministicEngine keeps of a record.
Logged(r) ==
  [tick |-> r.tick, command |-> r.input.command, phase_markers |-> r.phase_markers,
   validation_summaries |-> r.validation_summaries, checksum |-> r.checksum,
   snapshot |-> IF r.snapshot = <<>> THEN <<>> ELSE <<r.snapshot[1].payload>>]

\* Phase::run has one outcome, and it is the one that Step says.
PhasesAreFunctions ==
  \A n \in Names, t \in 0..MaxTick, s \in Snapshot, c \in Commands :
    Run(n, t, s, c) = {Step(n, [tick |-> t, tick_seed |-> Atomic!TickSeed(0, t), command |-> c], s)}

(***************************************************************************)
(* A tick is a function of the committed state and its command: the record *)
(* it leaves -- digests, checksum and snapshot included -- and, if it      *)
(* fails, the half executed state do not depend on what the host did in    *)
(* between, on earlier engines or on calls that were refused.  Replay      *)
(* verification rests on it (persistence/mod.rs:1025).                     *)
(***************************************************************************)
TickIsAFunction ==
  pc = "idle" =>
    LET n == Len(records)
    IN  /\ n > 0 /\ n - 1 \notin splices =>
             LET outcome == OutcomeAfter(n - 1, records[n].command)
             IN  outcome.status = "Ok" /\ records[n] = Logged(outcome.records[1])
        /\ Wedged /\ n \notin splices =>
             LET outcome == OutcomeAfter(n, The(pending).command)
             IN  outcome.status # "Ok" /\ state = outcome.state
=============================================================================
