--------------------------- MODULE EngineContract ---------------------------
(***************************************************************************)
(* What a host may rely on when it calls a DeterministicEngine, without    *)
(* phases, validation or pending records: a tick either commits as a whole *)
(* or fails for good; a failed engine can be restored, inspected and       *)
(* replaced, but commits nothing more; the log only grows.                 *)
(***************************************************************************)
EXTENDS Integers, Sequences

CONSTANTS
  MaxTick,    \* the tick at which the clock saturates
  Commands    \* the commands of input frames

VARIABLES
  clock,      \* the tick of the authoritative state
  log,        \* the committed ticks with their commands
  status      \* "open", or "failed" once a tick has failed

vars == <<clock, log, status>>

Init ==
  /\ clock = 0
  /\ log = <<>>
  /\ status = "open"

Commit(c) ==
  /\ status = "open"
  /\ clock' = IF clock < MaxTick THEN clock + 1 ELSE MaxTick
  /\ log' = Append(log, [tick |-> clock', command |-> c])
  /\ UNCHANGED status

Fail ==
  /\ status = "open"
  /\ status' = "failed"
  /\ UNCHANGED <<clock, log>>

Restore(t) ==
  /\ clock' = t
  /\ UNCHANGED <<log, status>>

Replace == clock' = 0 /\ log' = <<>> /\ status' = "open"

Next ==
  \/ \E c \in Commands : Commit(c)
  \/ Fail
  \/ \E t \in 0..MaxTick : Restore(t)
  \/ Replace

Spec == Init /\ [][Next]_vars
=============================================================================
