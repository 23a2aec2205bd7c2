------------------------- MODULE MCSimulationEngine -------------------------
(***************************************************************************)
(* A state of three values, two systems that both draw, of which the one   *)
(* that runs later may throw half-way, and durations that end behind the   *)
(* second tick.  One adapter reads the payloads of the other, which are of  *)
(* an earlier version, one claims a version it does not support, one fails. *)
(***************************************************************************)
EXTENDS SimulationEngine

MCData == 0..2

MCSystems == {[phase |-> "PostUpdate", name |-> "late"], [phase |-> "Update", name |-> "early"]}

\* The draw from the source of a step in its n-th state; its states repeat.
MCDraws == {0, 1}

Draw(seed, n) == (seed[1] + seed[2] + n) % 2

MCRun(name, ctx, s) ==
  LET drawn == Draw(ctx.step_seed, s.draws)
  IN  IF name = "early" THEN [ok |-> TRUE, data |-> (s.data + 1 + drawn) % 3, draws |-> 1 - s.draws]
      ELSE [ok |-> ~(ctx.input = "risky" /\ drawn = 0), data |-> (2 * s.data + drawn) % 3, draws |-> 1 - s.draws]

MCAdapters == {"first", "second", "pretender", "failing"}

MCPayloadVersion(a) == CASE a = "first" -> 1 [] a = "failing" -> 3 [] OTHER -> 2

MCSupports(a, v) ==
  CASE a = "first"     -> IF v = 1 THEN "yes" ELSE "no"
    [] a = "second"    -> IF v \in {1, 2} THEN "yes" ELSE "no"
    [] a = "pretender" -> "no"
    [] a = "failing"   -> IF v = 1 THEN "throws" ELSE "yes"

\* Payloads of version 2 are written the other way round.
Written(v, d) == IF v = 2 THEN 2 - d ELSE d

MCCapturePayload(a, d) == IF a = "failing" /\ d = 2 THEN None ELSE Some(Written(MCPayloadVersion(a), d))

MCRestoreData(a, payload, v) == IF a = "failing" THEN None ELSE Some(Written(v, payload))

\* What an engine of this configuration could have captured after the first tick, what
\* differs from it in one field, and a tick that cannot be represented.
CapturedAt(t) == [tick |-> t, elapsed |-> 2 * t, seed |-> 1, state |-> [data |-> 1, last_completed_tick |-> t]]

Genuine == CapturedAt(1)

MCSnapshots ==
  {Genuine, [Genuine EXCEPT !.elapsed = 3], [Genuine EXCEPT !.seed = 2],
   [Genuine EXCEPT !.state.last_completed_tick = 0], CapturedAt(3)}

MCBoundaries ==
  LET Of(s, e, v) == [metadata |-> [MetadataOf(s) EXCEPT !.engine_version = e], payload_version |-> v, payload |-> 1]
  IN  {Of(s, 1, 1) : s \in MCSnapshots} \cup {Of(Genuine, e, v) : e \in {1, 2}, v \in {1, 2}}

MCImported ==
  {Given("snapshot", s, None) : s \in MCSnapshots} \cup {Given("boundary", b, None) : b \in MCBoundaries}

\* For the run of the trace: one foreign snapshot and no adapter.
FewImported == {Given("snapshot", Genuine, None)}

NoAdapters == {}
=============================================================================
