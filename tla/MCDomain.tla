------------------------------ MODULE MCDomain ------------------------------
(***************************************************************************)
(* Runs of up to three ticks in a domain whose state is a small number: a  *)
(* command adds to it, the simulation draws from the tick's seed, and the  *)
(* validator refuses what has become too large, at once or only when the   *)
(* tick ends.                                                              *)
(***************************************************************************)
EXTENDS Integers, Sequences, PhaseOrder

Phase(g, n, i) == [group |-> g, insertion_order |-> i, name |-> n]

MCPlan == VisitOrder(<<Phase("Finalize", "finalize", 0), Phase("Input", "input", 1), Phase("Simulation", "draw", 2)>>)

\* Two phases of the Finalize group.
TwoFinalizePlan == VisitOrder(<<Phase("Input", "input", 0), Phase("Finalize", "finalize", 1), Phase("Finalize", "finalize", 2)>>)

Draw(seed) == (seed[1] * seed[2]) % 2

MCStep(name, ctx, s) ==
  [ok   |-> ~(name = "input" /\ s.data = 0 /\ ctx.command = 3),
   data |-> CASE name = "input"    -> s.data + ctx.command
              [] name = "draw"     -> s.data + Draw(ctx.tick_seed)
              [] name = "finalize" -> s.data]

MCAccepts(c, t, s) == s.tick = t - 1 /\ (c = "AfterFinalize" => s.data <= 4)

MCData == {0, 1, 9}

MCRestorable(s) == s.data # 9

Config(d, kind, interval, policy) ==
  [initial_data |-> d, snapshot_policy |-> [kind |-> kind, interval |-> interval], validation_policy |-> policy]

MCConfigs == {Config(0, "Every", 1, "EveryPhase"), Config(0, "Every", 2, "TickBoundary"), Config(1, "Never", 0, "TickBoundary")}

Frames(cs) == [i \in 1..Len(cs) |-> [tick |-> i, command |-> cs[i]]]

\* Runs of consecutive ticks that succeed or fail in each of them, and one that
\* leaves a tick out.
MCInputs ==
  {Frames(cs) : cs \in {<<>>, <<1, 1, 1>>, <<3, 1>>, <<1, 3>>, <<1>>}} \cup {<<[tick |-> 2, command |-> 1]>>}
=============================================================================
