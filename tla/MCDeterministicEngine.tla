----------------------- MODULE MCDeterministicEngine ------------------------
(***************************************************************************)
(* DeterministicEngine over an arbitrary small domain: a phase may turn    *)
(* the state into any other one, or fail half-way; the validator refuses   *)
(* one of the states at every checkpoint but AfterInputApplied.  It does   *)
(* not look at the tick, as a NoopStateValidator does not, so that ticks   *)
(* are also committed when the clock saturates.                            *)
(***************************************************************************)
EXTENDS DeterministicEngine

Phase(g, i) == [group |-> g, insertion_order |-> i, name |-> "p"]

\* Registered out of group order, and with two Simulation phases.
Interleaved == <<Phase("Simulation", 0), Phase("Finalize", 1), Phase("Simulation", 2)>>

\* No phase of the Finalize group, and none of the Simulation group.
Unfinished == <<Phase("PostSimulation", 0), Phase("Input", 1), Phase("PreInput", 2)>>

TwoFinalize == <<Phase("Finalize", 0), Phase("Finalize", 1)>>

MCPlans == {VisitOrder(s) : s \in {Interleaved, Unfinished, TwoFinalize, <<>>}}

MCSnapshotPolicies == {[kind |-> "Never", interval |-> 0], [kind |-> "Every", interval |-> 2]}

MCData == {"a", "b", "bad"}

MCRun(name, t, s, c) == [ok : {TRUE}, data : MCData] \cup [ok : {FALSE}, data : {"b"}]

ASSUME MCRunAssumption == PhasesKeepTypes

MCAccepts(c, t, s) == c = "AfterInputApplied" \/ s.data # "bad"

MCRestorable(s) == s.data # "bad"

\* A snapshot taken by another run, one tick before the clock saturates.
MCImported == {[tick |-> MaxTick - 1, data |-> "a"]}
=============================================================================
