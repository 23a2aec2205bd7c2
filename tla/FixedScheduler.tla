--------------------------- MODULE FixedScheduler ---------------------------
(***************************************************************************)
(* FixedScheduler of rust/src/scheduler/mod.rs while the host registers    *)
(* phases.  Once it is handed to the engine it no longer changes, so the   *)
(* only operation that changes its state is add_phase.                     *)
(***************************************************************************)
EXTENDS Integers, Sequences, FiniteSets, PhaseOrder

CONSTANTS
  Names,      \* the names Phase::name() can return; two phases may share one
  MaxPhases   \* model bound: registrations made before the engine is built

ASSUME MaxPhasesAssumption == MaxPhases \in Nat

VARIABLES
  phases,                \* Vec<PhaseEntry>
  next_insertion_order   \* usize

vars == <<phases, next_insertion_order>>

Init ==
  /\ phases = <<>>
  /\ next_insertion_order = 0

\* A mutant of AddPhase: the new entry goes to the front of the vector.
AddPhaseFirst(g, n) ==
  /\ Len(phases) < MaxPhases
  /\ phases' = <<[group |-> g, insertion_order |-> next_insertion_order, name |-> n]>> \o phases
  /\ next_insertion_order' = next_insertion_order + 1

AddPhase(g, n) ==
  /\ Len(phases) < MaxPhases
  /\ phases' = Append(phases, [group |-> g, insertion_order |-> next_insertion_order, name |-> n])
  /\ next_insertion_order' = next_insertion_order + 1

Next == \E g \in PhaseGroup, n \in Names : AddPhase(g, n)

Spec == Init /\ [][Next]_vars

-----------------------------------------------------------------------------
(***************************************************************************)
(* The engine walks the phases with visit_phases and looks up where it is  *)
(* in phase_plan() by position (engine/mod.rs:252,276), although the two   *)
(* walks are written separately: they have to agree entry by entry.        *)
(***************************************************************************)
PlanMatchesVisit == PhasePlan(phases) = VisitOrder(phases)

(***************************************************************************)
(* Phases run group by group, and inside a group in registration order,    *)
(* however the registrations were interleaved: the k-th registration ends  *)
(* up behind exactly those of an earlier group and the earlier ones of its *)
(* own group, so adding a phase never reorders the phases already there.   *)
(***************************************************************************)
GroupedAndStable ==
  LET plan == PhasePlan(phases)
      Ahead(k) == {j \in 1..Len(phases) :
                     \/ GroupRank(phases[j].group) < GroupRank(phases[k].group)
                     \/ phases[j].group = phases[k].group /\ j < k}
  IN  /\ Len(plan) = Len(phases)
      /\ \A k \in 1..Len(phases) :
           plan[Cardinality(Ahead(k)) + 1] =
             [ordinal |-> Cardinality(Ahead(k)), group |-> phases[k].group, name |-> phases[k].name]
=============================================================================
