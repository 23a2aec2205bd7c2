----------------------------- MODULE PhaseOrder -----------------------------
(***************************************************************************)
(* The order in which a scheduler runs the phases registered with it       *)
(* (rust/src/scheduler/mod.rs).  A registration is a record                *)
(* [group, insertion_order, name]; a scheduler is the sequence of its      *)
(* registrations; a plan is a sequence of descriptors                      *)
(* [ordinal, group, name], the PhaseDescriptor of the source, which is     *)
(* also what a replay log stores as a phase marker.                        *)
(***************************************************************************)
EXTENDS NaturalSets

\* PhaseGroup::ALL, the order of the groups inside a tick.
AllGroups == <<"PreInput", "Input", "Simulation", "PostSimulation", "Finalize">>

PhaseGroup == {AllGroups[i] : i \in 1..5}

GroupRank(g) == CHOOSE i \in 1..5 : AllGroups[i] = g

\* The registrations of one group, in the order of the vector that holds them.
Members(phases, g) == Chosen(phases, {i \in 1..Len(phases) : phases[i].group = g})

\* sort_by_key: by insertion_order, entries of one key as they stand.
Sorted(es) ==
  LET Ahead(i) == {j \in 1..Len(es) :
                     \/ es[j].insertion_order < es[i].insertion_order
                     \/ es[j].insertion_order = es[i].insertion_order /\ j < i}
  IN  [n \in 1..Len(es) |-> es[CHOOSE i \in 1..Len(es) : Cardinality(Ahead(i)) = n - 1]]

\* Numbers a sequence of registrations 0, 1, 2... as both walks of the source do.
Numbered(es) ==
  [i \in 1..Len(es) |-> [ordinal |-> i - 1, group |-> es[i].group, name |-> es[i].name]]

\* The loop over PhaseGroup::ALL, with what it takes from each group.
GroupByGroup(taken) == taken[1] \o taken[2] \o taken[3] \o taken[4] \o taken[5]

\* FixedScheduler::visit_phases: the groups in order, inside a group the vector's order.
VisitOrder(phases) ==
  Numbered(GroupByGroup([i \in 1..5 |-> Members(phases, AllGroups[i])]))

\* A mutant of PhasePlan: sorted by insertion_order alone.
PhasePlanUngrouped(phases) == Numbered(Sorted(phases))

\* FixedScheduler::phase_plan: inside a group, sorted by insertion_order.
PhasePlan(phases) ==
  Numbered(GroupByGroup([i \in 1..5 |-> Sorted(Members(phases, AllGroups[i]))]))
=============================================================================
