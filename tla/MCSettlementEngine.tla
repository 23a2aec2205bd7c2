------------------------- MODULE MCSettlementEngine -------------------------
(***************************************************************************)
(* A settlement of two workers where wood outgrows the store, either       *)
(* resource or both run short, and every total reaches i64::MAX, cut down  *)
(* to 7, within four ticks.                                                *)
(***************************************************************************)
EXTENDS SettlementEngine

Workforce(f, l) == [farmers |-> f, loggers |-> l]

MCConfig ==
  [population                  |-> 2,
   initial                     |-> [Food |-> 3, Wood |-> 1],
   initial_allocation          |-> Workforce(1, 0),
   yield                       |-> [Food |-> 2, Wood |-> 3],
   food_consumption_per_worker |-> 1,
   wood_consumption_per_tick   |-> 2,
   max_inventory               |-> 5]

Assign(a) == [kind |-> "SetWorkerAllocation", allocation |-> a]

\* Keep on, all into the forest, nobody works, and one worker too many.
MCCommands ==
  {[kind |-> "Hold", allocation |-> NoWorkers],
   Assign(Workforce(0, 2)), Assign(NoWorkers), Assign(Workforce(2, 1))}

MCSnapshotPolicies == {[kind |-> "Never", interval |-> 0]}

\* A snapshot that was tampered with: its status hides a shortage.
MCImported == {[tick |-> 1, data |-> [FromConfig EXCEPT !.last_shortage["Wood"] = 1]]}
=============================================================================
