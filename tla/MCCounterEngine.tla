--------------------------- MODULE MCCounterEngine ---------------------------
(***************************************************************************)
(* A counter of two entities, with i64 cut down to -8..7 and u64 to 0..5,  *)
(* whose commands can drive it past each limit, in both directions, and    *)
(* whose velocity and value can saturate within a few ticks.               *)
(***************************************************************************)
EXTENDS CounterEngine

MCConfig ==
  [initial_value         |-> 0,
   initial_velocity      |-> -1,
   initial_entities      |-> <<[value |-> 2, velocity |-> 1]>>,
   max_abs_value         |-> 5,
   max_abs_velocity      |-> 6,
   max_abs_pending_delta |-> 5]

MCEntropyAt(t) == IF t % 2 = 0 THEN 2 ELSE 5

MCCommands ==
  {[delta |-> 2, consume_entropy |-> TRUE], [delta |-> -4, consume_entropy |-> TRUE],
   [delta |-> 6, consume_entropy |-> FALSE]}

MCSnapshotPolicies == {[kind |-> "Every", interval |-> 2]}

\* A snapshot that lists an entity twice.
MCImported == {[tick |-> 1, data |-> [FromConfig EXCEPT !.entities[2].id = 1]]}
=============================================================================
