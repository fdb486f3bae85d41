-------------------------- MODULE MCComputeProcessor --------------------------
(* Node 1.  Mixed: task 1 adds what nodes 2 and 3 send to the node's own   *)
(* block, so that buffers are swapped twice, and task 2 ends at node 1 in  *)
(* two pieces, so that sum grows in steps.  Small: two sources each.       *)
(* The sizes are in pieces.                                                *)
EXTENDS ComputeProcessor, TLC

TaskOf(k, target, from, bytes, helpers) ==
  [rt |-> [task_id |-> k, src_num |-> Cardinality(helpers) + 1, tar_id |-> target,
           offset |-> from, size |-> bytes, piece_size |-> 1], sources |-> helpers]

Mixed == {TaskOf(1, 3, 0, 1, {2, 3}), TaskOf(2, 1, 1, 2, {2})}
Small == {TaskOf(1, 3, 0, 2, {2}), TaskOf(2, 1, 2, 1, {3})}

(* Tasks 2 and 3 of src/src/repair/test/repairer_test.cc:74-96 at node 2.  *)
Simultaneous == {TaskOf(2, 2, 0, 1, {1, 3}), TaskOf(3, 1, 0, 1, {3})}
=============================================================================
