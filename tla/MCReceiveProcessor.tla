-------------------------- MODULE MCReceiveProcessor --------------------------
(* Node 1 with two threads.  Task 1 is loaded and forwarded to node 3 with *)
(* what nodes 2 and 3 send for it; task 2 ends at node 1 and is helped by  *)
(* node 2 only.  Sizes and piece sizes differ, the last pieces are short,  *)
(* and the pieces of task 2 are longer than all of task 1, so that         *)
(* remains_ falls below 0 when one of them is read early.                  *)
EXTENDS ReceiveProcessor, TLC, FiniteSets

rt1 == [task_id |-> 1, src_num |-> 3, tar_id |-> 3, offset |-> 0, size |-> 3, piece_size |-> 2]
rt2 == [task_id |-> 2, src_num |-> 2, tar_id |-> 1, offset |-> 4, size |-> 5, piece_size |-> 4]

TwoTasks == << [rt |-> rt1, src_id |-> 1], [rt |-> rt1, src_id |-> 2],
               [rt |-> rt1, src_id |-> 3], [rt |-> rt2, src_id |-> 1],
               [rt |-> rt2, src_id |-> 2] >>

(* Six nodes and a single task, in which node 5 helps node 6.              *)
rt3 == [task_id |-> 1, src_num |-> 2, tar_id |-> 6, offset |-> 0, size |-> 2, piece_size |-> 2]
OneTask == << [rt |-> rt3, src_id |-> 6], [rt |-> rt3, src_id |-> 5] >>

(* The memory pool has a block for every buffer the stage uses, when it has*)
(* as many as config.py:16 asks for, more than three times the number of   *)
(* tasks.                                                                  *)
mem_num == 3 * Cardinality(Task) + 1
InPool == \A d \in out : d.buf # nullptr => d.buf[1] < mem_num
=============================================================================
