-------------------------- MODULE MCProceedProcessor --------------------------
(* Node 1 with two queues: a group of two tasks that both go on to node 2, *)
(* or of one that goes on and one that ends here, then a task that ends    *)
(* here and has to wait for a queue.  The sizes are in pieces.             *)
EXTENDS ProceedProcessor, TLC

TaskTo(k, target, from, bytes) ==
  [task_id |-> k, src_num |-> 2, tar_id |-> target, offset |-> from, size |-> bytes,
   piece_size |-> 1]

Sending == <<{TaskTo(1, 2, 0, 2), TaskTo(2, 2, 2, 2)}, {TaskTo(3, 1, 0, 2)}>>
Ending  == <<{TaskTo(1, 2, 0, 1), TaskTo(2, 1, 1, 2)}, {TaskTo(3, 1, 0, 1)}>>
Single  == <<{TaskTo(1, 1, 0, 2)}>>
=============================================================================
