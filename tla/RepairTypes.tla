----------------------------- MODULE RepairTypes -----------------------------
(***************************************************************************)
(* The records that travel through a node (src/src/util/types.hh,          *)
(* src/src/util/memory_pool.cc).  Task ids, node ids and offsets are kept; *)
(* coefficients, bandwidths and delays, which only scale bytes and times,  *)
(* are not.                                                                *)
(***************************************************************************)
EXTENDS Integers

RepairTask(Task, Node) ==
  [task_id : Task, src_num : Nat, tar_id : Node,
   offset : Nat, size : Nat \ {0}, piece_size : Nat \ {0}]

ReceiveTask(Task, Node) == [rt : RepairTask(Task, Node), src_id : Node]

(* MemoryPool::Get is pointer arithmetic: the cell of an (id, offset) pair *)
(* is the same one whoever asks for it and for whatever task.              *)
Get(id, offset) == <<id, offset>>
Cell(Node) == Node \X Nat
nullptr == <<>>

DataPiece(Task, Node) ==
  [task_id : Task, offset : Nat, size : Nat,
   buf : Cell(Node) \cup {nullptr}, tar_id : Nat, src_num : Nat]

(* What a source cuts a task into, and sends to its target piece by piece. *)
PiecesOf(rt) ==
  {[task_id |-> rt.task_id, offset |-> rt.offset + k * rt.piece_size,
    size |-> IF rt.size - k * rt.piece_size < rt.piece_size
             THEN rt.size - k * rt.piece_size ELSE rt.piece_size]
     : k \in {n \in 0 .. rt.size : n * rt.piece_size < rt.size}}

(* The three forms of a DataPiece, types.hh:43-50. *)
Info(rt) == [task_id |-> rt.task_id, offset |-> 0, size |-> rt.size,
             buf |-> nullptr, tar_id |-> 0, src_num |-> 0]

Local(rt, offset, size, buf) ==
  [task_id |-> rt.task_id, offset |-> offset, size |-> size,
   buf |-> buf, tar_id |-> rt.tar_id, src_num |-> rt.src_num]

Network(task_id, offset, size, buf) ==
  [task_id |-> task_id, offset |-> offset, size |-> size,
   buf |-> buf, tar_id |-> 0, src_num |-> 0]
=============================================================================
