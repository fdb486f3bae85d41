----------------------------- MODULE TaskReader -----------------------------
(***************************************************************************)
(* Tasks that are read instead of computed, the algorithm 't'              *)
(* (src/src/task/task_reader.cc).  The file is a sequence of tokens: the   *)
(* number of groups, for each group the number of its tasks, for each task *)
(* six numbers, the last of them the length of the list of pairs, a node   *)
(* and its target, that follows.  A reader is a record of the members;     *)
(* task_file_ is what is left of the file.                                 *)
(***************************************************************************)
EXTENDS Tokens, TLC

NewReader == [task_file_ |-> <<>>, group_num_ |-> 0, cur_num_ |-> 0,
              task_infos_ |-> <<>>, capacity_ |-> 0]

(* The constructor. *)
OpenTasks(file) == [NewReader EXCEPT !.group_num_ = file[1], !.task_file_ = After(file, 1)]

(* One turn of the loop of lines 28-39.                                    *)
LoadTask(r) == LET f == r.task_file_ IN
  [r EXCEPT !.task_file_ = After(f, 6 + 2 * f[6]),
            !.capacity_ = @ + f[5],
            !.task_infos_ = Append(@,
              [task_id |-> f[1], offset |-> f[2], size |-> f[3], piece_size |-> f[4],
               bandwidth |-> f[5],
               node_tasks |-> [j \in 1 .. f[6] |-> [node_id |-> f[5 + 2 * j],
                                                    tar_id |-> f[6 + 2 * j]]]])]

(* GetNextGroupNumber: kMaxGroupNum is returned when NoGroup.              *)
NextGroup(r) ==
  IF r.cur_num_ + 1 > r.group_num_ THEN [r EXCEPT !.cur_num_ = @ + 1]
  ELSE LET task_num_ == r.task_file_[1]
           start == [r EXCEPT !.cur_num_ = @ + 1, !.capacity_ = 0, !.task_infos_ = <<>>,
                              !.task_file_ = After(@, 1)]
       IN FoldLeft(LAMBDA s, i : LoadTask(s), start, [i \in 1 .. task_num_ |-> i])
NoGroup(r) == r.cur_num_ > r.group_num_

tar_id(task, node_id) ==
  LET targets == SelectSeq(task.node_tasks, LAMBDA nt : nt.node_id = node_id)
  IN IF targets = <<>> THEN 0 ELSE Last(targets).tar_id

(* Seeded fault: the node where a task ends is a source of its own. *)
srcsWithSelf(task, node_id) ==
  SelectSeq(task.node_tasks, LAMBDA nt : nt.tar_id = node_id)

srcs(task, node_id) ==
  SelectSeq(task.node_tasks, LAMBDA nt : nt.node_id # node_id /\ nt.tar_id = node_id)
src_ids(task, node_id) ==
  [k \in DOMAIN srcs(task, node_id) |-> srcs(task, node_id)[k].node_id]

(* FillTask, on a rt that has the tid, size and psize of the Controller.   *)
FillTask(task, node_id) ==
  [tar_id |-> tar_id(task, node_id), src_num |-> Len(src_ids(task, node_id))] @@
  IF tar_id(task, node_id) = 0 THEN [size |-> 0]
  ELSE [offset |-> task.offset, size |-> task.size, piece_size |-> task.piece_size,
        bandwidth |-> task.bandwidth]
=============================================================================
