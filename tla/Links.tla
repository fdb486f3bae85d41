-------------------------------- MODULE Links --------------------------------
(***************************************************************************)
(* The TCP connections between the master (id 0) and the nodes, and what   *)
(* goes over them: to a node RepairTask records, each followed by the ids  *)
(* of its sources; to the master short messages without contents, which    *)
(* only count (src/src/task/controller.cc, src/src/repair/repairer.cc).    *)
(* The route of a task maps each node that takes part in it to the node it *)
(* sends its sums to; the node where the task ends is mapped to itself.    *)
(***************************************************************************)
EXTENDS Naturals, SequencesExt

CONSTANT N \* total - 1

ASSUME NAssumption == N \in Nat \ {0}

Node == 1 .. N

VARIABLES toNode,  \* tis[n] of the master, read by the node
          toMaster \* tis[0] of node n, read by the master

links == <<toNode, toMaster>>

(* A RepairTask without coefficient, sizes and offset as 0 or more than 0. *)
Rt(task_id, src_num, tar_id, offset, size, piece_size, bandwidth) ==
  [task_id |-> task_id, src_num |-> src_num, tar_id |-> tar_id, offset |-> offset,
   size |-> size, piece_size |-> piece_size, bandwidth |-> bandwidth]

Task(rt) == [kind |-> "rt", rt |-> rt]
Source(s) == [kind |-> "src", src_id |-> s]

(* What FillTask puts in src_ids.                                          *)
SourcesOf(route, n) == {s \in DOMAIN route : s # n /\ route[s] = n}

LinksInit == /\ toNode = [n \in Node |-> <<>>]
             /\ toMaster = [n \in Node |-> <<>>]

Send(n, messages) == toNode' = [toNode EXCEPT ![n] = @ \o messages]
=============================================================================
