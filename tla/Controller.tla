------------------------------ MODULE Controller ------------------------------
(***************************************************************************)
(* The master: Controller (src/src/task/controller.cc) driven by the loops *)
(* of src/src/master_main.cc.  For each algorithm the nodes reopen their   *)
(* bandwidth file; for each round of it the nodes load a row of the file,  *)
(* as the algorithm itself has done, and the round's groups of tasks are   *)
(* delivered, one thread per node, and waited for one after the other.     *)
(*                                                                         *)
(* What an algorithm finds is given: for each round the groups, for each   *)
(* group the routes of its tasks.  A round without a group is one whose    *)
(* capacity is below min_bw.                                               *)
(***************************************************************************)
EXTENDS Links

CONSTANT Program \* algorithms.txt: [alg, rid, rounds]

Alg == DOMAIN Program
RoundsOf(a) == Program[a].rounds

VARIABLES mpc,       \* where main is
          alg,       \* AlgLoader::cur_num_
          round,     \* cur_ of the algorithm's BandwidthSolver, or TaskReader's cur_num_
          gid,       \* i of DoTaskGroups
          next,      \* the node a loop over the nodes has come to
          cur_tid_, waits_,
          delivered, \* tasks each deliver thread is done with
          ending     \* whether it has yet to record the node in waits_

masterVars == <<mpc, alg, round, gid, next, cur_tid_, waits_, delivered, ending>>

MasterInit == /\ mpc = "algorithm" /\ alg = 0 /\ round = 0 /\ gid = 0 /\ next = 1
              /\ cur_tid_ = 0 /\ waits_ = <<>>
              /\ delivered = [n \in Node |-> 0]
              /\ ending = [n \in Node |-> FALSE]

ThisAlg == Program[alg]
Groups == RoundsOf(alg)[round]
Group == Groups[gid]
task_num_ == Len(Group)

-----------------------------------------------------------------------------
(* ChangeAlg: a new TaskReader, or a RouteCalculator with its file opened. *)
ChangeAlg ==
  /\ mpc = "algorithm" /\ alg < Len(Program)
  /\ mpc' = "reload"
  /\ alg' = alg + 1
  /\ round' = 0
  /\ UNCHANGED <<gid, next, cur_tid_, waits_, delivered, ending, links>>

(* A loop that sends rt to every node, in state now; then, in state after. *)
SendLoop(now, rt, after) ==
  /\ mpc = now
  /\ Send(next, <<Task(rt)>>)
  /\ next' = (next % N) + 1
  /\ mpc' = IF next = N THEN after ELSE now
  /\ UNCHANGED <<alg, round, gid, cur_tid_, waits_, delivered, ending, toMaster>>

(* A loop that receives a message from every node.                         *)
ReceiveLoop(now, after) ==
  /\ mpc = now
  /\ toMaster[next] # <<>>
  /\ toMaster' = [toMaster EXCEPT ![next] = Tail(@)]
  /\ next' = (next % N) + 1
  /\ mpc' = IF next = N THEN after ELSE now
  /\ UNCHANGED <<alg, round, gid, cur_tid_, waits_, delivered, ending, toNode>>

ReloadNodeBandwidth == \/ SendLoop("reload", Rt(0, 0, 0, 1, 0, 1, 0), "reloading")
                       \/ ReceiveLoop("reloading", "route")

(* Seeded fault: a row is set only if a task will run under it. *)
GetTasksSparing ==
  /\ mpc = "route"
  /\ round' = round + 1
  /\ gid' = 1
  /\ mpc' = IF round = Len(RoundsOf(alg)) THEN "algorithm"
            ELSE IF ThisAlg.alg = "t" \/ RoundsOf(alg)[round + 1] = <<>> THEN "group" ELSE "set"
  /\ UNCHANGED <<alg, next, cur_tid_, waits_, delivered, ending, links>>

(* GetTasks, and the two lines of main that depend on what it returns.     *)
GetTasks ==
  /\ mpc = "route"
  /\ round' = round + 1
  /\ gid' = 1
  /\ mpc' = IF round = Len(RoundsOf(alg)) THEN "algorithm"
            ELSE IF ThisAlg.alg = "t" THEN "group" ELSE "set"
  /\ UNCHANGED <<alg, next, cur_tid_, waits_, delivered, ending, links>>

SetNewNodeBandwidth ==
  \/ SendLoop("set", Rt(0, 0, 0, 0, 0, 1, IF next = ThisAlg.rid THEN 0 ELSE 1), "setting")
  \/ ReceiveLoop("setting", "group")

-----------------------------------------------------------------------------
(* DoTaskGroups: the head of its loop, with the threads started.           *)
BeginGroup ==
  /\ mpc = "group"
  /\ mpc' = IF gid > Len(Groups) THEN "route" ELSE "deliver"
  /\ delivered' = [n \in Node |-> 0]
  /\ UNCHANGED <<alg, round, gid, next, cur_tid_, waits_, ending, links>>

(* FillTask of the task delivered[n] + 1, and what is sent for it: one     *)
(* order of the sources stands for those of the algorithms.                *)
RtFor(n) ==
  LET route == Group[delivered[n] + 1]
  IN Rt(cur_tid_ + delivered[n], Cardinality(SourcesOf(route, n)), route[n], 0, 1, 1, 0)
Messages(n) ==
  LET sources == SourcesOf(Group[delivered[n] + 1], n)
  IN <<Task(RtFor(n))>> \o
     [i \in 1 .. Cardinality(sources) |-> Source(SetToSeq(sources)[i])]

(* One turn of the loop of DeliverTasks_: the thread is the only one that  *)
(* sends to its node, so that its sends are one step.                      *)
DeliverTask(n) ==
  LET route == Group[delivered[n] + 1] IN
  /\ mpc = "deliver" /\ ~ending[n] /\ delivered[n] < task_num_
  /\ IF n \in DOMAIN route
     THEN /\ Send(n, Messages(n))
          /\ ending' = [ending EXCEPT ![n] = route[n] = n]
          /\ delivered' = IF route[n] = n THEN delivered
                          ELSE [delivered EXCEPT ![n] = @ + 1]
     ELSE /\ delivered' = [delivered EXCEPT ![n] = @ + 1]
          /\ UNCHANGED <<toNode, ending>>
  /\ UNCHANGED <<mpc, alg, round, gid, next, cur_tid_, waits_, toMaster>>

(* Seeded fault: a node is waited for once, however many tasks end there.  *)
RecordOnce(n) ==
  /\ ending[n]
  /\ waits_' = IF n \in ToSet(waits_) THEN waits_ ELSE Append(waits_, n)
  /\ ending' = [ending EXCEPT ![n] = FALSE]
  /\ delivered' = [delivered EXCEPT ![n] = @ + 1]
  /\ UNCHANGED <<mpc, alg, round, gid, next, cur_tid_, links>>

(* waits_.push_back under mtx_.                                            *)
RecordWait(n) ==
  /\ ending[n]
  /\ waits_' = Append(waits_, n)
  /\ ending' = [ending EXCEPT ![n] = FALSE]
  /\ delivered' = [delivered EXCEPT ![n] = @ + 1]
  /\ UNCHANGED <<mpc, alg, round, gid, next, cur_tid_, links>>

Join ==
  /\ mpc = "deliver"
  /\ \A n \in Node : delivered[n] = task_num_
  /\ mpc' = "wait"
  /\ UNCHANGED <<alg, round, gid, next, cur_tid_, waits_, delivered, ending, links>>

(* One turn of the loop of WaitForFinish_; the entries of waits_ that are  *)
(* done with are not looked at again.                                      *)
ReceiveFinish ==
  /\ mpc = "wait" /\ waits_ # <<>>
  /\ toMaster[Head(waits_)] # <<>>
  /\ toMaster' = [toMaster EXCEPT ![Head(waits_)] = Tail(@)]
  /\ waits_' = Tail(waits_)
  /\ UNCHANGED <<mpc, alg, round, gid, next, cur_tid_, delivered, ending, toNode>>

(* Seeded fault: the ids of the next group are those of this one. *)
EndGroupSameIds ==
  /\ mpc = "wait" /\ waits_ = <<>>
  /\ mpc' = "group"
  /\ gid' = gid + 1
  /\ UNCHANGED <<alg, round, next, cur_tid_, waits_, delivered, ending, links>>

EndGroup ==
  /\ mpc = "wait" /\ waits_ = <<>>
  /\ mpc' = "group"
  /\ gid' = gid + 1
  /\ cur_tid_' = cur_tid_ + task_num_
  /\ UNCHANGED <<alg, round, next, waits_, delivered, ending, links>>

(* al.LoadNext() is over; Close tells the nodes.                           *)
LastAlg == /\ mpc = "algorithm" /\ alg = Len(Program)
           /\ mpc' = "close"
           /\ UNCHANGED <<alg, round, gid, next, cur_tid_, waits_, delivered, ending, links>>
Close == SendLoop("close", Rt(0, 0, 0, 0, 0, 0, 0), "closed")

Main == \/ ChangeAlg \/ ReloadNodeBandwidth \/ GetTasks \/ SetNewNodeBandwidth
        \/ BeginGroup \/ Join \/ ReceiveFinish \/ EndGroup \/ LastAlg \/ Close
DeliverTasks(n) == DeliverTask(n) \/ RecordWait(n)
=============================================================================
