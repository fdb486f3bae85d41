----------------------------- MODULE RepairSystem -----------------------------
(***************************************************************************)
(* The master and the nodes together.  Main, the deliver threads, GetTaks  *)
(* of each node and its stages run concurrently; each connection is read   *)
(* by one thread of the node, but written by GetTaks and by a thread of    *)
(* ProceedProcessor, whose messages look the same to the master.           *)
(***************************************************************************)
EXTENDS Controller, Repairer

(* Routes are trees: whoever takes part, its sums come to the root.        *)
Route == {route \in UNION {[D -> D] : D \in SUBSET Node \ {{}}} :
            \E root \in DOMAIN route : /\ route[root] = root
              /\ \A S \in SUBSET DOMAIN route \ {{}} :
                   (\A n \in S : route[n] \in S) => root \in S}

(* Algorithms other than the task reader read the nodes' bandwidth file,   *)
(* and find a round for each of its rows.                                  *)
ASSUME ProgramAssumption ==
  /\ Program \in Seq([alg : STRING, rid : Nat, rounds : Seq(Seq(Seq(Route) \ {<<>>}))])
  /\ \A a \in Alg : Program[a].alg # "t" => Len(RoundsOf(a)) = BwNum

vars == <<masterVars, nodeVars, links>>

Init == MasterInit /\ NodeInit /\ LinksInit

Next == \/ Main /\ UNCHANGED nodeVars
        \/ \E n \in Node : \/ DeliverTasks(n) /\ UNCHANGED nodeVars
                           \/ (GetTaks(n) \/ Stages(n)) /\ UNCHANGED masterVars

(* Every thread is scheduled.                                              *)
Spec == /\ Init /\ [][Next]_vars
        /\ WF_vars(Main /\ UNCHANGED nodeVars)
        /\ \A n \in Node : /\ WF_vars(DeliverTasks(n) /\ UNCHANGED nodeVars)
                           /\ WF_vars(GetTaks(n) /\ UNCHANGED masterVars)
                           /\ WF_vars(Stages(n) /\ UNCHANGED masterVars)

-----------------------------------------------------------------------------
TaskIds == 0 .. cur_tid_ + (IF mpc \in {"deliver", "wait"} THEN task_num_ ELSE 0)
Rts == [task_id : TaskIds, src_num : 0 .. N, tar_id : 0 .. N, offset : 0 .. 1, size : 0 .. 1,
        piece_size : 0 .. 1, bandwidth : 0 .. 1]

(* Every variable, message and local keeps its range; rows and task ids    *)
(* stay within what the file and the groups have.                          *)
TypeOK ==
  /\ toNode \in [Node -> Seq({Task(r) : r \in Rts} \cup {Source(s) : s \in Node})]
  /\ toMaster \in [Node -> Seq(Node)]
  /\ mpc \in {"algorithm", "reload", "reloading", "route", "set", "setting", "group",
              "deliver", "wait", "close", "closed"}
  /\ alg \in 0 .. Len(Program) /\ round \in Nat /\ gid \in Nat /\ next \in Node
  /\ cur_tid_ \in Nat /\ waits_ \in Seq(Node)
  /\ delivered \in [Node -> Nat] /\ ending \in [Node -> BOOLEAN]
  /\ gpc \in [Node -> {"task", "sources", "ended", "exited"}]
  /\ rt \in [Node -> Rts \cup {NoTask}]
  /\ left \in [Node -> 0 .. N]
  /\ cur_ \in [Node -> 0 .. BwNum]
  /\ speed \in [Node -> 0 .. BwNum]
  /\ waiting \in [Node -> SUBSET Rts] /\ parts \in [Node -> SUBSET Rts]
  /\ known \in [Node -> SUBSET (TaskIds \X Node)]
  /\ heard \in [Node -> SUBSET (TaskIds \X Node)]
  /\ stored \subseteq TaskIds

InHand(n) == waiting[n] \cup parts[n]

(* GetTaks never takes a source id for a task, nor the reverse: what       *)
(* DeliverTasks_ sends and what repairer.cc:72-78 reads agree in number.   *)
InStep == \A n \in Node : toNode[n] # <<>> =>
  /\ gpc[n] = "task" => Head(toNode[n]).kind = "rt"
  /\ gpc[n] = "sources" => Head(toNode[n]).kind = "src"
  /\ gpc[n] # "ended"

(* While a node works for an algorithm that chose the routes from a row of *)
(* the bandwidth file, its own speed is that of the same row, or the full  *)
(* one where the task ends: the file is read twice, row by row, by the     *)
(* master and by each node, and nothing but their order keeps them level.  *)
RowsAgree == \A n \in Node :
  /\ gpc[n] # "exited"
  /\ InHand(n) # {} /\ ThisAlg.alg # "t" =>
       speed[n] = IF n = ThisAlg.rid THEN Full ELSE round

(* No node has a task of a group in hand while the master is elsewhere, or *)
(* with the tasks of another group: a node that only sends is not waited   *)
(* for, its parents' sums are.                                             *)
GroupsApart == \A n \in Node :
  /\ InHand(n) # {} => mpc \in {"deliver", "wait"}
  /\ \A t \in InHand(n) : t.task_id \in cur_tid_ .. cur_tid_ + task_num_ - 1

(* For every entry of waits_ there is a message, or a task that will send  *)
(* one: two loops receive from the same connection, bandwidth messages and *)
(* ends of tasks, and neither takes what the other waits for.              *)
Ending(n) == {t \in InHand(n) : t.tar_id = n}
Coming(n) == {i \in DOMAIN toNode[n] : toNode[n][i].kind = "rt" /\ toNode[n][i].rt.size > 0
                                       /\ toNode[n][i].rt.tar_id = n}
Waits(n) == {i \in DOMAIN waits_ : waits_[i] = n}
WaitsMatched == \A n \in Node :
  /\ mpc = "wait" => Cardinality(Waits(n)) =
                       Cardinality(Coming(n)) + Cardinality(Ending(n)) + Len(toMaster[n])
  /\ mpc \notin {"deliver", "wait"} =>
       Len(toMaster[n]) <= (IF mpc \in {"reloading", "setting"} /\ n < next THEN 0 ELSE 1)

(* The tasks of the groups that are over are stored where they end: the    *)
(* master counts a group as done by messages without contents, one for     *)
(* each entry of waits_, and never asks which task a message is about.     *)
AllStored == 0 .. cur_tid_ - 1 \subseteq stored

-----------------------------------------------------------------------------
(* All groups, by algorithm, round and place in it, in their order; main   *)
(* is at Here.                                                             *)
AllGroups == UNION {UNION {{<<a, r, g>> : g \in DOMAIN RoundsOf(a)[r]}
                          : r \in DOMAIN RoundsOf(a)} : a \in Alg}
Earlier(p, q) == \/ p[1] < q[1]
                 \/ p[1] = q[1] /\ p[2] < q[2]
                 \/ p[1] = q[1] /\ p[2] = q[2] /\ p[3] < q[3]
Here == <<alg, round, gid>>
HasBegun(p) == Earlier(p, Here) \/ (p = Here /\ mpc \in {"deliver", "wait"})

Session == INSTANCE RepairSession WITH
  Sizes <- [p \in AllGroups |-> Len(RoundsOf(p[1])[p[2]][p[3]])],
  Precedes <- {pq \in AllGroups \X AllGroups : Earlier(pq[1], pq[2])},
  begun <- {p \in AllGroups : HasBegun(p)},
  open <- IF mpc \in {"deliver", "wait"}
          THEN {k \in 1 .. task_num_ : cur_tid_ + k - 1 \notin stored} ELSE {}

(* The groups are repaired one after another, each task once, and all in   *)
(* the end, whatever the nodes' and threads' speeds.                       *)
ImplementsSession == Session!Spec

(* Main returns, and the nodes with it, none with a task in hand.          *)
AllEnd == <>[](mpc = "closed" /\ \A n \in Node : gpc[n] = "ended" /\ InHand(n) = {})
=============================================================================
