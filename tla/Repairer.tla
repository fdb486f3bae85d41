------------------------------- MODULE Repairer -------------------------------
(***************************************************************************)
(* The nodes: the loop of GetTaks (src/src/repair/repairer.cc), and the    *)
(* three stages behind it, of which only this is kept: a node's part in a  *)
(* task begins with a queue of ProceedProcessor, and is over when the node *)
(* has been told of all its sources and these have finished their parts;   *)
(* then the parent, or the master, hears of it.                            *)
(***************************************************************************)
EXTENDS Links

CONSTANTS BwNum,   \* bw_num_, rows of the bandwidth file
          Queues,  \* proc_thr_num
          NoTask

ASSUME RepairerAssumption == BwNum \in Nat /\ Queues \in Nat \ {0}

VARIABLES gpc,     \* what GetTaks receives next, "task" or "sources", or how it ended
          rt,      \* its local variable
          left,    \* sources it has yet to receive
          cur_,    \* of bs_, the row last loaded
          speed,   \* what SetBandwidth last did: a row, or Full
          waiting, \* tasks pushed to the stages, without a queue
          parts,   \* tasks with a queue
          known,   \* <<task, source>> pushed to ReceiveProcessor
          heard,   \* <<task, source>> all of whose pieces are here
          stored   \* tasks stored where they end

stageVars == <<waiting, parts, known, heard, stored>>
nodeVars == <<gpc, rt, left, cur_, speed, stageVars>>

Full == 0 \* not a row

NodeInit == /\ gpc = [n \in Node |-> "task"]
            /\ rt = [n \in Node |-> NoTask]
            /\ left = [n \in Node |-> 0]
            /\ cur_ = [n \in Node |-> 0]
            /\ speed = [n \in Node |-> Full]
            /\ waiting = [n \in Node |-> {}]
            /\ parts = [n \in Node |-> {}]
            /\ known = [n \in Node |-> {}]
            /\ heard = [n \in Node |-> {}]
            /\ stored = {}

Take(n) == toNode' = [toNode EXCEPT ![n] = Tail(@)]
Tell(n) == toMaster' = [toMaster EXCEPT ![n] = Append(@, n)]

-----------------------------------------------------------------------------
Means(r) == IF r.size > 0 THEN "task"
            ELSE IF r.piece_size = 0 THEN "end"
            ELSE IF r.offset > 0 THEN "reload" ELSE "set"

Message(n, meaning) ==
  /\ gpc[n] = "task" /\ toNode[n] # <<>>
  /\ Head(toNode[n]).kind = "rt"
  /\ Means(Head(toNode[n]).rt) = meaning
  /\ Take(n)

End(n) == /\ Message(n, "end")
          /\ gpc' = [gpc EXCEPT ![n] = "ended"]
          /\ UNCHANGED <<rt, left, cur_, speed, stageVars, toMaster>>

(* bs_.Open. *)
Reopen(n) == /\ Message(n, "reload")
             /\ cur_' = [cur_ EXCEPT ![n] = 0]
             /\ Tell(n)
             /\ UNCHANGED <<gpc, rt, left, speed, stageVars>>

(* bs_.LoadNext and SetBandwidth; the node exits when there is no row.     *)
LoadRow(n) ==
  /\ Message(n, "set")
  /\ cur_' = [cur_ EXCEPT ![n] = @ + 1]
  /\ IF cur_[n] + 1 > BwNum
     THEN gpc' = [gpc EXCEPT ![n] = "exited"] /\ UNCHANGED <<speed, toMaster>>
     ELSE /\ speed' = [speed EXCEPT ![n] = IF Head(toNode[n]).rt.bandwidth = 0 THEN Full
                                           ELSE cur_[n] + 1]
          /\ Tell(n)
          /\ UNCHANGED gpc
  /\ UNCHANGED <<rt, left, stageVars>>

ReceiveTaskWith(n, sources) ==
  /\ Message(n, "task")
  /\ rt' = [rt EXCEPT ![n] = Head(toNode[n]).rt]
  /\ left' = [left EXCEPT ![n] = sources]
  /\ gpc' = [gpc EXCEPT ![n] = IF sources = 0 THEN "task" ELSE "sources"]
  /\ waiting' = [waiting EXCEPT ![n] = @ \cup {Head(toNode[n]).rt}]
  /\ UNCHANGED <<cur_, speed, parts, known, heard, stored, toMaster>>

(* Seeded fault: src_num counts the node itself, and so does the loop. *)
ReceiveTaskOneMore(n) == ReceiveTaskWith(n, Head(toNode[n]).rt.src_num + 1)

(* {rt, id_} is pushed to the stages; src_num then counts the node itself, *)
(* and the loop starts at 1.                                               *)
ReceiveTask(n) == ReceiveTaskWith(n, Head(toNode[n]).rt.src_num)

ReceiveSource(n) ==
  /\ gpc[n] = "sources" /\ toNode[n] # <<>> /\ Head(toNode[n]).kind = "src"
  /\ Take(n)
  /\ known' = [known EXCEPT ![n] = @ \cup {<<rt[n].task_id, Head(toNode[n]).src_id>>}]
  /\ left' = [left EXCEPT ![n] = @ - 1]
  /\ gpc' = [gpc EXCEPT ![n] = IF left[n] = 1 THEN "task" ELSE "sources"]
  /\ UNCHANGED <<rt, cur_, speed, waiting, parts, heard, stored, toMaster>>

-----------------------------------------------------------------------------
AdmitBelow(n, limit) == \E t \in waiting[n] :
  /\ Cardinality(parts[n]) < limit
  /\ waiting' = [waiting EXCEPT ![n] = @ \ {t}]
  /\ parts' = [parts EXCEPT ![n] = @ \cup {t}]
  /\ UNCHANGED <<gpc, rt, left, cur_, speed, known, heard, stored, links>>

(* Seeded fault: the last queue is never given to a task. *)
AdmitOneLess(n) == AdmitBelow(n, Queues - 1)

(* The info piece reaches ProceedProcessor, and there is a queue.          *)
Admit(n) == AdmitBelow(n, Queues)

Ready(n, t) ==
  LET of == {x \in known[n] : x[1] = t.task_id}
  IN Cardinality(of) = t.src_num /\ of \subseteq heard[n]

(* The parts of told are those whose end the master hears of.              *)
FinishTelling(n, told) == \E t \in parts[n] :
  /\ Ready(n, t)
  /\ parts' = [parts EXCEPT ![n] = @ \ {t}]
  /\ known' = [known EXCEPT ![n] = {x \in @ : x[1] # t.task_id}]
  /\ LET rest == [heard EXCEPT ![n] = {x \in @ : x[1] # t.task_id}]
     IN IF t.tar_id = n
        THEN stored' = stored \cup {t.task_id} /\ heard' = rest
        ELSE /\ heard' = [rest EXCEPT ![t.tar_id] = @ \cup {<<t.task_id, n>>}]
             /\ UNCHANGED stored
  /\ IF t \in told THEN Tell(n) ELSE UNCHANGED toMaster
  /\ UNCHANGED <<gpc, rt, left, cur_, speed, waiting, toNode>>

(* Seeded fault: a node that has sent its last sum tells the master, too. *)
FinishLoudly(n) == FinishTelling(n, parts[n])

(* The last sum is stored and the master told, or it is sent on.           *)
Finish(n) == FinishTelling(n, {t \in parts[n] : t.tar_id = n})

GetTaks(n) == \/ End(n) \/ Reopen(n) \/ LoadRow(n) \/ ReceiveTask(n) \/ ReceiveSource(n)
Stages(n) == Admit(n) \/ Finish(n)
=============================================================================
