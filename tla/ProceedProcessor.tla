--------------------------- MODULE ProceedProcessor ---------------------------
(***************************************************************************)
(* The last stage of a node: queues of one thread each that store the sums *)
(* of the tasks that end here and send the others on                       *)
(* (src/src/repair/procs/proceed_processor.cc).                            *)
(*                                                                         *)
(* Distribute gives a task a queue of its own until the thread of that     *)
(* queue has seen as many bytes as the task's info piece announces; the    *)
(* map and the list of free queues are protected by mtxs_[0], the choice   *)
(* of a queue and the push to it are not one step.  mtxs_[p] is held while *)
(* the four fields of a piece are sent to p.                               *)
(*                                                                         *)
(* When the master has closed, node_main destroys the Repairer: the stages *)
(* go in their order, each joined before the next, and this one closes the *)
(* file before it joins its threads.                                       *)
(***************************************************************************)
EXTENDS Sequences, FiniteSets, RepairTypes

CONSTANTS id, Node, Task,
          QueueN,  \* thr_n: queues, each of them with one thread
          Pusher,  \* the threads of ComputeProcessor
          Waves,   \* the tasks this node takes part in, a sequence of sets:
                   \* the master starts a group when the one before is done
          NoData, NoQueue

ASSUME IdAssumption == Node \subseteq Nat \ {0} /\ id \in Node
ASSUME QueueAssumption == QueueN \in Nat \ {0} /\ NoQueue \notin Nat
ASSUME WavesAssumption ==
  /\ Waves \in Seq(SUBSET RepairTask(Task, Node)) \ {<<>>}
  /\ \A i, j \in DOMAIN Waves : \A r \in Waves[i], s \in Waves[j] :
       r.task_id = s.task_id => i = j /\ r = s

Queue == 0 .. QueueN - 1
Peer == Node \ {id}

Tasks == UNION {Waves[i] : i \in DOMAIN Waves}
Sum(rt, x) == [task_id |-> rt.task_id, offset |-> x.offset, size |-> x.size,
               buf |-> Get(0, x.offset), tar_id |-> rt.tar_id, src_num |-> 0]
Sums(rt) == {Sum(rt, x) : x \in PiecesOf(rt)}
Items == {Info(rt) : rt \in Tasks} \cup UNION {Sums(rt) : rt \in Tasks}
ASSUME NoDataAssumption == NoData \notin Items

VARIABLES wave, coming,      \* the group under way, and what ComputeProcessor
                             \* has yet to take up
          closing,           \* how far the destruction of the Repairer is
          ppc, pdata, pqid,  \* the callers of PushData
          data_queue,        \* of each WaitingQueue
          task_threads_, free_threads_, sizes_,
          pc, data, fields,  \* per queue: control point, argument, fields sent
          mtxs_,             \* who holds mtxs_[p], for the peers
          wire, stored, acks \* what was sent to peers, to the file, to the master

pushVars == <<wave, coming, closing, ppc, pdata, pqid>>
threadVars == <<pc, data, fields>>
vars == <<pushVars, data_queue, task_threads_, free_threads_, sizes_, threadVars,
          mtxs_, wire, stored, acks>>

ItemsOf(w) == {Info(rt) : rt \in w} \cup UNION {Sums(rt) : rt \in w}

Init == /\ wave = 1 /\ coming = ItemsOf(Waves[1])
        /\ closing = "no"
        /\ ppc = [p \in Pusher |-> "idle"]
        /\ pdata = [p \in Pusher |-> NoData]
        /\ pqid = [p \in Pusher |-> NoQueue]
        /\ data_queue = [q \in Queue |-> <<>>]
        /\ task_threads_ = [k \in Task |-> NoQueue]
        /\ free_threads_ = [i \in 1 .. QueueN |-> i - 1]
        /\ sizes_ = [q \in Queue |-> 0]
        /\ pc = [q \in Queue |-> "idle"]
        /\ data = [q \in Queue |-> NoData]
        /\ fields = [q \in Queue |-> 0]
        /\ mtxs_ = [p \in Peer |-> NoQueue]
        /\ wire = [p \in Peer |-> <<>>]
        /\ stored = {}
        /\ acks = [k \in Task |-> 0]

-----------------------------------------------------------------------------
(* What ComputeProcessor does: its queue is first in, first out and the    *)
(* info piece of a task is in front, so that a thread takes it up before   *)
(* any thread completes a sum of the task; after that the threads race.    *)
Take(p) == \E d \in coming :
  /\ ppc[p] = "idle" /\ closing \in {"no", "computer"}
  /\ d.buf # nullptr => \A e \in coming : e.task_id = d.task_id => e.buf # nullptr
  /\ coming' = coming \ {d}
  /\ pdata' = [pdata EXCEPT ![p] = d]
  /\ ppc' = [ppc EXCEPT ![p] = "distribute"]
  /\ UNCHANGED <<wave, closing, pqid, data_queue, task_threads_, free_threads_, sizes_,
                 threadVars, mtxs_, wire, stored, acks>>

(* Controller::WaitForFinish_ at the other end: the next group begins when *)
(* the tasks of this one are acknowledged, here or where they end.         *)
Sent(d) == \E p \in Peer : \E i \in DOMAIN wire[p] : wire[p][i] = <<d, 4>>
Done(rt) == IF rt.tar_id = id THEN acks[rt.task_id] > 0
            ELSE \A d \in Sums(rt) : Sent(d)
GroupOver == \A rt \in Waves[wave] : Done(rt)
NextWave ==
  /\ wave < Len(Waves)
  /\ GroupOver
  /\ wave' = wave + 1
  /\ coming' = coming \cup ItemsOf(Waves[wave + 1])
  /\ UNCHANGED <<closing, ppc, pdata, pqid, data_queue, task_threads_, free_threads_, sizes_,
                 threadVars, mtxs_, wire, stored, acks>>

-----------------------------------------------------------------------------
(* Distribute, under mtxs_[0].  When no queue is free PushData calls       *)
(* itself again: the caller spins, and this action is not enabled.         *)
Distribute(p) == LET k == pdata[p].task_id IN
  /\ ppc[p] = "distribute"
  /\ \/ /\ task_threads_[k] # NoQueue
        /\ pqid' = [pqid EXCEPT ![p] = task_threads_[k]]
        /\ UNCHANGED <<task_threads_, free_threads_>>
     \/ /\ task_threads_[k] = NoQueue
        /\ free_threads_ # <<>>
        /\ pqid' = [pqid EXCEPT ![p] = Head(free_threads_)]
        /\ task_threads_' = [task_threads_ EXCEPT ![k] = Head(free_threads_)]
        /\ free_threads_' = Tail(free_threads_)
  /\ ppc' = [ppc EXCEPT ![p] = "push"]
  /\ UNCHANGED <<wave, coming, closing, pdata, data_queue, sizes_, threadVars, mtxs_,
                 wire, stored, acks>>

Push(p) ==
  /\ ppc[p] = "push"
  /\ data_queue' = [data_queue EXCEPT ![pqid[p]] = Append(@, pdata[p])]
  /\ ppc' = [ppc EXCEPT ![p] = "idle"]
  /\ pdata' = [pdata EXCEPT ![p] = NoData]
  /\ pqid' = [pqid EXCEPT ![p] = NoQueue]
  /\ UNCHANGED <<wave, coming, closing, task_threads_, free_threads_, sizes_, threadVars,
                 mtxs_, wire, stored, acks>>

-----------------------------------------------------------------------------
(* Process: info, pieces to store and pieces to send part here.            *)
Process(q) == LET d == Head(data_queue[q]) IN
  /\ pc[q] = "idle" /\ closing # "closed"
  /\ data_queue[q] # <<>>
  /\ data_queue' = [data_queue EXCEPT ![q] = Tail(@)]
  /\ data' = [data EXCEPT ![q] = d]
  /\ pc' = [pc EXCEPT ![q] = IF d.buf = nullptr THEN "info"
                             ELSE IF d.tar_id = id THEN "store" ELSE "send"]
  /\ UNCHANGED <<pushVars, task_threads_, free_threads_, sizes_, fields, mtxs_,
                 wire, stored, acks>>

(* Seeded fault: finished as soon as no byte is missing. *)
CountedLoosely(q, bytes) ==
  /\ sizes_' = [sizes_ EXCEPT ![q] = bytes]
  /\ IF bytes <= 0
     THEN pc' = [pc EXCEPT ![q] = "finish"] /\ UNCHANGED data
     ELSE pc' = [pc EXCEPT ![q] = "idle"] /\ data' = [data EXCEPT ![q] = NoData]

(* sizes_[qid] is updated, and tested against 0, lines 52-58.              *)
Counted(q, bytes) ==
  /\ sizes_' = [sizes_ EXCEPT ![q] = bytes]
  /\ IF bytes = 0
     THEN pc' = [pc EXCEPT ![q] = "finish"] /\ UNCHANGED data
     ELSE pc' = [pc EXCEPT ![q] = "idle"] /\ data' = [data EXCEPT ![q] = NoData]

AddInfo(q) ==
  /\ pc[q] = "info"
  /\ Counted(q, sizes_[q] + data[q].size)
  /\ UNCHANGED <<pushVars, data_queue, task_threads_, free_threads_, fields, mtxs_,
                 wire, stored, acks>>

(* Seeded fault: the size is subtracted in Store_ and again after it. *)
StoreTwice(q) ==
  /\ pc[q] = "store"
  /\ stored' = stored \cup {data[q]}
  /\ Counted(q, sizes_[q] - 2 * data[q].size)
  /\ UNCHANGED <<pushVars, data_queue, task_threads_, free_threads_, fields, mtxs_,
                 wire, acks>>

(* Store_, under mtxs_[id_]. *)
Store(q) ==
  /\ pc[q] = "store"
  /\ stored' = stored \cup {data[q]}
  /\ Counted(q, sizes_[q] - data[q].size)
  /\ UNCHANGED <<pushVars, data_queue, task_threads_, free_threads_, fields, mtxs_,
                 wire, acks>>

(* Seeded fault: the mutex of the target is not taken. *)
SendUnlocked(q) == LET d == data[q]  p == d.tar_id IN
  /\ pc[q] = "send"
  /\ wire' = [wire EXCEPT ![p] = Append(@, <<d, fields[q] + 1>>)]
  /\ fields' = [fields EXCEPT ![q] = (@ + 1) % 4]
  /\ IF fields[q] = 3 THEN Counted(q, sizes_[q] - d.size)
     ELSE UNCHANGED <<sizes_, pc, data>>
  /\ UNCHANGED <<pushVars, data_queue, task_threads_, free_threads_, mtxs_, stored, acks>>

(* One Send of Send_: the first takes mtxs_[tar_id], the last releases it. *)
Send(q) == LET d == data[q]  p == d.tar_id IN
  /\ pc[q] = "send"
  /\ mtxs_[p] = IF fields[q] = 0 THEN NoQueue ELSE q
  /\ wire' = [wire EXCEPT ![p] = Append(@, <<d, fields[q] + 1>>)]
  /\ fields' = [fields EXCEPT ![q] = (@ + 1) % 4]
  /\ IF fields[q] = 3
     THEN mtxs_' = [mtxs_ EXCEPT ![p] = NoQueue] /\ Counted(q, sizes_[q] - d.size)
     ELSE mtxs_' = [mtxs_ EXCEPT ![p] = q] /\ UNCHANGED <<sizes_, pc, data>>
  /\ UNCHANGED <<pushVars, data_queue, task_threads_, free_threads_, stored, acks>>

-----------------------------------------------------------------------------
FinishWith(q, threads, free, ack) ==
  /\ pc[q] = "finish"
  /\ task_threads_' = threads
  /\ free_threads_' = free
  /\ acks' = IF ack THEN [acks EXCEPT ![data[q].task_id] = @ + 1] ELSE acks
  /\ pc' = [pc EXCEPT ![q] = "idle"]
  /\ data' = [data EXCEPT ![q] = NoData]
  /\ UNCHANGED <<pushVars, data_queue, sizes_, fields, mtxs_, wire, stored>>

Unmapped(q) == [task_threads_ EXCEPT ![data[q].task_id] = NoQueue]
EndsHere(q) == data[q].tar_id = id

(* Seeded faults: the task keeps its queue; the queue is not given back.   *)
FinishMapped(q) == FinishWith(q, task_threads_, Append(free_threads_, q), EndsHere(q))
FinishOccupied(q) == FinishWith(q, Unmapped(q), free_threads_, EndsHere(q))

(* The end of Process, under mtxs_[0].  The task's end is acknowledged if  *)
(* the piece at hand, the last one processed, names this node as target:   *)
(* an info piece never does.                                               *)
Finish(q) == FinishWith(q, Unmapped(q), Append(free_threads_, q), EndsHere(q))

-----------------------------------------------------------------------------
CloseWhen(ended) ==
  /\ closing = "no" /\ wave = Len(Waves) /\ ended
  /\ closing' = "computer"
  /\ UNCHANGED <<wave, coming, ppc, pdata, pqid, data_queue, task_threads_, free_threads_,
                 sizes_, threadVars, mtxs_, wire, stored, acks>>

(* Seeded fault: the last group is not waited for. *)
CloseEarly == CloseWhen(TRUE)

(* The closing message ends GetTaks; WaitForFinish returns, ReceiveProcessor*)
(* is gone, and the destructor of ComputeProcessor begins.                 *)
Close == CloseWhen(GroupOver)

(* The threads of ComputeProcessor are joined; what they have not taken up *)
(* is dropped.  Then writer_.Close() and on_run_ = false; a thread here    *)
(* may still pop an item, until its queue is closed, too.                  *)
CloseFile ==
  /\ closing = "computer" /\ \A p \in Pusher : ppc[p] = "idle"
  /\ closing' = "file"
  /\ UNCHANGED <<wave, coming, ppc, pdata, pqid, data_queue, task_threads_, free_threads_,
                 sizes_, threadVars, mtxs_, wire, stored, acks>>

(* Every thread is joined; what is left in the queues is dropped.          *)
Join ==
  /\ closing = "file" /\ \A q \in Queue : pc[q] = "idle"
  /\ closing' = "closed"
  /\ UNCHANGED <<wave, coming, ppc, pdata, pqid, data_queue, task_threads_, free_threads_,
                 sizes_, threadVars, mtxs_, wire, stored, acks>>

-----------------------------------------------------------------------------
Pushing(p) == Take(p) \/ Distribute(p) \/ Push(p)
Step(q) == Process(q) \/ AddInfo(q) \/ Store(q) \/ Send(q) \/ Finish(q)

Destroy == Close \/ CloseFile \/ Join

Next == \/ NextWave \/ Destroy
        \/ \E p \in Pusher : Pushing(p)
        \/ \E q \in Queue : Step(q)

(* Threads are scheduled.  A mutex or a queue that is there for good is    *)
(* obtained; nothing is assumed of one that comes and goes.                *)
Spec == /\ Init /\ [][Next]_vars
        /\ WF_vars(NextWave) /\ WF_vars(Destroy)
        /\ \A p \in Pusher : WF_vars(Pushing(p))
        /\ \A q \in Queue : WF_vars(Step(q))

-----------------------------------------------------------------------------
TypeOK ==
  /\ wave \in DOMAIN Waves
  /\ coming \subseteq Items
  /\ closing \in {"no", "computer", "file", "closed"}
  /\ ppc \in [Pusher -> {"idle", "distribute", "push"}]
  /\ pdata \in [Pusher -> Items \cup {NoData}]
  /\ pqid \in [Pusher -> Queue \cup {NoQueue}]
  /\ data_queue \in [Queue -> Seq(Items)]
  /\ task_threads_ \in [Task -> Queue \cup {NoQueue}]
  /\ free_threads_ \in Seq(Queue)
  /\ sizes_ \in [Queue -> Int]
  /\ pc \in [Queue -> {"idle", "info", "store", "send", "finish"}]
  /\ data \in [Queue -> Items \cup {NoData}]
  /\ fields \in [Queue -> 0 .. 3]
  /\ mtxs_ \in [Peer -> Queue \cup {NoQueue}]
  /\ wire \in [Peer -> Seq(Items \X (1 .. 4))]
  /\ stored \subseteq Items
  /\ acks \in [Task -> Nat]

Free == {free_threads_[i] : i \in DOMAIN free_threads_}

(* A queue is free or belongs to one task: lines 36-39 hand it out, lines  *)
(* 60-64 take it back, in critical sections that never hold it twice.      *)
QueuesPartitioned ==
  /\ Len(free_threads_) = Cardinality(Free)
  /\ \A q \in Queue : q \in Free <=> \A k \in Task : task_threads_[k] # q
  /\ \A j, k \in Task : task_threads_[j] = task_threads_[k] /\ j # k =>
                        task_threads_[j] = NoQueue

(* The queue Distribute returned is still the task's when the caller gets  *)
(* to push, and as long as a piece of the task is in it or in the hands of *)
(* its thread: sizes_ does not come to 0 before the last piece.            *)
NoStrayItem ==
  /\ \A p \in Pusher : ppc[p] = "push" => task_threads_[pdata[p].task_id] = pqid[p]
  /\ \A q \in Queue : \A i \in DOMAIN data_queue[q] :
       task_threads_[data_queue[q][i].task_id] = q
  /\ \A q \in Queue : data[q] # NoData => task_threads_[data[q].task_id] = q

(* A task is acknowledged once, and only when all of it is in the file:    *)
(* the master starts the next group on the strength of it.                 *)
AckMeansStored == \A rt \in Tasks :
  /\ acks[rt.task_id] <= 1
  /\ acks[rt.task_id] = 1 => rt.tar_id = id /\ Sums(rt) \subseteq stored

(* What a peer reads is one whole piece after another, whichever threads   *)
(* send to it: each four fields on the wire are those of one piece.        *)
NoInterleavedFrames == \A p \in Peer : \A i \in DOMAIN wire[p] :
  /\ wire[p][i][2] = ((i - 1) % 4) + 1
  /\ wire[p][i][1] = wire[p][i - ((i - 1) % 4)][1]

(* controller.cc:61 "Wait for finishing": the master waits for one message *)
(* of each task that ends here, so a task that is over here was announced. *)
Over(rt) == \A d \in Items : d.task_id = rt.task_id =>
  /\ d \notin coming
  /\ \A p \in Pusher : pdata[p] # d
  /\ \A q \in Queue : data[q] # d /\ \A i \in DOMAIN data_queue[q] : data_queue[q][i] # d
FinishedIsAcked == \A i \in 1 .. wave : \A rt \in Waves[i] :
  rt.tar_id = id /\ Over(rt) => acks[rt.task_id] = 1

(* When the file is closed everything that ends here is in it, and no      *)
(* thread is on its way to it: Store_ would open the file again, behind    *)
(* the back of the destructor (lines 23-26, 70).                           *)
WrittenBeforeClose == closing \in {"file", "closed"} =>
  /\ \A q \in Queue : pc[q] # "store"
  /\ \A rt \in Tasks : rt.tar_id = id => Sums(rt) \subseteq stored

(* Every sum of every group is stored or sent on whole, when there is a    *)
(* queue for each task of a group.  The node is destroyed after that, if   *)
(* the last group was acknowledged: with FinishedIsAcked it would be.      *)
AllProcessed ==
  <>[](/\ \A rt \in Tasks : IF rt.tar_id = id THEN Sums(rt) \subseteq stored
                            ELSE \A d \in Sums(rt) : Sent(d)
       /\ wave = Len(Waves)
       /\ GroupOver => closing = "closed")
=============================================================================
