--------------------------- MODULE ComputeProcessor ---------------------------
(***************************************************************************)
(* The second stage of a node: threads that gather, for every task and     *)
(* offset, the pieces of all sources, XOR them in place and pass the sum   *)
(* on (src/src/repair/procs/compute_processor.cc).                         *)
(*                                                                         *)
(* Every critical section is a step.  A thread keeps a reference to the    *)
(* task's PieceGroup from its first step to its last, and one to the       *)
(* TempPiece while it adds to it; nothing protects the referents but the   *)
(* counting in num, src_num, sum and total.                                *)
(*                                                                         *)
(* Buffers are cells of the MemoryPool.  The contents of a cell are the    *)
(* set of contributions XORed into it, so that XOR is the symmetric        *)
(* difference; multiplying by a coefficient does not change the set.       *)
(***************************************************************************)
EXTENDS Sequences, FiniteSets, Bags, RepairTypes

CONSTANTS id,       \* this node
          Node, Task, Thread,
          Program,  \* the tasks this node takes part in, {[rt, sources]}
          QueueCap, \* bound of the model: pieces waiting in the queue
          NoData, NoPiece

ASSUME IdAssumption == Node \subseteq Nat \ {0} /\ id \in Node /\ IsFiniteSet(Node)
ASSUME CapAssumption == QueueCap \in Nat \ {0}
ASSUME ProgramAssumption ==
  /\ Program \subseteq [rt : RepairTask(Task, Node), sources : SUBSET (Node \ {id})]
  /\ \A j \in Program : j.rt.src_num = Cardinality(j.sources) + 1
  /\ \A j, k \in Program : j.rt.task_id = k.rt.task_id => j = k

Range0 == {0} \cup Node
(* What AddPiece_ keeps of an offset, compute_processor.hh:16-24.          *)
TempPiece == [tar_id : Nat, size : Nat, buf : Cell(Range0) \cup {nullptr},
              temp_buf : Cell(Range0), num : Nat, src_num : Nat]
ASSUME NoPieceAssumption == NoPiece \notin TempPiece
rtOf(k) == (CHOOSE j \in Program : j.rt.task_id = k).rt
sourcesOf(k) == (CHOOSE j \in Program : j.rt.task_id = k).sources

(* What ReceiveProcessor pushes for the tasks (its Expected).              *)
LocalPiece(rt, x) == IF rt.tar_id = id THEN Local(rt, x.offset, 0, nullptr)
                     ELSE Local(rt, x.offset, x.size, Get(id, x.offset))
NetworkPiece(p, x) == Network(x.task_id, x.offset, x.size, Get(p, x.offset))
Infos == {Info(j.rt) : j \in Program}
Locals == UNION {{LocalPiece(j.rt, x) : x \in PiecesOf(j.rt)} : j \in Program}
Networks == UNION {{NetworkPiece(p, x) : p \in j.sources, x \in PiecesOf(j.rt)} : j \in Program}
Pieces == UNION {PiecesOf(j.rt) : j \in Program}

Xor(A, B) == (A \ B) \cup (B \ A)
Contents(d) == IF d.buf = nullptr THEN {} ELSE {<<d.task_id, d.buf>>}
(* What the sum of a piece's contributions must be.                        *)
Full(x) == UNION {Contents(d) : d \in {e \in Locals \cup Networks :
                                        e.task_id = x.task_id /\ e.offset = x.offset}}

VARIABLES coming,      \* pieces the stage before has yet to push
          data_queue,
          task_pieces_, \* sum and total of each PieceGroup, and whether it is there
          pieces,      \* PieceGroup::pieces, by task and offset
          pc, data, size, \* control point and locals of Process, per thread
          mem,         \* the cells of mp_
          next         \* what has been pushed to next_prc_, a bag

threadVars == <<pc, data, size>>
vars == <<coming, data_queue, task_pieces_, pieces, threadVars, mem, next>>

Offset == {x.offset : x \in Pieces}
NoGroup == [state |-> "none", sum |-> 0, total |-> 0]

Init == /\ coming = Infos \cup Locals \cup Networks
        /\ data_queue = <<>>
        /\ task_pieces_ = [k \in Task |-> NoGroup]
        /\ pieces = [ko \in Task \X Offset |-> NoPiece]
        /\ pc = [t \in Thread |-> "idle"]
        /\ data = [t \in Thread |-> NoData]
        /\ size = [t \in Thread |-> 0]
        /\ mem = [c \in Range0 \X Offset |-> {}]
        /\ next = EmptyBag

task(t) == data[t].task_id
tp(t) == pieces[<<task(t), data[t].offset>>]
goto(t, label) == pc' = [pc EXCEPT ![t] = label]
Return(t) == goto(t, "idle") /\ data' = [data EXCEPT ![t] = NoData]
                             /\ size' = [size EXCEPT ![t] = 0]

-----------------------------------------------------------------------------
(* The stage before: contents are in the piece's buffer before the piece   *)
(* is pushed; a task's info comes before its local pieces, and these come  *)
(* by increasing offset.                                                   *)
Arrive == \E d \in coming :
  /\ Len(data_queue) < QueueCap
  /\ d \in Locals => \A e \in coming : e.task_id = d.task_id =>
       e \notin Infos /\ (e \in Locals => e.offset >= d.offset)
  /\ coming' = coming \ {d}
  /\ data_queue' = Append(data_queue, d)
  /\ mem' = IF d.buf = nullptr THEN mem ELSE [mem EXCEPT ![d.buf] = Contents(d)]
  /\ UNCHANGED <<task_pieces_, pieces, threadVars, next>>

Pop(t) ==
  /\ pc[t] = "idle"
  /\ data_queue # <<>>
  /\ data_queue' = Tail(data_queue)
  /\ data' = [data EXCEPT ![t] = Head(data_queue)]
  /\ size' = [size EXCEPT ![t] = Head(data_queue).size]
  /\ goto(t, "group")
  /\ UNCHANGED <<coming, task_pieces_, pieces, mem, next>>

-----------------------------------------------------------------------------
(* Process, under mtx_: the task's group is created when it is not there.  *)
FindGroup(t) == LET k == task(t) IN
  /\ pc[t] = "group"
  /\ task_pieces_' = IF task_pieces_[k].state = "live" THEN task_pieces_
                     ELSE [task_pieces_ EXCEPT ![k] = [NoGroup EXCEPT !.state = "live"]]
  /\ goto(t, IF data[t].buf = nullptr /\ size[t] > 0 THEN "info" ELSE "find")
  /\ UNCHANGED <<coming, data_queue, pieces, data, size, mem, next>>

(* The info piece goes on at once; its size is remembered negative.        *)
PushInfo(t) ==
  /\ pc[t] = "info"
  /\ next' = next (+) SetToBag({data[t]})
  /\ size' = [size EXCEPT ![t] = 0 - @]
  /\ goto(t, "account")
  /\ UNCHANGED <<coming, data_queue, task_pieces_, pieces, data, mem>>

-----------------------------------------------------------------------------
(* AddPiece_, under map_mtx: the first piece of an offset is kept, with a  *)
(* scratch buffer of the pool's row 0.                                     *)
FindPiece(t) == LET d == data[t] IN
  /\ pc[t] = "find"
  /\ \/ /\ tp(t) = NoPiece
        /\ pieces' = [pieces EXCEPT ![<<d.task_id, d.offset>>] =
             [tar_id |-> d.tar_id, size |-> d.size, buf |-> d.buf,
              temp_buf |-> Get(0, d.offset), num |-> 0, src_num |-> 0]]
        /\ goto(t, "count")
     \/ /\ tp(t) # NoPiece
        /\ goto(t, "merge")
        /\ UNCHANGED pieces
  /\ UNCHANGED <<coming, data_queue, task_pieces_, data, size, mem, next>>

(* Under the piece's mtx: the sum of the two buffers is written to the     *)
(* scratch buffer, which becomes the piece's; the newcomer's buffer is the *)
(* next scratch buffer.                                                    *)
MergeWith(t, target) ==
  LET d == data[t]
      p == tp(t)
      q == [p EXCEPT !.tar_id = target]
      keep(r) == pieces' = [pieces EXCEPT ![<<d.task_id, d.offset>>] = r] IN
  /\ pc[t] = "merge"
  /\ \/ /\ p.buf = nullptr
        /\ keep([q EXCEPT !.size = d.size, !.buf = d.buf])
        /\ UNCHANGED mem
     \/ /\ p.buf # nullptr /\ d.buf # nullptr
        /\ mem' = [mem EXCEPT ![p.temp_buf] = Xor(mem[p.buf], mem[d.buf])]
        /\ keep([q EXCEPT !.buf = p.temp_buf, !.temp_buf = d.buf])
     \/ /\ p.buf # nullptr /\ d.buf = nullptr
        /\ keep(q)
        /\ UNCHANGED mem
  /\ goto(t, "count")
  /\ UNCHANGED <<coming, data_queue, task_pieces_, data, size, next>>

(* Seeded fault: the target is overwritten where the code adds to it. *)
MergeTarget(t) == MergeWith(t, data[t].tar_id)

(* Only the local piece names the target, so the sum of tar_id is it.      *)
Merge(t) == MergeWith(t, tp(t).tar_id + data[t].tar_id)

Released(t) == LET d == data[t]  p == tp(t) IN
  [task_id |-> d.task_id, offset |-> d.offset, size |-> p.size, buf |-> p.buf,
   tar_id |-> p.tar_id, src_num |-> 0]

(* Under the piece's mtx again, what both versions below do with the count. *)
CountWith(t, complete) ==
  /\ pc[t] = "count"
  /\ IF complete
     THEN /\ next' = next (+) SetToBag({Released(t)})
          /\ goto(t, "remove")
          /\ UNCHANGED size
     ELSE /\ size' = [size EXCEPT ![t] = 0]
          /\ goto(t, "account")
          /\ UNCHANGED next
  /\ pieces' = [pieces EXCEPT ![<<task(t), data[t].offset>>].num = @ + 1,
                              ![<<task(t), data[t].offset>>].src_num = @ + data[t].src_num]
  /\ UNCHANGED <<coming, data_queue, task_pieces_, data, mem>>

(* Seeded fault: the piece is complete when at least src_num were counted. *)
CountEager(t) == CountWith(t, tp(t).src_num + data[t].src_num <= tp(t).num + 1)

(* Seeded fault: only pieces that are merged bring their src_num. *)
CountFirst(t) == CountWith(t, data[t].src_num = tp(t).num + 1)

(* num counts the contributions, src_num comes with the local one: they    *)
(* meet when the last contribution is counted.                             *)
Count(t) == CountWith(t, tp(t).src_num + data[t].src_num = tp(t).num + 1)

RemovePiece(t) ==
  /\ pc[t] = "remove"
  /\ pieces' = [pieces EXCEPT ![<<task(t), data[t].offset>>] = NoPiece]
  /\ goto(t, "account")
  /\ UNCHANGED <<coming, data_queue, task_pieces_, data, size, mem, next>>

-----------------------------------------------------------------------------
(* The end of Process, under remain_mtx.  A thread whose group another one *)
(* has erased locks a destroyed mutex: it may get by, find the group       *)
(* finished, or never come back.                                           *)
Dangling(t) == /\ pc[t] \notin {"idle", "group", "reap"}
               /\ task_pieces_[task(t)].state = "erased"

Totals(g, s) == IF s < 0 THEN [g EXCEPT !.total = 0 - s] ELSE [g EXCEPT !.sum = @ + s]

AccountWith(t, g, finished) ==
  /\ pc[t] = "account"
  /\ \/ /\ ~Dangling(t)
        /\ task_pieces_' = [task_pieces_ EXCEPT ![task(t)] = g]
        /\ IF finished THEN goto(t, "reap") /\ UNCHANGED <<data, size>> ELSE Return(t)
     \/ /\ Dangling(t)
        /\ Return(t) \/ (\E label \in {"reap", "lost"} : goto(t, label) /\ UNCHANGED <<data, size>>)
        /\ UNCHANGED task_pieces_
  /\ UNCHANGED <<coming, data_queue, pieces, mem, next>>

(* Seeded fault: total > 0 is not asked for. *)
AccountUnstarted(t) == LET g == Totals(task_pieces_[task(t)], size[t]) IN
  AccountWith(t, g, g.sum = g.total)

(* Seeded fault: the sum is assigned to. *)
AccountLast(t) == LET g == Totals([task_pieces_[task(t)] EXCEPT !.sum = 0], size[t]) IN
  AccountWith(t, g, g.sum = g.total /\ g.total > 0)

Account(t) == LET g == Totals(task_pieces_[task(t)], size[t]) IN
  AccountWith(t, g, g.sum = g.total /\ g.total > 0)

(* Under mtx_: erase destroys the group and the pieces still in it.        *)
Reap(t) ==
  /\ pc[t] = "reap"
  /\ task_pieces_' = [task_pieces_ EXCEPT ![task(t)].state = "erased"]
  /\ pieces' = [ko \in Task \X Offset |-> IF ko[1] = task(t) THEN NoPiece ELSE pieces[ko]]
  /\ Return(t)
  /\ UNCHANGED <<coming, data_queue, mem, next>>

-----------------------------------------------------------------------------
Step(t) == \/ Pop(t) \/ FindGroup(t) \/ PushInfo(t) \/ FindPiece(t) \/ Merge(t)
           \/ Count(t) \/ RemovePiece(t) \/ Account(t) \/ Reap(t)

Next == Arrive \/ \E t \in Thread : Step(t)

(* Threads are scheduled, and the stage before pushes all it has.          *)
Spec == /\ Init /\ [][Next]_vars
        /\ WF_vars(Arrive) /\ \A t \in Thread : WF_vars(Step(t))

-----------------------------------------------------------------------------
AnyPiece == DataPiece(Task, Node) \cup [task_id : Task, offset : Nat, size : Nat,
              buf : Cell(Range0) \cup {nullptr}, tar_id : Nat, src_num : Nat]

TypeOK ==
  /\ coming \subseteq AnyPiece
  /\ data_queue \in Seq(AnyPiece) /\ Len(data_queue) <= QueueCap
  /\ task_pieces_ \in [Task -> [state : {"none", "live", "erased"}, sum : Nat, total : Nat]]
  /\ pieces \in [Task \X Offset -> TempPiece \cup {NoPiece}]
  /\ pc \in [Thread -> {"idle", "group", "info", "find", "merge", "count", "remove",
                        "account", "reap", "lost"}]
  /\ data \in [Thread -> AnyPiece \cup {NoData}]
  /\ size \in [Thread -> Int]
  /\ mem \in [Range0 \X Offset -> SUBSET (Task \X Cell(Node))]
  /\ BagToSet(next) \subseteq AnyPiece

Sums == {d \in BagToSet(next) : d \notin Infos}
SumsOf(x) == {d \in Sums : d.task_id = x.task_id /\ d.offset = x.offset}

(* A piece that was passed on is the whole sum, in a buffer no one writes  *)
(* to any more, with the target and the size of its task: the contributions *)
(* come in any order, from any thread, through buffers that are swapped.   *)
PieceIntact == \A x \in Pieces : \A d \in SumsOf(x) :
  /\ d.buf # nullptr /\ mem[d.buf] = Full(x)
  /\ d.size = x.size /\ d.tar_id = rtOf(x.task_id).tar_id

(* No sum and no info is passed on twice (num meets src_num only once).    *)
ReleasedOnce == /\ \A d \in BagToSet(next) : next[d] = 1
                /\ \A x \in Pieces : Cardinality(SumsOf(x)) <= 1

(* The references a thread keeps while it works on a piece are to objects  *)
(* that are still there, and so is the group until the thread accounts.    *)
PointersAlive == \A t \in Thread :
  /\ pc[t] \in {"info", "find", "merge", "count", "remove"} => ~Dangling(t)
  /\ pc[t] \in {"merge", "count", "remove"} => tp(t) # NoPiece

(* compute_processor.cc:41 "Check if task ended": a thread about to lock   *)
(* the group's remain_mtx finds a group there.                             *)
GroupAliveAtCheck == \A t \in Thread : pc[t] = "account" => ~Dangling(t)

Quiescent == coming = {} /\ data_queue = <<>> /\ \A t \in Thread : pc[t] \in {"idle", "lost"}

(* compute_processor.cc:41, the end of a task is noticed: no group is left *)
(* behind when the pieces of its task have all been processed.             *)
Reclaimed(k) == Quiescent => task_pieces_[k].state = "erased"
GroupsReclaimed == \A j \in Program : Reclaimed(j.rt.task_id)
ForwardGroupsReclaimed == \A j \in Program : j.rt.tar_id # id => Reclaimed(j.rt.task_id)

(* Every info and every sum is passed on in the end, unless a thread gets  *)
(* into an erased group.                                                   *)
AllReleased == <>(\/ \E t \in Thread : Dangling(t)
                  \/ Infos \subseteq BagToSet(next) /\ \A x \in Pieces : SumsOf(x) # {})
=============================================================================
