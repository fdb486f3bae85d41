--------------------------- MODULE ReceiveProcessor ---------------------------
(***************************************************************************)
(* The first stage of a node: the threads that load the node's own block   *)
(* from its file and that read the pieces other nodes send to it           *)
(* (src/src/repair/procs/receive_processor.cc).                            *)
(*                                                                         *)
(* There is one socket per peer and all tasks that peer helps with share   *)
(* it, so the threads must agree on who reads it.  remains_[p] is how many *)
(* bytes are owed by p and not read yet; it may fall below 0, because the  *)
(* reader of one task may read a piece of another that is not registered.  *)
(*                                                                         *)
(* The stage's queue is the abstract WorkQueue that DataProcessor is shown *)
(* to implement: a task pushed late is one that is popped late.            *)
(***************************************************************************)
EXTENDS Sequences, RepairTypes

CONSTANTS id,      \* id_: this node
          Node,    \* ids of all nodes
          Task,    \* task ids
          Thread,  \* the threads of the stage
          Program, \* the ReceiveTasks GetTaks pushes, in its order
          NoJob

ASSUME IdAssumption == Node \subseteq Nat /\ id \in Node
ASSUME ProgramAssumption == Program \in Seq(ReceiveTask(Task, Node))
ASSUME NoJobAssumption == NoJob \notin ReceiveTask(Task, Node)

Peer == Node \ {id}

Piece == [task_id : Task, offset : Nat, size : Nat \ {0}]
Field == [piece : Piece, field : 1 .. 4]  \* task id, offset, size, contents
Jobs == {Program[i] : i \in DOMAIN Program}
PiecesFrom(p) == UNION {PiecesOf(job.rt) : job \in {j \in Jobs : j.src_id = p}}

VARIABLES data_queue, \* the tasks not yet popped
          remains_,   \* remains_[p - 1]
          pc, data,   \* control point and argument of Process, per thread
          at,         \* locals remain, offset and size of LoadData_
          got,        \* fields ReceiveData_ has read of the current piece
          stream,     \* pieces on the socket of each peer
          pos,        \* how many fields of the first of them are read
          unsent,     \* pieces each peer has yet to send
          out         \* what has been pushed to the next stage

socketVars == <<stream, pos, unsent>>
vars == <<data_queue, remains_, pc, data, at, got, socketVars, out>>

NoLocals == [remain |-> 0, offset |-> 0, size |-> 0]

Init == /\ data_queue = Program
        /\ remains_ = [p \in Peer |-> 0]
        /\ pc = [t \in Thread |-> "idle"]
        /\ data = [t \in Thread |-> NoJob]
        /\ at = [t \in Thread |-> NoLocals]
        /\ got = [t \in Thread |-> <<>>]
        /\ stream = [p \in Peer |-> <<>>]
        /\ pos = [p \in Peer |-> 0]
        /\ unsent = [p \in Peer |-> PiecesFrom(p)]
        /\ out = {}

src(t) == data[t].src_id

Return(t) == /\ pc' = [pc EXCEPT ![t] = "idle"]
             /\ data' = [data EXCEPT ![t] = NoJob]

-----------------------------------------------------------------------------
(* Peers send whole pieces, in any order (their own threads race).         *)
PeerSend(p) == \E piece \in unsent[p] :
  /\ stream' = [stream EXCEPT ![p] = Append(@, piece)]
  /\ unsent' = [unsent EXCEPT ![p] = @ \ {piece}]
  /\ UNCHANGED <<data_queue, remains_, pc, data, at, got, pos, out>>

(* Process: a task whose source is this node is loaded, others are read.   *)
Process(t) ==
  /\ pc[t] = "idle"
  /\ data_queue # <<>>
  /\ data_queue' = Tail(data_queue)
  /\ data' = [data EXCEPT ![t] = Head(data_queue)]
  /\ pc' = [pc EXCEPT ![t] = IF Head(data_queue).src_id = id THEN "info" ELSE "register"]
  /\ UNCHANGED <<remains_, at, got, socketVars, out>>

-----------------------------------------------------------------------------
(* LoadData_: first the size of the task, then its pieces one by one.      *)
LoadInfo(t) == LET rt == data[t].rt IN
  /\ pc[t] = "info"
  /\ out' = out \cup {Info(rt)}
  /\ at' = [at EXCEPT ![t] = [remain |-> rt.size, offset |-> rt.offset, size |-> rt.piece_size]]
  /\ pc' = [pc EXCEPT ![t] = "load"]
  /\ UNCHANGED <<data_queue, remains_, data, got, socketVars>>

Shorter(a) == IF a.remain < a.size THEN a.remain ELSE a.size

(* Seeded fault: the last piece is cut as long as the others. *)
LoadPieceWhole(t) == LET rt == data[t].rt  a == at[t] IN
  /\ pc[t] = "load"
  /\ out' = out \cup {Local(rt, a.offset, a.size, Get(id, a.offset))}
  /\ at' = [at EXCEPT ![t] = [a EXCEPT !.remain = @ - a.size, !.offset = @ + a.size]]
  /\ IF a.remain - a.size > 0 THEN UNCHANGED <<pc, data>> ELSE Return(t)
  /\ UNCHANGED <<data_queue, remains_, got, socketVars>>

(* The target of a task has nothing to load: it announces empty pieces.    *)
LoadPiece(t) == LET rt == data[t].rt  a == at[t]  size == Shorter(a) IN
  /\ pc[t] = "load"
  /\ out' = out \cup {IF rt.tar_id = id THEN Local(rt, a.offset, 0, nullptr)
                      ELSE Local(rt, a.offset, size, Get(id, a.offset))}
  /\ at' = [at EXCEPT ![t] = [remain |-> a.remain - size, offset |-> a.offset + size,
                              size |-> size]]
  /\ IF a.remain - size > 0 THEN UNCHANGED <<pc, data>> ELSE Return(t)
  /\ UNCHANGED <<data_queue, remains_, got, socketVars>>

-----------------------------------------------------------------------------
(* Seeded fault: the test uses >= where the code has >. *)
RegisterNoReader(t) == LET size == data[t].rt.size  r == remains_[src(t)] + size IN
  /\ pc[t] = "register"
  /\ remains_' = [remains_ EXCEPT ![src(t)] = r]
  /\ IF r < size /\ r > 0
     THEN pc' = [pc EXCEPT ![t] = "read"] /\ UNCHANGED data
     ELSE Return(t)
  /\ UNCHANGED <<data_queue, at, got, socketVars, out>>

(* Seeded fault: a source that has another reader is read all the same. *)
RegisterAlways(t) == LET r == remains_[src(t)] + data[t].rt.size IN
  /\ pc[t] = "register"
  /\ remains_' = [remains_ EXCEPT ![src(t)] = r]
  /\ IF r > 0 THEN pc' = [pc EXCEPT ![t] = "read"] /\ UNCHANGED data ELSE Return(t)
  /\ UNCHANGED <<data_queue, at, got, socketVars, out>>

(* The head of ReceiveData_, one critical section of mtx_: the task's size *)
(* is added, and the thread leaves when another one reads that source, or  *)
(* when what this task is owed has already been read.                      *)
Register(t) == LET size == data[t].rt.size  r == remains_[src(t)] + size IN
  /\ pc[t] = "register"
  /\ remains_' = [remains_ EXCEPT ![src(t)] = r]
  /\ IF r <= size /\ r > 0
     THEN pc' = [pc EXCEPT ![t] = "read"] /\ UNCHANGED data
     ELSE Return(t)
  /\ UNCHANGED <<data_queue, at, got, socketVars, out>>

(* One Receive: task id, offset, size and contents come in four of them.   *)
ReadField(t) == LET p == src(t) IN
  /\ pc[t] = "read"
  /\ stream[p] # <<>>
  /\ got' = [got EXCEPT ![t] = Append(@, [piece |-> Head(stream[p]), field |-> pos[p] + 1])]
  /\ IF pos[p] = 3
     THEN pos' = [pos EXCEPT ![p] = 0] /\ stream' = [stream EXCEPT ![p] = Tail(@)]
     ELSE pos' = [pos EXCEPT ![p] = @ + 1] /\ UNCHANGED stream
  /\ pc' = [pc EXCEPT ![t] = IF Len(got[t]) = 3 THEN "push" ELSE "read"]
  /\ UNCHANGED <<data_queue, remains_, data, at, unsent, out>>

PushPiece(t) == LET g == got[t] IN
  /\ pc[t] = "push"
  /\ out' = out \cup {Network(g[1].piece.task_id, g[2].piece.offset, g[3].piece.size,
                              Get(src(t), g[2].piece.offset))}
  /\ pc' = [pc EXCEPT ![t] = "settle"]
  /\ UNCHANGED <<data_queue, remains_, data, at, got, socketVars>>

(* Seeded fault: the reader leaves after one piece. *)
SettleOnce(t) ==
  /\ pc[t] = "settle"
  /\ remains_' = [remains_ EXCEPT ![src(t)] = @ - got[t][3].piece.size]
  /\ got' = [got EXCEPT ![t] = <<>>]
  /\ Return(t)
  /\ UNCHANGED <<data_queue, at, socketVars, out>>

(* The end of the loop's body and its test, under mtx_ again.              *)
Settle(t) == LET r == remains_[src(t)] - got[t][3].piece.size IN
  /\ pc[t] = "settle"
  /\ remains_' = [remains_ EXCEPT ![src(t)] = r]
  /\ got' = [got EXCEPT ![t] = <<>>]
  /\ IF r > 0 THEN pc' = [pc EXCEPT ![t] = "read"] /\ UNCHANGED data ELSE Return(t)
  /\ UNCHANGED <<data_queue, at, socketVars, out>>

-----------------------------------------------------------------------------
Step(t) == \/ Process(t) \/ LoadInfo(t) \/ LoadPiece(t)
           \/ Register(t) \/ ReadField(t) \/ PushPiece(t) \/ Settle(t)

Next == \/ \E p \in Peer : PeerSend(p)
        \/ \E t \in Thread : Step(t)

(* Threads are scheduled and peers send what they owe.                     *)
Fairness == /\ \A t \in Thread : WF_vars(Step(t))
            /\ \A p \in Peer : WF_vars(PeerSend(p))

Spec == Init /\ [][Next]_vars /\ Fairness

-----------------------------------------------------------------------------
PC == {"idle", "info", "load", "register", "read", "push", "settle"}

TypeOK ==
  /\ data_queue \in Seq(ReceiveTask(Task, Node))
  /\ remains_ \in [Peer -> Int]
  /\ pc \in [Thread -> PC]
  /\ data \in [Thread -> ReceiveTask(Task, Node) \cup {NoJob}]
  /\ at \in [Thread -> [remain : Nat, offset : Nat, size : Nat]]
  /\ got \in [Thread -> Seq(Field)]
  /\ stream \in [Peer -> Seq(Piece)]
  /\ pos \in [Peer -> 0 .. 3]
  /\ unsent \in [Peer -> SUBSET Piece]
  /\ out \subseteq DataPiece(Task, Node)

Reading(t, p) == pc[t] \in {"read", "push", "settle"} /\ src(t) = p

(* A socket has at most one reader, and has one exactly as long as bytes   *)
(* are owed on it: whoever registers a task under mtx_ (lines 97-101) must *)
(* be able to tell from remains_ alone whether it has to read.             *)
ReaderIffOwed == \A p \in Peer :
  /\ remains_[p] > 0 <=> \E t \in Thread : Reading(t, p)
  /\ \A t, u \in Thread : Reading(t, p) /\ Reading(u, p) => t = u

(* The four reads of lines 107-111 happen outside mtx_: what they return   *)
(* are nevertheless the four fields of one and the same piece, in order.   *)
NoTornPiece == \A t \in Thread : \A i \in 1 .. Len(got[t]) :
  got[t][i] = [piece |-> got[t][1].piece, field |-> i]

(* What the stage must hand over for its tasks, from their definition.     *)
Expected ==
  LET own == {j.rt : j \in {k \in Jobs : k.src_id = id}} IN
  {Info(rt) : rt \in own}
  \cup UNION {{IF rt.tar_id = id THEN Local(rt, x.offset, 0, nullptr)
               ELSE Local(rt, x.offset, x.size, Get(id, x.offset)) : x \in PiecesOf(rt)}
                : rt \in own}
  \cup UNION {{Network(x.task_id, x.offset, x.size, Get(p, x.offset)) : x \in PiecesFrom(p)}
                : p \in Peer}

(* Every piece of every task reaches the next stage in the end, and        *)
(* nothing else does (LoadData_ and ReceiveData_ return).                  *)
AllHandedOver == <>[](out = Expected /\ \A t \in Thread : pc[t] = "idle")
=============================================================================
