----------------------- MODULE ReceiveProcessor_proofs -----------------------
(***************************************************************************)
(* Proofs, for every node, any number of peers, threads and tasks and any  *)
(* piece size, that ReceiveProcessor keeps its types, that every socket    *)
(* with a debt has one reader, and that no piece is torn.                  *)
(***************************************************************************)
EXTENDS ReceiveProcessor, TLAPS, SequenceTheorems

-----------------------------------------------------------------------------
(* The strengthening.  A thread that is busy holds a task, and which kind  *)
(* of task it holds follows from where it is.                              *)
Held == \A t \in Thread :
  /\ pc[t] # "idle" => data[t] \in ReceiveTask(Task, Node)
  /\ pc[t] \in {"register", "read", "push", "settle"} => src(t) \in Peer

(* What a thread has read is what its socket has passed: a partly read     *)
(* piece is in the hands of a thread at "read", a whole one of a thread at *)
(* "push" or "settle".                                                     *)
Partial(t) == LET p == src(t) IN
  /\ Len(got[t]) = pos[p]
  /\ pos[p] > 0 => stream[p] # <<>>
  /\ \A i \in 1 .. Len(got[t]) : got[t][i] = [piece |-> Head(stream[p]), field |-> i]
Whole(t) ==
  /\ pos[src(t)] = 0
  /\ Len(got[t]) = 4
  /\ \A i \in 1 .. 4 : got[t][i] = [piece |-> got[t][1].piece, field |-> i]
Frames ==
  /\ \A t \in Thread : pc[t] = "read" => Partial(t)
  /\ \A t \in Thread : pc[t] \in {"push", "settle"} => Whole(t)
  /\ \A t \in Thread : pc[t] \notin {"read", "push", "settle"} => got[t] = <<>>
  /\ \A p \in Peer : pos[p] > 0 => \E t \in Thread : Reading(t, p)

IInv == TypeOK /\ Held /\ ReaderIffOwed /\ Frames

-----------------------------------------------------------------------------
(* A task is cut into pieces of positive size at natural offsets.          *)
LEMMA PieceTypes == \A rt \in RepairTask(Task, Node) : PiecesOf(rt) \subseteq Piece
<1> SUFFICES ASSUME NEW rt \in RepairTask(Task, Node), NEW n \in 0 .. rt.size,
                    n * rt.piece_size < rt.size
             PROVE  [task_id |-> rt.task_id, offset |-> rt.offset + n * rt.piece_size,
                     size |-> IF rt.size - n * rt.piece_size < rt.piece_size
                              THEN rt.size - n * rt.piece_size ELSE rt.piece_size] \in Piece
  BY DEF PiecesOf
<1> DEFINE m == n * rt.piece_size
<1>1. /\ rt.task_id \in Task /\ rt.offset \in Nat
      /\ rt.size \in Nat \ {0} /\ rt.piece_size \in Nat \ {0}
  BY DEF RepairTask
<1>2. m \in Nat
  BY <1>1
<1>3. m < rt.size
  OBVIOUS
<1> HIDE DEF m
<1>4. [task_id |-> rt.task_id, offset |-> rt.offset + m,
       size |-> IF rt.size - m < rt.piece_size THEN rt.size - m ELSE rt.piece_size] \in Piece
  BY <1>1, <1>2, <1>3 DEF Piece
<1> QED BY <1>4 DEF m

LEMMA PeerPieces == \A p \in Peer : PiecesFrom(p) \subseteq Piece
<1>1. \A i \in DOMAIN Program : Program[i] \in ReceiveTask(Task, Node)
  BY ProgramAssumption
<1>2. \A j \in Jobs : j.rt \in RepairTask(Task, Node)
  BY <1>1 DEF Jobs, ReceiveTask
<1> QED BY <1>2, PieceTypes DEF PiecesFrom

(* The invariant holds initially: no one has popped or read anything.      *)
LEMMA InitIInv == Init => IInv
<1> SUFFICES ASSUME Init PROVE IInv
  OBVIOUS
<1>1. TypeOK
  <2>1. data_queue \in Seq(ReceiveTask(Task, Node))
    BY ProgramAssumption DEF Init
  <2>2. unsent \in [Peer -> SUBSET Piece]
    BY PeerPieces DEF Init
  <2> QED BY <2>1, <2>2 DEF Init, TypeOK, PC, NoLocals
<1>2. Held /\ ReaderIffOwed
  BY DEF Init, Held, ReaderIffOwed, Reading
<1>3. Frames
  BY DEF Init, Frames, Reading
<1> QED BY <1>1, <1>2, <1>3 DEF IInv


-----------------------------------------------------------------------------
(* What a reader holds is not affected by a step that leaves the sockets   *)
(* and the fields alone.                                                   *)
LEMMA PartialKept ==
  ASSUME NEW t \in Thread, Partial(t), src(t)' = src(t), UNCHANGED <<got, stream, pos>>
  PROVE  Partial(t)'
<1> DEFINE s == src(t)
<1>1. src(t)' = s /\ got'[t] = got[t] /\ stream'[s] = stream[s] /\ pos'[s] = pos[s]
  OBVIOUS
<1>2. /\ Len(got[t]) = pos[s]
      /\ pos[s] > 0 => stream[s] # <<>>
      /\ \A i \in 1 .. Len(got[t]) : got[t][i] = [piece |-> Head(stream[s]), field |-> i]
  BY DEF Partial
<1> HIDE DEF s
<1> QED BY <1>1, <1>2, Zenon DEF Partial

LEMMA WholeKept ==
  ASSUME NEW t \in Thread, Whole(t), src(t)' = src(t), UNCHANGED <<got, pos>>
  PROVE  Whole(t)'
<1> DEFINE s == src(t)
<1>1. src(t)' = s /\ got'[t] = got[t] /\ pos'[s] = pos[s]
  OBVIOUS
<1>2. /\ pos[s] = 0 /\ Len(got[t]) = 4
      /\ \A i \in 1 .. 4 : got[t][i] = [piece |-> got[t][1].piece, field |-> i]
  BY DEF Whole
<1> HIDE DEF s
<1> QED BY <1>1, <1>2, Zenon DEF Whole

(* If such a step also neither makes nor dismisses nor moves a reader,     *)
(* Frames is kept.                                                         *)
LEMMA FramesKept ==
  ASSUME Frames, UNCHANGED <<got, stream, pos>>,
         \A t \in Thread : IF pc'[t] \in {"read", "push", "settle"}
                           THEN pc'[t] = pc[t] /\ src(t)' = src(t)
                           ELSE pc[t] \notin {"read", "push", "settle"}
  PROVE  Frames'
<1>1. \A t \in Thread : pc'[t] = "read" => Partial(t)'
  BY PartialKept DEF Frames
<1>2. \A t \in Thread : pc'[t] \in {"push", "settle"} => Whole(t)'
  BY WholeKept DEF Frames
<1>3. \A t \in Thread : pc'[t] \notin {"read", "push", "settle"} => got'[t] = <<>>
  BY DEF Frames
<1>4. \A p \in Peer : pos'[p] > 0 => \E t \in Thread : Reading(t, p)'
  <2> SUFFICES ASSUME NEW p \in Peer, pos[p] > 0 PROVE \E t \in Thread : Reading(t, p)'
    OBVIOUS
  <2>1. PICK t \in Thread : Reading(t, p)
    BY DEF Frames
  <2>2. Reading(t, p)'
    BY <2>1 DEF Reading
  <2> QED BY <2>2
<1> QED BY <1>1, <1>2, <1>3, <1>4, Zenon DEF Frames

-----------------------------------------------------------------------------
(* Each step of the system preserves the invariant.                        *)
LEMMA PeerSendIInv == ASSUME IInv, NEW p \in Peer, PeerSend(p) PROVE IInv'
<1> PICK piece \in unsent[p] :
      /\ stream' = [stream EXCEPT ![p] = Append(@, piece)]
      /\ unsent' = [unsent EXCEPT ![p] = @ \ {piece}]
  BY DEF PeerSend
<1> USE DEF IInv
<1>1. UNCHANGED <<data_queue, remains_, pc, data, at, got, pos, out>>
  BY DEF PeerSend
<1>2. /\ stream \in [Peer -> Seq(Piece)] /\ unsent \in [Peer -> SUBSET Piece]
      /\ piece \in Piece
  BY DEF TypeOK
<1>3. TypeOK'
  <2>1. stream' \in [Peer -> Seq(Piece)]
    BY <1>2
  <2>2. unsent' \in [Peer -> SUBSET Piece]
    BY <1>2
  <2> QED BY <1>1, <2>1, <2>2 DEF TypeOK
<1>4. Held' /\ ReaderIffOwed'
  BY <1>1 DEF Held, ReaderIffOwed, Reading, src
<1>5. \A q \in Peer : stream[q] # <<>> => stream'[q] # <<>> /\ Head(stream'[q]) = Head(stream[q])
  BY <1>2
<1>6. ASSUME NEW t \in Thread, pc[t] = "read" PROVE Partial(t)'
  <2>1. Partial(t) /\ src(t) \in Peer /\ src(t)' = src(t)
    BY <1>1, <1>6 DEF Frames, Held, src
  <2> DEFINE s == src(t)
  <2>2. pos[s] \in 0 .. 3 /\ Len(got[t]) = pos[s]
    BY <2>1 DEF TypeOK, Partial
  <2>3. pos[s] > 0 => stream[s] # <<>> /\ stream'[s] # <<>> /\ Head(stream'[s]) = Head(stream[s])
    BY <1>5, <2>1 DEF Partial
  <2>4. pos'[s] = pos[s] /\ got'[t] = got[t] /\ src(t)' = s
    BY <1>1, <2>1
  <2>5. CASE pos[s] = 0
    BY <2>2, <2>4, <2>5 DEF Partial
  <2>6. CASE pos[s] > 0
    <3>1. \A i \in 1 .. Len(got[t]) : got[t][i] = [piece |-> Head(stream'[s]), field |-> i]
      BY <2>1, <2>3, <2>6 DEF Partial
    <3> HIDE DEF s
    <3> QED BY <2>2, <2>3, <2>4, <2>6, <3>1 DEF Partial
  <2> QED BY <2>2, <2>5, <2>6
<1>7. Frames'
  BY <1>1, <1>6 DEF Frames, Whole, Reading, src
<1> QED BY <1>3, <1>4, <1>7

LEMMA ProcessIInv == ASSUME IInv, NEW t \in Thread, Process(t) PROVE IInv'
<1> USE DEF IInv
<1> DEFINE job == Head(data_queue)
<1>1. /\ pc[t] = "idle" /\ data_queue # <<>> /\ data_queue' = Tail(data_queue)
      /\ data' = [data EXCEPT ![t] = job]
      /\ pc' = [pc EXCEPT ![t] = IF job.src_id = id THEN "info" ELSE "register"]
      /\ UNCHANGED <<remains_, at, got, stream, pos, unsent, out>>
  BY DEF Process, socketVars
<1>2. job \in ReceiveTask(Task, Node) /\ Tail(data_queue) \in Seq(ReceiveTask(Task, Node))
  BY <1>1 DEF TypeOK
<1> HIDE DEF job
<1>3. TypeOK'
  BY <1>1, <1>2 DEF TypeOK, PC
<1>4. Held'
  <2>1. job.src_id # id => job.src_id \in Peer
    BY <1>2 DEF ReceiveTask, Peer
  <2> QED BY <1>1, <1>2, <2>1 DEF Held, TypeOK, src
<1>5. \A u \in Thread, p \in Peer : Reading(u, p)' <=> Reading(u, p)
  BY <1>1 DEF Reading, TypeOK, src
<1>6. ReaderIffOwed'
  BY <1>1, <1>5 DEF ReaderIffOwed
<1>7. Frames'
  <2>1. \A u \in Thread : IF pc'[u] \in {"read", "push", "settle"}
                          THEN pc'[u] = pc[u] /\ src(u)' = src(u)
                          ELSE pc[u] \notin {"read", "push", "settle"}
    BY <1>1 DEF TypeOK, Return, src
  <2> QED BY <1>1, <2>1, FramesKept
<1> QED BY <1>3, <1>4, <1>6, <1>7

LEMMA LoadInfoIInv == ASSUME IInv, NEW t \in Thread, LoadInfo(t) PROVE IInv'
<1> USE DEF IInv
<1> DEFINE rt == data[t].rt
<1>1. /\ pc[t] = "info" /\ out' = out \cup {Info(rt)}
      /\ at' = [at EXCEPT ![t] = [remain |-> rt.size, offset |-> rt.offset,
                                  size |-> rt.piece_size]]
      /\ pc' = [pc EXCEPT ![t] = "load"]
      /\ UNCHANGED <<data_queue, remains_, data, got, stream, pos, unsent>>
  BY DEF LoadInfo, socketVars
<1>2. rt \in RepairTask(Task, Node)
  BY <1>1 DEF Held, ReceiveTask
<1>3. Info(rt) \in DataPiece(Task, Node)
  BY <1>2 DEF RepairTask, DataPiece, Info
<1>4. [remain |-> rt.size, offset |-> rt.offset, size |-> rt.piece_size]
        \in [remain : Nat, offset : Nat, size : Nat]
  BY <1>2 DEF RepairTask
<1> HIDE DEF rt
<1>5. TypeOK'
  BY <1>1, <1>3, <1>4 DEF TypeOK, PC
<1>6. Held'
  BY <1>1 DEF Held, TypeOK, src
<1>7. \A u \in Thread, p \in Peer : Reading(u, p)' <=> Reading(u, p)
  BY <1>1 DEF Reading, TypeOK, src
<1>8. ReaderIffOwed'
  BY <1>1, <1>7 DEF ReaderIffOwed
<1>9. Frames'
  <2>1. \A u \in Thread : IF pc'[u] \in {"read", "push", "settle"}
                          THEN pc'[u] = pc[u] /\ src(u)' = src(u)
                          ELSE pc[u] \notin {"read", "push", "settle"}
    BY <1>1 DEF TypeOK, Return, src
  <2> QED BY <1>1, <2>1, FramesKept
<1> QED BY <1>5, <1>6, <1>8, <1>9

LEMMA LoadPieceIInv == ASSUME IInv, NEW t \in Thread, LoadPiece(t) PROVE IInv'
<1> USE DEF IInv
<1> DEFINE rt == data[t].rt
           a == at[t]
           size == Shorter(a)
           piece == IF rt.tar_id = id THEN Local(rt, a.offset, 0, nullptr)
                    ELSE Local(rt, a.offset, size, Get(id, a.offset))
           next == [remain |-> a.remain - size, offset |-> a.offset + size, size |-> size]
<1>1. /\ pc[t] = "load" /\ out' = out \cup {piece}
      /\ at' = [at EXCEPT ![t] = next]
      /\ \/ UNCHANGED <<pc, data>>
         \/ Return(t)
      /\ UNCHANGED <<data_queue, remains_, got, stream, pos, unsent>>
  BY DEF LoadPiece, socketVars
<1>2. rt \in RepairTask(Task, Node)
  BY <1>1 DEF Held, ReceiveTask
<1>3. a \in [remain : Nat, offset : Nat, size : Nat]
  BY DEF TypeOK
<1>4. size \in Nat /\ size <= a.remain
  BY <1>3 DEF Shorter
<1>5. next \in [remain : Nat, offset : Nat, size : Nat]
  BY <1>3, <1>4
<1>6. piece \in DataPiece(Task, Node)
  <2>1. /\ rt.task_id \in Task /\ rt.tar_id \in Nat /\ rt.src_num \in Nat
        /\ a.offset \in Nat /\ id \in Node
    BY <1>2, <1>3, IdAssumption DEF RepairTask
  <2>2. Local(rt, a.offset, 0, nullptr) \in DataPiece(Task, Node)
    BY <2>1 DEF Local, DataPiece
  <2>3. Get(id, a.offset) \in Cell(Node)
    BY <2>1 DEF Get, Cell
  <2>4. Local(rt, a.offset, size, Get(id, a.offset)) \in DataPiece(Task, Node)
    BY <2>1, <2>3, <1>4 DEF Local, DataPiece
  <2> QED BY <2>2, <2>4
<1> HIDE DEF rt, a, size, piece, next
<1>7. TypeOK'
  BY <1>1, <1>5, <1>6 DEF TypeOK, PC, Return
<1>8. Held'
  BY <1>1 DEF Held, TypeOK, Return, src
<1>9. \A u \in Thread, p \in Peer : Reading(u, p)' <=> Reading(u, p)
  BY <1>1 DEF Reading, TypeOK, Return, src
<1>10. ReaderIffOwed'
  BY <1>1, <1>9 DEF ReaderIffOwed
<1>11. Frames'
  <2>1. \A u \in Thread : IF pc'[u] \in {"read", "push", "settle"}
                          THEN pc'[u] = pc[u] /\ src(u)' = src(u)
                          ELSE pc[u] \notin {"read", "push", "settle"}
    BY <1>1 DEF TypeOK, Return, src
  <2> QED BY <1>1, <2>1, FramesKept
<1> QED BY <1>7, <1>8, <1>10, <1>11

(* Under mtx_ a thread becomes the reader of a socket only when nothing is *)
(* owed on it, that is, when the socket has no reader.                     *)
LEMMA RegisterIInv == ASSUME IInv, NEW t \in Thread, Register(t) PROVE IInv'
<1> USE DEF IInv
<1> DEFINE s == src(t)
           size == data[t].rt.size
           r == remains_[s] + size
<1>1. /\ pc[t] = "register" /\ remains_' = [remains_ EXCEPT ![s] = r]
      /\ \/ r <= size /\ r > 0 /\ pc' = [pc EXCEPT ![t] = "read"] /\ UNCHANGED data
         \/ ~(r <= size /\ r > 0) /\ Return(t)
      /\ UNCHANGED <<data_queue, at, got, stream, pos, unsent, out>>
  BY DEF Register, socketVars
<1>2. s \in Peer /\ size \in Nat \ {0} /\ remains_[s] \in Int /\ r \in Int
  BY <1>1 DEF Held, ReceiveTask, RepairTask, TypeOK
<1>3. TypeOK'
  BY <1>1, <1>2 DEF TypeOK, PC, Return
<1>4. Held'
  BY <1>1 DEF Held, TypeOK, Return, src
<1>5. \A u \in Thread, p \in Peer : u # t => (Reading(u, p)' <=> Reading(u, p))
  BY <1>1 DEF Reading, TypeOK, Return, src
<1>6. \A p \in Peer : ~Reading(t, p)
  BY <1>1 DEF Reading
<1>7. \A p \in Peer : Reading(t, p)' <=> (p = s /\ r <= size /\ r > 0)
  BY <1>1 DEF Reading, TypeOK, Return, src
<1>8. remains_[s] > 0 <=> ~(r <= size)
  BY <1>2
<1>9. remains_'[s] = r /\ \A p \in Peer \ {s} : remains_'[p] = remains_[p]
  BY <1>1, <1>2 DEF TypeOK
<1>10. ReaderIffOwed'
  <2> SUFFICES ASSUME NEW p \in Peer
               PROVE  /\ remains_'[p] > 0 <=> \E u \in Thread : Reading(u, p)'
                      /\ \A u, v \in Thread : Reading(u, p)' /\ Reading(v, p)' => u = v
    BY DEF ReaderIffOwed
  <2>1. /\ remains_[p] > 0 <=> \E u \in Thread : Reading(u, p)
        /\ \A u, v \in Thread : Reading(u, p) /\ Reading(v, p) => u = v
    BY DEF ReaderIffOwed
  <2>2. CASE p # s
    BY <2>1, <2>2, <1>5, <1>6, <1>7, <1>9
  <2>3. CASE p = s /\ remains_[s] > 0
    <3>1. r > 0 /\ ~(r <= size)
      BY <2>3, <1>2, <1>8
    <3> QED BY <3>1, <2>1, <2>3, <1>5, <1>6, <1>7, <1>9
  <2>4. CASE p = s /\ ~(remains_[s] > 0)
    <3>1. r <= size /\ \A u \in Thread : ~Reading(u, s)
      BY <2>1, <2>4, <1>8
    <3> HIDE DEF r, size
    <3> QED BY <3>1, <2>4, <1>2, <1>5, <1>7, <1>9
  <2> QED BY <2>2, <2>3, <2>4
<1>11. Frames'
  <2>1. ASSUME NEW u \in Thread, u # t
        PROVE  /\ pc'[u] = "read" => Partial(u)'
               /\ pc'[u] \in {"push", "settle"} => Whole(u)'
               /\ pc'[u] \notin {"read", "push", "settle"} => got'[u] = <<>>
    <3>1. pc'[u] = pc[u] /\ src(u)' = src(u) /\ UNCHANGED <<got, stream, pos>>
      BY <1>1, <2>1 DEF TypeOK, Return, src
    <3>2. pc'[u] = "read" => Partial(u)'
      BY <3>1, PartialKept DEF Frames
    <3>3. pc'[u] \in {"push", "settle"} => Whole(u)'
      BY <3>1, WholeKept DEF Frames
    <3> QED BY <3>1, <3>2, <3>3 DEF Frames
  <2>2. CASE r <= size /\ r > 0
    <3>1. ~(remains_[s] > 0)
      BY <1>8, <2>2
    <3>2. pos[s] = 0
      <4>1. \A u \in Thread : ~Reading(u, s)
        BY <1>2, <3>1 DEF ReaderIffOwed
      <4>2. pos[s] \in 0 .. 3
        BY <1>2 DEF TypeOK
      <4> QED BY <1>2, <4>1, <4>2 DEF Frames
    <3>3. got[t] = <<>> /\ got' = got /\ src(t)' = s /\ pos' = pos
      BY <1>1, <2>2 DEF Frames, src, Return
    <3>4. Partial(t)'
      BY <3>2, <3>3 DEF Partial
    <3>5. pc'[t] = "read"
      BY <1>1, <2>2 DEF TypeOK
    <3> QED BY <2>1, <3>4, <3>5, <1>1, <1>5, <1>6 DEF Frames
  <2>3. CASE ~(r <= size /\ r > 0)
    <3>1. pc'[t] = "idle" /\ got'[t] = <<>>
      BY <1>1, <2>3 DEF Frames, TypeOK, Return
    <3> QED BY <2>1, <3>1, <1>1, <1>5, <1>6 DEF Frames
  <2> QED BY <2>2, <2>3
<1> QED BY <1>3, <1>4, <1>10, <1>11

(* Only the one reader of a socket moves along it.                         *)
LEMMA ReadFieldIInv == ASSUME IInv, NEW t \in Thread, ReadField(t) PROVE IInv'
<1> USE DEF IInv
<1> DEFINE s == src(t)
           field == [piece |-> Head(stream[s]), field |-> pos[s] + 1]
<1>1. /\ pc[t] = "read" /\ stream[s] # <<>>
      /\ got' = [got EXCEPT ![t] = Append(@, field)]
      /\ pc' = [pc EXCEPT ![t] = IF Len(got[t]) = 3 THEN "push" ELSE "read"]
      /\ UNCHANGED <<data_queue, remains_, data, at, unsent, out>>
      /\ \/ /\ pos[s] = 3 /\ pos' = [pos EXCEPT ![s] = 0]
            /\ stream' = [stream EXCEPT ![s] = Tail(@)]
         \/ /\ pos[s] # 3 /\ pos' = [pos EXCEPT ![s] = @ + 1]
            /\ UNCHANGED stream
  BY DEF ReadField
<1>2. /\ s \in Peer /\ pos[s] \in 0 .. 3 /\ stream[s] \in Seq(Piece)
      /\ got[t] \in Seq(Field)
  BY <1>1 DEF Held, TypeOK
<1>3. /\ Len(got[t]) = pos[s]
      /\ \A i \in 1 .. Len(got[t]) : got[t][i] = [piece |-> Head(stream[s]), field |-> i]
  BY <1>1 DEF Frames, Partial
<1>4. Reading(t, s)
  BY <1>1 DEF Reading
<1>5. field \in Field
  BY <1>1, <1>2 DEF Field
<1> HIDE DEF field
<1>6. got'[t] = Append(got[t], field)
  BY <1>1 DEF TypeOK
<1>7. TypeOK'
  <2>1. got' \in [Thread -> Seq(Field)]
    <3>1. Append(got[t], field) \in Seq(Field)
      BY <1>2, <1>5
    <3> QED BY <1>1, <3>1 DEF TypeOK
  <2>2. stream' \in [Peer -> Seq(Piece)]
    <3>1. stream \in [Peer -> Seq(Piece)] /\ Tail(stream[s]) \in Seq(Piece)
      BY <1>1, <1>2 DEF TypeOK
    <3> QED BY <1>1, <3>1
  <2>3. pos' \in [Peer -> 0 .. 3]
    <3>1. pos \in [Peer -> 0 .. 3]
      BY DEF TypeOK
    <3> QED BY <1>1, <1>2, <3>1
  <2> QED BY <1>1, <2>1, <2>2, <2>3 DEF TypeOK, PC
<1>8. Held'
  BY <1>1 DEF Held, TypeOK, src
<1>9. \A u \in Thread, p \in Peer : Reading(u, p)' <=> Reading(u, p)
  BY <1>1 DEF Reading, TypeOK, src
<1>10. ReaderIffOwed'
  BY <1>1, <1>9 DEF ReaderIffOwed
<1>11. \A u \in Thread \ {t} : /\ pc'[u] = pc[u] /\ got'[u] = got[u] /\ src(u)' = src(u)
  BY <1>1 DEF TypeOK, src
<1>12. \A p \in Peer \ {s} : pos'[p] = pos[p] /\ stream'[p] = stream[p]
  BY <1>1, <1>2 DEF TypeOK
<1>13. \A u \in Thread \ {t} : pc[u] \in {"read", "push", "settle"} => src(u) \in Peer \ {s}
  BY <1>2, <1>4 DEF Held, ReaderIffOwed, Reading
<1>14. /\ src(t)' = s
       /\ Len(got'[t]) = pos[s] + 1
       /\ \A i \in 1 .. pos[s] + 1 : got'[t][i] = [piece |-> Head(stream[s]), field |-> i]
  <2>1. src(t)' = s
    BY <1>1 DEF src
  <2>2. Len(got'[t]) = pos[s] + 1
    BY <1>2, <1>3, <1>5, <1>6
  <2>3. \A i \in 1 .. pos[s] : got'[t][i] = got[t][i]
    BY <1>2, <1>3, <1>5, <1>6
  <2>4. got'[t][pos[s] + 1] = field
    BY <1>2, <1>3, <1>5, <1>6
  <2>5. ASSUME NEW i \in 1 .. pos[s] + 1
        PROVE  got'[t][i] = [piece |-> Head(stream[s]), field |-> i]
    <3>1. CASE i \in 1 .. pos[s]
      <4>1. got'[t][i] = got[t][i]
        BY <2>3, <3>1
      <4> QED BY <1>3, <3>1, <4>1
    <3>2. CASE i = pos[s] + 1
      BY <2>4, <3>2 DEF field
    <3> QED BY <1>2, <3>1, <3>2
  <2> QED BY <2>1, <2>2, <2>5
<1>15. Frames'
  <2>1. CASE pos[s] = 3
    <3>1. pc'[t] = "push" /\ pos'[s] = 0
      BY <1>1, <1>2, <1>3, <2>1 DEF TypeOK
    <3>2. Whole(t)'
      BY <1>14, <2>1, <3>1 DEF Whole
    <3>3. \A u \in Thread \ {t} : pc'[u] = "read" => Partial(u)'
      BY <1>11, <1>12, <1>13 DEF Frames, Partial
    <3>4. \A u \in Thread \ {t} : pc'[u] \in {"push", "settle"} => Whole(u)'
      BY <1>11, <1>12, <1>13 DEF Frames, Whole
    <3>5. \A p \in Peer : pos'[p] > 0 => \E u \in Thread : Reading(u, p)'
      BY <1>2, <1>9, <1>12, <3>1 DEF Frames
    <3> QED BY <1>11, <3>1, <3>2, <3>3, <3>4, <3>5 DEF Frames
  <2>2. CASE pos[s] # 3
    <3>1. pc'[t] = "read" /\ pos'[s] = pos[s] + 1 /\ stream'[s] = stream[s]
      BY <1>1, <1>2, <1>3, <2>2 DEF TypeOK
    <3>2. Partial(t)'
      BY <1>1, <1>14, <3>1 DEF Partial
    <3>3. \A u \in Thread \ {t} : pc'[u] = "read" => Partial(u)'
      BY <1>11, <1>12, <1>13 DEF Frames, Partial
    <3>4. \A u \in Thread \ {t} : pc'[u] \in {"push", "settle"} => Whole(u)'
      BY <1>11, <1>12, <1>13 DEF Frames, Whole
    <3>5. \A p \in Peer : pos'[p] > 0 => \E u \in Thread : Reading(u, p)'
      BY <1>2, <1>4, <1>9, <1>12 DEF Frames
    <3> QED BY <1>11, <3>1, <3>2, <3>3, <3>4, <3>5 DEF Frames
  <2> QED BY <2>1, <2>2
<1> QED BY <1>7, <1>8, <1>10, <1>15

LEMMA PushPieceIInv == ASSUME IInv, NEW t \in Thread, PushPiece(t) PROVE IInv'
<1> USE DEF IInv
<1> DEFINE g == got[t]
           dp == Network(g[1].piece.task_id, g[2].piece.offset, g[3].piece.size,
                         Get(src(t), g[2].piece.offset))
<1>1. /\ pc[t] = "push" /\ out' = out \cup {dp}
      /\ pc' = [pc EXCEPT ![t] = "settle"]
      /\ UNCHANGED <<data_queue, remains_, data, at, got, stream, pos, unsent>>
  BY DEF PushPiece, socketVars
<1>2. src(t) \in Node /\ Len(g) = 4
  BY <1>1 DEF Held, Frames, Whole, Peer
<1>3. \A i \in 1 .. 4 : g[i].piece \in Piece
  <2>1. g \in Seq(Field)
    BY DEF TypeOK
  <2>2. \A i \in 1 .. 4 : g[i] \in Field
    BY <1>2, <2>1
  <2> QED BY <2>2 DEF Field
<1>4. dp \in DataPiece(Task, Node)
  <2>1. /\ g[1].piece.task_id \in Task
        /\ g[2].piece.offset \in Nat
        /\ g[3].piece.size \in Nat
    BY <1>3 DEF Piece
  <2>2. Get(src(t), g[2].piece.offset) \in Cell(Node)
    BY <1>2, <2>1 DEF Get, Cell
  <2> HIDE DEF g
  <2> QED BY <2>1, <2>2 DEF Network, DataPiece
<1> HIDE DEF g, dp
<1>5. TypeOK'
  BY <1>1, <1>4 DEF TypeOK, PC
<1>6. Held'
  BY <1>1 DEF Held, TypeOK, src
<1>7. \A u \in Thread, p \in Peer : Reading(u, p)' <=> Reading(u, p)
  BY <1>1 DEF Reading, TypeOK, src
<1>8. ReaderIffOwed'
  BY <1>1, <1>7 DEF ReaderIffOwed
<1>9. Frames'
  <2>1. UNCHANGED <<got, stream, pos>> /\ \A u \in Thread : src(u)' = src(u)
    BY <1>1 DEF src
  <2>2. \A u \in Thread : pc'[u] = "read" => pc[u] = "read"
    BY <1>1 DEF TypeOK
  <2>3. \A u \in Thread : pc'[u] \in {"push", "settle"} => pc[u] \in {"push", "settle"}
    BY <1>1 DEF TypeOK
  <2>4. \A u \in Thread : pc'[u] \notin {"read", "push", "settle"} =>
                          pc[u] \notin {"read", "push", "settle"}
    BY <1>1 DEF TypeOK
  <2>5. \A u \in Thread : pc'[u] = "read" => Partial(u)'
    BY <2>1, <2>2, PartialKept DEF Frames
  <2>6. \A u \in Thread : pc'[u] \in {"push", "settle"} => Whole(u)'
    BY <2>1, <2>3, WholeKept DEF Frames
  <2> QED BY <1>7, <2>1, <2>4, <2>5, <2>6 DEF Frames
<1> QED BY <1>5, <1>6, <1>8, <1>9

(* The reader gives the socket up exactly when the debt is paid.           *)
LEMMA SettleIInv == ASSUME IInv, NEW t \in Thread, Settle(t) PROVE IInv'
<1> USE DEF IInv
<1> DEFINE s == src(t)
           r == remains_[s] - got[t][3].piece.size
<1>1. /\ pc[t] = "settle" /\ remains_' = [remains_ EXCEPT ![s] = r]
      /\ got' = [got EXCEPT ![t] = <<>>]
      /\ \/ r > 0 /\ pc' = [pc EXCEPT ![t] = "read"] /\ UNCHANGED data
         \/ ~(r > 0) /\ Return(t)
      /\ UNCHANGED <<data_queue, at, stream, pos, unsent, out>>
  BY DEF Settle, socketVars
<1>2. /\ s \in Peer /\ remains_[s] \in Int /\ pos[s] = 0
      /\ got[t] \in Seq(Field) /\ Len(got[t]) = 4
  BY <1>1 DEF Held, TypeOK, Frames, Whole
<1>3. r \in Int
  <2>1. got[t][3] \in Field
    BY <1>2
  <2>2. got[t][3].piece.size \in Nat
    BY <2>1 DEF Field, Piece
  <2> QED BY <1>2, <2>2
<1>4. Reading(t, s)
  BY <1>1 DEF Reading
<1> HIDE DEF r
<1>5. TypeOK'
  <2>1. got' \in [Thread -> Seq(Field)]
    BY <1>1 DEF TypeOK
  <2> QED BY <1>1, <1>2, <1>3, <2>1 DEF TypeOK, PC, Return
<1>6. Held'
  BY <1>1 DEF Held, TypeOK, Return, src
<1>7. \A u \in Thread \ {t} :
        /\ pc'[u] = pc[u] /\ got'[u] = got[u] /\ src(u)' = src(u)
        /\ \A p \in Peer : Reading(u, p)' <=> Reading(u, p)
  BY <1>1 DEF TypeOK, Return, Reading, src
<1>8. \A p \in Peer : Reading(t, p)' <=> (p = s /\ r > 0)
  BY <1>1 DEF Reading, TypeOK, Return, src
<1>9. remains_'[s] = r /\ \A p \in Peer \ {s} : remains_'[p] = remains_[p]
  BY <1>1, <1>2 DEF TypeOK
<1>10. \A u \in Thread \ {t} : ~Reading(u, s)
  BY <1>2, <1>4 DEF ReaderIffOwed
<1>11. \A p \in Peer \ {s} : ~Reading(t, p)
  BY DEF Reading
<1>12. ReaderIffOwed'
  <2> SUFFICES ASSUME NEW p \in Peer
               PROVE  /\ remains_'[p] > 0 <=> \E u \in Thread : Reading(u, p)'
                      /\ \A u, v \in Thread : Reading(u, p)' /\ Reading(v, p)' => u = v
    BY DEF ReaderIffOwed
  <2>1. CASE p = s
    BY <2>1, <1>3, <1>7, <1>8, <1>9, <1>10
  <2>2. CASE p # s
    <3>1. /\ remains_[p] > 0 <=> \E u \in Thread : Reading(u, p)
          /\ \A u, v \in Thread : Reading(u, p) /\ Reading(v, p) => u = v
      BY DEF ReaderIffOwed
    <3> QED BY <2>2, <3>1, <1>7, <1>8, <1>9, <1>11
  <2> QED BY <2>1, <2>2
<1>13. Frames'
  <2>1. UNCHANGED <<stream, pos>>
    BY <1>1
  <2>2. \A u \in Thread \ {t} : /\ pc'[u] = "read" => Partial(u)'
                                /\ pc'[u] \in {"push", "settle"} => Whole(u)'
                                /\ pc'[u] \notin {"read", "push", "settle"} => got'[u] = <<>>
    BY <1>7, <2>1 DEF Frames, Partial, Whole
  <2>3. got'[t] = <<>> /\ pc'[t] \in {"read", "idle"}
    BY <1>1 DEF TypeOK, Return
  <2>4. pc'[t] = "read" => Partial(t)'
    <3>1. pc'[t] = "read" => src(t)' = s
      BY <1>1 DEF src, Return, TypeOK
    <3> QED BY <1>2, <2>1, <2>3, <3>1 DEF Partial
  <2>5. \A p \in Peer : pos'[p] > 0 => \E u \in Thread : Reading(u, p)'
    BY <1>2, <1>7, <1>11, <2>1 DEF Frames
  <2> QED BY <2>2, <2>3, <2>4, <2>5 DEF Frames
<1> QED BY <1>5, <1>6, <1>12, <1>13

LEMMA NextIInv == IInv /\ [Next]_vars => IInv'
<1> SUFFICES ASSUME IInv, [Next]_vars PROVE IInv'
  OBVIOUS
<1>1. CASE \E p \in Peer : PeerSend(p)
  BY <1>1, PeerSendIInv
<1>2. CASE \E t \in Thread : Step(t)
  BY <1>2, ProcessIInv, LoadInfoIInv, LoadPieceIInv, RegisterIInv, ReadFieldIInv,
     PushPieceIInv, SettleIInv DEF Step
<1>3. CASE UNCHANGED vars
  <2>1. TypeOK'
    BY <1>3 DEF IInv, vars, socketVars, TypeOK
  <2>2. Held' /\ ReaderIffOwed'
    BY <1>3 DEF IInv, vars, socketVars, Held, ReaderIffOwed, Reading, src
  <2>3. Frames'
    BY <1>3, FramesKept DEF IInv, vars, socketVars, src
  <2> QED BY <2>1, <2>2, <2>3 DEF IInv
<1> QED BY <1>1, <1>2, <1>3 DEF Next

THEOREM Invariance == Spec => []IInv
<1> QED BY InitIInv, NextIInv, PTL DEF Spec

-----------------------------------------------------------------------------
(* Every variable keeps its type: in particular LoadData_ never cuts a     *)
(* piece past the end of its task and never counts below 0.                *)
THEOREM TypeCorrect == Spec => []TypeOK
<1>1. IInv => TypeOK
  BY DEF IInv
<1> QED BY <1>1, Invariance, PTL

(* At any time, on any socket: bytes are owed exactly when some thread     *)
(* reads it, and two threads never do.                                     *)
THEOREM OneReader == Spec => []ReaderIffOwed
<1>1. IInv => ReaderIffOwed
  BY DEF IInv
<1> QED BY <1>1, Invariance, PTL

(* What a reader has of a piece are that piece's fields, in their order.   *)
THEOREM WholePieces == Spec => []NoTornPiece
<1>1. IInv => NoTornPiece
  <2> SUFFICES ASSUME IInv, NEW t \in Thread, NEW i \in 1 .. Len(got[t])
               PROVE  got[t][i] = [piece |-> got[t][1].piece, field |-> i]
    BY DEF NoTornPiece
  <2>1. CASE pc[t] = "read"
    <3> DEFINE h == Head(stream[src(t)])
    <3>1. \A k \in 1 .. Len(got[t]) : got[t][k] = [piece |-> h, field |-> k]
      BY <2>1 DEF IInv, Frames, Partial
    <3>2. 1 \in 1 .. Len(got[t])
      BY DEF IInv, TypeOK
    <3> HIDE DEF h
    <3>3. got[t][1] = [piece |-> h, field |-> 1]
      BY <3>1, <3>2, Zenon
    <3>4. got[t][1].piece = h
      BY <3>3
    <3> QED BY <3>1, <3>4, Zenon
  <2>2. CASE pc[t] \in {"push", "settle"}
    <3>1. Len(got[t]) = 4 /\ \A k \in 1 .. 4 :
            got[t][k] = [piece |-> got[t][1].piece, field |-> k]
      BY <2>2 DEF IInv, Frames, Whole
    <3>2. i \in 1 .. 4
      BY <3>1
    <3> QED BY <3>1, <3>2
  <2>3. CASE pc[t] \notin {"read", "push", "settle"}
    <3>1. got[t] = <<>>
      BY <2>3 DEF IInv, Frames
    <3> QED BY <3>1
  <2> QED BY <2>1, <2>2, <2>3
<1> QED BY <1>1, Invariance, PTL
=============================================================================
