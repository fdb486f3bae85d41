----------------------- MODULE ComputeProcessor_proofs -----------------------
(***************************************************************************)
(* For any program, any number of nodes and threads: a thread never loses  *)
(* the objects it refers to, every sum and info is passed on once, groups  *)
(* of forwarded tasks are reclaimed; and if the tasks are about disjoint   *)
(* parts of the block, what is passed on is the whole sum.                 *)
(***************************************************************************)
EXTENDS ComputeProcessor, TLAPS, SequenceTheorems, FiniteSetTheorems

Items == Infos \cup Locals \cup Networks

(* The contributions to a piece, one of this node and one of each source.  *)
LocalOf(x) == LocalPiece(rtOf(x.task_id), x)
Gathered(x) == {LocalOf(x)} \cup {NetworkPiece(p, x) : p \in sourcesOf(x.task_id)}

(* How far the items are: not in a piece yet, and not counted yet.         *)
Queued == {data_queue[n] : n \in 1 .. Len(data_queue)}
HeldAt(L) == {data[t] : t \in {u \in Thread : pc[u] \in L}}
Pending(L) == coming \cup Queued \cup HeldAt(L)
Early == {"group", "info", "find", "merge"}
Unmerged == Pending(Early)
Uncounted == Pending(Early \cup {"count"})
Unnoted == Pending(Early \cup {"account"})
Merged(x) == Gathered(x) \ Unmerged
Counted(x) == Gathered(x) \ Uncounted
Complete(x) == Gathered(x) \cap Uncounted = {}

(* The thread that has counted the last contribution and has yet to remove *)
(* the piece, or to add its size to the group's sum.                       *)
At(t, x) == data[t].task_id = x.task_id /\ data[t].offset = x.offset
Completes(t) == pc[t] = "remove" \/ (pc[t] = "account" /\ size[t] > 0)
Removing(x) == \E t \in Thread : pc[t] = "remove" /\ At(t, x)
Completing(x) == \E t \in Thread : Completes(t) /\ At(t, x)

(* An item is in one place.                                                *)
OnePlace ==
  /\ coming \subseteq Items /\ data_queue \in Seq(Items) /\ coming \cap Queued = {}
  /\ \A m, n \in 1 .. Len(data_queue) : m # n => data_queue[m] # data_queue[n]
  /\ \A t \in Thread : pc[t] # "idle" => data[t] \in Items /\ data[t] \notin coming \cup Queued
  /\ \A t, u \in Thread : t # u /\ pc[t] # "idle" /\ pc[u] # "idle" => data[t] # data[u]

(* Where a thread is says what it works on and with what size.             *)
Working == \A t \in Thread :
  /\ pc[t] = "info" => data[t] \in Infos
  /\ pc[t] \in {"find", "merge", "count", "remove"} => data[t] \notin Infos
  /\ pc[t] \in {"group", "info", "find", "merge", "count", "remove"} => size[t] = data[t].size
  /\ pc[t] = "account" => IF data[t] \in Infos THEN size[t] = 0 - data[t].size
                          ELSE size[t] \in {0, data[t].size}
  /\ pc[t] \in {"merge", "count", "remove"} => tp(t) # NoPiece

(* Whoever completes a piece does so alone, when all have been counted.    *)
Completers ==
  /\ \A t \in Thread, x \in Pieces : Completes(t) /\ At(t, x) => Complete(x)
  /\ \A t, u \in Thread : Completes(t) /\ Completes(u) /\ task(t) = task(u)
                          /\ data[t].offset = data[u].offset => t = u

(* The buffers of a piece: its scratch buffer and those of what is merged. *)
Own(x) == {Get(0, x.offset)} \cup ({d.buf : d \in Merged(x)} \ {nullptr})
Filled(x) == \E d \in Merged(x) : d.buf # nullptr

(* A piece is there from its first contribution to its last, and its fields*)
(* are what the contributions merged and counted so far make of them.      *)
Gone(x) == Merged(x) = {} \/ (Complete(x) /\ ~Removing(x))
Fits(x, p) ==
  /\ Merged(x) # {} /\ (Complete(x) => Removing(x))
  /\ p.num = Cardinality(Counted(x))
  /\ p.src_num = (IF LocalOf(x) \in Counted(x) THEN rtOf(x.task_id).src_num ELSE 0)
  /\ p.tar_id = (IF LocalOf(x) \in Merged(x) THEN rtOf(x.task_id).tar_id ELSE 0)
  /\ p.size = (IF Filled(x) THEN x.size ELSE 0)
  /\ p.buf # nullptr <=> Filled(x)
  /\ p.buf \in Own(x) \cup {nullptr} /\ p.temp_buf \in Own(x) /\ p.buf # p.temp_buf
piece(x) == pieces[<<x.task_id, x.offset>>]
Kept == \A x \in Pieces : IF piece(x) = NoPiece THEN Gone(x) ELSE Fits(x, piece(x))

(* What has been passed on: each info that is processed, and one sum for   *)
(* each complete piece.                                                    *)
Sum(x, d) ==
  /\ d.tar_id = rtOf(x.task_id).tar_id
  /\ d.size = (IF \E e \in Gathered(x) : e.buf # nullptr THEN x.size ELSE 0)
  /\ d.buf = nullptr <=> \A e \in Gathered(x) : e.buf = nullptr
  /\ d.buf # nullptr => d.buf[2] = x.offset
Passed ==
  /\ \A d \in BagToSet(next) : next[d] = 1 /\ (d \in Infos => d \notin Unmerged)
  /\ \A d \in Sums : \E x \in Pieces : Complete(x) /\ d \in SumsOf(x) /\ Sum(x, d)
  /\ \A x \in Pieces : \A d, e \in SumsOf(x) : d = e

(* All items of a task are processed; threads that have yet to account for *)
(* one of them have nothing to add.                                        *)
Of(k, S) == {d \in S : d.task_id = k}
Busy(t) == pc[t] \in {"group", "info", "find", "merge", "count", "remove"}
           \/ (pc[t] = "account" /\ size[t] # 0)
Over(k) == /\ Of(k, coming \cup Queued) = {}
           /\ \A t \in Thread : Busy(t) => task(t) # k
           /\ \A x \in Pieces : x.task_id = k => piece(x) = NoPiece

(* A group is there while a thread works for its task.                     *)
Finished(g) == g.sum = g.total /\ g.total > 0
Groups == \A k \in Task :
  /\ task_pieces_[k].state = "none" =>
       /\ \A t \in Thread : pc[t] \notin {"idle", "group"} => task(t) # k
       /\ Of(k, Items) \subseteq Unmerged
  /\ task_pieces_[k].state = "erased" => Over(k)
  /\ \A t \in Thread : pc[t] = "reap" /\ task(t) = k => Over(k)
  /\ \A t \in Thread : pc[t] = "lost" /\ task(t) = k => task_pieces_[k].state = "erased"
  /\ task_pieces_[k].state = "live" /\ Finished(task_pieces_[k]) =>
       \E t \in Thread : pc[t] = "reap" /\ task(t) = k

(* sum is the number of bytes of the pieces that are accounted for, or less*)
(* where the task ends here; total is known when the info is accounted for.*)
Bytes(x) == x.offset .. x.offset + x.size - 1
Accounted(k) == {x \in Pieces : x.task_id = k /\ Complete(x) /\ ~Completing(x)}
BytesOf(S) == UNION {Bytes(x) : x \in S}
Sizes == \A j \in Program : LET g == task_pieces_[j.rt.task_id] IN g.state = "live" =>
  /\ g.sum <= Cardinality(BytesOf(Accounted(j.rt.task_id)))
  /\ j.rt.tar_id # id => g.sum = Cardinality(BytesOf(Accounted(j.rt.task_id)))
  /\ g.total = IF Info(j.rt) \in Unnoted THEN 0 ELSE j.rt.size

IInv == TypeOK /\ OnePlace /\ Working /\ Completers /\ Kept /\ Passed /\ Groups /\ Sizes

(* The memory. *)
Loaded == \A d \in Unmerged \ coming : d.buf # nullptr => mem[d.buf] = Contents(d)
Added(x) == UNION {Contents(d) : d \in Merged(x)}
Summed == \A x \in Pieces :
  piece(x) # NoPiece /\ piece(x).buf # nullptr => mem[piece(x).buf] = Added(x)
MInv == Loaded /\ Summed /\ PieceIntact
-----------------------------------------------------------------------------
(* What the program is made of.                                            *)
LEMMA Jobs == ASSUME NEW j \in Program
              PROVE /\ j.rt \in RepairTask(Task, Node) /\ j.rt.task_id \in Task
                    /\ rtOf(j.rt.task_id) = j.rt /\ sourcesOf(j.rt.task_id) = j.sources
                    /\ j.sources \subseteq Node \ {id} /\ IsFiniteSet(j.sources)
                    /\ j.rt.src_num = Cardinality(j.sources) + 1
                    /\ Cardinality(j.sources) \in Nat
  <1>1. j \in [rt : RepairTask(Task, Node), sources : SUBSET (Node \ {id})]
    BY ProgramAssumption
  <1>2. j.rt \in RepairTask(Task, Node) /\ j.sources \in SUBSET (Node \ {id})
    BY <1>1
  <1>3. j.rt.task_id \in Task
    BY <1>2 DEF RepairTask
  <1>4. IsFiniteSet(j.sources)
    BY <1>2, IdAssumption, FS_Subset
  <1>5. \A k \in Program : k.rt.task_id = j.rt.task_id => k = j
    BY ProgramAssumption
  <1>6. (CHOOSE k \in Program : k.rt.task_id = j.rt.task_id) = j
    BY <1>5
  <1> QED BY <1>2, <1>3, <1>4, <1>6, ProgramAssumption, FS_CardinalityType DEF rtOf, sourcesOf

(* The n-th piece of a task, and how the numbers of two pieces compare.    *)
Nth(rt, n) == [task_id |-> rt.task_id, offset |-> rt.offset + n * rt.piece_size,
               size |-> IF rt.size - n * rt.piece_size < rt.piece_size
                        THEN rt.size - n * rt.piece_size ELSE rt.piece_size]
LEMMA NthOf == ASSUME NEW rt \in RepairTask(Task, Node), NEW x \in PiecesOf(rt)
               PROVE \E n \in Nat : n * rt.piece_size < rt.size /\ x = Nth(rt, n)
  BY DEF PiecesOf, Nth, RepairTask
LEMMA Apiece ==
  ASSUME NEW rt \in RepairTask(Task, Node), NEW x \in PiecesOf(rt)
  PROVE /\ x.task_id = rt.task_id /\ x.offset \in Nat /\ x.size \in Nat \ {0}
        /\ x.offset >= rt.offset /\ x.offset + x.size <= rt.offset + rt.size
  <1>1. PICK n \in Nat : n * rt.piece_size < rt.size /\ x = Nth(rt, n)
    BY NthOf
  <1>2. /\ rt.size \in Nat \ {0} /\ rt.piece_size \in Nat \ {0} /\ rt.offset \in Nat
    BY DEF RepairTask
  <1>3. PICK s \in Nat, ps \in Nat, o \in Nat, m \in Nat :
          s = rt.size /\ ps = rt.piece_size /\ o = rt.offset /\ m = n * rt.piece_size /\ ps # 0
    <2>1. \A a, b \in Nat : a * b \in Nat
      OBVIOUS
    <2> QED BY ONLY <1>2, <2>1, n \in Nat
  <1>4. /\ x.task_id = rt.task_id /\ x.offset = o + m
        /\ x.size = IF s - m < ps THEN s - m ELSE ps
    BY <1>1, <1>3 DEF Nth
  <1>5. m < s
    BY <1>1, <1>3
  <1> QED BY ONLY <1>3, <1>4, <1>5

(* Pieces of a task do not overlap.                                        *)
LEMMA NoOverlap ==
  ASSUME NEW rt \in RepairTask(Task, Node), NEW x \in PiecesOf(rt), NEW y \in PiecesOf(rt), x # y
  PROVE x.offset + x.size <= y.offset \/ y.offset + y.size <= x.offset
  <1>1. PICK n \in Nat : n * rt.piece_size < rt.size /\ x = Nth(rt, n)
    BY NthOf
  <1>2. PICK m \in Nat : m * rt.piece_size < rt.size /\ y = Nth(rt, m)
    BY NthOf
  <1>3. n # m
    BY <1>1, <1>2
  <1>4. PICK s \in Nat, ps \in Nat, o \in Nat :
          s = rt.size /\ ps = rt.piece_size /\ o = rt.offset /\ ps # 0
    BY DEF RepairTask
  <1>5. /\ x.offset = o + n * ps /\ x.size = IF s - n * ps < ps THEN s - n * ps ELSE ps
        /\ y.offset = o + m * ps /\ y.size = IF s - m * ps < ps THEN s - m * ps ELSE ps
    BY <1>1, <1>2, <1>4 DEF Nth
  <1>6. \A a, b, c \in Nat : a < b => a * c + c <= b * c
    <2> SUFFICES ASSUME NEW a \in Nat, NEW b \in Nat, NEW c \in Nat, a < b PROVE a * c + c <= b * c
      OBVIOUS
    <2>1. PICK e \in Nat : b = a + 1 + e
      <3>1. b - a - 1 \in Nat /\ b = a + 1 + (b - a - 1)
        OBVIOUS
      <3> QED BY <3>1
    <2>2. b * c = a * c + c + e * c /\ e * c \in Nat /\ a * c \in Nat
      BY <2>1
    <2> QED BY ONLY <2>2, c \in Nat
  <1>7. \A a, b \in Nat : a * b \in Nat
    OBVIOUS
  <1>8. PICK np \in Nat, mp \in Nat : np = n * ps /\ mp = m * ps
    BY ONLY <1>4, <1>7, n \in Nat, m \in Nat
  <1>9. np + ps <= mp \/ mp + ps <= np
    <2>1. n < m \/ m < n
      BY ONLY <1>3, n \in Nat, m \in Nat
    <2> QED BY ONLY <1>4, <1>6, <1>8, <2>1, n \in Nat, m \in Nat
  <1> QED BY ONLY <1>4, <1>5, <1>8, <1>9

(* Every byte of a task is in a piece of it.                               *)
LEMMA Covered ==
  ASSUME NEW rt \in RepairTask(Task, Node), NEW b \in rt.offset .. rt.offset + rt.size - 1
  PROVE \E x \in PiecesOf(rt) : b \in Bytes(x)
  <1>1. PICK s \in Nat, ps \in Nat, o \in Nat :
          s = rt.size /\ ps = rt.piece_size /\ o = rt.offset /\ ps # 0
    BY DEF RepairTask
  <1>2. PICK c \in Nat : b = o + c /\ c < s
    <2>1. b - o \in Nat /\ b = o + (b - o) /\ b - o < s
      BY <1>1
    <2> QED BY <2>1
  <1>3. \A a \in Nat, e \in Nat \ {0} : \E q \in Nat : q * e <= a /\ a < q * e + e /\ q <= a
    <2> SUFFICES ASSUME NEW a \in Nat, NEW e \in Nat \ {0}
                 PROVE \E q \in Nat : q * e <= a /\ a < q * e + e /\ q <= a
      OBVIOUS
    <2>1. /\ a \div e \in Nat /\ (a \div e) * e <= a /\ a < (a \div e) * e + e /\ a \div e <= a
      OBVIOUS
    <2> QED BY <2>1
  <1>4. PICK q \in Nat : q * ps <= c /\ c < q * ps + ps /\ q <= c
    BY ONLY <1>1, <1>2, <1>3
  <1>5. PICK qp \in Nat : qp = q * ps
    <2>1. \A a, e \in Nat : a * e \in Nat
      OBVIOUS
    <2> QED BY ONLY <2>1, <1>1, q \in Nat
  <1>6. q \in 0 .. s /\ qp < s
    BY ONLY <1>1, <1>2, <1>4, <1>5
  <1>7. Nth(rt, q) \in PiecesOf(rt)
    BY <1>1, <1>5, <1>6 DEF PiecesOf, Nth
  <1>8. Nth(rt, q).offset = o + qp /\ Nth(rt, q).size = IF s - qp < ps THEN s - qp ELSE ps
    BY <1>1, <1>5 DEF Nth
  <1>9. b \in Bytes(Nth(rt, q))
    BY <1>1, <1>2, <1>4, <1>5, <1>8 DEF Bytes
  <1> QED BY <1>7, <1>9

(* The same for the pieces of all tasks: what x is a piece of, and that    *)
(* task and offset name one piece.                                         *)
JobOf(x) == CHOOSE j \in Program : x \in PiecesOf(j.rt)
LEMMA PieceFacts ==
  ASSUME NEW x \in Pieces
  PROVE /\ JobOf(x) \in Program /\ x \in PiecesOf(JobOf(x).rt) /\ x.task_id = JobOf(x).rt.task_id
        /\ rtOf(x.task_id) = JobOf(x).rt /\ sourcesOf(x.task_id) = JobOf(x).sources
        /\ x.task_id \in Task /\ x.offset \in Offset /\ x.offset \in Nat /\ x.size \in Nat \ {0}
  <1>1. \E j \in Program : x \in PiecesOf(j.rt)
    BY DEF Pieces
  <1>2. JobOf(x) \in Program /\ x \in PiecesOf(JobOf(x).rt)
    BY <1>1 DEF JobOf
  <1>3. PICK j \in Program : j = JobOf(x)
    BY <1>2
  <1>4. /\ j.rt \in RepairTask(Task, Node) /\ j.rt.task_id \in Task
        /\ rtOf(j.rt.task_id) = j.rt /\ sourcesOf(j.rt.task_id) = j.sources
    BY Jobs
  <1>5. x.task_id = j.rt.task_id /\ x.offset \in Nat /\ x.size \in Nat \ {0}
    BY <1>2, <1>3, <1>4, Apiece
  <1>6. x.offset \in Offset
    BY DEF Offset
  <1> QED BY <1>2, <1>3, <1>4, <1>5, <1>6
LEMMA SameTask ==
  ASSUME NEW j \in Program, NEW x \in Pieces, x.task_id = j.rt.task_id
  PROVE x \in PiecesOf(j.rt)
  <1>1. JobOf(x) \in Program /\ x \in PiecesOf(JobOf(x).rt) /\ x.task_id = JobOf(x).rt.task_id
    BY PieceFacts
  <1> QED BY <1>1, ProgramAssumption
LEMMA SamePiece ==
  ASSUME NEW x \in Pieces, NEW y \in Pieces, x.task_id = y.task_id, x.offset = y.offset
  PROVE x = y
  <1>1. JobOf(x) \in Program /\ x \in PiecesOf(JobOf(x).rt) /\ x.task_id = JobOf(x).rt.task_id
        /\ x.offset \in Nat /\ x.size \in Nat \ {0}
    BY PieceFacts
  <1>2. y \in PiecesOf(JobOf(x).rt) /\ y.size \in Nat \ {0}
    BY <1>1, SameTask, PieceFacts
  <1>3. x # y => x.offset + x.size <= y.offset \/ y.offset + y.size <= x.offset
    BY <1>1, <1>2, Jobs, NoOverlap
  <1> QED BY <1>1, <1>2, <1>3
LEMMA PiecesOfJob == ASSUME NEW j \in Program, NEW x \in PiecesOf(j.rt)
                     PROVE x \in Pieces /\ x.task_id = j.rt.task_id
  BY Jobs, Apiece DEF Pieces

(* The items: what an info, a local piece and a network piece look like.   *)
LEMMA Buffers == \A p, o : Get(p, o) # nullptr /\ Get(p, o) = <<p, o>>
                           /\ Get(p, o)[1] = p /\ Get(p, o)[2] = o
  BY DEF Get, nullptr
LEMMA InfoFacts ==
  ASSUME NEW d \in Infos
  PROVE \E j \in Program : /\ d = Info(j.rt) /\ d.task_id = j.rt.task_id /\ d.size = j.rt.size
                           /\ d.size \in Nat \ {0} /\ d.buf = nullptr /\ d.offset = 0
                           /\ d.tar_id = 0 /\ d.src_num = 0
  <1>1. PICK j \in Program : d = Info(j.rt)
    BY DEF Infos
  <1>2. j.rt.size \in Nat \ {0}
    BY Jobs DEF RepairTask
  <1> QED BY <1>1, <1>2 DEF Info
LEMMA LocalFacts ==
  ASSUME NEW x \in Pieces
  PROVE LET d == LocalOf(x)  rt == rtOf(x.task_id) IN
        /\ d \in Locals /\ d.task_id = x.task_id /\ d.offset = x.offset
        /\ d.tar_id = rt.tar_id /\ d.src_num = rt.src_num
        /\ rt.tar_id = id => d.buf = nullptr /\ d.size = 0
        /\ rt.tar_id # id => d.buf = Get(id, x.offset) /\ d.size = x.size
  <1>1. /\ JobOf(x) \in Program /\ x \in PiecesOf(JobOf(x).rt) /\ x.task_id = JobOf(x).rt.task_id
        /\ rtOf(x.task_id) = JobOf(x).rt
    BY PieceFacts
  <1>2. LocalOf(x) \in Locals
    BY <1>1 DEF Locals, LocalOf
  <1>3. LocalOf(x) = IF rtOf(x.task_id).tar_id = id THEN Local(rtOf(x.task_id), x.offset, 0, nullptr)
                     ELSE Local(rtOf(x.task_id), x.offset, x.size, Get(id, x.offset))
    BY DEF LocalOf, LocalPiece
  <1> QED BY <1>1, <1>2, <1>3 DEF Local
LEMMA NetworkFacts ==
  ASSUME NEW x \in Pieces, NEW p \in sourcesOf(x.task_id)
  PROVE LET d == NetworkPiece(p, x) IN
        /\ d \in Networks /\ d.task_id = x.task_id /\ d.offset = x.offset /\ d.size = x.size
        /\ d.tar_id = 0 /\ d.src_num = 0 /\ d.buf = Get(p, x.offset)
        /\ p \in Node \ {id}
  <1>1. /\ JobOf(x) \in Program /\ x \in PiecesOf(JobOf(x).rt)
        /\ sourcesOf(x.task_id) = JobOf(x).sources
    BY PieceFacts
  <1>2. NetworkPiece(p, x) \in Networks
    BY <1>1 DEF Networks
  <1>3. p \in Node \ {id}
    BY <1>1, Jobs
  <1> QED BY <1>2, <1>3 DEF NetworkPiece, Network

(* Every item but the infos contributes to one piece.                      *)
LEMMA Contributes ==
  ASSUME NEW d \in Locals \cup Networks
  PROVE \E x \in Pieces : d \in Gathered(x)
  <1>1. CASE d \in Locals
    <2>0. PICK j \in Program : d \in {LocalPiece(j.rt, x) : x \in PiecesOf(j.rt)}
      BY <1>1 DEF Locals
    <2>1. PICK x \in PiecesOf(j.rt) : d = LocalPiece(j.rt, x)
      BY <2>0
    <2>2. x \in Pieces /\ x.task_id = j.rt.task_id /\ rtOf(x.task_id) = j.rt
      BY PiecesOfJob, Jobs
    <2> QED BY <2>1, <2>2 DEF Gathered, LocalOf
  <1>2. CASE d \in Networks
    <2>0. PICK j \in Program : d \in {NetworkPiece(p, x) : p \in j.sources, x \in PiecesOf(j.rt)}
      BY <1>2 DEF Networks
    <2>1. PICK p \in j.sources, x \in PiecesOf(j.rt) : d = NetworkPiece(p, x)
      BY <2>0
    <2>2. x \in Pieces /\ p \in sourcesOf(x.task_id)
      BY PiecesOfJob, Jobs
    <2> QED BY <2>1, <2>2 DEF Gathered
  <1> QED BY <1>1, <1>2
LEMMA GatheredFacts ==
  ASSUME NEW x \in Pieces, NEW d \in Gathered(x)
  PROVE /\ d \in Locals \cup Networks /\ d.task_id = x.task_id /\ d.offset = x.offset
        /\ d.size = (IF d.buf = nullptr THEN 0 ELSE x.size)
        /\ d = LocalOf(x) => /\ d.tar_id = rtOf(x.task_id).tar_id
                             /\ d.src_num = rtOf(x.task_id).src_num
                             /\ d.buf \in {nullptr, Get(id, x.offset)}
        /\ d # LocalOf(x) => /\ d.tar_id = 0 /\ d.src_num = 0 /\ d.buf # nullptr
                             /\ \E p \in Node \ {id} : d.buf = Get(p, x.offset)
        /\ d.buf # nullptr => \E p \in Node : d.buf = Get(p, x.offset)
        /\ rtOf(x.task_id).tar_id # id => d.buf # nullptr
  <1>1. CASE d = LocalOf(x)
    <2>1. /\ d \in Locals /\ d.task_id = x.task_id /\ d.offset = x.offset
          /\ d.tar_id = rtOf(x.task_id).tar_id /\ d.src_num = rtOf(x.task_id).src_num
          /\ rtOf(x.task_id).tar_id = id => d.buf = nullptr /\ d.size = 0
          /\ rtOf(x.task_id).tar_id # id => d.buf = Get(id, x.offset) /\ d.size = x.size
      BY <1>1, LocalFacts
    <2>2. d.size = (IF d.buf = nullptr THEN 0 ELSE x.size) /\ d.buf \in {nullptr, Get(id, x.offset)}
      BY <2>1, Buffers
    <2>3. d.buf # nullptr => \E p \in Node : d.buf = Get(p, x.offset)
      BY <2>2, IdAssumption
    <2>4. rtOf(x.task_id).tar_id # id => d.buf # nullptr
      BY <2>1, Buffers
    <2> QED BY <1>1, <2>1, <2>2, <2>3, <2>4
  <1>2. CASE d # LocalOf(x)
    <2>1. PICK p \in sourcesOf(x.task_id) : d = NetworkPiece(p, x)
      BY <1>2 DEF Gathered
    <2>2. /\ d \in Networks /\ d.task_id = x.task_id /\ d.offset = x.offset /\ d.size = x.size
          /\ d.tar_id = 0 /\ d.src_num = 0 /\ d.buf = Get(p, x.offset) /\ p \in Node \ {id}
      BY <2>1, NetworkFacts
    <2>3. d.buf # nullptr
      BY <2>2, Buffers
    <2> QED BY <1>2, <2>2, <2>3
  <1> QED BY <1>1, <1>2
LEMMA GatheredBy ==
  ASSUME NEW x \in Pieces, NEW d \in Locals \cup Networks,
         d.task_id = x.task_id, d.offset = x.offset
  PROVE d \in Gathered(x)
  BY Contributes, GatheredFacts, SamePiece
LEMMA ItemKinds ==
  ASSUME NEW d \in Items
  PROVE /\ d.task_id \in Task /\ d.offset \in Nat /\ d.size \in Nat /\ d.src_num \in Nat
        /\ d \in Infos <=> d.buf = nullptr /\ d.size > 0
        /\ d \in Infos <=> d \notin Locals \cup Networks
  <1>1. CASE d \in Infos
    <2>1. PICK j \in Program : /\ d = Info(j.rt) /\ d.task_id = j.rt.task_id /\ d.size = j.rt.size
                           /\ d.size \in Nat \ {0} /\ d.buf = nullptr /\ d.offset = 0
                           /\ d.tar_id = 0 /\ d.src_num = 0
      BY <1>1, InfoFacts
    <2>2. d.task_id \in Task
      BY <2>1, Jobs
    <2>3. d \notin Locals \cup Networks
      <3> SUFFICES ASSUME d \in Locals \cup Networks PROVE FALSE
        OBVIOUS
      <3>1. PICK x \in Pieces : d \in Gathered(x)
        BY Contributes
      <3> QED BY <2>1, <3>1, GatheredFacts
    <2> QED BY <1>1, <2>1, <2>2, <2>3
  <1>2. CASE d \notin Infos
    <2>1. d \in Locals \cup Networks
      BY <1>2 DEF Items
    <2>2. PICK x \in Pieces : d \in Gathered(x)
      BY <2>1, Contributes
    <2>3. /\ x.task_id \in Task /\ x.offset \in Nat /\ x.size \in Nat
          /\ rtOf(x.task_id).src_num \in Nat
      BY PieceFacts, Jobs DEF RepairTask
    <2>4. d.src_num \in Nat /\ d.task_id \in Task /\ d.offset \in Nat /\ d.size \in Nat
      BY <2>2, <2>3, GatheredFacts
    <2>5. ~(d.buf = nullptr /\ d.size > 0)
      BY <2>2, GatheredFacts
    <2> QED BY <1>2, <2>1, <2>4, <2>5
  <1> QED BY <1>1, <1>2

LEMMA ItemTypes == Items \subseteq DataPiece(Task, Node)
  <1> SUFFICES ASSUME NEW d \in Items PROVE d \in DataPiece(Task, Node)
    OBVIOUS
  <1>1. CASE d \in Infos
    <2>1. PICK j \in Program : d = Info(j.rt)
      BY <1>1 DEF Infos
    <2>2. j.rt.task_id \in Task /\ j.rt.size \in Nat
      BY Jobs DEF RepairTask
    <2> QED BY <2>1, <2>2 DEF Info, DataPiece
  <1>2. CASE d \in Locals \cup Networks
    <2>1. PICK x \in Pieces : d \in Gathered(x)
      BY <1>2, Contributes
    <2>2. /\ x.task_id \in Task /\ x.offset \in Nat /\ x.size \in Nat
      BY PieceFacts
    <2>3. \A p \in Node : Get(p, x.offset) \in Cell(Node)
      BY <2>2 DEF Get, Cell
    <2>4. CASE d = LocalOf(x)
      <3>1. rtOf(x.task_id).tar_id \in Nat /\ rtOf(x.task_id).src_num \in Nat
            /\ rtOf(x.task_id).task_id = x.task_id
        BY PieceFacts, Jobs, IdAssumption DEF RepairTask
      <3> QED BY <2>2, <2>3, <2>4, <3>1, IdAssumption DEF LocalOf, LocalPiece, Local, DataPiece
    <2>5. CASE d # LocalOf(x)
      <3>1. PICK p \in sourcesOf(x.task_id) : d = NetworkPiece(p, x)
        BY <2>1, <2>5 DEF Gathered
      <3>2. p \in Node
        BY NetworkFacts
      <3> QED BY <2>2, <2>3, <3>1, <3>2 DEF NetworkPiece, Network, DataPiece
    <2> QED BY <2>4, <2>5
  <1> QED BY <1>1, <1>2 DEF Items

(* There are as many contributions to a piece as the task says.            *)
LEMMA HowMany ==
  ASSUME NEW x \in Pieces
  PROVE /\ IsFiniteSet(Gathered(x)) /\ Cardinality(Gathered(x)) = rtOf(x.task_id).src_num
        /\ rtOf(x.task_id).src_num \in Nat \ {0} /\ LocalOf(x) \in Gathered(x)
  <1> DEFINE S == sourcesOf(x.task_id)
             T == {NetworkPiece(p, x) : p \in S}
             f == [p \in S |-> NetworkPiece(p, x)]
  <1>1. /\ IsFiniteSet(S) /\ Cardinality(S) \in Nat
        /\ rtOf(x.task_id).src_num = Cardinality(S) + 1
    BY PieceFacts, Jobs
  <1>2. \A p \in S : NetworkPiece(p, x).buf = Get(p, x.offset) /\ NetworkPiece(p, x).buf[1] = p
                     /\ (NetworkPiece(p, x).buf = Get(id, x.offset) => p = id) /\ p # id
    BY NetworkFacts, Buffers
  <1>3. f \in Bijection(S, T)
    <2>1. f \in [S -> T]
      OBVIOUS
    <2>2. \A a, b \in S : f[a] = f[b] => a = b
      BY <1>2
    <2>3. \A e \in T : \E a \in S : f[a] = e
      OBVIOUS
    <2> HIDE DEF S, T, f
    <2> QED BY <2>1, <2>2, <2>3 DEF Bijection, Injection, Surjection, IsInjective
  <1>4. IsFiniteSet(T) /\ Cardinality(T) = Cardinality(S)
    <2> HIDE DEF S, T, f
    <2> QED BY <1>1, <1>3, FS_Bijection DEF ExistsBijection
  <1>5. LocalOf(x) \notin T
    BY <1>2, LocalFacts, Buffers
  <1>6. Gathered(x) = T \cup {LocalOf(x)}
    BY DEF Gathered
  <1> HIDE DEF S, T, f
  <1> QED BY <1>1, <1>4, <1>5, <1>6, FS_AddElement

(* No two contributions to a piece share a buffer.                         *)
LEMMA OwnBuffers ==
  ASSUME NEW x \in Pieces, NEW d \in Gathered(x), NEW e \in Gathered(x),
         d.buf # nullptr, d.buf = e.buf
  PROVE d = e
  <1>1. \A c \in Gathered(x) : c # LocalOf(x) => \E p \in sourcesOf(x.task_id) :
          c = NetworkPiece(p, x) /\ c.buf[1] = p /\ p # id /\ c.buf # Get(id, x.offset)
    <2> SUFFICES ASSUME NEW c \in Gathered(x), c # LocalOf(x)
                 PROVE \E p \in sourcesOf(x.task_id) : c = NetworkPiece(p, x) /\ c.buf[1] = p
                                                       /\ p # id /\ c.buf # Get(id, x.offset)
      OBVIOUS
    <2>1. PICK p \in sourcesOf(x.task_id) : c = NetworkPiece(p, x)
      BY DEF Gathered
    <2>2. c.buf = Get(p, x.offset) /\ p # id
      BY <2>1, NetworkFacts
    <2>3. c.buf[1] = p /\ Get(id, x.offset)[1] = id
      BY <2>2, Buffers
    <2> QED BY <2>1, <2>2, <2>3
  <1>2. \A c \in Gathered(x) : c = LocalOf(x) /\ c.buf # nullptr => c.buf = Get(id, x.offset)
    BY GatheredFacts
  <1> QED BY <1>1, <1>2

LEMMA Appended == ASSUME NEW S, NEW s \in Seq(S), NEW e \in S
                  PROVE  /\ Append(s, e) \in Seq(S) /\ Len(Append(s, e)) = Len(s) + 1
                         /\ Len(s) \in Nat
                         /\ \A k \in 1 .. Len(s) : Append(s, e)[k] = s[k]
                         /\ Append(s, e)[Len(s) + 1] = e
  BY AppendProperties, LenProperties
LEMMA Beheaded == ASSUME NEW S, NEW s \in Seq(S), s # <<>>
                  PROVE  /\ Head(s) = s[1] /\ 1 \in 1 .. Len(s) /\ Head(s) \in S /\ Len(s) \in Nat
                         /\ Tail(s) \in Seq(S) /\ Len(Tail(s)) = Len(s) - 1
                         /\ \A k \in 1 .. Len(Tail(s)) : Tail(s)[k] = s[k + 1] /\ k + 1 \in 1 .. Len(s)
  <1>1. Len(s) \in Nat /\ Len(s) # 0
    BY EmptySeq, LenProperties
  <1> QED BY <1>1, HeadTailProperties, ElementOfSeq

(* One more in a bag of things it has no copy of.                          *)
LEMMA Bagged == ASSUME NEW B, NEW e, e \notin BagToSet(B), \A d \in BagToSet(B) : B[d] = 1
                PROVE /\ BagToSet(B (+) SetToBag({e})) = BagToSet(B) \cup {e}
                      /\ \A d \in BagToSet(B) \cup {e} : (B (+) SetToBag({e}))[d] = 1
  BY DEF BagToSet, SetToBag, (+)

-----------------------------------------------------------------------------
(* What a step does to the sets of items.                                  *)
LEMMA Place ==
  ASSUME OnePlace, NEW t \in Thread, pc[t] # "idle", NEW L, "idle" \notin L
  PROVE data[t] \in Pending(L) <=> pc[t] \in L
  BY DEF OnePlace, Pending, HeldAt

LEMMA Moved ==
  ASSUME TypeOK, OnePlace, NEW t \in Thread, pc[t] # "idle", NEW b, b # "idle",
         pc' = [pc EXCEPT ![t] = b], UNCHANGED <<coming, data_queue, data>>
  PROVE /\ OnePlace' /\ Queued' = Queued /\ data[t] \in Items
        /\ \A L : "idle" \notin L => Pending(L)' = IF b \in L THEN Pending(L) \cup {data[t]}
                                                   ELSE Pending(L) \ {data[t]}
  <1>1. pc'[t] = b /\ \A u \in Thread : u # t => pc'[u] = pc[u]
    BY DEF TypeOK
  <1>2. Queued' = Queued
    BY DEF Queued
  <1>3. OnePlace'
    BY <1>1, <1>2 DEF OnePlace
  <1>4. ASSUME NEW L, "idle" \notin L
        PROVE Pending(L)' = IF b \in L THEN Pending(L) \cup {data[t]} ELSE Pending(L) \ {data[t]}
    <2>1. HeldAt(L)' = {data[u] : u \in {v \in Thread : pc'[v] \in L}}
      BY DEF HeldAt
    <2>2. \A u \in Thread : pc[u] \in L /\ u # t => data[u] # data[t]
      BY <1>4 DEF OnePlace
    <2>3. data[t] \notin coming \cup Queued
      BY DEF OnePlace
    <2>4. CASE b \in L
      <3>1. HeldAt(L)' = HeldAt(L) \cup {data[t]}
        BY <1>1, <2>1, <2>4 DEF HeldAt
      <3> QED BY <1>2, <2>4, <3>1 DEF Pending
    <2>5. CASE b \notin L
      <3>1. HeldAt(L)' = HeldAt(L) \ {data[t]}
        BY <1>1, <2>1, <2>2, <2>5 DEF HeldAt
      <3> QED BY <1>2, <2>3, <2>5, <3>1 DEF Pending
    <2> QED BY <2>4, <2>5
  <1>5. data[t] \in Items
    BY DEF OnePlace
  <1> QED BY <1>2, <1>3, <1>4, <1>5

LEMMA Returned ==
  ASSUME TypeOK, OnePlace, NEW t \in Thread, pc[t] # "idle", Return(t), UNCHANGED <<coming, data_queue>>
  PROVE /\ OnePlace' /\ Queued' = Queued /\ data[t] \in Items
        /\ \A L : "idle" \notin L => Pending(L)' = Pending(L) \ {data[t]}
  <1>1. /\ pc'[t] = "idle"
        /\ \A u \in Thread : u # t => pc'[u] = pc[u] /\ data'[u] = data[u]
    BY DEF Return, goto, TypeOK
  <1>2. Queued' = Queued
    BY DEF Queued
  <1>3. OnePlace'
    BY <1>1, <1>2 DEF OnePlace
  <1>4. ASSUME NEW L, "idle" \notin L PROVE Pending(L)' = Pending(L) \ {data[t]}
    <2>1. HeldAt(L)' = {data'[u] : u \in {v \in Thread : pc'[v] \in L}}
      BY DEF HeldAt
    <2>2. \A u \in Thread : pc[u] \in L /\ u # t => data[u] # data[t]
      BY <1>4 DEF OnePlace
    <2>3. data[t] \notin coming \cup Queued
      BY DEF OnePlace
    <2>4. HeldAt(L)' = HeldAt(L) \ {data[t]}
      BY <1>1, <1>4, <2>1, <2>2 DEF HeldAt
    <2> QED BY <1>2, <2>3, <2>4 DEF Pending
  <1>5. data[t] \in Items
    BY DEF OnePlace
  <1> QED BY <1>2, <1>3, <1>4, <1>5

LEMMA Popped ==
  ASSUME TypeOK, OnePlace, NEW t \in Thread, Pop(t)
  PROVE /\ OnePlace' /\ Queued' \subseteq Queued /\ data'[t] \in Queued /\ data'[t] \in Items
        /\ \A L : "idle" \notin L /\ "group" \in L => Pending(L)' = Pending(L)
        /\ HeldAt({"account"})' = HeldAt({"account"})
  <1> DEFINE q == data_queue
             h == Head(q)
             r == Tail(q)
  <1>1. /\ q \in Seq(Items) /\ q # <<>> /\ pc[t] = "idle"
        /\ data_queue' = r /\ data' = [data EXCEPT ![t] = h] /\ pc' = [pc EXCEPT ![t] = "group"]
        /\ coming' = coming
    BY DEF Pop, OnePlace, goto
  <1>2. /\ h = q[1] /\ 1 \in 1 .. Len(q) /\ h \in Items /\ Len(q) \in Nat
        /\ r \in Seq(Items) /\ Len(r) = Len(q) - 1
        /\ \A k \in 1 .. Len(r) : r[k] = q[k + 1] /\ k + 1 \in 1 .. Len(q)
    <2> HIDE DEF q
    <2> QED BY <1>1, Beheaded
  <1>3. /\ pc'[t] = "group" /\ data'[t] = h
        /\ \A u \in Thread : u # t => pc'[u] = pc[u] /\ data'[u] = data[u]
    BY <1>1 DEF TypeOK
  <1>4. Queued = {q[n] : n \in 1 .. Len(q)} /\ Queued' = {r[n] : n \in 1 .. Len(r)}
    BY <1>1 DEF Queued
  <1>5. /\ coming \cap Queued = {} /\ coming \subseteq Items
        /\ \A m, n \in 1 .. Len(q) : m # n => q[m] # q[n]
        /\ \A u \in Thread : pc[u] # "idle" => data[u] \in Items /\ data[u] \notin coming \cup Queued
        /\ \A u, v \in Thread : u # v /\ pc[u] # "idle" /\ pc[v] # "idle" => data[u] # data[v]
    BY DEF OnePlace
  <1> HIDE DEF q, h, r
  <1>6. \A k \in 1 .. Len(q) : k = 1 \/ (k - 1 \in 1 .. Len(r) /\ q[k] = r[k - 1])
    <2> SUFFICES ASSUME NEW k \in 1 .. Len(q), k # 1 PROVE k - 1 \in 1 .. Len(r) /\ q[k] = r[k - 1]
      OBVIOUS
    <2>1. k - 1 \in 1 .. Len(r) /\ (k - 1) + 1 = k
      BY <1>2
    <2> QED BY <1>2, <2>1
  <1>7. \A k \in 1 .. Len(r) : r[k] # h
    <2> SUFFICES ASSUME NEW k \in 1 .. Len(r) PROVE r[k] # h
      OBVIOUS
    <2>1. k + 1 \in 1 .. Len(q) /\ k + 1 # 1 /\ r[k] = q[k + 1]
      BY <1>2
    <2> QED BY <1>2, <1>5, <2>1
  <1>8. Queued' = Queued \ {h} /\ h \in Queued
    <2>1. h \in Queued
      BY <1>2, <1>4
    <2>2. \A e \in Queued : e # h => e \in Queued'
      BY <1>2, <1>4, <1>6
    <2>3. \A e \in Queued' : e \in Queued /\ e # h
      BY <1>2, <1>4, <1>7
    <2> QED BY <2>1, <2>2, <2>3
  <1>9. \A m, n \in 1 .. Len(r) : m # n => r[m] # r[n]
    <2> SUFFICES ASSUME NEW m \in 1 .. Len(r), NEW n \in 1 .. Len(r), m # n PROVE r[m] # r[n]
      OBVIOUS
    <2>1. m + 1 # n + 1
      BY <1>2
    <2>2. /\ r[m] = q[m + 1] /\ m + 1 \in 1 .. Len(q)
          /\ r[n] = q[n + 1] /\ n + 1 \in 1 .. Len(q)
      BY <1>2
    <2>3. q[m + 1] # q[n + 1]
      BY <1>5, <2>1, <2>2
    <2> QED BY ONLY <2>2, <2>3
  <1>10. OnePlace'
    BY <1>1, <1>2, <1>3, <1>5, <1>8, <1>9 DEF OnePlace
  <1>11. \A L : HeldAt(L)' = {data'[u] : u \in {v \in Thread : pc'[v] \in L}}
    BY DEF HeldAt
  <1>12. ASSUME NEW L, "idle" \notin L, "group" \in L PROVE Pending(L)' = Pending(L)
    <2>1. HeldAt(L)' = HeldAt(L) \cup {h}
      BY <1>1, <1>3, <1>11, <1>12 DEF HeldAt
    <2> QED BY <1>1, <1>8, <2>1 DEF Pending
  <1>13. HeldAt({"account"})' = HeldAt({"account"})
    BY <1>1, <1>3, <1>11 DEF HeldAt
  <1> QED BY <1>2, <1>3, <1>8, <1>10, <1>12, <1>13

LEMMA Arrived ==
  ASSUME OnePlace, NEW d \in coming, coming' = coming \ {d}, data_queue' = Append(data_queue, d),
         UNCHANGED <<pc, data>>
  PROVE /\ OnePlace' /\ coming' \cup Queued' = coming \cup Queued /\ d \in Items
        /\ \A L : Pending(L)' = Pending(L) /\ HeldAt(L)' = HeldAt(L)
  <1> DEFINE q == data_queue
             r == Append(q, d)
  <1>1. q \in Seq(Items) /\ d \in Items
    BY DEF OnePlace
  <1>2. /\ r \in Seq(Items) /\ Len(r) = Len(q) + 1 /\ Len(q) \in Nat
        /\ \A k \in 1 .. Len(q) : r[k] = q[k]
        /\ r[Len(q) + 1] = d
    <2> HIDE DEF q
    <2> QED BY <1>1, Appended
  <1>3. Queued = {q[n] : n \in 1 .. Len(q)} /\ Queued' = {r[n] : n \in 1 .. Len(r)}
    BY DEF Queued
  <1>4. data_queue' = r
    OBVIOUS
  <1>5. /\ coming \cap Queued = {} /\ coming \subseteq Items
        /\ \A m, n \in 1 .. Len(q) : m # n => q[m] # q[n]
        /\ \A u \in Thread : pc[u] # "idle" => data[u] \in Items /\ data[u] \notin coming \cup Queued
        /\ \A u, v \in Thread : u # v /\ pc[u] # "idle" /\ pc[v] # "idle" => data[u] # data[v]
    BY DEF OnePlace
  <1> HIDE DEF q, r
  <1>6. \A k \in 1 .. Len(r) : k = Len(q) + 1 \/ k \in 1 .. Len(q)
    BY <1>2
  <1>7. Queued' = Queued \cup {d}
    <2>1. \A k \in 1 .. Len(q) : k \in 1 .. Len(r)
      BY <1>2
    <2>2. Len(q) + 1 \in 1 .. Len(r)
      BY <1>2
    <2> QED BY <1>2, <1>3, <1>6, <2>1, <2>2
  <1>8. \A k \in 1 .. Len(q) : q[k] # d
    BY <1>3, <1>5
  <1>9. \A m, n \in 1 .. Len(r) : m # n => r[m] # r[n]
    <2> SUFFICES ASSUME NEW m \in 1 .. Len(r), NEW n \in 1 .. Len(r), m # n PROVE r[m] # r[n]
      OBVIOUS
    <2>1. CASE m = Len(q) + 1
      BY <1>2, <1>6, <1>8, <2>1
    <2>2. CASE n = Len(q) + 1
      BY <1>2, <1>6, <1>8, <2>2
    <2>3. CASE m \in 1 .. Len(q) /\ n \in 1 .. Len(q)
      BY <1>2, <1>5, <2>3
    <2> QED BY <1>6, <2>1, <2>2, <2>3
  <1>10. OnePlace'
    BY <1>2, <1>4, <1>5, <1>7, <1>9 DEF OnePlace
  <1>11. \A L : HeldAt(L)' = HeldAt(L)
    BY DEF HeldAt
  <1>12. coming' \cup Queued' = coming \cup Queued
    BY <1>7
  <1> QED BY <1>1, <1>10, <1>11, <1>12 DEF Pending

-----------------------------------------------------------------------------
(* What stays true when a step leaves alone what it depends on.            *)
LEMMA KeptStays ==
  ASSUME Kept,
         \A d \in Locals \cup Networks : /\ d \in Unmerged' <=> d \in Unmerged
                                         /\ d \in Uncounted' <=> d \in Uncounted,
         \A x \in Pieces : pieces'[<<x.task_id, x.offset>>] = pieces[<<x.task_id, x.offset>>],
         \A x \in Pieces : Removing(x)' <=> Removing(x)
  PROVE Kept'
  <1> SUFFICES ASSUME NEW x \in Pieces
               PROVE (IF piece(x) = NoPiece THEN Gone(x) ELSE Fits(x, piece(x)))'
    BY DEF Kept
  <1>1. \A d \in Gathered(x) : d \in Locals \cup Networks
    BY GatheredFacts
  <1>2. Merged(x)' = Merged(x) /\ Counted(x)' = Counted(x) /\ (Complete(x)' <=> Complete(x))
    BY <1>1 DEF Merged, Counted, Complete
  <1>3. piece(x)' = piece(x) /\ Own(x)' = Own(x) /\ (Filled(x)' <=> Filled(x))
    BY <1>2 DEF piece, Own, Filled
  <1>4. IF piece(x) = NoPiece THEN Gone(x) ELSE Fits(x, piece(x))
    BY DEF Kept
  <1>5. Removing(x)' <=> Removing(x)
    OBVIOUS
  <1>6. piece(x) = NoPiece => (Gone(x) <=> Gone(x)')
    BY <1>2, <1>5 DEF Gone
  <1>7. piece(x) # NoPiece => (Fits(x, piece(x)) <=> Fits(x, piece(x))')
    BY <1>2, <1>3, <1>5 DEF Fits
  <1> QED BY <1>3, <1>4, <1>6, <1>7

LEMMA CompletersStay ==
  ASSUME Completers, Uncounted' \subseteq Uncounted,
         \A u \in Thread : Completes(u)' => Completes(u) /\ data'[u] = data[u]
  PROVE Completers'
  <1>1. \A x \in Pieces : Complete(x) => Complete(x)'
    BY DEF Complete
  <1>2. \A u \in Thread, x \in Pieces : Completes(u)' /\ At(u, x)' => Completes(u) /\ At(u, x)
    BY DEF At
  <1> QED BY <1>1, <1>2 DEF Completers, task

LEMMA PassedStays ==
  ASSUME Passed, next' = next, Unmerged' \subseteq Unmerged, Uncounted' \subseteq Uncounted
  PROVE Passed'
  <1>1. \A x \in Pieces : Complete(x) => Complete(x)'
    BY DEF Complete
  <1>2. Sums' = Sums
    BY DEF Sums
  <1>3. \A x \in Pieces : SumsOf(x)' = SumsOf(x)
    BY <1>2 DEF SumsOf
  <1> QED BY <1>1, <1>2, <1>3 DEF Passed

LEMMA AccountedStays ==
  ASSUME \A d \in Locals \cup Networks : d \in Uncounted' <=> d \in Uncounted,
         \A u \in Thread : Completes(u)' <=> Completes(u),
         \A u \in Thread : Completes(u) => data'[u] = data[u],
         NEW k
  PROVE Accounted(k)' = Accounted(k)
  <1>1. \A x \in Pieces : Complete(x)' <=> Complete(x)
    <2> SUFFICES ASSUME NEW x \in Pieces PROVE Complete(x)' <=> Complete(x)
      OBVIOUS
    <2>1. \A d \in Gathered(x) : d \in Locals \cup Networks
      BY GatheredFacts
    <2> QED BY <2>1 DEF Complete
  <1>2. \A x \in Pieces : Completing(x)' <=> Completing(x)
    BY DEF Completing, At
  <1> QED BY <1>1, <1>2 DEF Accounted

LEMMA SizesStay ==
  ASSUME Sizes, task_pieces_' = task_pieces_,
         \A k \in Task : Accounted(k)' = Accounted(k),
         \A j \in Program : Info(j.rt) \in Unnoted' <=> Info(j.rt) \in Unnoted
  PROVE Sizes'
  <1> SUFFICES ASSUME NEW j \in Program PROVE Sizes!(j)'
    BY DEF Sizes
  <1>1. j.rt.task_id \in Task
    BY Jobs
  <1>2. Accounted(j.rt.task_id)' = Accounted(j.rt.task_id)
    BY <1>1
  <1>3. BytesOf(Accounted(j.rt.task_id))' = BytesOf(Accounted(j.rt.task_id))
    BY <1>2 DEF BytesOf
  <1>4. Sizes!(j)
    BY DEF Sizes
  <1> QED BY <1>3, <1>4

LEMMA OverStays ==
  ASSUME NEW k \in Task, Over(k), coming' \cup Queued' \subseteq coming \cup Queued,
         \A u \in Thread : Busy(u)' => (Busy(u) /\ data'[u] = data[u]) \/ data'[u] \in coming \cup Queued,
         \A o \in Offset : pieces'[<<k, o>>] \in {NoPiece, pieces[<<k, o>>]}
  PROVE Over(k)'
  <1>1. Of(k, coming' \cup Queued') = {}
    BY DEF Over, Of
  <1>2. \A u \in Thread : Busy(u)' => data'[u].task_id # k
    BY DEF Over, Of, task
  <1>3. \A x \in Pieces : x.task_id = k => pieces'[<<x.task_id, x.offset>>] = NoPiece
    BY PieceFacts DEF Over, piece
  <1> QED BY <1>1, <1>2, <1>3 DEF Over, task, piece

(* No step but an account or a reap changes a group once it is there.      *)
LEMMA GroupsStay ==
  ASSUME Groups, task_pieces_' = task_pieces_, coming' \cup Queued' \subseteq coming \cup Queued,
         \A u \in Thread : \/ pc'[u] = pc[u] /\ data'[u] = data[u] /\ size'[u] = size[u]
                           \/ pc[u] = "idle" /\ pc'[u] = "group" /\ data'[u] \in coming \cup Queued
                           \/ /\ pc[u] \in {"info", "find", "merge", "count", "remove"}
                              /\ pc'[u] \in {"merge", "count", "remove", "account"}
                              /\ data'[u] = data[u],
         \A d \in Unmerged \ Unmerged' : \E u \in Thread : data[u] = d /\ pc[u] \notin {"idle", "group"},
         \A k \in Task, o \in Offset : \/ pieces'[<<k, o>>] \in {NoPiece, pieces[<<k, o>>]}
                                       \/ \E u \in Thread : Busy(u) /\ task(u) = k
  PROVE Groups'
  <1>1. \A u \in Thread : Busy(u)' => (Busy(u) /\ data'[u] = data[u]) \/ data'[u] \in coming \cup Queued
    BY DEF Busy
  <1>2. \A k \in Task : Over(k) => Over(k)'
    <2> SUFFICES ASSUME NEW k \in Task, Over(k) PROVE Over(k)'
      OBVIOUS
    <2>1. \A u \in Thread : Busy(u) => task(u) # k
      BY DEF Over
    <2>2. \A o \in Offset : pieces'[<<k, o>>] \in {NoPiece, pieces[<<k, o>>]}
      BY <2>1
    <2> QED BY <1>1, <2>2, OverStays
  <1>3. \A u \in Thread : pc'[u] \in {"reap", "lost"} => pc'[u] = pc[u] /\ data'[u] = data[u]
    OBVIOUS
  <1>4. \A u \in Thread : pc[u] = "reap" => pc'[u] = pc[u] /\ data'[u] = data[u]
    OBVIOUS
  <1> SUFFICES ASSUME NEW k \in Task PROVE Groups!(k)'
    BY DEF Groups
  <1>5. Groups!(k)
    BY DEF Groups
  <1>6. task_pieces_[k].state = "none" =>
          /\ \A u \in Thread : pc'[u] \notin {"idle", "group"} => data'[u].task_id # k
          /\ Of(k, Items) \subseteq Unmerged'
    <2> SUFFICES ASSUME task_pieces_[k].state = "none"
                 PROVE /\ \A u \in Thread : pc'[u] \notin {"idle", "group"} => data'[u].task_id # k
                       /\ Of(k, Items) \subseteq Unmerged'
      OBVIOUS
    <2>1. /\ \A u \in Thread : pc[u] \notin {"idle", "group"} => data[u].task_id # k
          /\ Of(k, Items) \subseteq Unmerged
      BY <1>5 DEF task
    <2>2. \A u \in Thread : pc'[u] \notin {"idle", "group"} => data'[u].task_id # k
      BY <2>1
    <2>3. \A d \in Of(k, Items) : d \in Unmerged'
      BY <2>1 DEF Of
    <2> QED BY <2>2, <2>3
  <1>7. /\ \A u \in Thread : pc'[u] = "reap" /\ data'[u].task_id = k => Over(k)'
        /\ \A u \in Thread : pc'[u] = "lost" /\ data'[u].task_id = k => task_pieces_[k].state = "erased"
    BY <1>2, <1>3, <1>5 DEF task
  <1>8. task_pieces_[k].state = "live" /\ Finished(task_pieces_[k]) =>
          \E u \in Thread : pc'[u] = "reap" /\ data'[u].task_id = k
    BY <1>4, <1>5 DEF task
  <1>9. Finished(task_pieces_[k])' = Finished(task_pieces_[k])
    BY DEF Finished
  <1> QED BY <1>2, <1>5, <1>6, <1>7, <1>8, <1>9 DEF task

-----------------------------------------------------------------------------
LEMMA Filling ==
  ASSUME NEW d \in Items
  PROVE /\ d \in AnyPiece
        /\ d.buf # nullptr => \E x \in Pieces, p \in Node :
             d \in Gathered(x) /\ d.buf = Get(p, x.offset) /\ d.buf \in Cell(Node)
             /\ d.buf \in Range0 \X Offset /\ x.offset = d.offset
        /\ Contents(d) \in SUBSET (Task \X Cell(Node))
  <1>1. d \in DataPiece(Task, Node)
    BY ItemTypes
  <1>2. d.buf # nullptr => \E x \in Pieces, p \in Node :
             d \in Gathered(x) /\ d.buf = Get(p, x.offset) /\ d.buf \in Cell(Node)
             /\ d.buf \in Range0 \X Offset /\ x.offset = d.offset
    <2> SUFFICES ASSUME d.buf # nullptr PROVE \E x \in Pieces, p \in Node :
             d \in Gathered(x) /\ d.buf = Get(p, x.offset) /\ d.buf \in Cell(Node)
             /\ d.buf \in Range0 \X Offset /\ x.offset = d.offset
      OBVIOUS
    <2>1. d \in Locals \cup Networks
      BY ItemKinds, InfoFacts
    <2>2. PICK x \in Pieces : d \in Gathered(x)
      BY <2>1, Contributes
    <2>3. PICK p \in Node : d.buf = Get(p, x.offset)
      BY <2>2, GatheredFacts
    <2>4. x.offset \in Offset /\ x.offset \in Nat /\ x.offset = d.offset
      BY <2>2, PieceFacts, GatheredFacts
    <2>5. d.buf = <<p, x.offset>>
      BY <2>3 DEF Get
    <2> QED BY <2>2, <2>3, <2>4, <2>5 DEF Cell, Range0
  <1>3. Contents(d) \in SUBSET (Task \X Cell(Node))
    BY <1>1, <1>2, ItemKinds DEF Contents
  <1> QED BY <1>1, <1>2, <1>3 DEF AnyPiece

LEMMA InitIInv == Init => IInv
  <1> SUFFICES ASSUME Init PROVE IInv
    OBVIOUS
  <1>1. coming = Items /\ data_queue = <<>> /\ Queued = {}
    BY EmptySeq DEF Init, Items, Queued
  <1>2. \A t \in Thread : pc[t] = "idle"
    BY DEF Init
  <1>3. \A L : "idle" \notin L => Pending(L) = Items
    BY <1>1, <1>2 DEF Pending, HeldAt
  <1>4. Unmerged = Items /\ Uncounted = Items
    BY <1>3 DEF Unmerged, Uncounted, Early
  <1>5. BagToSet(next) = {}
    BY DEF Init, EmptyBag, SetToBag, BagToSet
  <1>6. \A x \in Pieces : /\ Gathered(x) \subseteq Items /\ LocalOf(x) \in Gathered(x)
                          /\ piece(x) = NoPiece
    <2> SUFFICES ASSUME NEW x \in Pieces
                 PROVE /\ Gathered(x) \subseteq Items /\ LocalOf(x) \in Gathered(x) /\ piece(x) = NoPiece
      OBVIOUS
    <2>1. x.task_id \in Task /\ x.offset \in Offset
      BY PieceFacts
    <2> QED BY <2>1, GatheredFacts, HowMany DEF Init, piece, Items
  <1>7. TypeOK
    <2>1. \A d \in Items : d \in AnyPiece
      BY Filling
    <2>2. pieces \in [Task \X Offset -> TempPiece \cup {NoPiece}]
      BY DEF Init
    <2>3. mem \in [Range0 \X Offset -> SUBSET (Task \X Cell(Node))]
      BY DEF Init
    <2>4. NoGroup \in [state : {"none", "live", "erased"}, sum : Nat, total : Nat]
      BY DEF NoGroup
    <2>5. data_queue \in Seq(AnyPiece) /\ Len(data_queue) <= QueueCap
      BY <1>1, EmptySeq, CapAssumption
    <2>6. /\ pc \in [Thread -> {"idle", "group", "info", "find", "merge", "count", "remove",
                        "account", "reap", "lost"}]
          /\ data \in [Thread -> AnyPiece \cup {NoData}] /\ size \in [Thread -> Int]
      BY DEF Init
    <2> QED BY <1>1, <1>5, <2>1, <2>2, <2>3, <2>4, <2>5, <2>6 DEF Init, TypeOK
  <1>8. OnePlace
    BY <1>1, <1>2, EmptySeq DEF OnePlace
  <1>9. Working /\ Completers
    BY <1>2 DEF Working, Completers, Completes
  <1>10. Kept
    BY <1>4, <1>6 DEF Kept, Gone, Merged
  <1>11. Passed
    BY <1>5 DEF Passed, Sums, SumsOf
  <1>12. Groups
    BY <1>2, <1>4 DEF Groups, Init, NoGroup, Of
  <1>13. Sizes
    <2>1. \A j \in Program : task_pieces_[j.rt.task_id].state = "none"
      BY Jobs DEF Init, NoGroup
    <2> QED BY <2>1 DEF Sizes
  <1> QED BY <1>7, <1>8, <1>9, <1>10, <1>11, <1>12, <1>13 DEF IInv

LEMMA ArriveIInv == ASSUME IInv, Arrive PROVE IInv'
  <1>1. PICK d \in coming :
          /\ Len(data_queue) < QueueCap /\ coming' = coming \ {d}
          /\ data_queue' = Append(data_queue, d)
          /\ mem' = IF d.buf = nullptr THEN mem ELSE [mem EXCEPT ![d.buf] = Contents(d)]
          /\ UNCHANGED <<task_pieces_, pieces, pc, data, size, next>>
    BY DEF Arrive, threadVars
  <1>2. /\ OnePlace' /\ coming' \cup Queued' = coming \cup Queued /\ d \in Items
        /\ \A L : Pending(L)' = Pending(L) /\ HeldAt(L)' = HeldAt(L)
    BY <1>1, Arrived DEF IInv
  <1>3. Unmerged' = Unmerged /\ Uncounted' = Uncounted /\ Unnoted' = Unnoted
    BY <1>2 DEF Unmerged, Uncounted, Unnoted
  <1>4. \A t \in Thread : (Completes(t)' <=> Completes(t)) /\ data'[t] = data[t]
    BY <1>1 DEF Completes
  <1>5. TypeOK'
    <2>1. data_queue \in Seq(AnyPiece) /\ d \in AnyPiece
      BY <1>1 DEF IInv, TypeOK
    <2>2. data_queue' \in Seq(AnyPiece) /\ Len(data_queue') <= QueueCap
      BY <1>1, <2>1, Appended, CapAssumption
    <2>3. mem' \in [Range0 \X Offset -> SUBSET (Task \X Cell(Node))]
      <3>1. mem \in [Range0 \X Offset -> SUBSET (Task \X Cell(Node))]
        BY DEF IInv, TypeOK
      <3> QED BY <1>1, <1>2, <3>1, Filling
    <2> QED BY <1>1, <2>2, <2>3 DEF IInv, TypeOK
  <1>6. Working'
    BY <1>1 DEF IInv, Working, tp, task
  <1>7. Completers'
    BY <1>3, <1>4, CompletersStay DEF IInv
  <1>8. Kept'
    <2>1. \A x \in Pieces : Removing(x)' <=> Removing(x)
      BY <1>1 DEF Removing, At
    <2> QED BY <1>1, <1>3, <2>1, KeptStays DEF IInv
  <1>9. Passed'
    BY <1>1, <1>3, PassedStays DEF IInv
  <1>10. Groups'
    BY <1>1, <1>2, <1>3, GroupsStay DEF IInv
  <1>11. Sizes'
    BY <1>1, <1>3, <1>4, SizesStay, AccountedStays DEF IInv
  <1> QED BY <1>2, <1>5, <1>6, <1>7, <1>8, <1>9, <1>10, <1>11 DEF IInv

LEMMA PopIInv == ASSUME IInv, NEW t \in Thread, Pop(t) PROVE IInv'
  <1>1. /\ pc[t] = "idle" /\ data_queue # <<>> /\ data_queue' = Tail(data_queue)
        /\ data' = [data EXCEPT ![t] = Head(data_queue)]
        /\ size' = [size EXCEPT ![t] = Head(data_queue).size]
        /\ pc' = [pc EXCEPT ![t] = "group"]
        /\ UNCHANGED <<coming, task_pieces_, pieces, mem, next>>
    BY DEF Pop, goto
  <1>2. /\ OnePlace' /\ Queued' \subseteq Queued /\ data'[t] \in Queued /\ data'[t] \in Items
        /\ \A L : "idle" \notin L /\ "group" \in L => Pending(L)' = Pending(L)
    BY Popped DEF IInv
  <1>3. Unmerged' = Unmerged /\ Uncounted' = Uncounted /\ Unnoted' = Unnoted
    BY <1>2 DEF Unmerged, Uncounted, Unnoted, Early
  <1>4. /\ pc'[t] = "group" /\ size'[t] = data'[t].size
        /\ \A u \in Thread : u # t => pc'[u] = pc[u] /\ data'[u] = data[u] /\ size'[u] = size[u]
    BY <1>1 DEF IInv, TypeOK
  <1>5. \A u \in Thread : /\ Completes(u)' <=> Completes(u)
                          /\ Completes(u) => data'[u] = data[u]
    BY <1>1, <1>4 DEF Completes
  <1>6. TypeOK'
    <2>1. /\ Tail(data_queue) \in Seq(AnyPiece) /\ Len(Tail(data_queue)) = Len(data_queue) - 1
          /\ Head(data_queue) \in AnyPiece /\ Len(data_queue) \in Nat
      BY <1>1, Beheaded DEF IInv, TypeOK
    <2>2. Head(data_queue).size \in Nat
      <3>1. data'[t] = Head(data_queue)
        BY <1>1 DEF IInv, TypeOK
      <3> QED BY <1>2, <3>1, ItemKinds
    <2>3. Len(data_queue') <= QueueCap
      BY <1>1, <2>1, CapAssumption DEF IInv, TypeOK
    <2>4. size' \in [Thread -> Int]
      BY <1>1, <2>2 DEF IInv, TypeOK
    <2> QED BY <1>1, <2>1, <2>3, <2>4 DEF IInv, TypeOK
  <1>7. Working'
    <2> SUFFICES ASSUME NEW u \in Thread PROVE Working!(u)'
      BY DEF Working
    <2>1. CASE u = t
      BY <1>4, <2>1
    <2>2. CASE u # t
      BY <1>1, <1>4, <2>2 DEF IInv, Working, tp, task
    <2> QED BY <2>1, <2>2
  <1>8. Completers'
    BY <1>3, <1>5, CompletersStay DEF IInv
  <1>9. Kept'
    <2>1. \A x \in Pieces : Removing(x)' <=> Removing(x)
      BY <1>1, <1>4 DEF Removing, At
    <2> QED BY <1>1, <1>3, <2>1, KeptStays DEF IInv
  <1>10. Passed'
    BY <1>1, <1>3, PassedStays DEF IInv
  <1>11. Groups'
    BY <1>1, <1>2, <1>3, <1>4, GroupsStay DEF IInv
  <1>12. Sizes'
    BY <1>1, <1>3, <1>5, SizesStay, AccountedStays DEF IInv
  <1> QED BY <1>2, <1>6, <1>7, <1>8, <1>9, <1>10, <1>11, <1>12 DEF IInv

LEMMA Further == /\ Unmerged \subseteq Uncounted /\ Unmerged \subseteq Unnoted
                 /\ coming \cup Queued \subseteq Unmerged
  BY DEF Unmerged, Uncounted, Unnoted, Pending, HeldAt, Early

(* The bytes of some pieces of a task are bytes of the task.               *)
LEMMA BytesFacts ==
  ASSUME NEW j \in Program, NEW S, S \subseteq PiecesOf(j.rt)
  PROVE /\ BytesOf(S) \subseteq j.rt.offset .. j.rt.offset + j.rt.size - 1
        /\ IsFiniteSet(BytesOf(S)) /\ Cardinality(BytesOf(S)) \in Nat
        /\ Cardinality(BytesOf(S)) <= j.rt.size
        /\ Cardinality(BytesOf(S)) = j.rt.size =>
             BytesOf(S) = j.rt.offset .. j.rt.offset + j.rt.size - 1
  <1> DEFINE R == j.rt.offset .. j.rt.offset + j.rt.size - 1
  <1>1. j.rt \in RepairTask(Task, Node) /\ j.rt.offset \in Nat /\ j.rt.size \in Nat \ {0}
    BY Jobs DEF RepairTask
  <1>2. \A x \in S : Bytes(x) \subseteq R
    <2> SUFFICES ASSUME NEW x \in S PROVE Bytes(x) \subseteq R
      OBVIOUS
    <2>1. /\ x.offset \in Nat /\ x.size \in Nat /\ x.offset >= j.rt.offset
          /\ x.offset + x.size <= j.rt.offset + j.rt.size
      BY <1>1, Apiece
    <2> QED BY <1>1, <2>1 DEF Bytes
  <1>3. BytesOf(S) \subseteq R
    BY <1>2 DEF BytesOf
  <1>4. IsFiniteSet(R) /\ Cardinality(R) = j.rt.size
    <2>0. j.rt.offset \in Int /\ j.rt.offset + j.rt.size - 1 \in Int
      BY ONLY <1>1
    <2>1. PICK a \in Int, b \in Int : a = j.rt.offset /\ b = j.rt.offset + j.rt.size - 1
      BY ONLY <2>0, Zenon
    <2>2. a <= b /\ b - a + 1 = j.rt.size
      BY <1>1, <2>1
    <2>3. /\ IsFiniteSet(a .. b)
          /\ Cardinality(a .. b) = (IF a > b THEN 0 ELSE b - a + 1)
      BY <2>1, FS_Interval, Zenon
    <2> QED BY <2>1, <2>2, <2>3
  <1> HIDE DEF R
  <1>5. /\ IsFiniteSet(BytesOf(S)) /\ Cardinality(BytesOf(S)) <= Cardinality(R)
        /\ Cardinality(BytesOf(S)) = Cardinality(R) => BytesOf(S) = R
    BY <1>3, <1>4, FS_Subset
  <1>6. Cardinality(BytesOf(S)) \in Nat
    BY <1>5, FS_CardinalityType
  <1>7. /\ BytesOf(S) \subseteq R /\ IsFiniteSet(BytesOf(S)) /\ Cardinality(BytesOf(S)) \in Nat
        /\ Cardinality(BytesOf(S)) <= j.rt.size
        /\ Cardinality(BytesOf(S)) = j.rt.size => BytesOf(S) = R
    BY ONLY <1>3, <1>4, <1>5, <1>6
  <1> QED BY <1>7 DEF R

LEMMA FindGroupIInv == ASSUME IInv, NEW t \in Thread, FindGroup(t) PROVE IInv'
  <1>0. PICK k : k = task(t)
    OBVIOUS
  <1>1. /\ pc[t] = "group"
        /\ task_pieces_' = IF task_pieces_[k].state = "live" THEN task_pieces_
                           ELSE [task_pieces_ EXCEPT ![k] = [NoGroup EXCEPT !.state = "live"]]
        /\ UNCHANGED <<coming, data_queue, pieces, data, size, mem, next>>
    BY <1>0 DEF FindGroup
  <1>2. PICK b : b = (IF data[t].buf = nullptr /\ size[t] > 0 THEN "info" ELSE "find")
    OBVIOUS
  <1>3. pc' = [pc EXCEPT ![t] = b] /\ b \in {"info", "find"}
    BY <1>2 DEF FindGroup, goto
  <1>4. /\ OnePlace' /\ Queued' = Queued /\ data[t] \in Items
        /\ \A L : "idle" \notin L => Pending(L)' = IF b \in L THEN Pending(L) \cup {data[t]}
                                                   ELSE Pending(L) \ {data[t]}
    BY <1>1, <1>3, Moved DEF IInv
  <1>5. Unmerged' = Unmerged /\ Uncounted' = Uncounted /\ Unnoted' = Unnoted
    <2>1. data[t] \in Unmerged /\ data[t] \in Uncounted /\ data[t] \in Unnoted
      BY <1>1, Place DEF IInv, Unmerged, Uncounted, Unnoted, Early
    <2>2. /\ "idle" \notin Early /\ "idle" \notin Early \cup {"count"}
          /\ "idle" \notin Early \cup {"account"} /\ b \in Early
      BY <1>3 DEF Early
    <2>3. Unmerged' = Unmerged \cup {data[t]}
      BY <1>4, <2>2 DEF Unmerged
    <2>4. Uncounted' = Uncounted \cup {data[t]}
      BY <1>4, <2>2 DEF Uncounted
    <2>5. Unnoted' = Unnoted \cup {data[t]}
      BY <1>4, <2>2 DEF Unnoted
    <2> QED BY <2>1, <2>3, <2>4, <2>5
  <1>6. pc'[t] = b /\ \A u \in Thread : u # t => pc'[u] = pc[u]
    BY <1>3 DEF IInv, TypeOK
  <1>7. k \in Task /\ task_pieces_[k].state \in {"none", "live"}
    <2>1. k \in Task
      BY <1>0, <1>4, ItemKinds DEF task
    <2>2. task_pieces_[k].state \in {"none", "live", "erased"}
      BY <2>1 DEF IInv, TypeOK
    <2>3. Busy(t)
      BY <1>1 DEF Busy
    <2> QED BY <1>0, <2>1, <2>2, <2>3 DEF IInv, Groups, Over
  <1>8. /\ task_pieces_'[k].state = "live"
        /\ \A l \in Task : l # k => task_pieces_'[l] = task_pieces_[l]
        /\ task_pieces_[k].state = "live" => task_pieces_'[k] = task_pieces_[k]
        /\ task_pieces_[k].state = "none" => task_pieces_'[k].sum = 0 /\ task_pieces_'[k].total = 0
    BY <1>1, <1>7 DEF IInv, TypeOK, NoGroup
  <1>9. TypeOK'
    <2>1. [NoGroup EXCEPT !.state = "live"] \in [state : {"none", "live", "erased"}, sum : Nat, total : Nat]
      BY DEF NoGroup
    <2>2. task_pieces_' \in [Task -> [state : {"none", "live", "erased"}, sum : Nat, total : Nat]]
      BY <1>1, <2>1 DEF IInv, TypeOK
    <2>3. pc' \in [Thread -> {"idle", "group", "info", "find", "merge", "count", "remove",
                        "account", "reap", "lost"}]
      BY <1>3 DEF IInv, TypeOK
    <2> QED BY <1>1, <2>2, <2>3 DEF IInv, TypeOK
  <1>10. Working'
    <2> SUFFICES ASSUME NEW u \in Thread PROVE Working!(u)'
      BY DEF Working
    <2>1. CASE u = t
      <3>1. size[t] = data[t].size
        BY <1>1 DEF IInv, Working
      <3>2. b = "info" <=> data[t] \in Infos
        BY <1>2, <1>4, <3>1, ItemKinds
      <3> QED BY <1>1, <1>3, <1>6, <2>1, <3>1, <3>2
    <2>2. CASE u # t
      BY <1>1, <1>6, <2>2 DEF IInv, Working, tp, task
    <2> QED BY <2>1, <2>2
  <1>11. \A u \in Thread : Completes(u)' <=> Completes(u)
    BY <1>1, <1>3, <1>6 DEF Completes
  <1>12. Completers'
    BY <1>1, <1>5, <1>11, CompletersStay DEF IInv
  <1>13. Kept'
    <2>1. \A x \in Pieces : Removing(x)' <=> Removing(x)
      BY <1>1, <1>3, <1>6 DEF Removing, At
    <2> QED BY <1>1, <1>5, <2>1, KeptStays DEF IInv
  <1>14. Passed'
    BY <1>1, <1>5, PassedStays DEF IInv
  <1>15. Groups'
    <2>1. \A l \in Task : Over(l) => Over(l)'
      <3>1. \A u \in Thread : Busy(u)' => Busy(u) /\ data'[u] = data[u]
        BY <1>1, <1>6 DEF Busy
      <3> QED BY <1>1, <1>4, <3>1, OverStays
    <2> SUFFICES ASSUME NEW l \in Task PROVE Groups!(l)'
      BY DEF Groups
    <2>2. Groups!(l)
      BY DEF IInv, Groups
    <2>3. \A u \in Thread : pc'[u] \in {"reap", "lost"} <=> pc[u] \in {"reap", "lost"}
      BY <1>1, <1>3, <1>6
    <2>4. \A u \in Thread : u # t => pc'[u] = pc[u]
      BY <1>6
    <2>5. CASE l = k
      <3>1. /\ \A u \in Thread : pc'[u] = "reap" /\ data'[u].task_id = k => Over(k)'
            /\ \A u \in Thread : pc'[u] # "lost" \/ data'[u].task_id # k
        BY <1>1, <1>3, <1>6, <1>7, <2>1, <2>2, <2>5 DEF task
      <3>2. Finished(task_pieces_[k])' => Finished(task_pieces_[k]) /\ task_pieces_[k].state = "live"
        BY <1>7, <1>8 DEF Finished
      <3>3. \A u \in Thread : pc[u] = "reap" => pc'[u] = "reap"
        BY <1>1, <1>6
      <3> QED BY <1>1, <1>8, <2>2, <2>5, <3>1, <3>2, <3>3 DEF task
    <2>6. CASE l # k
      <3>1. task_pieces_'[l] = task_pieces_[l] /\ (Finished(task_pieces_[l])' <=> Finished(task_pieces_[l]))
        BY <1>8, <2>6 DEF Finished
      <3>2. \A u \in Thread : task(u) = l => pc'[u] = pc[u]
        BY <1>0, <1>6, <2>6
      <3> QED BY <1>1, <1>5, <2>1, <2>2, <3>1, <3>2 DEF task
    <2> QED BY <2>5, <2>6
  <1>16. Sizes'
    <2>1. \A l : Accounted(l)' = Accounted(l)
      BY <1>1, <1>5, <1>11, AccountedStays
    <2> SUFFICES ASSUME NEW j \in Program PROVE Sizes!(j)'
      BY DEF Sizes
    <2>2. Sizes!(j) /\ j.rt.task_id \in Task
      BY Jobs DEF IInv, Sizes
    <2>3. PICK A : A = Accounted(j.rt.task_id) /\ BytesOf(A)' = BytesOf(A)
      BY DEF BytesOf
    <2>4. Accounted(j.rt.task_id)' = A
      BY <2>1, <2>3
    <2>5. CASE j.rt.task_id # k \/ task_pieces_[k].state = "live"
      <3>1. task_pieces_'[j.rt.task_id] = task_pieces_[j.rt.task_id]
        BY <1>8, <2>2, <2>5
      <3> QED BY <1>5, <2>2, <2>3, <2>4, <3>1
    <2>6. CASE j.rt.task_id = k /\ task_pieces_[k].state = "none"
      <3>1. Of(k, Items) \subseteq Unmerged
        BY <1>7, <2>6 DEF IInv, Groups
      <3>2. Info(j.rt) \in Unnoted'
        <4>1. Info(j.rt) \in Of(k, Items)
          BY <2>6 DEF Of, Items, Infos, Info
        <4> QED BY <1>5, <3>1, <4>1, Further
      <3>3. A = {}
        <4> SUFFICES ASSUME NEW x \in A PROVE FALSE
          OBVIOUS
        <4>1. x \in Pieces /\ x.task_id = k /\ Complete(x)
          BY <2>3, <2>6 DEF Accounted
        <4>2. LocalOf(x) \in Gathered(x) /\ LocalOf(x) \in Of(k, Items)
          BY <4>1, HowMany, LocalFacts DEF Of, Items
        <4> QED BY <3>1, <4>1, <4>2, Further DEF Complete
      <3>4. Cardinality(BytesOf(A)) = 0
        BY <3>3, FS_EmptySet DEF BytesOf
      <3> QED BY <1>8, <2>3, <2>4, <2>6, <3>2, <3>4
    <2> QED BY <1>7, <2>5, <2>6
  <1> QED BY <1>4, <1>9, <1>10, <1>12, <1>13, <1>14, <1>15, <1>16 DEF IInv

LEMMA PushInfoIInv == ASSUME IInv, NEW t \in Thread, PushInfo(t) PROVE IInv'
  <1>1. /\ pc[t] = "info" /\ next' = next (+) SetToBag({data[t]})
        /\ size' = [size EXCEPT ![t] = 0 - @] /\ pc' = [pc EXCEPT ![t] = "account"]
        /\ UNCHANGED <<coming, data_queue, task_pieces_, pieces, data, mem>>
    BY DEF PushInfo, goto
  <1>2. /\ OnePlace' /\ Queued' = Queued /\ data[t] \in Items
        /\ \A L : "idle" \notin L => Pending(L)' = IF "account" \in L THEN Pending(L) \cup {data[t]}
                                                   ELSE Pending(L) \ {data[t]}
    BY <1>1, Moved DEF IInv
  <1>3. data[t] \in Infos /\ size[t] = data[t].size /\ data[t].size \in Nat \ {0}
    <2>1. data[t] \in Infos /\ size[t] = data[t].size
      BY <1>1 DEF IInv, Working
    <2> QED BY <2>1, InfoFacts
  <1>4. data[t] \in Unmerged /\ data[t] \in Uncounted /\ data[t] \in Unnoted
    BY <1>1, Place DEF IInv, Unmerged, Uncounted, Unnoted, Early
  <1>5. /\ Unmerged' = Unmerged \ {data[t]} /\ Uncounted' = Uncounted \ {data[t]}
        /\ Unnoted' = Unnoted
    <2>1. Unmerged' = Unmerged \ {data[t]}
      BY <1>2 DEF Unmerged, Early
    <2>2. Uncounted' = Uncounted \ {data[t]}
      BY <1>2 DEF Uncounted, Early
    <2>3. Unnoted' = Unnoted \cup {data[t]}
      BY <1>2 DEF Unnoted, Early
    <2> QED BY <1>4, <2>1, <2>2, <2>3
  <1>6. data[t] \notin Locals \cup Networks
    BY <1>2, <1>3, ItemKinds
  <1>7. /\ pc'[t] = "account" /\ size'[t] = 0 - data[t].size
        /\ \A u \in Thread : u # t => pc'[u] = pc[u] /\ size'[u] = size[u]
    BY <1>1, <1>3 DEF IInv, TypeOK
  <1>8. TypeOK'
    <2>1. BagToSet(next) \cup {data[t]} \subseteq AnyPiece
      BY <1>2, Filling DEF IInv, TypeOK
    <2>2. BagToSet(next') \subseteq AnyPiece
      BY <1>1, <2>1 DEF BagToSet, SetToBag, (+)
    <2>3. size' \in [Thread -> Int]
      BY <1>1 DEF IInv, TypeOK
    <2>4. pc' \in [Thread -> {"idle", "group", "info", "find", "merge", "count", "remove",
                        "account", "reap", "lost"}]
      BY <1>1 DEF IInv, TypeOK
    <2> QED BY <1>1, <2>2, <2>3, <2>4 DEF IInv, TypeOK
  <1>9. Working'
    <2> SUFFICES ASSUME NEW u \in Thread PROVE Working!(u)'
      BY DEF Working
    <2>1. CASE u = t
      BY <1>1, <1>3, <1>7, <2>1
    <2>2. CASE u # t
      BY <1>1, <1>7, <2>2 DEF IInv, Working, tp, task
    <2> QED BY <2>1, <2>2
  <1>10. \A u \in Thread : Completes(u)' <=> Completes(u)
    BY <1>1, <1>3, <1>7 DEF Completes
  <1>11. Completers'
    BY <1>1, <1>5, <1>10, CompletersStay DEF IInv
  <1>12. Kept'
    <2>1. \A x \in Pieces : Removing(x)' <=> Removing(x)
      BY <1>1, <1>7 DEF Removing, At
    <2> QED BY <1>1, <1>5, <1>6, <2>1, KeptStays DEF IInv
  <1>13. Passed'
    <2>1. /\ data[t] \notin BagToSet(next) /\ \A d \in BagToSet(next) : next[d] = 1
      BY <1>3, <1>4 DEF IInv, Passed
    <2>2. /\ BagToSet(next') = BagToSet(next) \cup {data[t]}
          /\ \A d \in BagToSet(next) \cup {data[t]} : next'[d] = 1
      BY <1>1, <2>1, Bagged
    <2>3. \A x \in Pieces : Complete(x) => Complete(x)'
      BY <1>5 DEF Complete
    <2>4. Sums' = Sums
      BY <1>3, <2>2 DEF Sums
    <2>5. \A x \in Pieces : SumsOf(x)' = SumsOf(x)
      BY <2>4 DEF SumsOf
    <2> QED BY <1>5, <2>2, <2>3, <2>4, <2>5 DEF IInv, Passed
  <1>14. Groups'
    BY <1>1, <1>2, <1>5, <1>7, GroupsStay DEF IInv
  <1>15. Sizes'
    <2>1. \A l : Accounted(l)' = Accounted(l)
      BY <1>1, <1>5, <1>6, <1>10, AccountedStays
    <2> QED BY <1>1, <1>5, <2>1, SizesStay DEF IInv
  <1> QED BY <1>2, <1>8, <1>9, <1>11, <1>12, <1>13, <1>14, <1>15 DEF IInv

(* What a thread works on, and that only it does.                          *)
LEMMA WorksOn ==
  ASSUME IInv, NEW t \in Thread, pc[t] \in {"find", "merge", "count", "remove"}
  PROVE \E x \in Pieces :
          /\ data[t] \in Gathered(x) /\ data[t].task_id = x.task_id /\ data[t].offset = x.offset
          /\ data[t] \in Locals \cup Networks /\ data[t] \notin Infos
          /\ tp(t) = piece(x) /\ x.task_id \in Task /\ x.offset \in Offset
          /\ \A y \in Pieces : data[t] \in Gathered(y) => y = x
          /\ \A y \in Pieces : <<y.task_id, y.offset>> = <<x.task_id, x.offset>> => y = x
          /\ size[t] = data[t].size
  <1>1. data[t] \in Items /\ data[t] \notin Infos /\ size[t] = data[t].size
    BY DEF IInv, OnePlace, Working
  <1>2. data[t] \in Locals \cup Networks
    BY <1>1 DEF Items
  <1>3. PICK x \in Pieces : data[t] \in Gathered(x)
    BY <1>2, Contributes
  <1>4. data[t].task_id = x.task_id /\ data[t].offset = x.offset
    BY <1>3, GatheredFacts
  <1>5. \A y \in Pieces : data[t] \in Gathered(y) => y = x
    BY <1>4, GatheredFacts, SamePiece
  <1>6. \A y \in Pieces : <<y.task_id, y.offset>> = <<x.task_id, x.offset>> => y = x
    BY SamePiece
  <1>7. x.task_id \in Task /\ x.offset \in Offset
    BY PieceFacts
  <1> QED BY <1>1, <1>2, <1>3, <1>4, <1>5, <1>6, <1>7 DEF tp, task, piece

(* The cells of a piece are its own.                                       *)
LEMMA OwnCells ==
  ASSUME NEW x \in Pieces
  PROVE /\ \A b \in Own(x) : /\ b \in Range0 \X Offset /\ b \in Cell(Range0) /\ b # nullptr
                             /\ b[2] = x.offset
        /\ \A d \in Gathered(x) : d.buf # nullptr /\ d.buf \in Own(x) => d \in Merged(x)
        /\ \A d \in Gathered(x) : d.buf # Get(0, x.offset)
        /\ \A d \in Gathered(x) : d.buf # nullptr => d.buf \in Range0 \X Offset /\ d.buf \in Cell(Range0)
                                                     /\ d.buf[2] = x.offset
        /\ Get(0, x.offset) \in Cell(Range0)
  <1>1. x.offset \in Offset /\ x.offset \in Nat
    BY PieceFacts
  <1>2. \A p \in Range0 : Get(p, x.offset) \in Range0 \X Offset /\ Get(p, x.offset) \in Cell(Range0)
                          /\ Get(p, x.offset) # nullptr /\ Get(p, x.offset)[2] = x.offset
    BY <1>1, Buffers DEF Cell
  <1>3. \A d \in Gathered(x) : d.buf # nullptr =>
          \E p \in Range0 : p # 0 /\ d.buf = Get(p, x.offset)
    <2> SUFFICES ASSUME NEW d \in Gathered(x), d.buf # nullptr
                 PROVE \E p \in Range0 : p # 0 /\ d.buf = Get(p, x.offset)
      OBVIOUS
    <2>1. PICK p \in Node : d.buf = Get(p, x.offset)
      BY GatheredFacts
    <2> QED BY <2>1, IdAssumption DEF Range0
  <1>4. \A d \in Gathered(x) : d.buf # Get(0, x.offset)
    <2> SUFFICES ASSUME NEW d \in Gathered(x), d.buf = Get(0, x.offset) PROVE FALSE
      OBVIOUS
    <2>1. PICK p \in Range0 : p # 0 /\ d.buf = Get(p, x.offset)
      BY <1>3, Buffers
    <2> QED BY <2>1, Buffers
  <1>5. 0 \in Range0
    BY DEF Range0
  <1>6. \A b \in Own(x) : b \in Range0 \X Offset /\ b \in Cell(Range0) /\ b # nullptr /\ b[2] = x.offset
    <2> SUFFICES ASSUME NEW b \in Own(x)
                 PROVE b \in Range0 \X Offset /\ b \in Cell(Range0) /\ b # nullptr /\ b[2] = x.offset
      OBVIOUS
    <2>1. CASE b = Get(0, x.offset)
      BY <1>2, <1>5, <2>1
    <2>2. CASE b # Get(0, x.offset)
      <3>1. PICK d \in Merged(x) : b = d.buf /\ b # nullptr
        BY <2>2 DEF Own
      <3>2. d \in Gathered(x)
        BY DEF Merged
      <3> QED BY <1>2, <1>3, <3>1, <3>2
    <2> QED BY <2>1, <2>2
  <1>7. \A d \in Gathered(x) : d.buf # nullptr /\ d.buf \in Own(x) => d \in Merged(x)
    <2> SUFFICES ASSUME NEW d \in Gathered(x), d.buf # nullptr, d.buf \in Own(x) PROVE d \in Merged(x)
      OBVIOUS
    <2>1. PICK e \in Merged(x) : e.buf = d.buf
      BY <1>4 DEF Own
    <2>2. e \in Gathered(x)
      BY DEF Merged
    <2> QED BY <2>1, <2>2, OwnBuffers
  <1> QED BY <1>2, <1>3, <1>4, <1>5, <1>6, <1>7

(* A step that adds the piece of a thread's item to a TempPiece changes    *)
(* nothing about the other pieces.                                         *)
LEMMA KeptBut ==
  ASSUME Kept, NEW x \in Pieces,
         \A d \in Locals \cup Networks : d \notin Gathered(x) =>
            (d \in Unmerged' <=> d \in Unmerged) /\ (d \in Uncounted' <=> d \in Uncounted),
         \A y \in Pieces : y # x => pieces'[<<y.task_id, y.offset>>] = pieces[<<y.task_id, y.offset>>],
         \A y \in Pieces : y # x => (Removing(y)' <=> Removing(y)),
         (IF piece(x) = NoPiece THEN Gone(x) ELSE Fits(x, piece(x)))'
  PROVE Kept'
  <1> SUFFICES ASSUME NEW y \in Pieces, y # x
               PROVE (IF piece(y) = NoPiece THEN Gone(y) ELSE Fits(y, piece(y)))'
    BY DEF Kept
  <1>1. \A d \in Gathered(y) : d \in Locals \cup Networks /\ d \notin Gathered(x)
    BY GatheredFacts, SamePiece
  <1>2. Merged(y)' = Merged(y) /\ Counted(y)' = Counted(y) /\ (Complete(y)' <=> Complete(y))
    BY <1>1 DEF Merged, Counted, Complete
  <1>3. piece(y)' = piece(y) /\ Own(y)' = Own(y) /\ (Filled(y)' <=> Filled(y))
    BY <1>2 DEF piece, Own, Filled
  <1>4. IF piece(y) = NoPiece THEN Gone(y) ELSE Fits(y, piece(y))
    BY DEF Kept
  <1>5. Removing(y)' <=> Removing(y)
    OBVIOUS
  <1>6. piece(y) = NoPiece => (Gone(y) <=> Gone(y)')
    BY <1>2, <1>5 DEF Gone
  <1>7. piece(y) # NoPiece => (Fits(y, piece(y)) <=> Fits(y, piece(y))')
    BY <1>2, <1>3, <1>5 DEF Fits
  <1> QED BY <1>3, <1>4, <1>6, <1>7

LEMMA FindPieceIInv == ASSUME IInv, NEW t \in Thread, FindPiece(t) PROVE IInv'
  <1>0. PICK d : d = data[t]
    OBVIOUS
  <1>1. pc[t] = "find" /\ UNCHANGED <<coming, data_queue, task_pieces_, data, size, mem, next>>
    BY DEF FindPiece
  <1>2. PICK x \in Pieces :
          /\ d \in Gathered(x) /\ d.task_id = x.task_id /\ d.offset = x.offset
          /\ d \in Locals \cup Networks /\ d \notin Infos
          /\ tp(t) = piece(x) /\ x.task_id \in Task /\ x.offset \in Offset
          /\ \A y \in Pieces : d \in Gathered(y) => y = x
          /\ \A y \in Pieces : <<y.task_id, y.offset>> = <<x.task_id, x.offset>> => y = x
          /\ size[t] = d.size
    BY <1>0, <1>1, WorksOn
  <1>3. PICK q : q = [tar_id |-> d.tar_id, size |-> d.size, buf |-> d.buf,
                      temp_buf |-> Get(0, d.offset), num |-> 0, src_num |-> 0]
    OBVIOUS
  <1>4. \/ /\ piece(x) = NoPiece /\ pc' = [pc EXCEPT ![t] = "count"]
           /\ pieces' = [pieces EXCEPT ![<<x.task_id, x.offset>>] = q]
        \/ piece(x) # NoPiece /\ pc' = [pc EXCEPT ![t] = "merge"] /\ pieces' = pieces
    BY <1>0, <1>2, <1>3 DEF FindPiece, goto
  <1>5. PICK b \in {"count", "merge"} : pc' = [pc EXCEPT ![t] = b] /\ (b = "count" <=> piece(x) = NoPiece)
    BY <1>4
  <1>6. /\ OnePlace' /\ Queued' = Queued /\ d \in Items
        /\ \A L : "idle" \notin L => Pending(L)' = IF b \in L THEN Pending(L) \cup {d}
                                                   ELSE Pending(L) \ {d}
    BY <1>0, <1>1, <1>5, Moved DEF IInv
  <1>7. d \in Unmerged /\ d \in Uncounted /\ d \in Unnoted
    BY <1>0, <1>1, Place DEF IInv, Unmerged, Uncounted, Unnoted, Early
  <1>8. /\ Unmerged' = (IF b = "merge" THEN Unmerged ELSE Unmerged \ {d})
        /\ Uncounted' = Uncounted
        /\ Unnoted' = (IF b = "merge" THEN Unnoted ELSE Unnoted \ {d})
    <2>1. Unmerged' = IF b = "merge" THEN Unmerged \cup {d} ELSE Unmerged \ {d}
      BY <1>6 DEF Unmerged, Early
    <2>2. Uncounted' = Uncounted \cup {d}
      BY <1>6 DEF Uncounted, Early
    <2>3. Unnoted' = IF b = "merge" THEN Unnoted \cup {d} ELSE Unnoted \ {d}
      BY <1>6 DEF Unnoted, Early
    <2> QED BY <1>7, <2>1, <2>2, <2>3
  <1>9. pc'[t] = b /\ \A u \in Thread : u # t => pc'[u] = pc[u]
    BY <1>5 DEF IInv, TypeOK
  <1>10. q \in TempPiece
    <2>1. d \in DataPiece(Task, Node)
      BY <1>6, ItemTypes
    <2>2. Get(0, d.offset) \in Cell(Range0)
      BY <1>2, OwnCells
    <2>3. /\ d.tar_id \in Nat /\ d.size \in Nat /\ d.buf \in Cell(Node) \cup {nullptr}
      BY <2>1 DEF DataPiece
    <2>4. d.buf \in Cell(Range0) \cup {nullptr}
      BY <2>3 DEF Cell, Range0
    <2> QED BY <1>3, <2>2, <2>3, <2>4 DEF TempPiece
  <1>11. /\ \A k, o : <<k, o>> # <<x.task_id, x.offset>> => pieces'[<<k, o>>] = pieces[<<k, o>>]
         /\ b = "count" => pieces'[<<x.task_id, x.offset>>] = q
         /\ b = "merge" => pieces' = pieces
         /\ pieces' \in [Task \X Offset -> TempPiece \cup {NoPiece}]
    <2>1. pieces \in [Task \X Offset -> TempPiece \cup {NoPiece}] /\ <<x.task_id, x.offset>> \in Task \X Offset
      BY <1>2 DEF IInv, TypeOK
    <2>2. CASE b = "merge"
      BY <1>4, <1>5, <2>1, <2>2
    <2>3. CASE b = "count"
      <3>1. pieces' = [pieces EXCEPT ![<<x.task_id, x.offset>>] = q]
        BY <1>4, <1>5, <2>3
      <3> QED BY <1>10, <2>1, <2>3, <3>1
    <2> QED BY <2>2, <2>3
  <1>12. TypeOK'
    <2>1. pc' \in [Thread -> {"idle", "group", "info", "find", "merge", "count", "remove",
                        "account", "reap", "lost"}]
      BY <1>5 DEF IInv, TypeOK
    <2> QED BY <1>1, <1>11, <2>1 DEF IInv, TypeOK
  <1>13. q # NoPiece
    BY <1>10, NoPieceAssumption
  <1>14. Working'
    <2> SUFFICES ASSUME NEW u \in Thread PROVE Working!(u)'
      BY DEF Working
    <2>1. pieces[<<task(u), data[u].offset>>] # NoPiece => pieces'[<<task(u), data[u].offset>>] # NoPiece
      BY <1>5, <1>11, <1>13
    <2>2. CASE u = t
      <3>1. pieces'[<<task(u), data[u].offset>>] # NoPiece
        BY <1>0, <1>2, <1>5, <1>11, <1>13, <2>2 DEF task, piece
      <3> QED BY <1>0, <1>1, <1>2, <1>5, <1>9, <2>2, <3>1 DEF tp, task
    <2>3. CASE u # t
      <3>1. Working!(u)
        BY DEF IInv, Working
      <3>2. pc'[u] = pc[u] /\ data'[u] = data[u] /\ size'[u] = size[u]
        BY <1>1, <1>9, <2>3
      <3> QED BY <2>1, <3>1, <3>2 DEF tp, task
    <2> QED BY <2>2, <2>3
  <1>15. \A u \in Thread : Completes(u)' <=> Completes(u)
    BY <1>1, <1>5, <1>9 DEF Completes
  <1>16. Completers'
    BY <1>1, <1>8, <1>15, CompletersStay DEF IInv
  <1>17. \A y \in Pieces : Removing(y)' <=> Removing(y)
    BY <1>1, <1>5, <1>9 DEF Removing, At
  <1>18. Kept'
    <2>1. CASE b = "merge"
      BY <1>8, <1>11, <1>17, <2>1, KeptStays DEF IInv
    <2>2. CASE b = "count"
      <3>1. Merged(x) = {} /\ Counted(x) = {} /\ Merged(x)' = {d} /\ Counted(x)' = {} /\ ~Complete(x)'
        <4>1. Merged(x) = {}
          <5>1. Gone(x)
            BY <1>5, <2>2 DEF IInv, Kept
          <5>2. ~Complete(x)
            BY <1>2, <1>7 DEF Complete
          <5> QED BY <5>1, <5>2 DEF Gone
        <4> QED BY <1>2, <1>7, <1>8, <2>2, <4>1, Further DEF Merged, Counted, Complete
      <3>2. /\ q.tar_id = d.tar_id /\ q.size = d.size /\ q.buf = d.buf
            /\ q.temp_buf = Get(0, x.offset) /\ q.num = 0 /\ q.src_num = 0
        BY <1>2, <1>3
      <3>3. /\ d.size = (IF d.buf = nullptr THEN 0 ELSE x.size)
            /\ d.tar_id = (IF d = LocalOf(x) THEN rtOf(x.task_id).tar_id ELSE 0)
        BY <1>2, GatheredFacts
      <3>4. /\ Filled(x)' <=> d.buf # nullptr
            /\ Own(x)' = {Get(0, x.offset)} \cup ({d.buf} \ {nullptr})
        BY <3>1 DEF Filled, Own
      <3>5. d.buf # Get(0, x.offset)
        BY <1>2, OwnCells
      <3>6. Cardinality({}) = 0
        BY FS_EmptySet
      <3>7. piece(x)' = q
        BY <1>11, <2>2 DEF piece
      <3>8. Fits(x, q)'
        BY <3>1, <3>2, <3>3, <3>4, <3>5, <3>6 DEF Fits
      <3>9. (IF piece(x) = NoPiece THEN Gone(x) ELSE Fits(x, piece(x)))'
        BY <1>13, <3>7, <3>8
      <3>10. \A y \in Pieces : y # x => <<y.task_id, y.offset>> # <<x.task_id, x.offset>>
        BY <1>2
      <3>11. \A y \in Pieces : y # x => pieces'[<<y.task_id, y.offset>>] = pieces[<<y.task_id, y.offset>>]
        BY <1>11, <3>10
      <3>12. \A e \in Locals \cup Networks : e \notin Gathered(x) =>
            (e \in Unmerged' <=> e \in Unmerged) /\ (e \in Uncounted' <=> e \in Uncounted)
        BY <1>2, <1>8
      <3>13. Kept
        BY DEF IInv
      <3> QED BY <1>17, <3>9, <3>11, <3>12, <3>13, KeptBut
    <2> QED BY <2>1, <2>2
  <1>19. Passed'
    BY <1>1, <1>8, PassedStays DEF IInv
  <1>20. Groups'
    <2>1. Busy(t) /\ task(t) = x.task_id
      BY <1>0, <1>1, <1>2 DEF Busy, task
    <2>2. \A k \in Task, o \in Offset : \/ pieces'[<<k, o>>] \in {NoPiece, pieces[<<k, o>>]}
                                        \/ \E u \in Thread : Busy(u) /\ task(u) = k
      BY <1>11, <2>1
    <2>3. \A e \in Unmerged \ Unmerged' : \E u \in Thread : data[u] = e /\ pc[u] \notin {"idle", "group"}
      BY <1>0, <1>1, <1>8
    <2>4. Groups
      BY DEF IInv
    <2>5. \A u \in Thread : u # t => pc'[u] = pc[u] /\ data'[u] = data[u] /\ size'[u] = size[u]
      BY <1>1, <1>9
    <2>6. /\ pc[t] \in {"info", "find", "merge", "count", "remove"}
          /\ pc'[t] \in {"merge", "count", "remove", "account"} /\ data'[t] = data[t]
      BY <1>1, <1>9
    <2> QED BY <1>1, <1>6, <2>2, <2>3, <2>4, <2>5, <2>6, GroupsStay
  <1>21. Sizes'
    <2>1. \A l : Accounted(l)' = Accounted(l)
      BY <1>1, <1>8, <1>15, AccountedStays
    <2>2. \A j \in Program : Info(j.rt) \in Infos
      BY DEF Infos
    <2>3. \A j \in Program : Info(j.rt) \in Unnoted' <=> Info(j.rt) \in Unnoted
      BY <1>2, <1>8, <2>2
    <2> QED BY <1>1, <2>1, <2>3, SizesStay DEF IInv
  <1> QED BY <1>6, <1>12, <1>14, <1>16, <1>18, <1>19, <1>20, <1>21 DEF IInv

LEMMA MergeIInv == ASSUME IInv, NEW t \in Thread, Merge(t) PROVE IInv'
  <1>0. PICK d : d = data[t]
    OBVIOUS
  <1>1. pc[t] = "merge" /\ pc' = [pc EXCEPT ![t] = "count"]
        /\ UNCHANGED <<coming, data_queue, task_pieces_, data, size, next>>
    BY DEF Merge, MergeWith, goto
  <1>2. PICK x \in Pieces :
          /\ d \in Gathered(x) /\ d.task_id = x.task_id /\ d.offset = x.offset
          /\ d \in Locals \cup Networks /\ d \notin Infos
          /\ tp(t) = piece(x) /\ x.task_id \in Task /\ x.offset \in Offset
          /\ \A y \in Pieces : d \in Gathered(y) => y = x
          /\ \A y \in Pieces : <<y.task_id, y.offset>> = <<x.task_id, x.offset>> => y = x
          /\ size[t] = d.size
    BY <1>0, <1>1, WorksOn
  <1>3. PICK p : p = piece(x)
    OBVIOUS
  <1>4. p # NoPiece /\ p \in TempPiece /\ Fits(x, p)
    <2>1. p # NoPiece
      BY <1>1, <1>2, <1>3 DEF IInv, Working
    <2>2. p \in TempPiece
      BY <1>2, <1>3, <2>1 DEF IInv, TypeOK, piece
    <2> QED BY <1>3, <2>1, <2>2 DEF IInv, Kept
  <1>5. PICK a : a = p.tar_id + d.tar_id
    OBVIOUS
  <1>6. PICK r, sum :
          /\ pieces' = [pieces EXCEPT ![<<x.task_id, x.offset>>] = r]
          /\ \/ /\ p.buf = nullptr /\ mem' = mem
                /\ r = [p EXCEPT !.tar_id = a, !.size = d.size, !.buf = d.buf]
             \/ /\ p.buf # nullptr /\ d.buf # nullptr
                /\ sum = Xor(mem[p.buf], mem[d.buf]) /\ mem' = [mem EXCEPT ![p.temp_buf] = sum]
                /\ r = [p EXCEPT !.tar_id = a, !.buf = p.temp_buf, !.temp_buf = d.buf]
             \/ /\ p.buf # nullptr /\ d.buf = nullptr /\ mem' = mem
                /\ r = [p EXCEPT !.tar_id = a]
    <2>1. PICK r : /\ pieces' = [pieces EXCEPT ![<<d.task_id, d.offset>>] = r]
          /\ \/ /\ p.buf = nullptr /\ mem' = mem
                /\ r = [[p EXCEPT !.tar_id = a] EXCEPT !.size = d.size, !.buf = d.buf]
             \/ /\ p.buf # nullptr /\ d.buf # nullptr
                /\ mem' = [mem EXCEPT ![p.temp_buf] = Xor(mem[p.buf], mem[d.buf])]
                /\ r = [[p EXCEPT !.tar_id = a] EXCEPT !.buf = p.temp_buf, !.temp_buf = d.buf]
             \/ /\ p.buf # nullptr /\ d.buf = nullptr /\ mem' = mem
                /\ r = [p EXCEPT !.tar_id = a]
      BY <1>0, <1>2, <1>3, <1>5 DEF Merge, MergeWith
    <2> QED BY <1>2, <2>1
  <1>7. /\ OnePlace' /\ Queued' = Queued /\ d \in Items
        /\ \A L : "idle" \notin L => Pending(L)' = IF "count" \in L THEN Pending(L) \cup {d}
                                                   ELSE Pending(L) \ {d}
    BY <1>0, <1>1, Moved DEF IInv
  <1>8. d \in Unmerged /\ d \in Uncounted /\ d \in Unnoted
    BY <1>0, <1>1, Place DEF IInv, Unmerged, Uncounted, Unnoted, Early
  <1>9. Unmerged' = Unmerged \ {d} /\ Uncounted' = Uncounted /\ Unnoted' = Unnoted \ {d}
    <2>1. Unmerged' = Unmerged \ {d}
      BY <1>7 DEF Unmerged, Early
    <2>2. Uncounted' = Uncounted \cup {d}
      BY <1>7 DEF Uncounted, Early
    <2>3. Unnoted' = Unnoted \ {d}
      BY <1>7 DEF Unnoted, Early
    <2> QED BY <1>8, <2>1, <2>2, <2>3
  <1>10. pc'[t] = "count" /\ \A u \in Thread : u # t => pc'[u] = pc[u]
    BY <1>1 DEF IInv, TypeOK
  <1>11. /\ Merged(x)' = Merged(x) \cup {d} /\ d \notin Merged(x) /\ Counted(x)' = Counted(x)
         /\ Complete(x)' <=> Complete(x)
         /\ ~Complete(x)
    BY <1>2, <1>8, <1>9 DEF Merged, Counted, Complete
  (* The new values of the piece. *)
  <1>12. /\ d.size = (IF d.buf = nullptr THEN 0 ELSE x.size)
         /\ d.tar_id = (IF d = LocalOf(x) THEN rtOf(x.task_id).tar_id ELSE 0)
         /\ rtOf(x.task_id).tar_id \in Nat
    <2>1. d.size = (IF d.buf = nullptr THEN 0 ELSE x.size)
      BY <1>2, GatheredFacts
    <2>2. d.tar_id = (IF d = LocalOf(x) THEN rtOf(x.task_id).tar_id ELSE 0)
      BY <1>2, GatheredFacts
    <2>3. rtOf(x.task_id) = JobOf(x).rt /\ JobOf(x) \in Program
      BY <1>2, PieceFacts
    <2>4. JobOf(x).rt \in RepairTask(Task, Node)
      BY <2>3, Jobs
    <2>5. JobOf(x).rt.tar_id \in Node
      BY ONLY <2>4 DEF RepairTask
    <2> QED BY <2>1, <2>2, <2>3, <2>5, IdAssumption
  <1>13. a = (IF LocalOf(x) \in Merged(x) \cup {d} THEN rtOf(x.task_id).tar_id ELSE 0)
    <2>1. p.tar_id = (IF LocalOf(x) \in Merged(x) THEN rtOf(x.task_id).tar_id ELSE 0)
      BY <1>4 DEF Fits
    <2> QED BY <1>5, <1>11, <1>12, <2>1
  <1>14. /\ p.buf # nullptr <=> Filled(x)
         /\ p.size = (IF Filled(x) THEN x.size ELSE 0)
         /\ p.buf \in Own(x) \cup {nullptr} /\ p.temp_buf \in Own(x) /\ p.buf # p.temp_buf
    BY <1>4 DEF Fits
  <1>15. /\ Filled(x)' <=> (Filled(x) \/ d.buf # nullptr)
         /\ Own(x)' = Own(x) \cup ({d.buf} \ {nullptr})
         /\ ~Filled(x) => Own(x) = {Get(0, x.offset)}
    BY <1>11 DEF Filled, Own
  <1>16. /\ d.buf # Get(0, x.offset) /\ p.temp_buf # nullptr
         /\ d.buf # nullptr => d.buf \notin Own(x)
    BY <1>2, <1>11, <1>14, OwnCells
  <1>17. r.buf # nullptr <=> Filled(x)'
    BY <1>4, <1>6, <1>14, <1>15, <1>16 DEF TempPiece
  <1>18. r.size = (IF Filled(x)' THEN x.size ELSE 0)
    BY <1>4, <1>6, <1>12, <1>14, <1>15, <1>16 DEF TempPiece
  <1>19. r.buf \in Own(x)' \cup {nullptr} /\ r.temp_buf \in Own(x)' /\ r.buf # r.temp_buf
    <2>1. CASE p.buf = nullptr
      <3>1. r.buf = d.buf /\ r.temp_buf = p.temp_buf /\ p.temp_buf = Get(0, x.offset)
        BY <1>4, <1>6, <1>14, <1>15, <2>1 DEF TempPiece
      <3> QED BY <1>14, <1>15, <1>16, <3>1
    <2>2. CASE p.buf # nullptr /\ d.buf # nullptr
      <3>1. r.buf = p.temp_buf /\ r.temp_buf = d.buf
        BY <1>4, <1>6, <2>2 DEF TempPiece
      <3> QED BY <1>14, <1>15, <1>16, <2>2, <3>1
    <2>3. CASE p.buf # nullptr /\ d.buf = nullptr
      <3>1. r.buf = p.buf /\ r.temp_buf = p.temp_buf
        BY <1>4, <1>6, <2>3 DEF TempPiece
      <3> QED BY <1>14, <1>15, <2>3, <3>1
    <2> QED BY <2>1, <2>2, <2>3
  <1>20. r.tar_id = a /\ r.num = p.num /\ r.src_num = p.src_num
    BY <1>4, <1>6 DEF TempPiece
  <1>21. r \in TempPiece
    <2>1. \A b \in Own(x) \cup ({d.buf} \ {nullptr}) : b \in Cell(Range0)
      BY <1>2, OwnCells
    <2>2. /\ r.buf \in Cell(Range0) \cup {nullptr} /\ r.temp_buf \in Cell(Range0)
      BY <1>15, <1>19, <2>1
    <2>3. x.size \in Nat
      BY PieceFacts
    <2>4. r.tar_id \in Nat /\ r.size \in Nat
      BY <1>12, <1>13, <1>18, <1>20, <2>3
    <2>5. r = [p EXCEPT !.tar_id = r.tar_id, !.size = r.size, !.buf = r.buf, !.temp_buf = r.temp_buf]
      BY <1>4, <1>6 DEF TempPiece
    <2> QED BY <1>4, <2>2, <2>4, <2>5 DEF TempPiece
  <1>22. /\ \A k, o : <<k, o>> # <<x.task_id, x.offset>> => pieces'[<<k, o>>] = pieces[<<k, o>>]
         /\ pieces'[<<x.task_id, x.offset>>] = r
         /\ pieces' \in [Task \X Offset -> TempPiece \cup {NoPiece}]
    <2>1. pieces \in [Task \X Offset -> TempPiece \cup {NoPiece}] /\ <<x.task_id, x.offset>> \in Task \X Offset
      BY <1>2 DEF IInv, TypeOK
    <2> QED BY <1>6, <1>21, <2>1
  <1>23. r # NoPiece
    BY <1>21, NoPieceAssumption
  <1>24. TypeOK'
    <2>1. pc' \in [Thread -> {"idle", "group", "info", "find", "merge", "count", "remove",
                        "account", "reap", "lost"}]
      BY <1>1 DEF IInv, TypeOK
    <2>2. mem \in [Range0 \X Offset -> SUBSET (Task \X Cell(Node))]
      BY DEF IInv, TypeOK
    <2>3. mem' \in [Range0 \X Offset -> SUBSET (Task \X Cell(Node))]
      <3>1. CASE p.buf # nullptr /\ d.buf # nullptr
        <4>1. p.buf \in Range0 \X Offset /\ d.buf \in Range0 \X Offset
          BY <1>2, <1>14, <3>1, OwnCells
        <4>2. mem[p.buf] \in SUBSET (Task \X Cell(Node)) /\ mem[d.buf] \in SUBSET (Task \X Cell(Node))
          BY <2>2, <4>1
        <4>3. sum \in SUBSET (Task \X Cell(Node))
          BY <1>6, <3>1, <4>2 DEF Xor
        <4> QED BY <1>6, <2>2, <3>1, <4>3
      <3>2. CASE p.buf = nullptr \/ d.buf = nullptr
        BY <1>6, <2>2, <3>2
      <3> QED BY <3>1, <3>2
    <2> QED BY <1>1, <1>22, <2>1, <2>3 DEF IInv, TypeOK
  <1>25. Working'
    <2> SUFFICES ASSUME NEW u \in Thread PROVE Working!(u)'
      BY DEF Working
    <2>1. pieces[<<task(u), data[u].offset>>] # NoPiece => pieces'[<<task(u), data[u].offset>>] # NoPiece
      BY <1>22, <1>23
    <2>2. CASE u = t
      <3>1. pieces'[<<task(u), data[u].offset>>] # NoPiece
        BY <1>0, <1>2, <1>22, <1>23, <2>2 DEF task
      <3> QED BY <1>0, <1>1, <1>2, <1>10, <2>2, <3>1 DEF tp, task
    <2>3. CASE u # t
      <3>1. Working!(u)
        BY DEF IInv, Working
      <3>2. pc'[u] = pc[u] /\ data'[u] = data[u] /\ size'[u] = size[u]
        BY <1>1, <1>10, <2>3
      <3> QED BY <2>1, <3>1, <3>2 DEF tp, task
    <2> QED BY <2>2, <2>3
  <1>26. \A u \in Thread : Completes(u)' <=> Completes(u)
    BY <1>1, <1>10 DEF Completes
  <1>27. Completers'
    BY <1>1, <1>9, <1>26, CompletersStay DEF IInv
  <1>28. \A y \in Pieces : Removing(y)' <=> Removing(y)
    BY <1>1, <1>10 DEF Removing, At
  <1>29. Kept'
    <2>1. piece(x)' = r
      BY <1>22 DEF piece
    <2>2. Fits(x, r)'
      <3>1. p.num = Cardinality(Counted(x))
            /\ p.src_num = (IF LocalOf(x) \in Counted(x) THEN rtOf(x.task_id).src_num ELSE 0)
        BY <1>4 DEF Fits
      <3> QED BY <1>11, <1>13, <1>17, <1>18, <1>19, <1>20, <3>1 DEF Fits
    <2>3. (IF piece(x) = NoPiece THEN Gone(x) ELSE Fits(x, piece(x)))'
      BY <1>23, <2>1, <2>2
    <2>4. \A y \in Pieces : y # x => <<y.task_id, y.offset>> # <<x.task_id, x.offset>>
      BY <1>2
    <2>5. \A y \in Pieces : y # x => pieces'[<<y.task_id, y.offset>>] = pieces[<<y.task_id, y.offset>>]
      BY <1>22, <2>4
    <2>6. \A e \in Locals \cup Networks : e \notin Gathered(x) =>
            (e \in Unmerged' <=> e \in Unmerged) /\ (e \in Uncounted' <=> e \in Uncounted)
      BY <1>2, <1>9
    <2>7. Kept
      BY DEF IInv
    <2> QED BY <1>28, <2>3, <2>5, <2>6, <2>7, KeptBut
  <1>30. Passed'
    BY <1>1, <1>9, PassedStays DEF IInv
  <1>31. Groups'
    <2>1. Busy(t) /\ task(t) = x.task_id
      BY <1>0, <1>1, <1>2 DEF Busy, task
    <2>2. \A k \in Task, o \in Offset : \/ pieces'[<<k, o>>] \in {NoPiece, pieces[<<k, o>>]}
                                        \/ \E u \in Thread : Busy(u) /\ task(u) = k
      BY <1>22, <2>1
    <2>3. \A e \in Unmerged \ Unmerged' : \E u \in Thread : data[u] = e /\ pc[u] \notin {"idle", "group"}
      BY <1>0, <1>1, <1>9
    <2>4. Groups
      BY DEF IInv
    <2>5. \A u \in Thread : u # t => pc'[u] = pc[u] /\ data'[u] = data[u] /\ size'[u] = size[u]
      BY <1>1, <1>10
    <2>6. /\ pc[t] \in {"info", "find", "merge", "count", "remove"}
          /\ pc'[t] \in {"merge", "count", "remove", "account"} /\ data'[t] = data[t]
      BY <1>1, <1>10
    <2> QED BY <1>1, <1>7, <2>2, <2>3, <2>4, <2>5, <2>6, GroupsStay
  <1>32. Sizes'
    <2>1. \A l : Accounted(l)' = Accounted(l)
      BY <1>1, <1>9, <1>26, AccountedStays
    <2>2. \A j \in Program : Info(j.rt) \in Infos
      BY DEF Infos
    <2>3. \A j \in Program : Info(j.rt) \in Unnoted' <=> Info(j.rt) \in Unnoted
      BY <1>2, <1>9, <2>2
    <2> QED BY <1>1, <2>1, <2>3, SizesStay DEF IInv
  <1> QED BY <1>7, <1>24, <1>25, <1>27, <1>29, <1>30, <1>31, <1>32 DEF IInv

LEMMA CountIInv == ASSUME IInv, NEW t \in Thread, Count(t) PROVE IInv'
  <1>0. PICK d : d = data[t]
    OBVIOUS
  <1>1. pc[t] = "count" /\ UNCHANGED <<coming, data_queue, task_pieces_, data, mem>>
    BY DEF Count, CountWith
  <1>2. PICK x \in Pieces :
          /\ d \in Gathered(x) /\ d.task_id = x.task_id /\ d.offset = x.offset
          /\ d \in Locals \cup Networks /\ d \notin Infos
          /\ tp(t) = piece(x) /\ x.task_id \in Task /\ x.offset \in Offset
          /\ \A y \in Pieces : d \in Gathered(y) => y = x
          /\ \A y \in Pieces : <<y.task_id, y.offset>> = <<x.task_id, x.offset>> => y = x
          /\ size[t] = d.size
    BY <1>0, <1>1, WorksOn
  <1>3. PICK p : p = piece(x)
    OBVIOUS
  <1>4. p # NoPiece /\ p \in TempPiece /\ Fits(x, p) /\ p = pieces[<<x.task_id, x.offset>>]
    <2>1. p # NoPiece
      BY <1>1, <1>2, <1>3 DEF IInv, Working
    <2>2. p \in TempPiece /\ p = pieces[<<x.task_id, x.offset>>]
      BY <1>2, <1>3, <2>1 DEF IInv, TypeOK, piece
    <2> QED BY <1>3, <2>1, <2>2 DEF IInv, Kept
  <1>5. PICK r : r = [p EXCEPT !.num = @ + 1, !.src_num = @ + d.src_num]
    OBVIOUS
  <1>6. PICK s : s = [task_id |-> d.task_id, offset |-> d.offset, size |-> p.size, buf |-> p.buf,
                      tar_id |-> p.tar_id, src_num |-> 0]
    OBVIOUS
  <1>7. PICK complete \in BOOLEAN : complete <=> p.src_num + d.src_num = p.num + 1
    OBVIOUS
  <1>8. /\ complete => /\ next' = next (+) SetToBag({s}) /\ size' = size
                       /\ pc' = [pc EXCEPT ![t] = "remove"]
        /\ ~complete => /\ next' = next /\ size' = [size EXCEPT ![t] = 0]
                        /\ pc' = [pc EXCEPT ![t] = "account"]
    BY <1>0, <1>2, <1>3, <1>6, <1>7 DEF Count, CountWith, Released, goto
  <1>9. pieces' = [pieces EXCEPT ![<<x.task_id, x.offset>>] = r]
    <2>1. pieces' = [pieces EXCEPT ![<<x.task_id, x.offset>>].num = @ + 1,
                                   ![<<x.task_id, x.offset>>].src_num = @ + d.src_num]
      BY <1>0, <1>2 DEF Count, CountWith, task
    <2>2. pieces \in [Task \X Offset -> TempPiece \cup {NoPiece}] /\ <<x.task_id, x.offset>> \in Task \X Offset
      BY <1>2 DEF IInv, TypeOK
    <2> QED BY <1>4, <1>5, <2>1, <2>2
  <1>10. PICK b \in {"remove", "account"} : pc' = [pc EXCEPT ![t] = b] /\ (b = "remove" <=> complete)
    BY <1>8
  <1>11. /\ OnePlace' /\ Queued' = Queued /\ d \in Items
         /\ \A L : "idle" \notin L => Pending(L)' = IF b \in L THEN Pending(L) \cup {d}
                                                    ELSE Pending(L) \ {d}
    BY <1>0, <1>1, <1>10, Moved DEF IInv
  <1>12. d \notin Unmerged /\ d \in Uncounted /\ d \notin Unnoted
    BY <1>0, <1>1, Place DEF IInv, Unmerged, Uncounted, Unnoted, Early
  <1>13. /\ Unmerged' = Unmerged /\ Uncounted' = Uncounted \ {d}
         /\ \A e \in Infos : e \in Unnoted' <=> e \in Unnoted
    <2>1. Unmerged' = Unmerged \ {d}
      BY <1>11 DEF Unmerged, Early
    <2>2. Uncounted' = Uncounted \ {d}
      BY <1>11 DEF Uncounted, Early
    <2>3. Unnoted' = IF b = "account" THEN Unnoted \cup {d} ELSE Unnoted \ {d}
      BY <1>11 DEF Unnoted, Early
    <2> QED BY <1>2, <1>12, <2>1, <2>2, <2>3
  <1>14. /\ pc'[t] = b /\ size'[t] = (IF complete THEN d.size ELSE 0)
         /\ \A u \in Thread : u # t => pc'[u] = pc[u] /\ size'[u] = size[u]
    BY <1>2, <1>8, <1>10 DEF IInv, TypeOK
  (* The piece's count, and when it is complete. *)
  <1>15. /\ Merged(x)' = Merged(x) /\ Counted(x)' = Counted(x) \cup {d} /\ d \notin Counted(x)
         /\ ~Complete(x)
         /\ Complete(x)' <=> Counted(x)' = Gathered(x)
         /\ Complete(x)' => Merged(x)' = Gathered(x)
         /\ d \in Merged(x)
    BY <1>2, <1>12, <1>13, Further DEF Merged, Counted, Complete
  <1>16. PICK n \in Nat : /\ n = Cardinality(Counted(x)) /\ n + 1 = Cardinality(Counted(x)')
                          /\ Counted(x)' = Gathered(x) <=> n + 1 = rtOf(x.task_id).src_num
    <2>1. IsFiniteSet(Gathered(x)) /\ Cardinality(Gathered(x)) = rtOf(x.task_id).src_num
          /\ Counted(x) \subseteq Gathered(x) /\ Counted(x)' \subseteq Gathered(x)
      BY HowMany DEF Counted
    <2>2. IsFiniteSet(Counted(x)) /\ Cardinality(Counted(x)) \in Nat
      BY <2>1, FS_Subset, FS_CardinalityType
    <2>3. Cardinality(Counted(x)') = Cardinality(Counted(x)) + 1
      BY <1>15, <2>2, FS_AddElement
    <2>4. Counted(x)' = Gathered(x) <=> Cardinality(Counted(x)') = Cardinality(Gathered(x))
      BY <2>1, FS_Subset
    <2> QED BY <2>1, <2>2, <2>3, <2>4
  <1>17. /\ d.src_num = (IF d = LocalOf(x) THEN rtOf(x.task_id).src_num ELSE 0)
         /\ rtOf(x.task_id).src_num \in Nat \ {0} /\ LocalOf(x) \in Gathered(x)
    BY <1>2, GatheredFacts, HowMany
  <1>18. /\ p.num = n
         /\ p.src_num = (IF LocalOf(x) \in Counted(x) THEN rtOf(x.task_id).src_num ELSE 0)
    BY <1>4, <1>16 DEF Fits
  <1>19. /\ r.num = n + 1
         /\ r.src_num = (IF LocalOf(x) \in Counted(x)' THEN rtOf(x.task_id).src_num ELSE 0)
         /\ r.src_num = p.src_num + d.src_num
         /\ r.tar_id = p.tar_id /\ r.size = p.size /\ r.buf = p.buf /\ r.temp_buf = p.temp_buf
         /\ r \in TempPiece
    <2>1. r.num = p.num + 1 /\ r.src_num = p.src_num + d.src_num
          /\ r.tar_id = p.tar_id /\ r.size = p.size /\ r.buf = p.buf /\ r.temp_buf = p.temp_buf
      BY <1>4, <1>5 DEF TempPiece
    <2>2. r.src_num = (IF LocalOf(x) \in Counted(x)' THEN rtOf(x.task_id).src_num ELSE 0)
      BY <1>15, <1>17, <1>18, <2>1
    <2>3. r.src_num \in Nat /\ r.num \in Nat
      BY <1>17, <1>18, <2>1, <2>2
    <2>4. r \in TempPiece
      BY <1>4, <1>5, <2>1, <2>3 DEF TempPiece
    <2> QED BY <1>18, <2>1, <2>2, <2>4
  <1>20. complete <=> Complete(x)'
    <2>1. complete <=> r.src_num = n + 1
      BY <1>7, <1>18, <1>19
    <2>2. Counted(x)' = Gathered(x) => r.src_num = n + 1
      BY <1>16, <1>17, <1>19
    <2>3. r.src_num = n + 1 => Counted(x)' = Gathered(x)
      BY <1>16, <1>17, <1>19
    <2> QED BY <1>15, <2>1, <2>2, <2>3
  <1>21. /\ \A k, o : <<k, o>> # <<x.task_id, x.offset>> => pieces'[<<k, o>>] = pieces[<<k, o>>]
         /\ pieces'[<<x.task_id, x.offset>>] = r /\ r # NoPiece
         /\ pieces' \in [Task \X Offset -> TempPiece \cup {NoPiece}]
    <2>1. pieces \in [Task \X Offset -> TempPiece \cup {NoPiece}] /\ <<x.task_id, x.offset>> \in Task \X Offset
      BY <1>2 DEF IInv, TypeOK
    <2> QED BY <1>9, <1>19, <2>1, NoPieceAssumption
  (* What is passed on. *)
  <1>22. complete => /\ s \notin Infos /\ s \notin BagToSet(next) /\ SumsOf(x) = {}
                     /\ (Sum(x, s))' /\ s.task_id = x.task_id /\ s.offset = x.offset /\ s \in AnyPiece
    <2> SUFFICES ASSUME complete
                 PROVE  /\ s \notin Infos /\ s \notin BagToSet(next) /\ SumsOf(x) = {}
                        /\ (Sum(x, s))' /\ s.task_id = x.task_id /\ s.offset = x.offset /\ s \in AnyPiece
      OBVIOUS
    <2>1. /\ s.task_id = x.task_id /\ s.offset = x.offset /\ s.size = p.size /\ s.buf = p.buf
          /\ s.tar_id = p.tar_id
      BY <1>2, <1>6
    <2>2. Merged(x) = Gathered(x)
      BY <1>15, <1>20
    <2>3. /\ p.tar_id = rtOf(x.task_id).tar_id
          /\ p.size = (IF Filled(x) THEN x.size ELSE 0)
          /\ p.buf # nullptr <=> Filled(x)
          /\ p.buf \in Own(x) \cup {nullptr}
      BY <1>4, <1>17, <2>2 DEF Fits
    <2>4. s \notin Infos
      BY <2>1, <2>3, InfoFacts
    <2>5. SumsOf(x) = {}
      <3> SUFFICES ASSUME NEW e \in SumsOf(x) PROVE FALSE
        OBVIOUS
      <3>1. e \in Sums /\ e.task_id = x.task_id /\ e.offset = x.offset
        BY DEF SumsOf
      <3>2. PICK y \in Pieces : Complete(y) /\ e \in SumsOf(y)
        BY <3>1 DEF IInv, Passed
      <3>3. e.task_id = y.task_id /\ e.offset = y.offset
        BY <3>2 DEF SumsOf
      <3> QED BY <1>2, <1>15, <3>1, <3>2, <3>3
    <2>6. s \notin BagToSet(next)
      BY <2>1, <2>4, <2>5 DEF Sums, SumsOf
    <2>7. s.buf # nullptr => s.buf[2] = x.offset
      BY <2>1, <2>3, OwnCells
    <2>8. Filled(x) <=> \E e \in Gathered(x) : e.buf # nullptr
      BY <2>2 DEF Filled
    <2>9. /\ s.tar_id = rtOf(x.task_id).tar_id
          /\ s.size = (IF \E e \in Gathered(x) : e.buf # nullptr THEN x.size ELSE 0)
          /\ s.buf = nullptr <=> \A e \in Gathered(x) : e.buf = nullptr
      BY <2>1, <2>3, <2>8
    <2>10. (Sum(x, s))'
      BY <2>7, <2>9 DEF Sum
    <2>11. s \in AnyPiece
      <3>1. /\ d.task_id \in Task /\ d.offset \in Nat
        BY <1>11, ItemKinds
      <3> QED BY <1>4, <1>6, <3>1 DEF AnyPiece, TempPiece
    <2> QED BY <2>1, <2>4, <2>5, <2>6, <2>10, <2>11
  <1>23. /\ \A e \in BagToSet(next) : next[e] = 1
         /\ complete => BagToSet(next') = BagToSet(next) \cup {s}
                        /\ \A e \in BagToSet(next) \cup {s} : next'[e] = 1
         /\ ~complete => next' = next
    <2>1. \A e \in BagToSet(next) : next[e] = 1
      BY DEF IInv, Passed
    <2> QED BY <1>8, <1>22, <2>1, Bagged
  <1>24. TypeOK'
    <2>1. pc' \in [Thread -> {"idle", "group", "info", "find", "merge", "count", "remove",
                        "account", "reap", "lost"}]
      BY <1>10 DEF IInv, TypeOK
    <2>2. size' \in [Thread -> Int]
      BY <1>8 DEF IInv, TypeOK
    <2>3. BagToSet(next') \subseteq AnyPiece
      BY <1>22, <1>23 DEF IInv, TypeOK
    <2> QED BY <1>1, <1>21, <2>1, <2>2, <2>3 DEF IInv, TypeOK
  <1>25. Working'
    <2> SUFFICES ASSUME NEW u \in Thread PROVE Working!(u)'
      BY DEF Working
    <2>1. pieces[<<task(u), data[u].offset>>] # NoPiece => pieces'[<<task(u), data[u].offset>>] # NoPiece
      BY <1>21
    <2>2. CASE u = t
      <3>1. pieces'[<<task(u), data[u].offset>>] # NoPiece
        BY <1>0, <1>2, <1>21, <2>2 DEF task
      <3> QED BY <1>0, <1>1, <1>2, <1>10, <1>14, <2>2, <3>1 DEF tp, task
    <2>3. CASE u # t
      <3>1. Working!(u)
        BY DEF IInv, Working
      <3>2. pc'[u] = pc[u] /\ data'[u] = data[u] /\ size'[u] = size[u]
        BY <1>1, <1>14, <2>3
      <3> QED BY <2>1, <3>1, <3>2 DEF tp, task
    <2> QED BY <2>2, <2>3
  <1>26. /\ Completes(t)' <=> complete
         /\ ~Completes(t)
         /\ \A u \in Thread : u # t => (Completes(u)' <=> Completes(u))
    BY <1>1, <1>10, <1>14 DEF Completes
  <1>27. /\ \A y \in Pieces : Complete(y) => Complete(y)'
         /\ \A y \in Pieces : y # x => (Complete(y)' <=> Complete(y))
    BY <1>2, <1>13 DEF Complete
  <1>28. \A y \in Pieces : At(t, y) <=> y = x
    BY <1>0, <1>2 DEF At
  <1>29. \A u \in Thread, y \in Pieces : At(u, y)' <=> At(u, y)
    BY <1>1 DEF At
  <1>30. Completers'
    <2>1. Completers
      BY DEF IInv
    <2>2. \A u \in Thread, y \in Pieces : Completes(u)' /\ At(u, y)' => Complete(y)'
      BY <1>20, <1>26, <1>27, <1>28, <1>29, <2>1 DEF Completers
    <2>3. \A u \in Thread : Completes(u) => ~(task(u) = x.task_id /\ data[u].offset = x.offset)
      BY <1>15, <2>1 DEF Completers, At, task
    <2>4. \A u, v \in Thread : Completes(u)' /\ Completes(v)' /\ data[u].task_id = data[v].task_id
                               /\ data[u].offset = data[v].offset => u = v
      <3> SUFFICES ASSUME NEW u \in Thread, NEW v \in Thread, Completes(u)', Completes(v)',
                          data[u].task_id = data[v].task_id, data[u].offset = data[v].offset
                   PROVE u = v
        OBVIOUS
      <3>1. CASE u # t /\ v # t
        BY <1>26, <2>1, <3>1 DEF Completers, task
      <3>2. CASE u = t
        BY <1>0, <1>2, <1>26, <2>3, <3>2 DEF task
      <3>3. CASE v = t
        BY <1>0, <1>2, <1>26, <2>3, <3>3 DEF task
      <3> QED BY <3>1, <3>2, <3>3
    <2> QED BY <1>1, <2>2, <2>4 DEF Completers, task
  <1>31. /\ \A y \in Pieces : y # x => (Removing(y)' <=> Removing(y))
         /\ complete => Removing(x)'
    BY <1>1, <1>10, <1>14, <1>28, <1>29 DEF Removing
  <1>32. Kept'
    <2>1. piece(x)' = r
      BY <1>21 DEF piece
    <2>2. Own(x)' = Own(x) /\ (Filled(x)' <=> Filled(x))
      BY <1>15 DEF Own, Filled
    <2>3. Fits(x, r)'
      <3>1. /\ p.tar_id = (IF LocalOf(x) \in Merged(x) THEN rtOf(x.task_id).tar_id ELSE 0)
            /\ p.size = (IF Filled(x) THEN x.size ELSE 0)
            /\ p.buf # nullptr <=> Filled(x)
            /\ p.buf \in Own(x) \cup {nullptr} /\ p.temp_buf \in Own(x) /\ p.buf # p.temp_buf
        BY <1>4 DEF Fits
      <3>2. Merged(x)' # {} /\ (Complete(x)' => Removing(x)')
        BY <1>15, <1>20, <1>31
      <3> QED BY <1>15, <1>16, <1>19, <2>2, <3>1, <3>2 DEF Fits
    <2>4. (IF piece(x) = NoPiece THEN Gone(x) ELSE Fits(x, piece(x)))'
      BY <1>21, <2>1, <2>3
    <2>5. \A y \in Pieces : y # x => <<y.task_id, y.offset>> # <<x.task_id, x.offset>>
      BY <1>2
    <2>6. \A y \in Pieces : y # x => pieces'[<<y.task_id, y.offset>>] = pieces[<<y.task_id, y.offset>>]
      BY <1>21, <2>5
    <2>7. \A e \in Locals \cup Networks : e \notin Gathered(x) =>
            (e \in Unmerged' <=> e \in Unmerged) /\ (e \in Uncounted' <=> e \in Uncounted)
      BY <1>2, <1>13
    <2>8. Kept
      BY DEF IInv
    <2> QED BY <1>31, <2>4, <2>6, <2>7, <2>8, KeptBut
  <1>33. Passed'
    <2>1. CASE ~complete
      BY <1>8, <1>13, <2>1, PassedStays DEF IInv
    <2>2. CASE complete
      <3>1. Sums' = Sums \cup {s}
        BY <1>22, <1>23, <2>2 DEF Sums
      <3>2. \A y \in Pieces : y # x => SumsOf(y)' = SumsOf(y)
        BY <1>2, <1>22, <2>2, <3>1 DEF SumsOf
      <3>3. SumsOf(x)' = {s}
        BY <1>22, <2>2, <3>1 DEF SumsOf
      <3>4. \A e \in BagToSet(next') : next'[e] = 1 /\ (e \in Infos => e \notin Unmerged')
        BY <1>13, <1>22, <1>23, <2>2 DEF IInv, Passed
      <3>5. \A e \in Sums : \E y \in Pieces : Complete(y)' /\ e \in SumsOf(y)' /\ (Sum(y, e))'
        <4> SUFFICES ASSUME NEW e \in Sums
                     PROVE \E y \in Pieces : Complete(y)' /\ e \in SumsOf(y)' /\ (Sum(y, e))'
          OBVIOUS
        <4>1. PICK y \in Pieces : Complete(y) /\ e \in SumsOf(y) /\ Sum(y, e)
          BY DEF IInv, Passed
        <4>2. y # x
          BY <1>15, <4>1
        <4> QED BY <1>27, <3>2, <4>1, <4>2 DEF Sum
      <3>6. \A e \in Sums' : \E y \in Pieces : Complete(y)' /\ e \in SumsOf(y)' /\ (Sum(y, e))'
        BY <1>20, <1>22, <2>2, <3>1, <3>3, <3>5
      <3>7. \A y \in Pieces : \A e, f \in SumsOf(y)' : e = f
        BY <3>2, <3>3 DEF IInv, Passed
      <3> QED BY <3>4, <3>6, <3>7 DEF Passed
    <2> QED BY <2>1, <2>2
  <1>34. Groups'
    <2>1. Busy(t) /\ task(t) = x.task_id
      BY <1>0, <1>1, <1>2 DEF Busy, task
    <2>2. \A k \in Task, o \in Offset : \/ pieces'[<<k, o>>] \in {NoPiece, pieces[<<k, o>>]}
                                        \/ \E u \in Thread : Busy(u) /\ task(u) = k
      BY <1>21, <2>1
    <2>3. Groups
      BY DEF IInv
    <2>4. \A u \in Thread : u # t => pc'[u] = pc[u] /\ data'[u] = data[u] /\ size'[u] = size[u]
      BY <1>1, <1>14
    <2>5. /\ pc[t] \in {"info", "find", "merge", "count", "remove"}
          /\ pc'[t] \in {"merge", "count", "remove", "account"} /\ data'[t] = data[t]
      BY <1>1, <1>14
    <2> QED BY <1>1, <1>11, <1>13, <2>2, <2>3, <2>4, <2>5, GroupsStay
  <1>35. Sizes'
    <2>1. \A l : Accounted(l)' = Accounted(l)
      <3>1. \A y \in Pieces : y # x => (Completing(y)' <=> Completing(y))
        BY <1>26, <1>28, <1>29 DEF Completing
      <3>2. Complete(x)' => Completing(x)'
        BY <1>20, <1>26, <1>28, <1>29 DEF Completing
      <3>3. \A y \in Pieces : (Complete(y) /\ ~Completing(y))' <=> (Complete(y) /\ ~Completing(y))
        BY <1>15, <1>27, <3>1, <3>2
      <3> QED BY <3>3 DEF Accounted
    <2>2. \A j \in Program : Info(j.rt) \in Infos
      BY DEF Infos
    <2>3. \A j \in Program : Info(j.rt) \in Unnoted' <=> Info(j.rt) \in Unnoted
      BY <1>13, <2>2
    <2> QED BY <1>1, <2>1, <2>3, SizesStay DEF IInv
  <1> QED BY <1>11, <1>24, <1>25, <1>30, <1>32, <1>33, <1>34, <1>35 DEF IInv

LEMMA RemovePieceIInv == ASSUME IInv, NEW t \in Thread, RemovePiece(t) PROVE IInv'
  <1>0. PICK d : d = data[t]
    OBVIOUS
  <1>1. pc[t] = "remove" /\ pc' = [pc EXCEPT ![t] = "account"]
        /\ UNCHANGED <<coming, data_queue, task_pieces_, data, size, mem, next>>
    BY DEF RemovePiece, goto
  <1>2. PICK x \in Pieces :
          /\ d \in Gathered(x) /\ d.task_id = x.task_id /\ d.offset = x.offset
          /\ d \in Locals \cup Networks /\ d \notin Infos
          /\ tp(t) = piece(x) /\ x.task_id \in Task /\ x.offset \in Offset
          /\ \A y \in Pieces : d \in Gathered(y) => y = x
          /\ \A y \in Pieces : <<y.task_id, y.offset>> = <<x.task_id, x.offset>> => y = x
          /\ size[t] = d.size
    BY <1>0, <1>1, WorksOn
  <1>3. pieces' = [pieces EXCEPT ![<<x.task_id, x.offset>>] = NoPiece]
    BY <1>0, <1>2 DEF RemovePiece, task
  <1>4. /\ OnePlace' /\ Queued' = Queued /\ d \in Items
        /\ \A L : "idle" \notin L => Pending(L)' = IF "account" \in L THEN Pending(L) \cup {d}
                                                   ELSE Pending(L) \ {d}
    BY <1>0, <1>1, Moved DEF IInv
  <1>5. d \notin Unmerged /\ d \notin Uncounted
    BY <1>0, <1>1, Place DEF IInv, Unmerged, Uncounted, Early
  <1>6. /\ Unmerged' = Unmerged /\ Uncounted' = Uncounted
        /\ \A e \in Infos : e \in Unnoted' <=> e \in Unnoted
    <2>1. Unmerged' = Unmerged \ {d}
      BY <1>4 DEF Unmerged, Early
    <2>2. Uncounted' = Uncounted \ {d}
      BY <1>4 DEF Uncounted, Early
    <2>3. Unnoted' = Unnoted \cup {d}
      BY <1>4 DEF Unnoted, Early
    <2> QED BY <1>2, <1>5, <2>1, <2>2, <2>3
  <1>7. pc'[t] = "account" /\ \A u \in Thread : u # t => pc'[u] = pc[u]
    BY <1>1 DEF IInv, TypeOK
  <1>8. /\ \A k, o : <<k, o>> # <<x.task_id, x.offset>> => pieces'[<<k, o>>] = pieces[<<k, o>>]
        /\ pieces'[<<x.task_id, x.offset>>] = NoPiece
        /\ pieces' \in [Task \X Offset -> TempPiece \cup {NoPiece}]
    <2>1. pieces \in [Task \X Offset -> TempPiece \cup {NoPiece}] /\ <<x.task_id, x.offset>> \in Task \X Offset
      BY <1>2 DEF IInv, TypeOK
    <2> QED BY <1>3, <2>1
  <1>9. \A y \in Pieces : At(t, y) <=> y = x
    BY <1>0, <1>2 DEF At
  <1>10. \A u \in Thread, y \in Pieces : At(u, y)' <=> At(u, y)
    BY <1>1 DEF At
  <1>11. /\ Completes(t) /\ Complete(x)
         /\ Completes(t)' <=> d.size > 0
         /\ \A u \in Thread : u # t => (Completes(u)' <=> Completes(u))
         /\ \A u \in Thread : Completes(u) /\ At(u, x) => u = t
    <2>1. Completes(t)
      BY <1>1 DEF Completes
    <2>2. Completes(t)' <=> d.size > 0
      BY <1>1, <1>2, <1>7 DEF Completes
    <2>3. \A u \in Thread : u # t => (Completes(u)' <=> Completes(u))
      BY <1>1, <1>7 DEF Completes
    <2>4. Complete(x) /\ \A u \in Thread : Completes(u) /\ At(u, x) => u = t
      BY <1>0, <1>2, <1>9, <2>1 DEF IInv, Completers, At, task
    <2> QED BY <2>1, <2>2, <2>3, <2>4
  <1>12. TypeOK'
    <2>1. pc' \in [Thread -> {"idle", "group", "info", "find", "merge", "count", "remove",
                        "account", "reap", "lost"}]
      BY <1>1 DEF IInv, TypeOK
    <2> QED BY <1>1, <1>8, <2>1 DEF IInv, TypeOK
  <1>13. Working'
    <2> SUFFICES ASSUME NEW u \in Thread PROVE Working!(u)'
      BY DEF Working
    <2>1. CASE u = t
      BY <1>0, <1>1, <1>2, <1>7, <2>1
    <2>2. CASE u # t
      <3>1. Working!(u)
        BY DEF IInv, Working
      <3>2. pc'[u] = pc[u] /\ data'[u] = data[u] /\ size'[u] = size[u]
        BY <1>1, <1>7, <2>2
      <3>3. pc[u] \in {"merge", "count", "remove"} =>
              <<task(u), data[u].offset>> # <<x.task_id, x.offset>>
        <4> SUFFICES ASSUME pc[u] \in {"merge", "count", "remove"},
                            task(u) = x.task_id, data[u].offset = x.offset
                     PROVE FALSE
          OBVIOUS
        <4>1. At(u, x)
          BY DEF At, task
        <4>2. CASE pc[u] = "remove"
          BY <1>11, <2>2, <4>1, <4>2 DEF Completes
        <4>3. CASE pc[u] \in {"merge", "count"}
          <5>1. PICK y \in Pieces :
                  /\ data[u] \in Gathered(y) /\ data[u].task_id = y.task_id /\ data[u].offset = y.offset
            BY <4>3, WorksOn
          <5>2. y = x
            BY <1>2, <5>1 DEF task
          <5>3. data[u] \in Uncounted
            BY <4>3, Place DEF IInv, Uncounted, Early
          <5> QED BY <1>11, <5>1, <5>2, <5>3 DEF Complete
        <4> QED BY <4>2, <4>3
      <3>4. tp(u) = pieces[<<task(u), data[u].offset>>]
            /\ tp(u)' = pieces'[<<data'[u].task_id, data'[u].offset>>]
        BY DEF tp, task
      <3>5. pc[u] \in {"merge", "count", "remove"} => tp(u)' = tp(u)
        BY <1>8, <3>2, <3>3, <3>4 DEF task
      <3> QED BY <3>1, <3>2, <3>5
    <2> QED BY <2>1, <2>2
  <1>14. Completers'
    <2>1. \A u \in Thread : Completes(u)' => Completes(u) /\ data'[u] = data[u]
      BY <1>1, <1>11
    <2> QED BY <1>6, <2>1, CompletersStay DEF IInv
  <1>15. /\ \A y \in Pieces : y # x => (Removing(y)' <=> Removing(y))
         /\ ~Removing(x)'
    <2>1. \A y \in Pieces : y # x => (Removing(y)' <=> Removing(y))
      BY <1>1, <1>7, <1>9, <1>10 DEF Removing
    <2>2. ~Removing(x)'
      BY <1>7, <1>10, <1>11 DEF Removing, Completes
    <2> QED BY <2>1, <2>2
  <1>16. Kept'
    <2>1. piece(x)' = NoPiece
      BY <1>8 DEF piece
    <2>2. Complete(x)'
      BY <1>6, <1>11 DEF Complete
    <2>3. (IF piece(x) = NoPiece THEN Gone(x) ELSE Fits(x, piece(x)))'
      BY <1>15, <2>1, <2>2 DEF Gone
    <2>4. \A y \in Pieces : y # x => <<y.task_id, y.offset>> # <<x.task_id, x.offset>>
      BY <1>2
    <2>5. \A y \in Pieces : y # x => pieces'[<<y.task_id, y.offset>>] = pieces[<<y.task_id, y.offset>>]
      BY <1>8, <2>4
    <2>6. Kept
      BY DEF IInv
    <2> QED BY <1>6, <1>15, <2>3, <2>5, <2>6, KeptBut
  <1>17. Passed'
    BY <1>1, <1>6, PassedStays DEF IInv
  <1>18. Groups'
    <2>1. \A k \in Task, o \in Offset : pieces'[<<k, o>>] \in {NoPiece, pieces[<<k, o>>]}
      BY <1>8
    <2>2. Groups
      BY DEF IInv
    <2>3. \A u \in Thread : u # t => pc'[u] = pc[u] /\ data'[u] = data[u] /\ size'[u] = size[u]
      BY <1>1, <1>7
    <2>4. /\ pc[t] \in {"info", "find", "merge", "count", "remove"}
          /\ pc'[t] \in {"merge", "count", "remove", "account"} /\ data'[t] = data[t]
      BY <1>1, <1>7
    <2> QED BY <1>1, <1>4, <1>6, <2>1, <2>2, <2>3, <2>4, GroupsStay
  <1>19. Sizes'
    <2>1. \A y \in Pieces : y # x => (Completing(y)' <=> Completing(y))
      BY <1>9, <1>10, <1>11 DEF Completing
    <2>2. Completing(x) /\ (Completing(x)' <=> d.size > 0)
      BY <1>9, <1>10, <1>11 DEF Completing
    <2>3. \A y \in Pieces : Complete(y)' <=> Complete(y)
      BY <1>6 DEF Complete
    <2>4. \A l : Accounted(l)' = IF d.size > 0 \/ l # x.task_id THEN Accounted(l)
                                 ELSE Accounted(l) \cup {x}
      BY <1>11, <2>1, <2>2, <2>3 DEF Accounted
    <2>5. d.size \in Nat /\ (~(d.size > 0) => rtOf(x.task_id).tar_id = id)
      <3>1. /\ d.size = (IF d.buf = nullptr THEN 0 ELSE x.size) /\ x.size \in Nat \ {0}
            /\ rtOf(x.task_id).tar_id # id => d.buf # nullptr
        BY <1>2, GatheredFacts, PieceFacts
      <3> QED BY <3>1
    <2> SUFFICES ASSUME NEW j \in Program PROVE Sizes!(j)'
      BY DEF Sizes
    <2>6. Sizes!(j) /\ j.rt.task_id \in Task /\ rtOf(j.rt.task_id) = j.rt
      BY Jobs DEF IInv, Sizes
    <2>7. Info(j.rt) \in Unnoted' <=> Info(j.rt) \in Unnoted
      BY <1>6 DEF Infos
    <2>8. PICK A, B : /\ A = Accounted(j.rt.task_id) /\ B = Accounted(j.rt.task_id)'
                      /\ BytesOf(B)' = BytesOf(B)
      BY DEF BytesOf
    <2>9. CASE d.size > 0 \/ j.rt.task_id # x.task_id
      <3>1. B = A
        BY <2>4, <2>8, <2>9
      <3> QED BY <1>1, <2>6, <2>7, <2>8, <3>1
    <2>10. CASE ~(d.size > 0) /\ j.rt.task_id = x.task_id
      <3>1. j.rt.tar_id = id
        BY <2>5, <2>6, <2>10
      <3>2. B = A \cup {x}
        BY <2>4, <2>8, <2>10
      <3>3. A \subseteq PiecesOf(j.rt) /\ B \subseteq PiecesOf(j.rt)
        <4>1. A \subseteq PiecesOf(j.rt)
          BY <2>8, SameTask DEF Accounted
        <4>2. x \in PiecesOf(j.rt)
          BY <2>10, SameTask
        <4> QED BY <3>2, <4>1, <4>2
      <3>4. BytesOf(A) \subseteq BytesOf(B)
        BY <3>2 DEF BytesOf
      <3>5. /\ IsFiniteSet(BytesOf(B)) /\ Cardinality(BytesOf(B)) \in Nat
            /\ Cardinality(BytesOf(A)) \in Nat
        BY <3>3, BytesFacts
      <3>6. Cardinality(BytesOf(A)) <= Cardinality(BytesOf(B))
        BY <3>4, <3>5, FS_Subset
      <3>7. task_pieces_[j.rt.task_id].sum \in Nat
        BY <2>6 DEF IInv, TypeOK
      <3> QED BY <1>1, <2>6, <2>7, <2>8, <3>1, <3>5, <3>6, <3>7
    <2> QED BY <2>9, <2>10
  <1> QED BY <1>4, <1>12, <1>13, <1>14, <1>16, <1>17, <1>18, <1>19 DEF IInv

LEMMA ReapIInv == ASSUME IInv, NEW t \in Thread, Reap(t) PROVE IInv'
  <1>0. PICK d, k : d = data[t] /\ k = task(t)
    OBVIOUS
  <1>1. /\ pc[t] = "reap" /\ task_pieces_' = [task_pieces_ EXCEPT ![k].state = "erased"]
        /\ pieces' = [ko \in Task \X Offset |-> IF ko[1] = k THEN NoPiece ELSE pieces[ko]]
        /\ Return(t) /\ UNCHANGED <<coming, data_queue, mem, next>>
    BY <1>0 DEF Reap
  <1>2. /\ OnePlace' /\ Queued' = Queued /\ d \in Items
        /\ \A L : "idle" \notin L => Pending(L)' = Pending(L) \ {d}
    BY <1>0, <1>1, Returned DEF IInv
  <1>3. d \notin Unmerged /\ d \notin Uncounted /\ d \notin Unnoted
    BY <1>0, <1>1, Place DEF IInv, Unmerged, Uncounted, Unnoted, Early
  <1>4. Unmerged' = Unmerged /\ Uncounted' = Uncounted /\ Unnoted' = Unnoted
    BY <1>2, <1>3 DEF Unmerged, Uncounted, Unnoted, Early
  <1>5. k \in Task
    BY <1>0, <1>2, ItemKinds DEF task
  <1>6. Over(k)
    BY <1>0, <1>1, <1>5 DEF IInv, Groups
  <1>7. /\ pc'[t] = "idle" /\ ~Busy(t) /\ ~Completes(t)
        /\ \A u \in Thread : u # t => pc'[u] = pc[u] /\ data'[u] = data[u] /\ size'[u] = size[u]
    BY <1>1 DEF Return, goto, IInv, TypeOK, Busy, Completes
  <1>8. \A l \in Task, o \in Offset : pieces'[<<l, o>>] = IF l = k THEN NoPiece ELSE pieces[<<l, o>>]
    BY <1>1
  <1>9. \A x \in Pieces : pieces'[<<x.task_id, x.offset>>] = pieces[<<x.task_id, x.offset>>]
    <2> SUFFICES ASSUME NEW x \in Pieces
                 PROVE pieces'[<<x.task_id, x.offset>>] = pieces[<<x.task_id, x.offset>>]
      OBVIOUS
    <2>1. x.task_id \in Task /\ x.offset \in Offset
      BY PieceFacts
    <2> QED BY <1>6, <1>8, <2>1 DEF Over, piece
  <1>10. /\ task_pieces_'[k].state = "erased"
         /\ \A l \in Task : l # k => task_pieces_'[l] = task_pieces_[l]
         /\ task_pieces_' \in [Task -> [state : {"none", "live", "erased"}, sum : Nat, total : Nat]]
    BY <1>1, <1>5 DEF IInv, TypeOK
  <1>11. TypeOK'
    <2>1. pieces \in [Task \X Offset -> TempPiece \cup {NoPiece}]
      BY DEF IInv, TypeOK
    <2>2. pieces' \in [Task \X Offset -> TempPiece \cup {NoPiece}]
      BY <1>1, <2>1
    <2>3. /\ pc' \in [Thread -> {"idle", "group", "info", "find", "merge", "count", "remove",
                        "account", "reap", "lost"}]
          /\ data' \in [Thread -> AnyPiece \cup {NoData}] /\ size' \in [Thread -> Int]
      BY <1>1 DEF Return, goto, IInv, TypeOK
    <2> QED BY <1>1, <1>10, <2>2, <2>3 DEF IInv, TypeOK
  <1>12. Working'
    <2> SUFFICES ASSUME NEW u \in Thread PROVE Working!(u)'
      BY DEF Working
    <2>1. CASE u = t
      BY <1>7, <2>1
    <2>2. CASE u # t
      <3>1. Working!(u)
        BY DEF IInv, Working
      <3>2. pc'[u] = pc[u] /\ data'[u] = data[u] /\ size'[u] = size[u]
        BY <1>7, <2>2
      <3>3. pc[u] \in {"merge", "count", "remove"} => tp(u)' = tp(u)
        <4> SUFFICES ASSUME pc[u] \in {"merge", "count", "remove"} PROVE tp(u)' = tp(u)
          OBVIOUS
        <4>1. PICK y \in Pieces : data[u].task_id = y.task_id /\ data[u].offset = y.offset
          BY WorksOn
        <4> QED BY <1>9, <3>2, <4>1 DEF tp, task
      <3> QED BY <3>1, <3>2, <3>3
    <2> QED BY <2>1, <2>2
  <1>13. \A u \in Thread : Completes(u)' <=> Completes(u)
    BY <1>7 DEF Completes
  <1>14. \A u \in Thread : Completes(u) => data'[u] = data[u]
    BY <1>7
  <1>15. Completers'
    BY <1>4, <1>13, <1>14, CompletersStay DEF IInv
  <1>16. Kept'
    <2>1. \A x \in Pieces : Removing(x)' <=> Removing(x)
      BY <1>1, <1>7 DEF Removing, At
    <2> QED BY <1>4, <1>9, <2>1, KeptStays DEF IInv
  <1>17. Passed'
    BY <1>1, <1>4, PassedStays DEF IInv
  <1>18. Groups'
    <2>1. \A l \in Task : Over(l) => Over(l)'
      <3>1. \A u \in Thread : Busy(u)' => Busy(u) /\ data'[u] = data[u]
        BY <1>7 DEF Busy
      <3>2. \A l \in Task, o \in Offset : pieces'[<<l, o>>] \in {NoPiece, pieces[<<l, o>>]}
        BY <1>8
      <3> QED BY <1>1, <1>2, <3>1, <3>2, OverStays
    <2> SUFFICES ASSUME NEW l \in Task PROVE Groups!(l)'
      BY DEF Groups
    <2>2. Groups!(l)
      BY DEF IInv, Groups
    <2>3. \A u \in Thread : pc'[u] \notin {"idle", "group"} =>
            u # t /\ pc'[u] = pc[u] /\ data'[u].task_id = task(u)
      BY <1>7 DEF task
    <2>4. CASE l = k
      <3>1. /\ \A u \in Thread : pc'[u] = "reap" /\ data'[u].task_id = k => Over(k)'
            /\ Over(k)'
        BY <1>5, <1>6, <2>1
      <3> QED BY <1>10, <2>4, <3>1 DEF task
    <2>5. CASE l # k
      <3>1. task_pieces_'[l] = task_pieces_[l] /\ (Finished(task_pieces_[l])' <=> Finished(task_pieces_[l]))
        BY <1>10, <2>5 DEF Finished
      <3>2. \A u \in Thread : pc[u] = "reap" /\ task(u) = l => pc'[u] = "reap" /\ data'[u].task_id = l
        BY <1>0, <1>7, <2>5 DEF task
      <3> QED BY <1>4, <2>1, <2>2, <2>3, <3>1, <3>2 DEF task
    <2> QED BY <2>4, <2>5
  <1>19. Sizes'
    <2>1. \A l : Accounted(l)' = Accounted(l)
      BY <1>4, <1>13, <1>14, AccountedStays
    <2> SUFFICES ASSUME NEW j \in Program PROVE Sizes!(j)'
      BY DEF Sizes
    <2>2. Sizes!(j) /\ j.rt.task_id \in Task
      BY Jobs DEF IInv, Sizes
    <2>3. PICK A : A = Accounted(j.rt.task_id) /\ BytesOf(A)' = BytesOf(A)
      BY DEF BytesOf
    <2>4. Accounted(j.rt.task_id)' = A
      BY <2>1, <2>3
    <2>5. CASE j.rt.task_id = k
      BY <1>10, <2>5
    <2>6. CASE j.rt.task_id # k
      BY <1>4, <1>10, <2>2, <2>3, <2>4, <2>6
    <2> QED BY <2>5, <2>6
  <1> QED BY <1>2, <1>11, <1>12, <1>15, <1>16, <1>17, <1>18, <1>19 DEF IInv

(* What the comment at compute_processor.cc:41 relies on: when sum has     *)
(* reached total, every item of the task has been dealt with.              *)
LEMMA WhenFinished ==
  TypeOK /\ OnePlace /\ Working /\ Kept /\ Sizes =>
    \A j \in Program : /\ task_pieces_[j.rt.task_id].state = "live"
                       /\ Finished(task_pieces_[j.rt.task_id])
                       => Over(j.rt.task_id)
  <1> SUFFICES ASSUME TypeOK, OnePlace, Working, Kept, Sizes, NEW j \in Program,
                      task_pieces_[j.rt.task_id].state = "live",
                      Finished(task_pieces_[j.rt.task_id])
               PROVE Over(j.rt.task_id)
    OBVIOUS
  <1> DEFINE g == task_pieces_[j.rt.task_id]
  <1>1. PICK k, A : k = j.rt.task_id /\ A = Accounted(k)
    OBVIOUS
  <1>2. /\ j.rt \in RepairTask(Task, Node) /\ k \in Task /\ rtOf(k) = j.rt
        /\ j.rt.size \in Nat \ {0}
    BY <1>1, Jobs DEF RepairTask
  <1>3. g.sum \in Nat /\ g.total \in Nat /\ g.sum = g.total /\ g.total > 0
    BY <1>1, <1>2 DEF TypeOK, Finished
  <1>4. /\ g.sum <= Cardinality(BytesOf(A))
        /\ g.total = IF Info(j.rt) \in Unnoted THEN 0 ELSE j.rt.size
    BY <1>1 DEF Sizes
  <1>5. Info(j.rt) \notin Unnoted /\ g.total = j.rt.size
    BY <1>3, <1>4
  <1>6. A \subseteq PiecesOf(j.rt)
    BY <1>1, SameTask DEF Accounted
  <1>7. BytesOf(A) = j.rt.offset .. j.rt.offset + j.rt.size - 1
    <2>1. /\ Cardinality(BytesOf(A)) \in Nat
          /\ Cardinality(BytesOf(A)) <= j.rt.size
          /\ Cardinality(BytesOf(A)) = j.rt.size =>
               BytesOf(A) = j.rt.offset .. j.rt.offset + j.rt.size - 1
      BY <1>6, BytesFacts
    <2>2. Cardinality(BytesOf(A)) = j.rt.size
      BY <1>2, <1>3, <1>4, <1>5, <2>1
    <2> QED BY <2>1, <2>2
  <1>8. ASSUME NEW x \in Pieces, x.task_id = k
        PROVE Complete(x) /\ ~Completing(x) /\ piece(x) = NoPiece
    <2>1. x \in PiecesOf(j.rt)
      BY <1>1, <1>8, SameTask
    <2>2. /\ x.offset \in Nat /\ x.size \in Nat \ {0} /\ x.offset >= j.rt.offset
          /\ x.offset + x.size <= j.rt.offset + j.rt.size
      BY <1>2, <2>1, Apiece
    <2>3. x.offset \in j.rt.offset .. j.rt.offset + j.rt.size - 1
      BY <1>2, <2>2 DEF RepairTask
    <2>4. PICK y \in A : x.offset \in Bytes(y)
      BY <1>7, <2>3 DEF BytesOf
    <2>5. y \in PiecesOf(j.rt) /\ y.offset \in Nat /\ y.size \in Nat \ {0}
      BY <1>2, <1>6, Apiece
    <2>6. y.offset <= x.offset /\ x.offset < y.offset + y.size
      BY <2>2, <2>4, <2>5 DEF Bytes
    <2>7. x = y
      <3>1. x # y => x.offset + x.size <= y.offset \/ y.offset + y.size <= x.offset
        BY <1>2, <2>1, <2>5, NoOverlap
      <3> QED BY <2>2, <2>5, <2>6, <3>1
    <2>8. Complete(x) /\ ~Completing(x)
      BY <1>1, <2>7 DEF Accounted
    <2>9. ~Removing(x)
      BY <2>8 DEF Completing, Removing, Completes
    <2> QED BY <2>8, <2>9 DEF Kept, Fits
  (* No item of the task is on its way any more. *)
  <1>9. \A e \in Items : e.task_id = k =>
          \/ e \in Infos /\ e = Info(j.rt)
          \/ /\ e \in Locals \cup Networks /\ e \notin Infos
             /\ \E x \in Pieces : e \in Gathered(x) /\ x.task_id = k /\ x.offset = e.offset
    <2> SUFFICES ASSUME NEW e \in Items, e.task_id = k
                 PROVE \/ e \in Infos /\ e = Info(j.rt)
                       \/ /\ e \in Locals \cup Networks /\ e \notin Infos
                          /\ \E x \in Pieces : e \in Gathered(x) /\ x.task_id = k /\ x.offset = e.offset
      OBVIOUS
    <2>1. CASE e \in Infos
      <3>1. PICK i \in Program : e = Info(i.rt) /\ e.task_id = i.rt.task_id
        BY <2>1, InfoFacts
      <3>2. i = j
        BY <1>1, <3>1, ProgramAssumption
      <3> QED BY <2>1, <3>1, <3>2
    <2>2. CASE e \notin Infos
      <3>1. e \in Locals \cup Networks
        BY <2>2 DEF Items
      <3>2. PICK x \in Pieces : e \in Gathered(x)
        BY <3>1, Contributes
      <3> QED BY <2>2, <3>1, <3>2, GatheredFacts
    <2> QED BY <2>1, <2>2
  <1>10. \A e \in Items : e.task_id = k => e \notin Unmerged
    BY <1>5, <1>8, <1>9, Further DEF Complete
  <1>11. Of(k, coming \cup Queued) = {}
    <2>1. coming \cup Queued \subseteq Items
      BY ElementOfSeq DEF OnePlace, Queued
    <2> QED BY <1>10, <2>1, Further DEF Of
  <1>12. ASSUME NEW u \in Thread, Busy(u), task(u) = k PROVE FALSE
    <2>1. data[u] \in Items /\ data[u].task_id = k /\ pc[u] # "idle"
      BY <1>12 DEF OnePlace, Busy, task
    <2>2. CASE pc[u] \in {"group", "info", "find", "merge"}
      <3>1. data[u] \in Unmerged
        BY <2>1, <2>2, Place DEF Unmerged, Early
      <3> QED BY <1>10, <2>1, <3>1
    <2>3. CASE data[u] \in Infos /\ pc[u] = "account"
      <3>1. data[u] = Info(j.rt)
        BY <1>9, <2>1, <2>3, ItemKinds
      <3>2. data[u] \in Unnoted
        BY <2>1, <2>3, Place DEF Unnoted, Early
      <3> QED BY <1>5, <3>1, <3>2
    <2>4. CASE data[u] \notin Infos /\ pc[u] \in {"count", "remove", "account"}
      <3>1. PICK x \in Pieces : data[u] \in Gathered(x) /\ x.task_id = k /\ x.offset = data[u].offset
        BY <1>9, <2>1, <2>4
      <3>2. Complete(x) /\ ~Completing(x)
        BY <1>8, <3>1
      <3>3. pc[u] # "count"
        <4>1. pc[u] = "count" => data[u] \in Uncounted
          BY <2>1, Place DEF Uncounted, Early
        <4> QED BY <3>1, <3>2, <4>1 DEF Complete
      <3>4. ~Completes(u)
        BY <2>1, <3>1, <3>2 DEF Completing, At
      <3>5. pc[u] = "account" /\ size[u] # 0
        BY <1>12, <2>4, <3>3, <3>4 DEF Busy, Completes
      <3>6. size[u] = data[u].size /\ data[u].size \in Nat
        BY <2>1, <2>4, <3>5, ItemKinds DEF Working
      <3> QED BY <3>4, <3>5, <3>6 DEF Completes
    <2>5. data[u] \in Infos => pc[u] \notin {"find", "merge", "count", "remove"}
      BY DEF Working
    <2> QED BY <1>12, <2>2, <2>3, <2>4, <2>5 DEF Busy
  <1> QED BY <1>1, <1>8, <1>11, <1>12 DEF Over

LEMMA WhenFinishedNext ==
  (TypeOK /\ OnePlace /\ Working /\ Kept /\ Sizes)' =>
    (\A j \in Program : /\ task_pieces_[j.rt.task_id].state = "live"
                        /\ Finished(task_pieces_[j.rt.task_id])
                        => Over(j.rt.task_id))'
  BY WhenFinished, PTL

LEMMA AccountIInv == ASSUME IInv, NEW t \in Thread, Account(t) PROVE IInv'
  <1>0. PICK d, k : d = data[t] /\ k = task(t)
    OBVIOUS
  <1>1. pc[t] = "account" /\ UNCHANGED <<coming, data_queue, pieces, mem, next>>
    BY DEF Account, AccountWith
  <1>2. PICK g : g = Totals(task_pieces_[k], size[t])
    OBVIOUS
  <1>3. /\ d \in Items /\ d.task_id = k /\ k \in Task
        /\ d \in Infos => size[t] = 0 - d.size /\ d.size \in Nat \ {0}
        /\ d \notin Infos => size[t] \in {0, d.size} /\ d.size \in Nat
    <2>1. d \in Items
      BY <1>0, <1>1 DEF IInv, OnePlace
    <2>2. d.size \in Nat /\ (d \in Infos => d.size # 0) /\ d.task_id \in Task
      BY <2>1, ItemKinds
    <2> QED BY <1>0, <1>1, <2>1, <2>2 DEF IInv, Working, task
  <1>4. PICK j \in Program : j.rt.task_id = k
    <2>1. CASE d \in Infos
      BY <1>3, <2>1, InfoFacts
    <2>2. CASE d \notin Infos
      <3>1. PICK x \in Pieces : d \in Gathered(x)
        BY <1>3, <2>2, Contributes DEF Items
      <3> QED BY <1>3, <3>1, GatheredFacts, PieceFacts
    <2> QED BY <2>1, <2>2
  <1>5. \A i \in Program : i # j => i.rt.task_id # k
    BY <1>4, ProgramAssumption
  <1>6. task_pieces_[k].state \in {"live", "erased"}
    <2>1. task_pieces_[k].state \in {"none", "live", "erased"}
      BY <1>3 DEF IInv, TypeOK
    <2> QED BY <1>0, <1>1, <1>3, <2>1 DEF IInv, Groups
  <1>7. task_pieces_[k].state = "erased" => size[t] = 0
    <2>1. task_pieces_[k].state = "erased" => ~Busy(t)
      BY <1>0, <1>3 DEF IInv, Groups, Over
    <2> QED BY <1>1, <2>1 DEF Busy
  (* What the step does. *)
  <1>8. \/ Return(t)
        \/ \E b \in {"reap", "lost"} : pc' = [pc EXCEPT ![t] = b] /\ UNCHANGED <<data, size>>
    BY DEF Account, AccountWith, goto
  <1>9. /\ task_pieces_[k].state = "live" =>
             /\ task_pieces_' = [task_pieces_ EXCEPT ![k] = g]
             /\ IF g.sum = g.total /\ g.total > 0 THEN pc' = [pc EXCEPT ![t] = "reap"] ELSE Return(t)
        /\ task_pieces_[k].state = "erased" => task_pieces_' = task_pieces_
    BY <1>0, <1>1, <1>2 DEF Account, AccountWith, Dangling, goto
  <1>10. /\ OnePlace' /\ Queued' = Queued
         /\ \A L : L \cap {"idle", "reap", "lost"} = {} => Pending(L)' = Pending(L) \ {d}
    <2>1. CASE Return(t)
      BY <1>0, <1>1, <2>1, Returned DEF IInv
    <2>2. CASE \E b \in {"reap", "lost"} : pc' = [pc EXCEPT ![t] = b] /\ UNCHANGED <<data, size>>
      <3>1. PICK b \in {"reap", "lost"} : pc' = [pc EXCEPT ![t] = b] /\ UNCHANGED <<data, size>>
        BY <2>2
      <3>2. /\ OnePlace' /\ Queued' = Queued
            /\ \A L : "idle" \notin L => Pending(L)' = IF b \in L THEN Pending(L) \cup {d}
                                                       ELSE Pending(L) \ {d}
        BY <1>0, <1>1, <3>1, Moved DEF IInv
      <3>3. \A L : L \cap {"idle", "reap", "lost"} = {} => "idle" \notin L /\ b \notin L
        OBVIOUS
      <3> QED BY <3>2, <3>3
    <2> QED BY <1>8, <2>1, <2>2
  <1>11. d \notin Unmerged /\ d \notin Uncounted
    BY <1>0, <1>1, Place DEF IInv, Unmerged, Uncounted, Early
  <1>12. Unmerged' = Unmerged /\ Uncounted' = Uncounted /\ Unnoted' = Unnoted \ {d}
    <2>1. Unmerged' = Unmerged \ {d}
      BY <1>10 DEF Unmerged, Early
    <2>2. Uncounted' = Uncounted \ {d}
      BY <1>10 DEF Uncounted, Early
    <2>3. Unnoted' = Unnoted \ {d}
      BY <1>10 DEF Unnoted, Early
    <2> QED BY <1>11, <2>1, <2>2, <2>3
  <1>13. /\ pc'[t] \in {"idle", "reap", "lost"}
         /\ pc'[t] # "idle" => data'[t] = data[t]
         /\ \A u \in Thread : u # t => pc'[u] = pc[u] /\ data'[u] = data[u] /\ size'[u] = size[u]
         /\ pc' \in [Thread -> {"idle", "group", "info", "find", "merge", "count", "remove",
                        "account", "reap", "lost"}]
         /\ data' \in [Thread -> AnyPiece \cup {NoData}] /\ size' \in [Thread -> Int]
    <2>1. /\ pc \in [Thread -> {"idle", "group", "info", "find", "merge", "count", "remove",
                        "account", "reap", "lost"}]
          /\ data \in [Thread -> AnyPiece \cup {NoData}] /\ size \in [Thread -> Int]
      BY DEF IInv, TypeOK
    <2>2. CASE Return(t)
      <3>1. /\ pc' = [pc EXCEPT ![t] = "idle"] /\ data' = [data EXCEPT ![t] = NoData]
            /\ size' = [size EXCEPT ![t] = 0]
        BY <2>2 DEF Return, goto
      <3> QED BY <2>1, <3>1
    <2>3. CASE \E b \in {"reap", "lost"} : pc' = [pc EXCEPT ![t] = b] /\ UNCHANGED <<data, size>>
      BY <2>1, <2>3
    <2> QED BY <1>8, <2>2, <2>3
  <1>14. /\ ~Completes(t)' /\ ~Busy(t)' /\ (Completes(t) <=> size[t] > 0)
         /\ \A u \in Thread : u # t => (Completes(u)' <=> Completes(u))
         /\ \A u \in Thread : Busy(u)' => Busy(u) /\ data'[u] = data[u]
    BY <1>1, <1>13 DEF Completes, Busy
  (* The group's new values. *)
  <1>15. task_pieces_[k] \in [state : {"none", "live", "erased"}, sum : Nat, total : Nat]
    BY <1>3 DEF IInv, TypeOK
  <1>16. /\ g.state = task_pieces_[k].state
         /\ d \in Infos => g.sum = task_pieces_[k].sum /\ g.total = d.size
         /\ d \notin Infos => g.sum = task_pieces_[k].sum + size[t] /\ g.total = task_pieces_[k].total
         /\ g \in [state : {"none", "live", "erased"}, sum : Nat, total : Nat]
    <2>1. CASE d \in Infos
      <3>1. g = [task_pieces_[k] EXCEPT !.total = d.size]
        BY <1>2, <1>3, <2>1 DEF Totals
      <3> QED BY <1>3, <1>15, <2>1, <3>1
    <2>2. CASE d \notin Infos
      <3>1. g = [task_pieces_[k] EXCEPT !.sum = @ + size[t]] /\ size[t] \in Nat
        BY <1>2, <1>3, <2>2 DEF Totals
      <3> QED BY <1>15, <2>2, <3>1
    <2> QED BY <2>1, <2>2
  <1>17. /\ task_pieces_[k].state = "live" => task_pieces_'[k] = g
         /\ task_pieces_[k].state = "erased" => task_pieces_'[k] = task_pieces_[k]
         /\ \A l \in Task : l # k => task_pieces_'[l] = task_pieces_[l]
         /\ task_pieces_'[k].state = task_pieces_[k].state
         /\ task_pieces_' \in [Task -> [state : {"none", "live", "erased"}, sum : Nat, total : Nat]]
    <2>1. task_pieces_ \in [Task -> [state : {"none", "live", "erased"}, sum : Nat, total : Nat]]
      BY DEF IInv, TypeOK
    <2> QED BY <1>3, <1>6, <1>9, <1>16, <2>1
  <1>18. TypeOK'
    BY <1>1, <1>13, <1>17 DEF IInv, TypeOK
  <1>19. Working'
    <2> SUFFICES ASSUME NEW u \in Thread PROVE Working!(u)'
      BY DEF Working
    <2>1. CASE u = t
      BY <1>13, <2>1
    <2>2. CASE u # t
      BY <1>1, <1>13, <2>2 DEF IInv, Working, tp, task
    <2> QED BY <2>1, <2>2
  <1>20. Completers'
    <2>1. \A u \in Thread : Completes(u)' => Completes(u) /\ data'[u] = data[u]
      BY <1>13, <1>14
    <2> QED BY <1>12, <2>1, CompletersStay DEF IInv
  <1>21. Kept'
    <2>1. \A x \in Pieces : Removing(x)' <=> Removing(x)
      BY <1>1, <1>13 DEF Removing, At
    <2> QED BY <1>1, <1>12, <2>1, KeptStays DEF IInv
  <1>22. Passed'
    BY <1>1, <1>12, PassedStays DEF IInv
  <1>23. \A i \in Program : /\ i # j => (Info(i.rt) \in Unnoted' <=> Info(i.rt) \in Unnoted)
                            /\ d \notin Infos => (Info(i.rt) \in Unnoted' <=> Info(i.rt) \in Unnoted)
    <2>1. \A i \in Program : Info(i.rt) \in Infos /\ Info(i.rt).task_id = i.rt.task_id
      BY DEF Infos, Info
    <2> QED BY <1>3, <1>5, <1>12, <2>1
  <1>24. \A l \in Task : l # k \/ ~(size[t] > 0) => Accounted(l)' = Accounted(l)
    <2>1. \A x \in Pieces : Complete(x)' <=> Complete(x)
      BY <1>12 DEF Complete
    <2>2. \A x \in Pieces : x.task_id # k \/ ~(size[t] > 0) => (Completing(x)' <=> Completing(x))
      BY <1>0, <1>13, <1>14 DEF Completing, At, task
    <2> QED BY <2>1, <2>2 DEF Accounted
  <1>25. Sizes'
    <2> SUFFICES ASSUME NEW i \in Program PROVE Sizes!(i)'
      BY DEF Sizes
    <2>1. Sizes!(i) /\ i.rt.task_id \in Task /\ i.rt.size \in Nat
      BY Jobs DEF IInv, Sizes, RepairTask
    <2>2. PICK A, B : /\ A = Accounted(i.rt.task_id) /\ B = Accounted(i.rt.task_id)'
                      /\ BytesOf(B)' = BytesOf(B)
      BY DEF BytesOf
    <2>3. CASE i # j
      <3>1. i.rt.task_id # k
        BY <1>5, <2>3
      <3>2. B = A /\ task_pieces_'[i.rt.task_id] = task_pieces_[i.rt.task_id]
        BY <1>17, <1>24, <2>1, <2>2, <3>1
      <3> QED BY <1>23, <2>1, <2>2, <2>3, <3>2
    <2>4. CASE i = j /\ task_pieces_[k].state = "erased"
      BY <1>4, <1>17, <2>4
    <2>5. CASE i = j /\ task_pieces_[k].state = "live" /\ d \in Infos
      <3>1. B = A /\ task_pieces_'[k] = g
        <4>1. ~(size[t] > 0)
          BY <1>3, <2>5
        <4> QED BY <1>4, <1>17, <1>24, <2>1, <2>2, <2>5, <4>1
      <3>2. d = Info(j.rt) /\ d.size = j.rt.size
        <4>1. PICK m \in Program : d = Info(m.rt) /\ d.task_id = m.rt.task_id /\ d.size = m.rt.size
          BY <2>5, InfoFacts
        <4> QED BY <1>3, <1>5, <4>1
      <3>3. Info(j.rt) \notin Unnoted'
        BY <1>12, <3>2
      <3> QED BY <1>4, <1>16, <2>1, <2>2, <2>5, <3>1, <3>2, <3>3
    <2>6. CASE i = j /\ task_pieces_[k].state = "live" /\ d \notin Infos /\ ~(size[t] > 0)
      <3>1. B = A /\ task_pieces_'[k] = g
        BY <1>4, <1>17, <1>24, <2>1, <2>2, <2>6
      <3>2. size[t] = 0
        BY <1>3, <2>6
      <3>3. g.sum = task_pieces_[k].sum /\ g.total = task_pieces_[k].total
        BY <1>15, <1>16, <2>6, <3>2
      <3> QED BY <1>4, <1>23, <2>1, <2>2, <2>6, <3>1, <3>3
    <2>7. CASE i = j /\ task_pieces_[k].state = "live" /\ d \notin Infos /\ size[t] > 0
      <3>1. d \in Locals \cup Networks
        BY <1>3, <2>7 DEF Items
      <3>2. PICK x \in Pieces : d \in Gathered(x)
        BY <3>1, Contributes
      <3>3. /\ d.task_id = x.task_id /\ d.offset = x.offset /\ x.size \in Nat \ {0} /\ x.offset \in Nat
            /\ d.size = (IF d.buf = nullptr THEN 0 ELSE x.size)
        BY <3>2, GatheredFacts, PieceFacts
      <3>4. size[t] = x.size
        BY <1>3, <2>7, <3>3
      <3>5. \A y \in Pieces : At(t, y) <=> y = x
        BY <1>0, <3>3, SamePiece DEF At
      <3>6. Completes(t)
        BY <1>14, <2>7
      <3>7. /\ Complete(x) /\ \A u \in Thread : Completes(u) /\ At(u, x) => u = t
        BY <1>0, <3>3, <3>5, <3>6 DEF IInv, Completers, At, task
      <3>8. Completing(x) /\ ~Completing(x)'
        BY <1>13, <1>14, <3>5, <3>6, <3>7 DEF Completing, At
      <3>9. \A y \in Pieces : y # x => (Completing(y)' <=> Completing(y))
        BY <1>13, <1>14, <3>5 DEF Completing, At
      <3>10. \A y \in Pieces : Complete(y)' <=> Complete(y)
        BY <1>12 DEF Complete
      <3>11. B = A \cup {x} /\ x \notin A
        BY <1>3, <1>4, <2>2, <2>7, <3>3, <3>7, <3>8, <3>9, <3>10 DEF Accounted
      <3>12. x \in PiecesOf(j.rt) /\ A \subseteq PiecesOf(j.rt) /\ B \subseteq PiecesOf(j.rt)
        <4>1. x \in PiecesOf(j.rt)
          BY <1>3, <1>4, <3>3, SameTask
        <4>2. A \subseteq PiecesOf(j.rt)
          BY <2>2, <2>7, SameTask DEF Accounted
        <4> QED BY <3>11, <4>1, <4>2
      <3>13. BytesOf(B) = BytesOf(A) \cup Bytes(x)
        BY <3>11 DEF BytesOf
      <3>14. BytesOf(A) \cap Bytes(x) = {}
        <4> SUFFICES ASSUME NEW y \in A PROVE Bytes(y) \cap Bytes(x) = {}
          BY DEF BytesOf
        <4>1. y # x /\ y \in PiecesOf(j.rt)
          BY <3>11, <3>12
        <4>2. /\ x.offset + x.size <= y.offset \/ y.offset + y.size <= x.offset
              /\ y.offset \in Nat /\ y.size \in Nat
          BY <3>12, <4>1, NoOverlap, Apiece, Jobs
        <4> QED BY <3>3, <4>2 DEF Bytes
      <3>15. IsFiniteSet(BytesOf(A)) /\ Cardinality(BytesOf(A)) \in Nat
        BY <3>12, BytesFacts
      <3>16. IsFiniteSet(Bytes(x)) /\ Cardinality(Bytes(x)) = x.size
        <4>1. PICK a \in Int, b \in Int : a = x.offset /\ b = x.offset + x.size - 1
          BY <3>3
        <4>2. a <= b /\ b - a + 1 = x.size
          BY <3>3, <4>1
        <4>3. /\ IsFiniteSet(a .. b)
              /\ Cardinality(a .. b) = (IF a > b THEN 0 ELSE b - a + 1)
          BY <4>1, FS_Interval, Zenon
        <4> QED BY <4>1, <4>2, <4>3 DEF Bytes
      <3>17. Cardinality(BytesOf(B)) = Cardinality(BytesOf(A)) + x.size
        <4>1. Cardinality(BytesOf(A) \cap Bytes(x)) = 0
          BY <3>14, FS_EmptySet
        <4>2. Cardinality(BytesOf(A) \cup Bytes(x)) =
                Cardinality(BytesOf(A)) + Cardinality(Bytes(x)) - Cardinality(BytesOf(A) \cap Bytes(x))
          BY <3>15, <3>16, FS_Union
        <4> QED BY <3>3, <3>13, <3>15, <3>16, <4>1, <4>2
      <3>18. g.sum = task_pieces_[k].sum + x.size /\ g.total = task_pieces_[k].total
             /\ task_pieces_'[k] = g /\ task_pieces_[k].sum \in Nat
        BY <1>15, <1>16, <1>17, <2>7, <3>4
      <3> QED BY <1>4, <1>23, <2>1, <2>2, <2>7, <3>3, <3>15, <3>17, <3>18
    <2> QED BY <1>6, <2>3, <2>4, <2>5, <2>6, <2>7
  <1>26. Groups'
    <2>1. \A l \in Task : Over(l) => Over(l)'
      <3>1. \A l \in Task, o \in Offset : pieces'[<<l, o>>] \in {NoPiece, pieces[<<l, o>>]}
        BY <1>1
      <3> QED BY <1>1, <1>10, <1>14, <3>1, OverStays
    <2>2. (TypeOK /\ OnePlace /\ Working /\ Kept /\ Sizes)' =>
            (\A i \in Program : /\ task_pieces_[i.rt.task_id].state = "live"
                                /\ Finished(task_pieces_[i.rt.task_id])
                                => Over(i.rt.task_id))'
      BY WhenFinishedNext
    <2>3. task_pieces_'[k].state = "live" /\ Finished(task_pieces_[k])' => Over(k)'
      BY <1>4, <1>10, <1>18, <1>19, <1>21, <1>25, <2>2
    <2>4. Finished(task_pieces_[k])' <=> task_pieces_'[k].sum = task_pieces_'[k].total
                                         /\ task_pieces_'[k].total > 0
      BY DEF Finished
    <2> SUFFICES ASSUME NEW l \in Task PROVE Groups!(l)'
      BY DEF Groups
    <2>5. Groups!(l)
      BY DEF IInv, Groups
    <2>6. CASE l = k
      <3>1. CASE task_pieces_[k].state = "erased"
        BY <1>0, <1>3, <1>17, <2>1, <2>5, <2>6, <3>1 DEF IInv, Groups
      <3>2. CASE task_pieces_[k].state = "live"
        <4>1. Finished(task_pieces_[k])' <=> g.sum = g.total /\ g.total > 0
          BY <1>17, <2>4, <3>2
        <4>2. pc'[t] = "reap" <=> Finished(task_pieces_[k])'
          <5>1. Return(t) => pc'[t] = "idle"
            BY DEF Return, goto, IInv, TypeOK
          <5>2. pc' = [pc EXCEPT ![t] = "reap"] => pc'[t] = "reap"
            BY DEF IInv, TypeOK
          <5> QED BY <1>9, <3>2, <4>1, <5>1, <5>2
        <4>3. pc'[t] # "lost"
          <5>1. Return(t) => pc'[t] = "idle"
            BY DEF Return, goto, IInv, TypeOK
          <5>2. pc' = [pc EXCEPT ![t] = "reap"] => pc'[t] = "reap"
            BY DEF IInv, TypeOK
          <5> QED BY <1>9, <3>2, <5>1, <5>2
        <4>4. \A u \in Thread : pc'[u] = "reap" /\ data'[u].task_id = k => Over(k)'
          <5> SUFFICES ASSUME NEW u \in Thread, pc'[u] = "reap", data'[u].task_id = k PROVE Over(k)'
            OBVIOUS
          <5>1. CASE u = t
            BY <1>17, <2>3, <3>2, <4>2, <5>1
          <5>2. CASE u # t
            <6>1. pc[u] = "reap" /\ task(u) = k
              BY <1>13, <5>2 DEF task
            <6> QED BY <1>3, <2>1, <2>5, <2>6, <6>1
          <5> QED BY <5>1, <5>2
        <4>5. \A u \in Thread : ~(pc'[u] = "lost" /\ data'[u].task_id = k)
          <5> SUFFICES ASSUME NEW u \in Thread, pc'[u] = "lost", data'[u].task_id = k PROVE FALSE
            OBVIOUS
          <5>1. u # t
            BY <4>3
          <5>2. pc[u] = "lost" /\ task(u) = k
            BY <1>13, <5>1 DEF task
          <5> QED BY <2>5, <2>6, <3>2, <5>2
        <4>6. Finished(task_pieces_[k])' => \E u \in Thread : pc'[u] = "reap" /\ data'[u].task_id = k
          BY <1>0, <1>3, <1>13, <4>2
        <4> QED BY <1>17, <2>6, <3>2, <4>4, <4>5, <4>6 DEF task
      <3> QED BY <1>6, <3>1, <3>2
    <2>7. CASE l # k
      <3>1. task_pieces_'[l] = task_pieces_[l] /\ (Finished(task_pieces_[l])' <=> Finished(task_pieces_[l]))
        BY <1>17, <2>7 DEF Finished
      <3>2. \A u \in Thread : pc'[u] # "idle" /\ data'[u].task_id = l =>
              pc'[u] = pc[u] /\ data'[u] = data[u] /\ task(u) = l
        BY <1>0, <1>13, <2>7 DEF task
      <3>3. \A u \in Thread : task(u) = l => pc'[u] = pc[u] /\ data'[u].task_id = l
        BY <1>0, <1>13, <2>7 DEF task
      <3> QED BY <1>12, <2>1, <2>5, <3>1, <3>2, <3>3 DEF task
    <2> QED BY <2>6, <2>7
  <1> QED BY <1>10, <1>18, <1>19, <1>20, <1>21, <1>22, <1>25, <1>26 DEF IInv

-----------------------------------------------------------------------------
(* The strengthened invariant holds in every reachable state.              *)
THEOREM Invariance == Spec => []IInv
  <1>1. Init => IInv
    BY InitIInv
  <1>2. IInv /\ [Next]_vars => IInv'
    <2> SUFFICES ASSUME IInv, [Next]_vars PROVE IInv'
      OBVIOUS
    <2>1. CASE Arrive
      BY <2>1, ArriveIInv
    <2>2. ASSUME NEW t \in Thread, Step(t) PROVE IInv'
      BY <2>2, PopIInv, FindGroupIInv, PushInfoIInv, FindPieceIInv, MergeIInv, CountIInv,
         RemovePieceIInv, AccountIInv, ReapIInv DEF Step
    <2>3. CASE UNCHANGED vars
      <3>1. UNCHANGED <<coming, data_queue, task_pieces_, pieces, pc, data, size, mem, next>>
        BY <2>3 DEF vars, threadVars
      <3>2. /\ \A L : HeldAt(L)' = HeldAt(L)
            /\ Queued' = Queued
        BY <3>1 DEF HeldAt, Queued
      <3>3. Unmerged' = Unmerged /\ Uncounted' = Uncounted /\ Unnoted' = Unnoted
        BY <3>1, <3>2 DEF Unmerged, Uncounted, Unnoted, Pending
      <3>4. \A u \in Thread : (Completes(u)' <=> Completes(u)) /\ data'[u] = data[u]
        BY <3>1 DEF Completes
      <3>5. \A x \in Pieces : Removing(x)' <=> Removing(x)
        BY <3>1 DEF Removing, At
      <3>6. TypeOK' /\ OnePlace' /\ Working'
        BY <3>1, <3>2 DEF IInv, TypeOK, OnePlace, Working, tp, task
      <3>7. Completers'
        BY <3>3, <3>4, CompletersStay DEF IInv
      <3>8. Kept'
        BY <3>1, <3>3, <3>5, KeptStays DEF IInv
      <3>9. Passed'
        BY <3>1, <3>3, PassedStays DEF IInv
      <3>10. Groups'
        BY <3>1, <3>2, <3>3, GroupsStay DEF IInv
      <3>11. Sizes'
        BY <3>1, <3>3, <3>4, SizesStay, AccountedStays DEF IInv
      <3> QED BY <3>6, <3>7, <3>8, <3>9, <3>10, <3>11 DEF IInv
    <2> QED BY <2>1, <2>2, <2>3 DEF Next
  <1> QED BY <1>1, <1>2, PTL DEF Spec

(* Type correctness. *)
THEOREM TypeCorrect == Spec => []TypeOK
  <1>1. IInv => TypeOK
    BY DEF IInv
  <1> QED BY <1>1, Invariance, PTL

(* The references of a thread (compute_processor.cc:24-36) stay good until *)
(* it accounts: a group is erased only when no item of its task is left to *)
(* work on, a TempPiece only by the one thread that completed it.          *)
THEOREM ReferencesGood == Spec => []PointersAlive
  <1>1. IInv => PointersAlive
    <2> SUFFICES ASSUME IInv, NEW t \in Thread
                 PROVE  /\ pc[t] \in {"info", "find", "merge", "count", "remove"} => ~Dangling(t)
                        /\ pc[t] \in {"merge", "count", "remove"} => tp(t) # NoPiece
      BY DEF PointersAlive
    <2>1. pc[t] \in {"merge", "count", "remove"} => tp(t) # NoPiece
      BY DEF IInv, Working
    <2>2. pc[t] \in {"info", "find", "merge", "count", "remove"} => ~Dangling(t)
      <3> SUFFICES ASSUME pc[t] \in {"info", "find", "merge", "count", "remove"} PROVE ~Dangling(t)
        OBVIOUS
      <3>1. data[t] \in Items
        BY DEF IInv, OnePlace
      <3>2. task(t) \in Task
        BY <3>1, ItemKinds DEF task
      <3>3. Busy(t)
        BY DEF Busy
      <3> QED BY <3>2, <3>3 DEF IInv, Groups, Over, Dangling
    <2> QED BY <2>1, <2>2
  <1> QED BY <1>1, Invariance, PTL

(* num meets src_num once (compute_processor.cc:88): no info and no sum is *)
(* passed on a second time, whatever order the contributions come in.      *)
THEOREM PassedOnce == Spec => []ReleasedOnce
  <1>1. IInv => ReleasedOnce
    <2> SUFFICES ASSUME IInv PROVE ReleasedOnce
      OBVIOUS
    <2>1. \A d \in BagToSet(next) : next[d] = 1
      BY DEF IInv, Passed
    <2>2. ASSUME NEW x \in Pieces PROVE Cardinality(SumsOf(x)) <= 1
      <3>1. CASE SumsOf(x) = {}
        <4>1. Cardinality(SumsOf(x)) = 0
          BY <3>1, FS_EmptySet
        <4> QED BY <4>1
      <3>2. CASE SumsOf(x) # {}
        <4>1. PICK s : s \in SumsOf(x)
          BY <3>2
        <4>2. SumsOf(x) = {s}
          BY <4>1 DEF IInv, Passed
        <4>3. Cardinality(SumsOf(x)) = 1
          BY <4>2, FS_Singleton
        <4> QED BY <4>3
      <3> QED BY <3>1, <3>2
    <2> QED BY <2>1, <2>2 DEF ReleasedOnce
  <1> QED BY <1>1, Invariance, PTL

(* No group is left behind of a task that is passed on to another node: at *)
(* the end sum has reached total (compute_processor.cc:42-56).             *)
THEOREM ForwardReclaimed == Spec => []ForwardGroupsReclaimed
  <1>1. IInv => ForwardGroupsReclaimed
    <2> SUFFICES ASSUME IInv, NEW j \in Program, j.rt.tar_id # id, Quiescent,
                        task_pieces_[j.rt.task_id].state # "erased"
                 PROVE FALSE
      BY DEF ForwardGroupsReclaimed, Reclaimed
    <2>1. PICK k, A : k = j.rt.task_id /\ A = Accounted(k)
      OBVIOUS
    <2>2. /\ j.rt \in RepairTask(Task, Node) /\ k \in Task /\ j.rt.size \in Nat \ {0}
          /\ j.rt.offset \in Nat
      BY <2>1, Jobs DEF RepairTask
    <2>3. coming = {} /\ Queued = {} /\ \A t \in Thread : pc[t] \in {"idle", "lost"}
      BY EmptySeq DEF Quiescent, Queued
    <2>4. Unmerged = {} /\ Uncounted = {} /\ Unnoted = {}
      BY <2>3 DEF Unmerged, Uncounted, Unnoted, Pending, HeldAt, Early
    <2>5. task_pieces_[k].state = "live"
      <3>1. task_pieces_[k].state \in {"none", "live", "erased"}
        BY <2>2 DEF IInv, TypeOK
      <3>2. Info(j.rt) \in Of(k, Items)
        BY <2>1 DEF Of, Items, Infos, Info
      <3> QED BY <2>1, <2>2, <2>4, <3>1, <3>2 DEF IInv, Groups
    <2>6. \A x \in PiecesOf(j.rt) : x \in A
      <3> SUFFICES ASSUME NEW x \in PiecesOf(j.rt) PROVE x \in A
        OBVIOUS
      <3>1. x \in Pieces /\ x.task_id = k
        BY <2>1, PiecesOfJob
      <3>2. Complete(x) /\ ~Completing(x)
        BY <2>3, <2>4 DEF Complete, Completing, Completes
      <3> QED BY <2>1, <3>1, <3>2 DEF Accounted
    <2>7. A \subseteq PiecesOf(j.rt)
      BY <2>1, SameTask DEF Accounted
    <2>8. /\ BytesOf(A) \subseteq j.rt.offset .. j.rt.offset + j.rt.size - 1
          /\ Cardinality(BytesOf(A)) \in Nat
      BY <2>7, BytesFacts
    <2>9. \A b \in j.rt.offset .. j.rt.offset + j.rt.size - 1 : b \in BytesOf(A)
      BY <2>2, <2>6, Covered DEF BytesOf
    <2>10. BytesOf(A) = j.rt.offset .. j.rt.offset + j.rt.size - 1
      BY <2>8, <2>9
    <2>11. Cardinality(BytesOf(A)) = j.rt.size
      <3>1. PICK a \in Int, b \in Int : a = j.rt.offset /\ b = j.rt.offset + j.rt.size - 1
        BY <2>2
      <3>2. a <= b /\ b - a + 1 = j.rt.size
        BY <2>2, <3>1
      <3>3. /\ IsFiniteSet(a .. b)
            /\ Cardinality(a .. b) = (IF a > b THEN 0 ELSE b - a + 1)
        BY <3>1, FS_Interval, Zenon
      <3> QED BY <2>10, <3>1, <3>2, <3>3
    <2>12. task_pieces_[k].sum = j.rt.size /\ task_pieces_[k].total = j.rt.size
      BY <2>1, <2>4, <2>5, <2>11 DEF IInv, Sizes
    <2>13. Finished(task_pieces_[k])
      BY <2>2, <2>12 DEF Finished
    <2>14. \E t \in Thread : pc[t] = "reap"
      BY <2>2, <2>5, <2>13 DEF IInv, Groups
    <2> QED BY <2>3, <2>14
  <1> QED BY <1>1, Invariance, PTL

-----------------------------------------------------------------------------
(* What a plan has to be for the sums to be right: tasks that are under    *)
(* way together are about different parts of the block, as buffers are     *)
(* found by offset alone, and a task that ends here has a source.          *)
RangeOf(rt) == rt.offset .. rt.offset + rt.size - 1
Apart == \A j, k \in Program : j # k => RangeOf(j.rt) \cap RangeOf(k.rt) = {}
Sourced == \A j \in Program : j.rt.tar_id = id => j.sources # {}

LEMMA OffsetsApart ==
  ASSUME Apart, NEW x \in Pieces, NEW y \in Pieces, x.offset = y.offset
  PROVE x = y
  <1>1. \A z \in Pieces : JobOf(z) \in Program /\ z.offset \in RangeOf(JobOf(z).rt)
                          /\ z.task_id = JobOf(z).rt.task_id
    <2> SUFFICES ASSUME NEW z \in Pieces
                 PROVE JobOf(z) \in Program /\ z.offset \in RangeOf(JobOf(z).rt)
                       /\ z.task_id = JobOf(z).rt.task_id
      OBVIOUS
    <2>1. PICK j \in Program : j = JobOf(z)
      BY PieceFacts
    <2>2. z \in PiecesOf(j.rt) /\ j.rt \in RepairTask(Task, Node) /\ z.task_id = j.rt.task_id
      BY <2>1, PieceFacts, Jobs
    <2>3. /\ z.offset \in Nat /\ z.size \in Nat \ {0} /\ z.offset >= j.rt.offset
          /\ z.offset + z.size <= j.rt.offset + j.rt.size
      BY <2>2, Apiece
    <2>4. j.rt.offset \in Nat /\ j.rt.size \in Nat
      BY <2>2 DEF RepairTask
    <2>5. z.offset \in RangeOf(j.rt)
      BY <2>3, <2>4 DEF RangeOf
    <2> QED BY <2>1, <2>2, <2>5
  <1>2. JobOf(x) = JobOf(y)
    BY <1>1 DEF Apart
  <1> QED BY <1>1, <1>2, SamePiece

(* A filled buffer that is not merged yet is not the cell of any piece, and *)
(* no other item's.                                                        *)
LEMMA BufferApart ==
  ASSUME Apart, NEW d \in Unmerged, d \in Items, d.buf # nullptr
  PROVE /\ \A x \in Pieces : d.buf \notin Own(x)
        /\ \A e \in Items : e.buf = d.buf => e = d
        /\ d.buf \in Range0 \X Offset
        /\ \A x \in Pieces : d.buf[2] = x.offset => d \in Gathered(x)
  <1>1. PICK y \in Pieces, p \in Node : d \in Gathered(y) /\ d.buf = Get(p, y.offset)
                                        /\ d.buf \in Range0 \X Offset
    BY Filling
  <1>2. \A x \in Pieces : d.buf[2] = x.offset => x = y
    BY <1>1, Buffers, OffsetsApart
  <1>3. \A x \in Pieces : d.buf \notin Own(x)
    <2> SUFFICES ASSUME NEW x \in Pieces, d.buf \in Own(x) PROVE FALSE
      OBVIOUS
    <2>1. x = y
      BY <1>2, OwnCells
    <2>2. d \in Merged(x)
      BY <1>1, <2>1, OwnCells
    <2> QED BY <2>2 DEF Merged
  <1>4. \A e \in Items : e.buf = d.buf => e = d
    <2> SUFFICES ASSUME NEW e \in Items, e.buf = d.buf PROVE e = d
      OBVIOUS
    <2>1. PICK x \in Pieces, q \in Node : e \in Gathered(x) /\ e.buf = Get(q, x.offset)
      BY Filling
    <2>2. x = y
      BY <1>2, <2>1, Buffers
    <2> QED BY <1>1, <2>1, <2>2, OwnBuffers
  <1> QED BY <1>1, <1>2, <1>3, <1>4

(* Steps that write to no buffer.                                          *)
LEMMA MemStays ==
  ASSUME MInv, mem' = mem, coming' = coming,
         \A d \in Unmerged' : d.buf # nullptr => d \in Unmerged,
         \A d \in Locals \cup Networks : d \in Unmerged' <=> d \in Unmerged,
         \A x \in Pieces : pieces'[<<x.task_id, x.offset>>] # NoPiece =>
            /\ pieces[<<x.task_id, x.offset>>] # NoPiece
            /\ pieces'[<<x.task_id, x.offset>>].buf = pieces[<<x.task_id, x.offset>>].buf
  PROVE Loaded' /\ Summed'
  <1>1. Loaded'
    BY DEF MInv, Loaded
  <1>2. Summed'
    <2> SUFFICES ASSUME NEW x \in Pieces, piece(x)' # NoPiece, piece(x)'.buf # nullptr
                 PROVE mem[piece(x)'.buf] = Added(x)'
      BY DEF Summed
    <2>1. \A d \in Gathered(x) : d \in Locals \cup Networks
      BY GatheredFacts
    <2>2. Merged(x)' = Merged(x)
      BY <2>1 DEF Merged
    <2>3. Added(x)' = Added(x)
      BY <2>2 DEF Added
    <2>4. piece(x) # NoPiece /\ piece(x)'.buf = piece(x).buf
      BY DEF piece
    <2> QED BY <2>3, <2>4 DEF MInv, Summed
  <1> QED BY <1>1, <1>2
LEMMA IntactStays == ASSUME MInv, mem' = mem, next' = next PROVE PieceIntact'
  <1>1. \A x \in Pieces : SumsOf(x)' = SumsOf(x)
    BY DEF SumsOf, Sums
  <1> QED BY <1>1 DEF MInv, PieceIntact

(* A step of a thread takes its item out of those that are not merged yet  *)
(* unless it stops short of it.                                            *)
LEMMA Going ==
  ASSUME IInv, NEW t \in Thread, pc[t] # "idle", UNCHANGED <<coming, data_queue>>,
         \/ Return(t)
         \/ \E b : b # "idle" /\ pc' = [pc EXCEPT ![t] = b] /\ UNCHANGED data
  PROVE /\ data[t] \in Items /\ data[t] \notin coming
        /\ data[t] \in Unmerged <=> pc[t] \in Early
        /\ Unmerged' = IF pc'[t] \in Early THEN Unmerged \cup {data[t]} ELSE Unmerged \ {data[t]}
  <1>0. "idle" \notin Early
    BY DEF Early
  <1>1. data[t] \in Items /\ data[t] \notin coming /\ (data[t] \in Unmerged <=> pc[t] \in Early)
    BY <1>0, Place DEF IInv, OnePlace, Unmerged
  <1>2. CASE Return(t)
    <2>1. pc'[t] = "idle"
      BY <1>2 DEF Return, goto, IInv, TypeOK
    <2>2. Unmerged' = Unmerged \ {data[t]}
      BY <1>0, <1>2, Returned DEF IInv, Unmerged
    <2> QED BY <1>0, <1>1, <2>1, <2>2
  <1>3. ASSUME NEW b, b # "idle", pc' = [pc EXCEPT ![t] = b], UNCHANGED data
        PROVE Unmerged' = IF pc'[t] \in Early THEN Unmerged \cup {data[t]} ELSE Unmerged \ {data[t]}
    <2>1. pc'[t] = b
      BY <1>3 DEF IInv, TypeOK
    <2>2. Unmerged' = IF b \in Early THEN Unmerged \cup {data[t]} ELSE Unmerged \ {data[t]}
      BY <1>0, <1>3, Moved DEF IInv, Unmerged
    <2> QED BY <2>1, <2>2
  <1> QED BY <1>1, <1>2, <1>3

(* Every step but an arrival, a merge and a count leaves alone what has    *)
(* been summed and what has been passed on.                                *)
LEMMA QuietMInv ==
  ASSUME IInv, MInv, NEW t \in Thread,
         Pop(t) \/ FindGroup(t) \/ PushInfo(t) \/ RemovePiece(t) \/ Account(t) \/ Reap(t)
  PROVE MInv'
  <1>1. mem' = mem /\ coming' = coming
    BY DEF Pop, FindGroup, PushInfo, RemovePiece, Account, AccountWith, Reap
  <1>2. CASE Pop(t)
    <2>1. Unmerged' = Unmerged
      BY <1>2, Popped DEF IInv, Unmerged, Early
    <2>2. pieces' = pieces /\ next' = next
      BY <1>2 DEF Pop
    <2> QED BY <1>1, <2>1, <2>2, MemStays, IntactStays DEF MInv
  <1>3. CASE FindGroup(t)
    <2>1. /\ pc[t] = "group" /\ pieces' = pieces /\ next' = next /\ UNCHANGED <<coming, data_queue, data>>
          /\ \E b \in {"info", "find"} : pc' = [pc EXCEPT ![t] = b]
      BY <1>3 DEF FindGroup, goto
    <2>2. pc'[t] \in Early /\ pc[t] \in Early
      BY <2>1 DEF IInv, TypeOK, Early
    <2>3. Unmerged' = Unmerged
      BY <2>1, <2>2, Going
    <2> QED BY <1>1, <2>1, <2>3, MemStays, IntactStays DEF MInv
  <1>4. CASE PushInfo(t)
    <2>1. /\ pc[t] = "info" /\ pieces' = pieces /\ next' = next (+) SetToBag({data[t]})
          /\ pc' = [pc EXCEPT ![t] = "account"] /\ UNCHANGED <<coming, data_queue, data>>
      BY <1>4 DEF PushInfo, goto
    <2>2. pc'[t] \notin Early /\ pc[t] \in Early
      BY <2>1 DEF IInv, TypeOK, Early
    <2>3. Unmerged' = Unmerged \ {data[t]} /\ data[t] \in Unmerged
      BY <2>1, <2>2, Going
    <2>4. data[t] \in Infos /\ data[t] \in Items /\ data[t] \notin Locals \cup Networks
      <3>1. data[t] \in Infos /\ data[t] \in Items
        BY <2>1 DEF IInv, Working, OnePlace
      <3> QED BY <3>1, ItemKinds
    <2>5. Loaded' /\ Summed'
      BY <1>1, <2>1, <2>3, <2>4, MemStays
    <2>6. PieceIntact'
      <3>1. data[t] \notin BagToSet(next) /\ \A e \in BagToSet(next) : next[e] = 1
        BY <2>3, <2>4 DEF IInv, Passed
      <3>2. BagToSet(next') = BagToSet(next) \cup {data[t]}
        BY <2>1, <3>1, Bagged
      <3>3. \A x \in Pieces : SumsOf(x)' = SumsOf(x)
        BY <2>4, <3>2 DEF SumsOf, Sums
      <3> QED BY <1>1, <3>3 DEF MInv, PieceIntact
    <2> QED BY <2>5, <2>6 DEF MInv
  <1>5. CASE RemovePiece(t)
    <2>1. /\ pc[t] = "remove" /\ next' = next
          /\ pieces' = [pieces EXCEPT ![<<task(t), data[t].offset>>] = NoPiece]
          /\ pc' = [pc EXCEPT ![t] = "account"] /\ UNCHANGED <<coming, data_queue, data>>
      BY <1>5 DEF RemovePiece, goto
    <2>2. pc'[t] \notin Early /\ pc[t] \notin Early
      BY <2>1 DEF IInv, TypeOK, Early
    <2>3. Unmerged' = Unmerged
      BY <2>1, <2>2, Going
    <2>4. \A x \in Pieces : pieces'[<<x.task_id, x.offset>>] \in {NoPiece, pieces[<<x.task_id, x.offset>>]}
      <3> SUFFICES ASSUME NEW x \in Pieces
                   PROVE pieces'[<<x.task_id, x.offset>>] \in {NoPiece, pieces[<<x.task_id, x.offset>>]}
        OBVIOUS
      <3>1. <<x.task_id, x.offset>> \in Task \X Offset
        BY PieceFacts
      <3>2. pieces \in [Task \X Offset -> TempPiece \cup {NoPiece}]
        BY DEF IInv, TypeOK
      <3> QED BY <2>1, <3>1, <3>2
    <2> QED BY <1>1, <2>1, <2>3, <2>4, MemStays, IntactStays DEF MInv
  <1>6. CASE Account(t)
    <2>1. /\ pc[t] = "account" /\ pieces' = pieces /\ next' = next /\ UNCHANGED <<coming, data_queue>>
          /\ \/ Return(t)
             \/ \E b \in {"reap", "lost"} : pc' = [pc EXCEPT ![t] = b] /\ UNCHANGED data
      BY <1>6 DEF Account, AccountWith, goto
    <2>2. pc'[t] \notin Early /\ pc[t] \notin Early
      BY <2>1 DEF IInv, TypeOK, Early, Return, goto
    <2>3. Unmerged' = Unmerged
      BY <2>1, <2>2, Going
    <2> QED BY <1>1, <2>1, <2>3, MemStays, IntactStays DEF MInv
  <1>7. CASE Reap(t)
    <2>1. /\ pc[t] = "reap" /\ next' = next /\ UNCHANGED <<coming, data_queue>> /\ Return(t)
          /\ pieces' = [ko \in Task \X Offset |-> IF ko[1] = task(t) THEN NoPiece ELSE pieces[ko]]
      BY <1>7 DEF Reap
    <2>2. pc'[t] \notin Early /\ pc[t] \notin Early
      BY <2>1 DEF IInv, TypeOK, Early, Return, goto
    <2>3. Unmerged' = Unmerged
      BY <2>1, <2>2, Going
    <2>4. \A x \in Pieces : pieces'[<<x.task_id, x.offset>>] \in {NoPiece, pieces[<<x.task_id, x.offset>>]}
      BY <2>1, PieceFacts
    <2> QED BY <1>1, <2>1, <2>3, <2>4, MemStays, IntactStays DEF MInv
  <1> QED BY <1>2, <1>3, <1>4, <1>5, <1>6, <1>7

(* The buffer of a sum that was passed on is a cell of its offset.         *)
LEMMA SumCell ==
  ASSUME IInv, NEW x \in Pieces, NEW s \in SumsOf(x), s.buf # nullptr
  PROVE Complete(x) /\ s.buf[2] = x.offset /\ s.buf \in Range0 \X Offset
  <1>1. s \in Sums /\ s.task_id = x.task_id /\ s.offset = x.offset
    BY DEF SumsOf
  <1>2. PICK y \in Pieces : Complete(y) /\ s \in SumsOf(y) /\ Sum(y, s)
    BY <1>1 DEF IInv, Passed
  <1>3. y = x
    BY <1>1, <1>2, SamePiece DEF SumsOf
  <1>4. s.buf[2] = x.offset
    BY <1>2, <1>3 DEF Sum
  <1>5. s \in AnyPiece
    BY <1>1 DEF Sums, IInv, TypeOK
  <1>6. s.buf \in Cell(Range0)
    BY <1>5 DEF AnyPiece, DataPiece, Cell, Range0
  <1>7. s.buf \in Range0 \X Offset
    BY <1>4, <1>6, PieceFacts DEF Cell
  <1> QED BY <1>2, <1>3, <1>4, <1>7

LEMMA ArriveMInv == ASSUME Apart, IInv, MInv, Arrive PROVE MInv'
  <1>1. PICK d \in coming :
          /\ coming' = coming \ {d} /\ data_queue' = Append(data_queue, d)
          /\ mem' = IF d.buf = nullptr THEN mem ELSE [mem EXCEPT ![d.buf] = Contents(d)]
          /\ UNCHANGED <<pieces, pc, data, next>>
    BY DEF Arrive, threadVars
  <1>2. d \in Items /\ Unmerged' = Unmerged /\ d \in Unmerged /\ d \in Uncounted
    <2>1. d \in Items /\ Unmerged' = Unmerged
      BY <1>1, Arrived DEF IInv, Unmerged
    <2>2. d \in Unmerged /\ d \in Uncounted
      BY Further
    <2> QED BY <2>1, <2>2
  <1>3. Unmerged \subseteq Items
    <2>1. coming \subseteq Items /\ Queued \subseteq Items
      BY ElementOfSeq DEF IInv, OnePlace, Queued
    <2>2. HeldAt(Early) \subseteq Items
      BY DEF IInv, OnePlace, HeldAt, Early
    <2> QED BY <2>1, <2>2 DEF Unmerged, Pending
  <1>4. \A x \in Pieces : Added(x)' = Added(x) /\ piece(x)' = piece(x) /\ SumsOf(x)' = SumsOf(x)
    BY <1>1, <1>2 DEF Added, Merged, piece, SumsOf, Sums
  <1>5. CASE d.buf = nullptr
    <2>1. Loaded'
      BY <1>1, <1>2, <1>5 DEF MInv, Loaded
    <2>2. Summed' /\ PieceIntact'
      BY <1>1, <1>4, <1>5 DEF MInv, Summed, PieceIntact
    <2> QED BY <2>1, <2>2 DEF MInv
  <1>6. CASE d.buf # nullptr
    <2>1. /\ \A x \in Pieces : d.buf \notin Own(x)
          /\ \A e \in Items : e.buf = d.buf => e = d
          /\ d.buf \in Range0 \X Offset
          /\ \A x \in Pieces : d.buf[2] = x.offset => d \in Gathered(x)
      BY <1>2, <1>6, BufferApart
    <2>2. mem'[d.buf] = Contents(d) /\ \A c \in Range0 \X Offset : c # d.buf => mem'[c] = mem[c]
      BY <1>1, <1>6, <2>1 DEF IInv, TypeOK
    <2>3. Loaded'
      <3> SUFFICES ASSUME NEW e \in Unmerged, e \notin coming \ {d}, e.buf # nullptr
                   PROVE mem'[e.buf] = Contents(e)
        BY <1>1, <1>2 DEF Loaded, Contents
      <3>1. CASE e = d
        BY <2>2, <3>1
      <3>2. CASE e # d
        BY <1>3, <2>1, <2>2, <3>2, Filling DEF MInv, Loaded
      <3> QED BY <3>1, <3>2
    <2>4. Summed'
      <3> SUFFICES ASSUME NEW x \in Pieces, piece(x) # NoPiece, piece(x).buf # nullptr
                   PROVE mem'[piece(x).buf] = Added(x)
        BY <1>4 DEF Summed
      <3>1. piece(x).buf \in Own(x)
        BY DEF IInv, Kept, Fits
      <3> QED BY <2>1, <2>2, <3>1, OwnCells DEF MInv, Summed
    <2>5. PieceIntact'
      <3> SUFFICES ASSUME NEW x \in Pieces, NEW s \in SumsOf(x)
                   PROVE /\ s.buf # nullptr /\ mem'[s.buf] = Full(x)
                         /\ s.size = x.size /\ s.tar_id = rtOf(x.task_id).tar_id
        BY <1>4 DEF PieceIntact
      <3>1. /\ s.buf # nullptr /\ mem[s.buf] = Full(x)
            /\ s.size = x.size /\ s.tar_id = rtOf(x.task_id).tar_id
        BY DEF MInv, PieceIntact
      <3>2. Complete(x) /\ s.buf[2] = x.offset /\ s.buf \in Range0 \X Offset
        BY <3>1, SumCell
      <3>3. s.buf # d.buf
        BY <1>2, <2>1, <3>2 DEF Complete
      <3> QED BY <2>2, <3>1, <3>2, <3>3
    <2> QED BY <2>3, <2>4, <2>5 DEF MInv
  <1> QED BY <1>5, <1>6

(* The first piece of an offset is the sum so far.                         *)
LEMMA FindPieceMInv == ASSUME IInv, MInv, NEW t \in Thread, FindPiece(t) PROVE MInv'
  <1>0. PICK d : d = data[t]
    OBVIOUS
  <1>1. pc[t] = "find" /\ UNCHANGED <<coming, data_queue, data, mem, next>>
    BY DEF FindPiece
  <1>2. PICK x \in Pieces :
          /\ d \in Gathered(x) /\ d.task_id = x.task_id /\ d.offset = x.offset
          /\ d \in Locals \cup Networks /\ d \notin Infos
          /\ tp(t) = piece(x) /\ x.task_id \in Task /\ x.offset \in Offset
          /\ \A y \in Pieces : d \in Gathered(y) => y = x
          /\ \A y \in Pieces : <<y.task_id, y.offset>> = <<x.task_id, x.offset>> => y = x
          /\ size[t] = d.size
    BY <1>0, <1>1, WorksOn
  <1>3. PICK q : q = [tar_id |-> d.tar_id, size |-> d.size, buf |-> d.buf,
                      temp_buf |-> Get(0, d.offset), num |-> 0, src_num |-> 0]
    OBVIOUS
  <1>4. \/ /\ piece(x) = NoPiece /\ pc' = [pc EXCEPT ![t] = "count"]
           /\ pieces' = [pieces EXCEPT ![<<x.task_id, x.offset>>] = q]
        \/ piece(x) # NoPiece /\ pc' = [pc EXCEPT ![t] = "merge"] /\ pieces' = pieces
    BY <1>0, <1>2, <1>3 DEF FindPiece, goto
  <1>5. d \in Unmerged /\ d \notin coming /\ pc[t] \in Early
    BY <1>0, <1>1, Going, Place DEF Early, IInv, OnePlace, Unmerged
  <1>6. PieceIntact'
    BY <1>1, IntactStays
  <1>7. CASE piece(x) # NoPiece
    <2>1. pc' = [pc EXCEPT ![t] = "merge"] /\ pieces' = pieces
      BY <1>4, <1>7
    <2>2. pc'[t] \in Early
      BY <2>1 DEF IInv, TypeOK, Early
    <2>3. Unmerged' = Unmerged
      BY <1>0, <1>1, <1>5, <2>1, <2>2, Going
    <2> QED BY <1>1, <1>6, <2>1, <2>3, MemStays DEF MInv
  <1>8. CASE piece(x) = NoPiece
    <2>1. pc' = [pc EXCEPT ![t] = "count"] /\ pieces' = [pieces EXCEPT ![<<x.task_id, x.offset>>] = q]
      BY <1>4, <1>8
    <2>2. pc'[t] = "count" /\ pc'[t] \notin Early
      BY <2>1 DEF IInv, TypeOK, Early
    <2>3. Unmerged' = Unmerged \ {d}
      BY <1>0, <1>1, <2>1, <2>2, Going
    <2>4. /\ piece(x)' = q
          /\ \A y \in Pieces : y # x => piece(y)' = piece(y)
      <3>1. pieces \in [Task \X Offset -> TempPiece \cup {NoPiece}] /\ <<x.task_id, x.offset>> \in Task \X Offset
        BY <1>2 DEF IInv, TypeOK
      <3>2. \A y \in Pieces : y # x => <<y.task_id, y.offset>> # <<x.task_id, x.offset>>
        BY <1>2
      <3> QED BY <2>1, <3>1, <3>2 DEF piece
    <2>5. Merged(x) = {} /\ Merged(x)' = {d}
      <3>1. Gone(x)
        BY <1>8 DEF IInv, Kept
      <3>2. ~Complete(x)
        BY <1>2, <1>5, Further DEF Complete
      <3> QED BY <1>2, <1>5, <2>3, <3>1, <3>2 DEF Gone, Merged
    <2>6. \A y \in Pieces : y # x => Added(y)' = Added(y)
      BY <1>2, <2>3 DEF Added, Merged
    <2>7. Added(x)' = Contents(d)
      BY <2>5 DEF Added
    <2>8. Loaded'
      BY <1>1, <2>3 DEF MInv, Loaded
    <2>9. Summed'
      <3> SUFFICES ASSUME NEW y \in Pieces, piece(y)' # NoPiece, piece(y)'.buf # nullptr
                   PROVE mem[piece(y)'.buf] = Added(y)'
        BY <1>1 DEF Summed
      <3>1. CASE y = x
        BY <1>3, <1>5, <2>4, <2>7, <3>1 DEF MInv, Loaded
      <3>2. CASE y # x
        BY <2>4, <2>6, <3>2 DEF MInv, Summed
      <3> QED BY <3>1, <3>2
    <2> QED BY <1>6, <2>8, <2>9 DEF MInv
  <1> QED BY <1>7, <1>8

(* Merging: the sum goes to the scratch buffer, which is none of the       *)
(* buffers that are still to be merged.                                    *)
LEMMA MergeMInv == ASSUME Apart, IInv, MInv, NEW t \in Thread, Merge(t) PROVE MInv'
  <1>0. PICK d : d = data[t]
    OBVIOUS
  <1>1. pc[t] = "merge" /\ pc' = [pc EXCEPT ![t] = "count"]
        /\ UNCHANGED <<coming, data_queue, data, next>>
    BY DEF Merge, MergeWith, goto
  <1>2. PICK x \in Pieces :
          /\ d \in Gathered(x) /\ d.task_id = x.task_id /\ d.offset = x.offset
          /\ d \in Locals \cup Networks /\ d \notin Infos
          /\ tp(t) = piece(x) /\ x.task_id \in Task /\ x.offset \in Offset
          /\ \A y \in Pieces : d \in Gathered(y) => y = x
          /\ \A y \in Pieces : <<y.task_id, y.offset>> = <<x.task_id, x.offset>> => y = x
          /\ size[t] = d.size
    BY <1>0, <1>1, WorksOn
  <1>3. PICK p : p = piece(x)
    OBVIOUS
  <1>4. p # NoPiece /\ p \in TempPiece /\ Fits(x, p)
    <2>1. p # NoPiece
      BY <1>1, <1>2, <1>3 DEF IInv, Working
    <2>2. p \in TempPiece
      BY <1>2, <1>3, <2>1 DEF IInv, TypeOK, piece
    <2> QED BY <1>3, <2>1, <2>2 DEF IInv, Kept
  <1>5. PICK r, a :
          /\ pieces' = [pieces EXCEPT ![<<x.task_id, x.offset>>] = r]
          /\ \/ /\ p.buf = nullptr /\ mem' = mem
                /\ r = [[p EXCEPT !.tar_id = a] EXCEPT !.size = d.size, !.buf = d.buf]
             \/ /\ p.buf # nullptr /\ d.buf # nullptr
                /\ mem' = [mem EXCEPT ![p.temp_buf] = Xor(mem[p.buf], mem[d.buf])]
                /\ r = [[p EXCEPT !.tar_id = a] EXCEPT !.buf = p.temp_buf, !.temp_buf = d.buf]
             \/ /\ p.buf # nullptr /\ d.buf = nullptr /\ mem' = mem
                /\ r = [p EXCEPT !.tar_id = a]
    <2>1. PICK a : a = p.tar_id + d.tar_id
      OBVIOUS
    <2>2. PICK r : /\ pieces' = [pieces EXCEPT ![<<d.task_id, d.offset>>] = r]
          /\ \/ /\ p.buf = nullptr /\ mem' = mem
                /\ r = [[p EXCEPT !.tar_id = a] EXCEPT !.size = d.size, !.buf = d.buf]
             \/ /\ p.buf # nullptr /\ d.buf # nullptr
                /\ mem' = [mem EXCEPT ![p.temp_buf] = Xor(mem[p.buf], mem[d.buf])]
                /\ r = [[p EXCEPT !.tar_id = a] EXCEPT !.buf = p.temp_buf, !.temp_buf = d.buf]
             \/ /\ p.buf # nullptr /\ d.buf = nullptr /\ mem' = mem
                /\ r = [p EXCEPT !.tar_id = a]
      BY <1>0, <1>2, <1>3, <2>1 DEF Merge, MergeWith
    <2> QED BY <1>2, <2>2
  <1>6. /\ p.buf = nullptr => r.buf = d.buf
        /\ p.buf # nullptr /\ d.buf # nullptr => r.buf = p.temp_buf
        /\ p.buf # nullptr /\ d.buf = nullptr => r.buf = p.buf
    BY <1>4, <1>5 DEF TempPiece
  <1>7. d \in Unmerged /\ d \notin coming /\ d \in Items
    BY <1>0, <1>1, Going DEF Early
  <1>8. Unmerged' = Unmerged \ {d}
    <2>1. pc'[t] = "count" /\ pc'[t] \notin Early
      BY <1>1 DEF IInv, TypeOK, Early
    <2> QED BY <1>0, <1>1, <2>1, Going
  <1>9. Merged(x)' = Merged(x) \cup {d} /\ d \notin Merged(x) /\ ~Complete(x)
    BY <1>2, <1>7, <1>8, Further DEF Merged, Complete
  <1>10. Added(x)' = Added(x) \cup Contents(d)
    BY <1>9 DEF Added
  <1>11. \A y \in Pieces : y # x => Added(y)' = Added(y)
    BY <1>2, <1>8 DEF Added, Merged
  <1>12. /\ piece(x)' = r
         /\ \A y \in Pieces : y # x => piece(y)' = piece(y)
    <2>1. pieces \in [Task \X Offset -> TempPiece \cup {NoPiece}] /\ <<x.task_id, x.offset>> \in Task \X Offset
      BY <1>2 DEF IInv, TypeOK
    <2>2. \A y \in Pieces : y # x => <<y.task_id, y.offset>> # <<x.task_id, x.offset>>
      BY <1>2
    <2> QED BY <1>5, <2>1, <2>2 DEF piece
  <1>13. \A y \in Pieces : SumsOf(y)' = SumsOf(y)
    BY <1>1 DEF SumsOf, Sums
  <1>14. /\ p.buf # nullptr <=> Filled(x)
         /\ p.buf \in Own(x) \cup {nullptr} /\ p.temp_buf \in Own(x)
    BY <1>4 DEF Fits
  (* No write. *)
  <1>15. CASE p.buf = nullptr \/ d.buf = nullptr
    <2>1. mem' = mem
      BY <1>5, <1>15
    <2>2. Loaded'
      BY <1>1, <1>8, <2>1 DEF MInv, Loaded
    <2>3. PieceIntact'
      BY <1>1, <2>1, IntactStays
    <2>4. Summed'
      <3> SUFFICES ASSUME NEW y \in Pieces, piece(y)' # NoPiece, piece(y)'.buf # nullptr
                   PROVE mem[piece(y)'.buf] = Added(y)'
        BY <2>1 DEF Summed
      <3>1. CASE y # x
        BY <1>11, <1>12, <3>1 DEF MInv, Summed
      <3>2. CASE y = x /\ p.buf = nullptr
        <4>1. Added(x) = {}
          <5>1. \A e \in Merged(x) : e.buf = nullptr
            BY <1>14, <3>2 DEF Filled
          <5> QED BY <5>1 DEF Added, Contents
        <4>2. piece(y)'.buf = d.buf /\ d.buf # nullptr
          BY <1>6, <1>12, <3>2
        <4>3. mem[d.buf] = Contents(d)
          BY <1>7, <4>2 DEF MInv, Loaded
        <4> QED BY <1>10, <3>2, <4>1, <4>2, <4>3
      <3>3. CASE y = x /\ p.buf # nullptr
        <4>1. d.buf = nullptr /\ Contents(d) = {}
          BY <1>15, <3>3 DEF Contents
        <4>2. piece(y)'.buf = p.buf
          BY <1>6, <1>12, <3>3, <4>1
        <4>3. mem[p.buf] = Added(x)
          BY <1>3, <1>4, <3>3 DEF MInv, Summed
        <4> QED BY <1>10, <3>3, <4>1, <4>2, <4>3
      <3> QED BY <3>1, <3>2, <3>3
    <2> QED BY <2>2, <2>3, <2>4 DEF MInv
  (* A write to the scratch buffer. *)
  <1>16. CASE p.buf # nullptr /\ d.buf # nullptr
    <2>1. p.temp_buf \in Range0 \X Offset /\ p.temp_buf[2] = x.offset
      BY <1>14, OwnCells
    <2>2. /\ mem'[p.temp_buf] = Xor(mem[p.buf], mem[d.buf])
          /\ \A c \in Range0 \X Offset : c # p.temp_buf => mem'[c] = mem[c]
      BY <1>5, <1>16, <2>1 DEF IInv, TypeOK
    <2>3. mem[p.buf] = Added(x)
      BY <1>3, <1>4, <1>16 DEF MInv, Summed
    <2>4. mem[d.buf] = Contents(d)
      BY <1>7, <1>16 DEF MInv, Loaded
    <2>5. Added(x) \cap Contents(d) = {}
      <3> SUFFICES ASSUME NEW e \in Merged(x), Contents(e) \cap Contents(d) # {} PROVE FALSE
        BY DEF Added
      <3>1. e.buf = d.buf /\ e \in Gathered(x)
        BY <1>16 DEF Contents, Merged
      <3>2. e = d
        BY <1>2, <1>16, <3>1, OwnBuffers
      <3> QED BY <1>9, <3>2
    <2>6. mem'[p.temp_buf] = Added(x)'
      BY <1>10, <2>2, <2>3, <2>4, <2>5 DEF Xor
    <2>7. Unmerged \subseteq Items
      <3>1. coming \subseteq Items /\ Queued \subseteq Items
        BY ElementOfSeq DEF IInv, OnePlace, Queued
      <3>2. HeldAt(Early) \subseteq Items
        BY DEF IInv, OnePlace, HeldAt, Early
      <3> QED BY <3>1, <3>2 DEF Unmerged, Pending
    <2>8. Loaded'
      <3> SUFFICES ASSUME NEW e \in Unmerged \ {d}, e \notin coming, e.buf # nullptr
                   PROVE mem'[e.buf] = Contents(e)
        BY <1>1, <1>8 DEF Loaded, Contents
      <3>1. e.buf # p.temp_buf /\ e.buf \in Range0 \X Offset
        BY <1>14, <2>7, BufferApart
      <3> QED BY <2>2, <3>1 DEF MInv, Loaded
    <2>9. Summed'
      <3> SUFFICES ASSUME NEW y \in Pieces, piece(y)' # NoPiece, piece(y)'.buf # nullptr
                   PROVE mem'[piece(y)'.buf] = Added(y)'
        BY DEF Summed
      <3>1. CASE y = x
        BY <1>6, <1>12, <1>16, <2>6, <3>1
      <3>2. CASE y # x
        <4>1. piece(y)' = piece(y) /\ piece(y).buf \in Own(y)
          BY <1>12, <3>2 DEF IInv, Kept, Fits
        <4>2. piece(y).buf # p.temp_buf /\ piece(y).buf \in Range0 \X Offset
          BY <2>1, <3>2, <4>1, OwnCells, OffsetsApart
        <4> QED BY <1>11, <2>2, <3>2, <4>1, <4>2 DEF MInv, Summed
      <3> QED BY <3>1, <3>2
    <2>10. PieceIntact'
      <3> SUFFICES ASSUME NEW y \in Pieces, NEW s \in SumsOf(y)
                   PROVE /\ s.buf # nullptr /\ mem'[s.buf] = Full(y)
                         /\ s.size = y.size /\ s.tar_id = rtOf(y.task_id).tar_id
        BY <1>13 DEF PieceIntact
      <3>1. /\ s.buf # nullptr /\ mem[s.buf] = Full(y)
            /\ s.size = y.size /\ s.tar_id = rtOf(y.task_id).tar_id
        BY DEF MInv, PieceIntact
      <3>2. Complete(y) /\ s.buf[2] = y.offset /\ s.buf \in Range0 \X Offset
        BY <3>1, SumCell
      <3>3. y # x
        BY <1>9, <3>2
      <3>4. s.buf # p.temp_buf
        BY <2>1, <3>2, <3>3, OffsetsApart
      <3> QED BY <2>2, <3>1, <3>2, <3>4
    <2> QED BY <2>8, <2>9, <2>10 DEF MInv
  <1> QED BY <1>15, <1>16

(* What is passed on is the sum of all contributions.                      *)
LEMMA CountMInv == ASSUME Sourced, IInv, MInv, NEW t \in Thread, Count(t) PROVE MInv'
  <1>0. PICK d : d = data[t]
    OBVIOUS
  <1>1. pc[t] = "count" /\ UNCHANGED <<coming, data_queue, data, mem>>
    BY DEF Count, CountWith
  <1>2. PICK x \in Pieces :
          /\ d \in Gathered(x) /\ d.task_id = x.task_id /\ d.offset = x.offset
          /\ d \in Locals \cup Networks /\ d \notin Infos
          /\ tp(t) = piece(x) /\ x.task_id \in Task /\ x.offset \in Offset
          /\ \A y \in Pieces : d \in Gathered(y) => y = x
          /\ \A y \in Pieces : <<y.task_id, y.offset>> = <<x.task_id, x.offset>> => y = x
          /\ size[t] = d.size
    BY <1>0, <1>1, WorksOn
  <1>3. PICK p : p = piece(x)
    OBVIOUS
  <1>4. p # NoPiece /\ p \in TempPiece /\ Fits(x, p)
    <2>1. p # NoPiece
      BY <1>1, <1>2, <1>3 DEF IInv, Working
    <2>2. p \in TempPiece
      BY <1>2, <1>3, <2>1 DEF IInv, TypeOK, piece
    <2> QED BY <1>3, <2>1, <2>2 DEF IInv, Kept
  <1>5. PICK s : s = [task_id |-> d.task_id, offset |-> d.offset, size |-> p.size, buf |-> p.buf,
                      tar_id |-> p.tar_id, src_num |-> 0]
    OBVIOUS
  <1>6. \/ /\ next' = next (+) SetToBag({s}) /\ pc' = [pc EXCEPT ![t] = "remove"]
        \/ next' = next /\ pc' = [pc EXCEPT ![t] = "account"]
    BY <1>0, <1>2, <1>3, <1>5 DEF Count, CountWith, Released, goto
  <1>7. \A y \in Pieces : pieces'[<<y.task_id, y.offset>>] # NoPiece =>
            /\ pieces[<<y.task_id, y.offset>>] # NoPiece
            /\ pieces'[<<y.task_id, y.offset>>].buf = pieces[<<y.task_id, y.offset>>].buf
    <2>1. pieces' = [pieces EXCEPT ![<<x.task_id, x.offset>>].num = @ + 1,
                                   ![<<x.task_id, x.offset>>].src_num = @ + d.src_num]
      BY <1>0, <1>2 DEF Count, CountWith, task
    <2>2. pieces \in [Task \X Offset -> TempPiece \cup {NoPiece}] /\ <<x.task_id, x.offset>> \in Task \X Offset
      BY <1>2 DEF IInv, TypeOK
    <2>3. p = pieces[<<x.task_id, x.offset>>]
      BY <1>3 DEF piece
    <2>4. pieces' = [pieces EXCEPT ![<<x.task_id, x.offset>>] =
                       [p EXCEPT !.num = @ + 1, !.src_num = @ + d.src_num]]
      BY <1>4, <2>1, <2>2, <2>3
    <2>5. [p EXCEPT !.num = @ + 1, !.src_num = @ + d.src_num].buf = p.buf
      BY <1>4 DEF TempPiece
    <2> QED BY <1>4, <2>2, <2>3, <2>4, <2>5
  <1>8. Unmerged' = Unmerged
    <2>1. pc'[t] \notin Early /\ pc[t] \notin Early
      BY <1>1, <1>6 DEF IInv, TypeOK, Early
    <2>2. \E b : b # "idle" /\ pc' = [pc EXCEPT ![t] = b] /\ UNCHANGED data
      BY <1>1, <1>6
    <2> QED BY <1>0, <1>1, <2>1, <2>2, Going
  <1>9. Loaded' /\ Summed'
    BY <1>1, <1>7, <1>8, MemStays
  <1>10. CASE next' = next
    BY <1>1, <1>9, <1>10, IntactStays DEF MInv
  <1>11. CASE next' # next
    <2>1. next' = next (+) SetToBag({s}) /\ pc' = [pc EXCEPT ![t] = "remove"]
      BY <1>6, <1>11
    <2>2. IInv'
      BY CountIInv
    <2>3. Complete(x)'
      <3>1. pc'[t] = "remove" /\ data'[t] = data[t]
        BY <1>1, <2>1 DEF IInv, TypeOK
      <3>2. Completes(t)' /\ At(t, x)'
        BY <1>0, <1>2, <3>1 DEF Completes, At
      <3> QED BY <2>2, <3>2 DEF IInv, Completers
    <2>4. Merged(x) = Gathered(x)
      <3>1. \A e \in Gathered(x) : e \notin Uncounted'
        BY <2>3 DEF Complete
      <3>2. Unmerged' \subseteq Uncounted'
        BY DEF Unmerged, Uncounted, Pending, HeldAt, Early
      <3> QED BY <1>8, <3>1, <3>2 DEF Merged
    <2>5. LocalOf(x) \in Gathered(x)
      BY HowMany
    <2>6. Filled(x)
      <3>1. CASE rtOf(x.task_id).tar_id # id
        BY <2>4, <2>5, <3>1, GatheredFacts DEF Filled
      <3>2. CASE rtOf(x.task_id).tar_id = id
        <4>1. PICK j \in Program : rtOf(x.task_id) = j.rt /\ sourcesOf(x.task_id) = j.sources
          BY PieceFacts
        <4>2. PICK q : q \in sourcesOf(x.task_id)
          BY <3>2, <4>1 DEF Sourced
        <4>3. NetworkPiece(q, x) \in Gathered(x) /\ NetworkPiece(q, x).buf # nullptr
          BY <4>2, NetworkFacts, Buffers DEF Gathered
        <4> QED BY <2>4, <4>3 DEF Filled
      <3> QED BY <3>1, <3>2
    <2>7. /\ s.task_id = x.task_id /\ s.offset = x.offset
          /\ s.buf = p.buf /\ s.buf # nullptr
          /\ s.size = x.size /\ s.tar_id = rtOf(x.task_id).tar_id
      BY <1>2, <1>4, <1>5, <2>4, <2>5, <2>6 DEF Fits
    <2>8. mem[s.buf] = Full(x)
      <3>1. mem[s.buf] = Added(x)
        BY <1>3, <1>4, <2>7 DEF MInv, Summed
      <3>2. Gathered(x) = {e \in Locals \cup Networks : e.task_id = x.task_id /\ e.offset = x.offset}
        BY GatheredFacts, GatheredBy
      <3> QED BY <2>4, <3>1, <3>2 DEF Added, Full
    <2>9. s \notin Infos
      BY <2>7, InfoFacts
    <2>10. BagToSet(next') = BagToSet(next) \cup {s}
      <3>1. s \notin BagToSet(next)
        <4> SUFFICES ASSUME s \in BagToSet(next) PROVE FALSE
          OBVIOUS
        <4>1. s \in Sums
          BY <2>9 DEF Sums
        <4>2. PICK y \in Pieces : Complete(y) /\ s \in SumsOf(y)
          BY <4>1 DEF IInv, Passed
        <4>3. y = x
          BY <2>7, <4>2, SamePiece DEF SumsOf
        <4>4. d \in Uncounted
          BY <1>0, <1>1, Place DEF IInv, Uncounted, Early
        <4> QED BY <1>2, <4>2, <4>3, <4>4 DEF Complete
      <3>2. \A e \in BagToSet(next) : next[e] = 1
        BY DEF IInv, Passed
      <3> QED BY <2>1, <3>1, <3>2, Bagged
    <2>11. PieceIntact'
      <3> SUFFICES ASSUME NEW y \in Pieces, NEW e \in SumsOf(y)'
                   PROVE /\ e.buf # nullptr /\ mem[e.buf] = Full(y)
                         /\ e.size = y.size /\ e.tar_id = rtOf(y.task_id).tar_id
        BY <1>1 DEF PieceIntact
      <3>1. CASE e = s
        <4>1. y = x
          BY <2>7, <3>1, SamePiece DEF SumsOf
        <4> QED BY <2>7, <2>8, <3>1, <4>1
      <3>2. CASE e # s
        <4>1. e \in SumsOf(y)
          BY <2>10, <3>2 DEF SumsOf, Sums
        <4> QED BY <4>1 DEF MInv, PieceIntact
      <3> QED BY <3>1, <3>2
    <2> QED BY <1>9, <2>11 DEF MInv
  <1> QED BY <1>10, <1>11

(* What is passed on is the whole sum, and stays so                        *)
(* (compute_processor.cc:76-101): contributions are XORed in any order,    *)
(* through buffers that are swapped, and no buffer is written to again once *)
(* it was passed on.                                                       *)
THEOREM WholeSums == Apart /\ Sourced => (Spec => []PieceIntact)
  <1> SUFFICES ASSUME Apart, Sourced PROVE Spec => []PieceIntact
    OBVIOUS
  <1>1. Init => MInv
    <2> SUFFICES ASSUME Init PROVE MInv
      OBVIOUS
    <2>1. \A t \in Thread : pc[t] = "idle"
      BY DEF Init
    <2>2. Queued = {} /\ HeldAt(Early) = {}
      BY <2>1, EmptySeq DEF Init, Queued, HeldAt, Early
    <2>3. Unmerged \ coming = {}
      BY <2>2 DEF Unmerged, Pending
    <2>4. BagToSet(next) = {}
      BY DEF Init, EmptyBag, SetToBag, BagToSet
    <2>5. \A x \in Pieces : piece(x) = NoPiece
      BY PieceFacts DEF Init, piece
    <2> QED BY <2>3, <2>4, <2>5 DEF MInv, Loaded, Summed, PieceIntact, SumsOf, Sums
  <1>2. IInv /\ MInv /\ [Next]_vars => MInv'
    <2> SUFFICES ASSUME IInv, MInv, [Next]_vars PROVE MInv'
      OBVIOUS
    <2>1. CASE Arrive
      BY <2>1, ArriveMInv
    <2>2. ASSUME NEW t \in Thread, Step(t) PROVE MInv'
      BY <2>2, QuietMInv, FindPieceMInv, MergeMInv, CountMInv DEF Step
    <2>3. CASE UNCHANGED vars
      <3>1. UNCHANGED <<coming, data_queue, pieces, pc, data, mem, next>>
        BY <2>3 DEF vars, threadVars
      <3>2. Unmerged' = Unmerged
        BY <3>1 DEF Unmerged, Pending, HeldAt, Queued
      <3> QED BY <3>1, <3>2, MemStays, IntactStays DEF MInv
    <2> QED BY <2>1, <2>2, <2>3 DEF Next
  <1>3. MInv => PieceIntact
    BY DEF MInv
  <1> QED BY <1>1, <1>2, <1>3, Invariance, PTL DEF Spec
=============================================================================
