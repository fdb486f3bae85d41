----------------------- MODULE ProceedProcessor_proofs -----------------------
(***************************************************************************)
(* Proofs, for any number of queues, of pushers and of groups of tasks     *)
(* whatever their sizes and those of their pieces, that a task keeps its   *)
(* queue until its last piece has been processed, that it is acknowledged  *)
(* once and only when it is in the file, that frames are never interleaved *)
(* and that nothing is written behind the destructor's back.               *)
(*                                                                         *)
(* Everything rests on sizes_: it counts the bytes of a task up by its     *)
(* info piece and down by each sum, in the order in which they happen to   *)
(* come, and must be 0 after the last of them and not before.  Accounted   *)
(* says what it holds at any time, in terms of the pieces that are still   *)
(* to be counted (Pend).                                                   *)
(***************************************************************************)
EXTENDS ProceedProcessor, TLAPS, SequenceTheorems, FiniteSetTheorems

-----------------------------------------------------------------------------
(* The items that have not been counted yet, wherever they are.            *)
Counting == {"info", "store", "send"}
InQueues == UNION {{data_queue[q][i] : i \in DOMAIN data_queue[q]} : q \in Queue}
Pend == coming \cup {pdata[p] : p \in {r \in Pusher : ppc[r] # "idle"}}
               \cup InQueues
               \cup {data[q] : q \in {r \in Queue : pc[r] \in Counting}}

(* No item is in two places.                                               *)
Once ==
  /\ \A d \in coming : /\ \A p \in Pusher : pdata[p] # d
                       /\ d \notin InQueues
                       /\ \A q \in Queue : data[q] # d
  /\ \A p \in Pusher : pdata[p] # NoData =>
       /\ \A r \in Pusher : pdata[r] = pdata[p] => r = p
       /\ pdata[p] \notin InQueues
       /\ \A q \in Queue : data[q] # pdata[p]
  /\ \A q, r \in Queue : \A i \in DOMAIN data_queue[q] : \A j \in DOMAIN data_queue[r] :
       data_queue[q][i] = data_queue[r][j] => q = r /\ i = j
  /\ \A q \in Queue : data[q] # NoData =>
       /\ data[q] \notin InQueues
       /\ \A r \in Queue : data[r] = data[q] => r = q

(* What a thread that is somewhere has in hand.                            *)
HandsMatch ==
  /\ \A p \in Pusher : ppc[p] = "idle" <=> pdata[p] = NoData
  /\ \A p \in Pusher : ppc[p] = "push" => pqid[p] \in Queue
  /\ \A q \in Queue : /\ pc[q] = "idle" <=> data[q] = NoData
                      /\ pc[q] = "info" => data[q].buf = nullptr
                      /\ pc[q] = "store" => data[q].buf # nullptr /\ data[q].tar_id = id
                      /\ pc[q] = "send" => data[q].buf # nullptr /\ data[q].tar_id # id

(* The pieces of a task by their number, the last of which may be shorter, *)
(* and the bytes of a set of them.                                         *)
Numbers(rt) == {n \in 0 .. rt.size : n * rt.piece_size < rt.size}
Last(rt) == (rt.size - 1) \div rt.piece_size
SizeOf(rt, n) == IF rt.size - n * rt.piece_size < rt.piece_size
                 THEN rt.size - n * rt.piece_size ELSE rt.piece_size
Nth(rt, n) == Sum(rt, [task_id |-> rt.task_id, offset |-> rt.offset + n * rt.piece_size,
                       size |-> SizeOf(rt, n)])
Bytes(rt, R) == rt.piece_size * Cardinality(R \ {Last(rt)})
                + (IF Last(rt) \in R THEN rt.size - Last(rt) * rt.piece_size ELSE 0)

Left(rt) == {n \in Numbers(rt) : Nth(rt, n) \in Pend}
Owed(rt) == IF Info(rt) \in Pend THEN rt.size ELSE 0
NonePending(rt) == Left(rt) = {} /\ Info(rt) \notin Pend
AllPending(rt) == Left(rt) = Numbers(rt) /\ Info(rt) \in Pend

(* sizes_ of the queue a task has.                                         *)
Accounted ==
  /\ \A rt \in Tasks, q \in Queue : task_threads_[rt.task_id] = q =>
       sizes_[q] = Bytes(rt, Left(rt)) - Owed(rt)
  /\ \A q \in Free : sizes_[q] = 0
  /\ \A rt \in Tasks : task_threads_[rt.task_id] = NoQueue =>
       NonePending(rt) \/ AllPending(rt)
  /\ \A q \in Queue : pc[q] = "finish" =>
       \A rt \in Tasks : data[q].task_id = rt.task_id => NonePending(rt)

(* Tasks of groups to come have left no trace.                             *)
NotBegun == \A i \in DOMAIN Waves : i > wave =>
  \A rt \in Waves[i] : NonePending(rt) /\ task_threads_[rt.task_id] = NoQueue
                       /\ acks[rt.task_id] = 0

Partition ==
  /\ \A i, j \in DOMAIN free_threads_ : free_threads_[i] = free_threads_[j] => i = j
  /\ \A q \in Queue : q \in Free <=> \A k \in Task : task_threads_[k] # q
  /\ \A j, k \in Task : task_threads_[j] = task_threads_[k] /\ j # k =>
                        task_threads_[j] = NoQueue

(* A sum that is not to be counted any more is in the file; a group is     *)
(* over, and the Repairer is destroyed, when its tasks are acknowledged.   *)
Stored ==
  /\ \A i \in 1 .. wave : \A rt \in Waves[i] : rt.tar_id = id =>
       \A n \in Numbers(rt) : n \in Left(rt) \/ Nth(rt, n) \in stored
  /\ \A rt \in Tasks : /\ acks[rt.task_id] <= 1
                       /\ acks[rt.task_id] = 1 =>
                            /\ rt.tar_id = id /\ NonePending(rt)
                            /\ task_threads_[rt.task_id] = NoQueue
  /\ closing # "no" => wave = Len(Waves)
  /\ \A i \in DOMAIN Waves : i < wave \/ closing # "no" =>
       \A rt \in Waves[i] : rt.tar_id = id => acks[rt.task_id] > 0

(* The holder of a mutex is in the middle of a frame.                      *)
Frames ==
  /\ \A q \in Queue : fields[q] # 0 => pc[q] = "send" /\ mtxs_[data[q].tar_id] = q
  /\ \A p \in Peer : mtxs_[p] = NoQueue => Len(wire[p]) % 4 = 0
  /\ \A p \in Peer : mtxs_[p] # NoQueue =>
       LET q == mtxs_[p]  len == Len(wire[p]) IN
       /\ data[q] # NoData /\ data[q].tar_id = p
       /\ fields[q] # 0 /\ len % 4 = fields[q]
       /\ wire[p][len - fields[q] + 1][1] = data[q]

Books == Partition /\ Accounted /\ NotBegun /\ Stored
Wires == Frames /\ NoInterleavedFrames
IInv == TypeOK /\ HandsMatch /\ Once /\ NoStrayItem /\ Books /\ Wires

-----------------------------------------------------------------------------
(* Tasks and items.                                                        *)
LEMMA TaskTypes ==
  ASSUME NEW rt \in Tasks
  PROVE  /\ rt.task_id \in Task /\ rt.tar_id \in Node /\ rt.offset \in Nat
         /\ rt.size \in Nat \ {0} /\ rt.piece_size \in Nat \ {0}
  <1>1. PICK i \in DOMAIN Waves : rt \in Waves[i]
    BY DEF Tasks
  <1>2. Waves[i] \in SUBSET RepairTask(Task, Node)
    BY WavesAssumption, ElementOfSeq
  <1> QED BY <1>1, <1>2 DEF RepairTask

LEMMA SameTask ==
  ASSUME NEW rt \in Tasks, NEW rs \in Tasks, rt.task_id = rs.task_id
  PROVE  rt = rs
  BY WavesAssumption DEF Tasks

LEMMA OneWave ==
  ASSUME NEW i \in DOMAIN Waves, NEW j \in DOMAIN Waves,
         NEW rt \in Waves[i], NEW rs \in Waves[j], rt.task_id = rs.task_id
  PROVE  i = j /\ rt = rs
  BY WavesAssumption

LEMMA NumbersAreSums ==
  ASSUME NEW rt \in Tasks PROVE Sums(rt) = {Nth(rt, n) : n \in Numbers(rt)}
  BY DEF Sums, PiecesOf, Nth, Numbers, SizeOf

LEMMA InfoFields ==
  ASSUME NEW rt \in Tasks
  PROVE  /\ Info(rt) \in Items
         /\ Info(rt).task_id = rt.task_id /\ Info(rt).size = rt.size
         /\ Info(rt).buf = nullptr /\ Info(rt).tar_id # id
  BY IdAssumption DEF Items, Info

LEMMA SumFields ==
  ASSUME NEW rt \in Tasks, NEW n \in Numbers(rt)
  PROVE  /\ Nth(rt, n) \in Items
         /\ Nth(rt, n).task_id = rt.task_id /\ Nth(rt, n).size = SizeOf(rt, n)
         /\ Nth(rt, n).buf # nullptr /\ Nth(rt, n).tar_id = rt.tar_id
         /\ Nth(rt, n) # Info(rt)
  <1>1. Nth(rt, n) \in Sums(rt)
    BY NumbersAreSums
  <1>2. Nth(rt, n).buf # nullptr /\ Info(rt).buf = nullptr
    BY DEF Nth, Sum, Get, nullptr, Info
  <1> QED BY <1>1, <1>2 DEF Items, Nth, Sum

LEMMA ItemCases ==
  ASSUME NEW d \in Items
  PROVE  \E rt \in Tasks : \/ d = Info(rt)
                           \/ \E n \in Numbers(rt) : d = Nth(rt, n)
  BY NumbersAreSums DEF Items

LEMMA NthInjective ==
  ASSUME NEW rt \in Tasks, NEW m \in Numbers(rt), NEW n \in Numbers(rt),
         Nth(rt, m) = Nth(rt, n)
  PROVE  m = n
  <1>1. Nth(rt, m).offset = Nth(rt, n).offset
    OBVIOUS
  <1>2. m \in Nat /\ n \in Nat
    BY TaskTypes DEF Numbers
  <1>3. rt.offset + m * rt.piece_size = rt.offset + n * rt.piece_size
    BY <1>1 DEF Nth, Sum
  <1>4. ASSUME NEW a \in Nat, NEW b \in Nat, NEW c \in Nat \ {0}, NEW o \in Nat,
               o + a * c = o + b * c
        PROVE  a = b
    BY <1>4
  <1> QED BY <1>2, <1>3, <1>4, TaskTypes

-----------------------------------------------------------------------------
(* The sizes of the pieces of a task add up to its own.                    *)
LEMMA LastNumber ==
  ASSUME NEW rt \in Tasks
  PROVE  /\ Last(rt) \in Nat
         /\ Last(rt) * rt.piece_size < rt.size
         /\ rt.size <= Last(rt) * rt.piece_size + rt.piece_size
         /\ Numbers(rt) = 0 .. Last(rt)
  <1> DEFINE b == rt.piece_size  L == Last(rt)
  <1>0. rt.size \in Nat \ {0} /\ b \in Nat \ {0}
    BY TaskTypes
  <1>1. /\ L \in Nat /\ b * L <= rt.size - 1 /\ rt.size - 1 < b * L + b
    BY <1>0 DEF Last
  <1>2. L * b < rt.size /\ rt.size <= L * b + b
    BY <1>0, <1>1
  <1>3. ASSUME NEW n \in Nat PROVE n * b < rt.size <=> n <= L
    <2> HIDE DEF L, b
    <2>1. ASSUME n <= L PROVE n * b <= L * b
      BY <1>0, <1>1, <2>1
    <2>2. ASSUME n > L PROVE n * b >= L * b + b
      <3>1. n = L + 1 + (n - L - 1) /\ n - L - 1 \in Nat
        BY <1>1, <2>2
      <3>2. ASSUME NEW m \in Nat PROVE (L + 1 + m) * b >= L * b + b
        BY <1>0, <1>1, <3>2
      <3> QED BY <3>1, <3>2
    <2>3. n * b \in Nat /\ L * b \in Nat
      BY <1>0, <1>1
    <2> QED BY <1>0, <1>1, <1>2, <2>1, <2>2, <2>3
  <1>4. ASSUME NEW n \in Nat, n <= L PROVE n <= rt.size
    <2>1. L * b >= L
      BY <1>0, <1>1
    <2> QED BY <1>0, <1>1, <1>2, <1>4, <2>1
  <1>5. Numbers(rt) = 0 .. L
    BY <1>0, <1>1, <1>3, <1>4 DEF Numbers
  <1> QED BY <1>1, <1>2, <1>5

LEMMA SizesOfPieces ==
  ASSUME NEW rt \in Tasks, NEW n \in Numbers(rt)
  PROVE  /\ SizeOf(rt, n) \in Nat \ {0}
         /\ SizeOf(rt, n) = IF n = Last(rt) THEN rt.size - Last(rt) * rt.piece_size
                                            ELSE rt.piece_size
  <1> DEFINE b == rt.piece_size  L == Last(rt)
  <1>0. rt.size \in Nat \ {0} /\ b \in Nat \ {0}
    BY TaskTypes
  <1>1. n \in Nat /\ n <= L /\ L \in Nat /\ L * b < rt.size /\ rt.size <= L * b + b
    BY LastNumber
  <1>2. CASE n = L
    BY <1>0, <1>1, <1>2 DEF SizeOf
  <1>3. CASE n < L
    <2>1. n * b + b <= L * b /\ n * b \in Nat /\ L * b \in Nat
      BY <1>0, <1>1, <1>3
    <2> QED BY <1>0, <1>1, <1>3, <2>1 DEF SizeOf
  <1> QED BY <1>1, <1>2, <1>3

LEMMA CountBelow ==
  ASSUME NEW L \in Nat, NEW S \in SUBSET (0 .. L)
  PROVE  /\ IsFiniteSet(S \ {L})
         /\ Cardinality(S \ {L}) \in Nat /\ Cardinality(S \ {L}) <= L
         /\ Cardinality(S \ {L}) = 0 => S \ {L} = {}
  <1>1. IsFiniteSet(0 .. L - 1) /\ Cardinality(0 .. L - 1) = L
    <2>1. 0 \in Int /\ L - 1 \in Int
      OBVIOUS
    <2> QED BY <2>1, FS_Interval
  <1>2. S \ {L} \in SUBSET (0 .. L - 1)
    OBVIOUS
  <1>3. IsFiniteSet(S \ {L}) /\ Cardinality(S \ {L}) <= Cardinality(0 .. L - 1)
    BY <1>1, <1>2, FS_Subset
  <1>4. Cardinality(S \ {L}) \in Nat
    BY <1>3, FS_CardinalityType
  <1>5. Cardinality(S \ {L}) = 0 => S \ {L} = {}
    BY <1>3, FS_EmptySet
  <1> QED BY <1>1, <1>3, <1>4, <1>5

LEMMA BytesOfAll == ASSUME NEW rt \in Tasks PROVE Bytes(rt, Numbers(rt)) = rt.size
  <1>1. /\ Last(rt) \in Nat /\ Numbers(rt) = 0 .. Last(rt)
        /\ rt.size \in Nat /\ rt.piece_size \in Nat
    BY LastNumber, TaskTypes
  <1>2. Numbers(rt) \ {Last(rt)} = 0 .. Last(rt) - 1
    BY <1>1
  <1>3. Cardinality(0 .. Last(rt) - 1) = Last(rt)
    BY <1>1, FS_Interval
  <1>4. /\ rt.piece_size * Last(rt) = Last(rt) * rt.piece_size
        /\ Last(rt) * rt.piece_size \in Nat /\ Last(rt) \in Numbers(rt)
    BY <1>1
  <1>5. Bytes(rt, Numbers(rt)) = Last(rt) * rt.piece_size
                                 + (rt.size - Last(rt) * rt.piece_size)
    BY <1>2, <1>3, <1>4 DEF Bytes
  <1> QED BY <1>1, <1>4, <1>5

LEMMA BytesOfNone == ASSUME NEW rt \in Tasks PROVE Bytes(rt, {}) = 0
  BY FS_EmptySet, TaskTypes DEF Bytes

LEMMA BytesBounds ==
  ASSUME NEW rt \in Tasks, NEW R \in SUBSET Numbers(rt)
  PROVE  /\ Bytes(rt, R) \in 0 .. rt.size
         /\ Bytes(rt, R) = 0 => R = {}
  <1>1. PICK L \in Nat, b \in Nat \ {0}, c \in Nat, s \in Nat :
          /\ L = Last(rt) /\ b = rt.piece_size /\ s = rt.size
          /\ c = Cardinality(R \ {L}) /\ c <= L /\ (c = 0 => R \ {L} = {})
          /\ L * b < s
    <2>1. Last(rt) \in Nat /\ R \in SUBSET (0 .. Last(rt))
      BY LastNumber
    <2>2. /\ Cardinality(R \ {Last(rt)}) \in Nat /\ Cardinality(R \ {Last(rt)}) <= Last(rt)
          /\ Cardinality(R \ {Last(rt)}) = 0 => R \ {Last(rt)} = {}
      BY <2>1, CountBelow
    <2> QED BY <2>2, LastNumber, TaskTypes
  <1>2. Bytes(rt, R) = b * c + (IF L \in R THEN s - L * b ELSE 0)
    BY <1>1 DEF Bytes
  <1>3. b * c \in Nat /\ L * b \in Nat /\ s - L * b \in Nat \ {0}
    BY <1>1
  <1>4. b * c <= L * b
    BY <1>1
  <1>5. ASSUME b * c = 0 PROVE c = 0
    BY <1>5
  <1>6. Bytes(rt, R) \in 0 .. s
    BY <1>2, <1>3, <1>4
  <1>7. ASSUME Bytes(rt, R) = 0 PROVE R = {}
    <2>1. L \notin R /\ b * c = 0
      BY <1>2, <1>3, <1>7
    <2> QED BY <1>1, <1>5, <2>1
  <1> QED BY <1>1, <1>6, <1>7

LEMMA BytesOfOneLess ==
  ASSUME NEW rt \in Tasks, NEW R \in SUBSET Numbers(rt), NEW n \in R
  PROVE  Bytes(rt, R \ {n}) = Bytes(rt, R) - SizeOf(rt, n)
  <1>1. PICK L \in Nat, b \in Nat \ {0}, c \in Nat, s \in Nat :
          /\ L = Last(rt) /\ b = rt.piece_size /\ s = rt.size
          /\ c = Cardinality(R \ {L}) /\ IsFiniteSet(R \ {L})
    <2>1. Last(rt) \in Nat /\ R \in SUBSET (0 .. Last(rt))
      BY LastNumber
    <2>2. Cardinality(R \ {Last(rt)}) \in Nat /\ IsFiniteSet(R \ {Last(rt)})
      BY <2>1, CountBelow
    <2> QED BY <2>1, <2>2, TaskTypes
  <1>2. Bytes(rt, R) = b * c + (IF L \in R THEN s - L * b ELSE 0)
    BY <1>1 DEF Bytes
  <1>3. Bytes(rt, R \ {n}) = b * Cardinality((R \ {n}) \ {L})
                             + (IF L \in R \ {n} THEN s - L * b ELSE 0)
    BY <1>1 DEF Bytes
  <1>4. PICK x \in Nat, y \in Nat : x = b * c /\ y = L * b
    BY <1>1
  <1>5. CASE n = L
    <2>1. (R \ {n}) \ {L} = R \ {L} /\ SizeOf(rt, n) = s - L * b
      BY <1>1, <1>5, SizesOfPieces
    <2>2. Bytes(rt, R \ {n}) = b * c + 0
      BY <1>1, <1>3, <1>5, <2>1
    <2> QED BY <1>2, <1>4, <1>5, <2>1, <2>2
  <1>6. CASE n # L
    <2>1. (R \ {n}) \ {L} = (R \ {L}) \ {n} /\ n \in R \ {L}
      BY <1>6
    <2>2. Cardinality((R \ {L}) \ {n}) = c - 1
      BY <1>1, <2>1, FS_RemoveElement
    <2>3. SizeOf(rt, n) = b
      BY <1>1, <1>6, SizesOfPieces
    <2>4. b * (c - 1) = b * c - b
      BY <1>1
    <2>5. Bytes(rt, R \ {n}) = (b * c - b) + (IF L \in R THEN s - L * b ELSE 0)
      BY <1>3, <1>6, <2>1, <2>2, <2>4
    <2> QED BY <1>2, <1>4, <2>3, <2>5
  <1> QED BY <1>5, <1>6

-----------------------------------------------------------------------------
(* What a step changes of the books.                                       *)
LEMMA QueuesAreNot == NoQueue \notin Queue
  BY QueueAssumption DEF Queue

LEMMA PendingSame ==
  ASSUME Pend' = Pend, NEW rt
  PROVE  /\ Left(rt)' = Left(rt) /\ Owed(rt)' = Owed(rt)
         /\ NonePending(rt)' <=> NonePending(rt)
         /\ AllPending(rt)' <=> AllPending(rt)
  BY DEF Left, Owed, NonePending, AllPending

(* An item that moves on leaves the books alone.                           *)
LEMMA BooksKept ==
  ASSUME Books, Pend' = Pend,
         UNCHANGED <<wave, closing, task_threads_, free_threads_, sizes_, stored, acks>>,
         \A q \in Queue : pc'[q] = "finish" => pc[q] = "finish" /\ data'[q] = data[q]
  PROVE  Books'
  <1>1. Partition'
    BY DEF Books, Partition, Free
  <1>2. Accounted'
    BY PendingSame DEF Books, Accounted, Free
  <1>3. NotBegun'
    BY PendingSame DEF Books, NotBegun
  <1>4. Stored'
    BY PendingSame DEF Books, Stored
  <1> QED BY <1>1, <1>2, <1>3, <1>4 DEF Books

(* Only a thread that sends touches the wire.                              *)
LEMMA WiresKept ==
  ASSUME Wires, TypeOK, UNCHANGED <<fields, mtxs_, wire>>,
         \A q \in Queue : fields[q] # 0 => pc'[q] = pc[q] /\ data'[q] = data[q]
  PROVE  Wires'
  <1>1. \A p \in Peer : mtxs_[p] # NoQueue => mtxs_[p] \in Queue
    BY DEF TypeOK
  <1>2. Frames'
    <2>1. \A q \in Queue : fields[q] # 0 => pc'[q] = "send" /\ mtxs_[data'[q].tar_id] = q
      BY DEF Wires, Frames
    <2>2. \A p \in Peer : mtxs_[p] = NoQueue => Len(wire[p]) % 4 = 0
      BY DEF Wires, Frames
    <2>3. \A p \in Peer : mtxs_[p] # NoQueue =>
            /\ data'[mtxs_[p]] # NoData /\ data'[mtxs_[p]].tar_id = p
            /\ fields[mtxs_[p]] # 0 /\ Len(wire[p]) % 4 = fields[mtxs_[p]]
            /\ wire[p][Len(wire[p]) - fields[mtxs_[p]] + 1][1] = data'[mtxs_[p]]
      <3> SUFFICES ASSUME NEW p \in Peer, mtxs_[p] # NoQueue
                   PROVE  /\ data'[mtxs_[p]] # NoData /\ data'[mtxs_[p]].tar_id = p
                          /\ fields[mtxs_[p]] # 0 /\ Len(wire[p]) % 4 = fields[mtxs_[p]]
                          /\ wire[p][Len(wire[p]) - fields[mtxs_[p]] + 1][1] = data'[mtxs_[p]]
        OBVIOUS
      <3>1. /\ data[mtxs_[p]] # NoData /\ data[mtxs_[p]].tar_id = p
            /\ fields[mtxs_[p]] # 0 /\ Len(wire[p]) % 4 = fields[mtxs_[p]]
            /\ wire[p][Len(wire[p]) - fields[mtxs_[p]] + 1][1] = data[mtxs_[p]]
        BY DEF Wires, Frames
      <3>2. data'[mtxs_[p]] = data[mtxs_[p]]
        BY <1>1, <3>1
      <3> QED BY ONLY <3>1, <3>2
    <2> QED BY <2>1, <2>2, <2>3 DEF Frames
  <1>3. NoInterleavedFrames'
    BY DEF Wires, NoInterleavedFrames
  <1> QED BY <1>2, <1>3 DEF Wires

LEMMA Appended ==
  ASSUME NEW S, NEW s \in Seq(S), NEW e \in S
  PROVE  /\ Append(s, e) \in Seq(S)
         /\ DOMAIN Append(s, e) = DOMAIN s \cup {Len(s) + 1}
         /\ Len(s) + 1 \notin DOMAIN s /\ Append(s, e)[Len(s) + 1] = e
         /\ \A i \in DOMAIN s : Append(s, e)[i] = s[i]
  BY AppendProperties, LenProperties

LEMMA Beheaded ==
  ASSUME NEW S, NEW s \in Seq(S), s # <<>>
  PROVE  /\ Tail(s) \in Seq(S) /\ Head(s) \in S /\ Head(s) = s[1] /\ 1 \in DOMAIN s
         /\ \A i \in DOMAIN s : i = 1 \/ (i \in Nat /\ i - 1 \in DOMAIN Tail(s))
         /\ \A i \in DOMAIN Tail(s) : i \in Nat \ {0} /\ i + 1 \in DOMAIN s
                                       /\ Tail(s)[i] = s[i + 1]
  BY HeadTailProperties, LenProperties

LEMMA InitHolds == Init => IInv
  <1> SUFFICES ASSUME Init PROVE IInv
    OBVIOUS
  <1>1. 1 \in DOMAIN Waves /\ wave = 1 /\ Waves[1] \subseteq Tasks
    BY WavesAssumption, LenProperties, EmptySeq DEF Init, Tasks
  <1>2. coming = ItemsOf(Waves[1]) /\ coming \subseteq Items
    BY <1>1 DEF Init, ItemsOf, Items
  <1>3. free_threads_ \in Seq(Queue) /\ DOMAIN free_threads_ = 1 .. QueueN
        /\ \A i \in 1 .. QueueN : free_threads_[i] = i - 1
    BY QueueAssumption DEF Init, Queue
  <1>4. TypeOK
    BY <1>1, <1>2, <1>3, EmptySeq DEF Init, TypeOK
  <1>5. InQueues = {}
    BY DEF Init, InQueues
  <1>6. HandsMatch /\ Once /\ NoStrayItem
    BY <1>2, <1>5, NoDataAssumption DEF Init, HandsMatch, Once, NoStrayItem
  <1>7. Pend = coming
    BY <1>5 DEF Init, Pend, Counting
  <1>8. Free = Queue
    <2>1. \A q \in Queue : q + 1 \in 1 .. QueueN /\ free_threads_[q + 1] = q
      BY <1>3, QueueAssumption DEF Queue
    <2>2. \A i \in 1 .. QueueN : free_threads_[i] \in Queue
      BY <1>3, QueueAssumption DEF Queue
    <2> QED BY <1>3, <2>1, <2>2 DEF Free
  <1>9. Partition
    BY <1>3, <1>8, QueuesAreNot DEF Partition, Init
  <1>10. \A rt \in Waves[1] : AllPending(rt)
    BY <1>1, <1>2, <1>7, NumbersAreSums DEF AllPending, Left, ItemsOf
  <1>11. \A i \in DOMAIN Waves \ {1} : \A rt \in Waves[i] : NonePending(rt)
    <2> SUFFICES ASSUME NEW i \in DOMAIN Waves \ {1}, NEW rt \in Waves[i]
                 PROVE  NonePending(rt)
      OBVIOUS
    <2>1. rt \in Tasks
      BY DEF Tasks
    <2>2. \A d \in coming : \E rs \in Waves[1] : d.task_id = rs.task_id
      BY <1>1, <1>2, NumbersAreSums, InfoFields, SumFields DEF ItemsOf
    <2>3. \A d \in coming : d.task_id # rt.task_id
      BY <1>1, <2>2, OneWave
    <2> QED BY <1>7, <2>1, <2>3, InfoFields, SumFields DEF NonePending, Left
  <1>12. Accounted
    <2>1. \A rt \in Tasks : NonePending(rt) \/ AllPending(rt)
      BY <1>10, <1>11 DEF Tasks
    <2>2. \A rt \in Tasks : task_threads_[rt.task_id] = NoQueue
      BY TaskTypes DEF Init
    <2>3. Free \subseteq Queue
      BY <1>8
    <2> QED BY <2>1, <2>2, <2>3, QueuesAreNot DEF Accounted, Init
  <1>13. NotBegun
    BY <1>1, <1>11, TaskTypes DEF NotBegun, Init, Tasks
  <1>14. Stored
    <2>1. \A i \in 1 .. wave : i = 1
      BY <1>1
    <2>2. \A i \in DOMAIN Waves : ~ (i < wave)
      BY <1>1, WavesAssumption, LenProperties
    <2> QED BY <1>10, <2>1, <2>2, TaskTypes DEF Stored, Init, AllPending
  <1>15. Wires
    BY EmptySeq DEF Wires, Frames, NoInterleavedFrames, Init
  <1> QED BY <1>4, <1>6, <1>9, <1>12, <1>13, <1>14, <1>15 DEF IInv, Books

-----------------------------------------------------------------------------
(* Items on their way to a queue.                                          *)
LEMMA InQueuesAreItems == ASSUME TypeOK PROVE InQueues \subseteq Items
  <1>1. \A q \in Queue : \A i \in DOMAIN data_queue[q] : data_queue[q][i] \in Items
    BY ElementOfSeq, LenProperties DEF TypeOK
  <1> QED BY <1>1 DEF InQueues

LEMMA PendAreItems == ASSUME TypeOK, HandsMatch PROVE Pend \subseteq Items
  <1>1. \A p \in Pusher : ppc[p] # "idle" => pdata[p] \in Items
    BY DEF TypeOK, HandsMatch
  <1>2. \A q \in Queue : pc[q] \in Counting => data[q] \in Items
    BY DEF TypeOK, HandsMatch, Counting
  <1> QED BY <1>1, <1>2, InQueuesAreItems DEF Pend, TypeOK

LEMMA SomethingPending ==
  ASSUME NEW rt \in Tasks, NEW d \in Items, d \in Pend, d.task_id = rt.task_id
  PROVE  ~ NonePending(rt)
  <1>1. PICK rs \in Tasks : d = Info(rs) \/ \E n \in Numbers(rs) : d = Nth(rs, n)
    BY ItemCases
  <1>2. rs = rt
    BY <1>1, InfoFields, SumFields, SameTask
  <1> QED BY <1>1, <1>2 DEF NonePending, Left

LEMMA TakeHolds == ASSUME IInv, NEW p \in Pusher, Take(p) PROVE IInv'
  <1> USE DEF IInv
  <1>1. PICK d \in coming :
          /\ ppc[p] = "idle" /\ pdata[p] = NoData
          /\ coming' = coming \ {d}
          /\ pdata' = [pdata EXCEPT ![p] = d]
          /\ ppc' = [ppc EXCEPT ![p] = "distribute"]
          /\ UNCHANGED <<wave, closing, pqid, data_queue, task_threads_, free_threads_,
                         sizes_, pc, data, fields, mtxs_, wire, stored, acks>>
    BY DEF Take, HandsMatch, threadVars
  <1>2. d \in Items /\ d # NoData
    BY NoDataAssumption DEF TypeOK
  <1>3. InQueues' = InQueues
    BY <1>1 DEF InQueues
  <1>4. TypeOK'
    BY <1>1, <1>2 DEF TypeOK
  <1>5. HandsMatch'
    BY <1>1, <1>2 DEF HandsMatch, TypeOK
  <1>6. Once'
    BY <1>1, <1>2, <1>3 DEF Once, TypeOK
  <1>7. NoStrayItem'
    BY <1>1 DEF NoStrayItem, TypeOK
  <1>8. Pend' = Pend
    <2>1. {pdata[r] : r \in {r \in Pusher : ppc[r] # "idle"}}'
            = {pdata[r] : r \in {r \in Pusher : ppc[r] # "idle"}} \cup {d}
      BY <1>1 DEF TypeOK
    <2> QED BY <1>1, <1>3, <2>1 DEF Pend
  <1>9. Books'
    BY <1>1, <1>8, BooksKept
  <1>10. Wires'
    BY <1>1, WiresKept
  <1> QED BY <1>4, <1>5, <1>6, <1>7, <1>9, <1>10

LEMMA PushHolds == ASSUME IInv, NEW p \in Pusher, Push(p) PROVE IInv'
  <1> USE DEF IInv
  <1> DEFINE d == pdata[p]  h == pqid[p]
  <1>1. /\ ppc[p] = "push" /\ d \in Items /\ d # NoData /\ h \in Queue
        /\ data_queue' = [data_queue EXCEPT ![h] = Append(data_queue[h], d)]
        /\ ppc' = [ppc EXCEPT ![p] = "idle"]
        /\ pdata' = [pdata EXCEPT ![p] = NoData]
        /\ pqid' = [pqid EXCEPT ![p] = NoQueue]
        /\ UNCHANGED <<wave, coming, closing, task_threads_, free_threads_,
                       sizes_, pc, data, fields, mtxs_, wire, stored, acks>>
    BY DEF Push, HandsMatch, TypeOK, threadVars
  <1>2. task_threads_[d.task_id] = h
    BY <1>1 DEF NoStrayItem
  <1> HIDE DEF d, h
  <1>3. /\ data_queue'[h] \in Seq(Items)
        /\ DOMAIN data_queue'[h] = DOMAIN data_queue[h] \cup {Len(data_queue[h]) + 1}
        /\ Len(data_queue[h]) + 1 \notin DOMAIN data_queue[h]
        /\ data_queue'[h][Len(data_queue[h]) + 1] = d
        /\ \A i \in DOMAIN data_queue[h] : data_queue'[h][i] = data_queue[h][i]
        /\ \A q \in Queue \ {h} : data_queue'[q] = data_queue[q]
    BY <1>1, Appended DEF TypeOK
  <1>4. InQueues' = InQueues \cup {d}
    <2>1. InQueues' \subseteq InQueues \cup {d}
      <3> SUFFICES ASSUME NEW q \in Queue, NEW i \in DOMAIN data_queue'[q]
                   PROVE  data_queue'[q][i] \in InQueues \cup {d}
        BY DEF InQueues
      <3> QED BY <1>3 DEF InQueues
    <2>2. InQueues \subseteq InQueues'
      <3> SUFFICES ASSUME NEW q \in Queue, NEW i \in DOMAIN data_queue[q]
                   PROVE  data_queue[q][i] \in InQueues'
        BY DEF InQueues
      <3>1. i \in DOMAIN data_queue'[q] /\ data_queue'[q][i] = data_queue[q][i]
        BY <1>3
      <3> QED BY <3>1 DEF InQueues
    <2>3. d \in InQueues'
      BY <1>1, <1>3 DEF InQueues
    <2> QED BY <2>1, <2>2, <2>3
  <1>5. TypeOK'
    BY <1>1, <1>3 DEF TypeOK
  <1>6. HandsMatch'
    BY <1>1 DEF HandsMatch, TypeOK
  <1>7. Once'
    <2>1. /\ d \notin InQueues
          /\ \A r \in Pusher : r # p => pdata[r] # d
          /\ \A q \in Queue : data[q] # d
          /\ d \notin coming
      BY <1>1 DEF Once, d
    <2>2. \A q \in Queue : \A i \in DOMAIN data_queue[q] : data_queue[q][i] # d
      BY <2>1 DEF InQueues
    <2>3. \A q, r \in Queue : \A i \in DOMAIN data_queue'[q] : \A j \in DOMAIN data_queue'[r] :
            data_queue'[q][i] = data_queue'[r][j] => q = r /\ i = j
      BY <1>3, <2>2 DEF Once
    <2>4. (\A r \in Pusher : pdata[r] # NoData => pdata[r] \notin InQueues)
          /\ \A r \in coming : r \notin InQueues
      BY DEF Once
    <2>5. \A e \in coming : /\ \A r \in Pusher : pdata'[r] # e
                            /\ e \notin InQueues' /\ \A q \in Queue : data[q] # e
      BY <1>1, <1>4, <2>1, <2>4, NoDataAssumption DEF Once, TypeOK
    <2>6. \A r \in Pusher : pdata'[r] # NoData =>
            /\ \A u \in Pusher : pdata'[u] = pdata'[r] => u = r
            /\ pdata'[r] \notin InQueues' /\ \A q \in Queue : data[q] # pdata'[r]
      <3> SUFFICES ASSUME NEW r \in Pusher, r # p, pdata[r] # NoData
                   PROVE  /\ \A u \in Pusher : pdata'[u] = pdata[r] => u = r
                          /\ pdata[r] \notin InQueues'
                          /\ \A q \in Queue : data[q] # pdata[r]
        BY <1>1 DEF TypeOK
      <3> QED BY <1>1, <1>4, <2>1, <2>4 DEF Once, TypeOK
    <2>7. \A q \in Queue : data[q] # NoData => data[q] \notin InQueues'
      BY <1>4, <2>1 DEF Once
    <2> QED BY <1>1, <2>3, <2>5, <2>6, <2>7 DEF Once
  <1>8. NoStrayItem'
    <2>1. \A q \in Queue : \A i \in DOMAIN data_queue'[q] :
            task_threads_[data_queue'[q][i].task_id] = q
      BY <1>2, <1>3 DEF NoStrayItem
    <2> QED BY <1>1, <2>1 DEF NoStrayItem, TypeOK
  <1>9. Pend' = Pend
    <2>1. {pdata[r] : r \in {r \in Pusher : ppc[r] # "idle"}}
            = {pdata[r] : r \in {r \in Pusher : ppc[r] # "idle"}}' \cup {d}
      BY <1>1 DEF TypeOK, d
    <2> QED BY <1>1, <1>4, <2>1 DEF Pend
  <1>10. Books'
    BY <1>1, <1>9, BooksKept
  <1>11. Wires'
    BY <1>1, WiresKept
  <1> QED BY <1>5, <1>6, <1>7, <1>8, <1>10, <1>11

LEMMA ProcessHolds == ASSUME IInv, NEW q \in Queue, Process(q) PROVE IInv'
  <1> USE DEF IInv
  <1> DEFINE d == Head(data_queue[q])
  <1>1. /\ pc[q] = "idle" /\ data[q] = NoData /\ data_queue[q] # <<>>
        /\ data_queue' = [data_queue EXCEPT ![q] = Tail(data_queue[q])]
        /\ data' = [data EXCEPT ![q] = d]
        /\ pc' = [pc EXCEPT ![q] = IF d.buf = nullptr THEN "info"
                                   ELSE IF d.tar_id = id THEN "store" ELSE "send"]
        /\ UNCHANGED <<wave, coming, closing, ppc, pdata, pqid, task_threads_,
                       free_threads_, sizes_, fields, mtxs_, wire, stored, acks>>
    BY DEF Process, HandsMatch, pushVars
  <1>2. /\ data_queue'[q] \in Seq(Items) /\ d \in Items /\ d = data_queue[q][1]
        /\ 1 \in DOMAIN data_queue[q]
        /\ \A i \in DOMAIN data_queue[q] :
             i = 1 \/ (i \in Nat /\ i - 1 \in DOMAIN data_queue'[q])
        /\ \A i \in DOMAIN data_queue'[q] : i \in Nat \ {0} /\ i + 1 \in DOMAIN data_queue[q]
             /\ data_queue'[q][i] = data_queue[q][i + 1]
        /\ \A r \in Queue \ {q} : data_queue'[r] = data_queue[r]
    BY <1>1, Beheaded DEF TypeOK
  <1> HIDE DEF d
  <1>3. d # NoData /\ d \in InQueues
    BY <1>2, NoDataAssumption DEF InQueues
  <1>4. InQueues = InQueues' \cup {d} /\ d \notin InQueues'
    <2>1. \A e \in InQueues' : e \in InQueues /\ e # d
      <3> SUFFICES ASSUME NEW r \in Queue, NEW i \in DOMAIN data_queue'[r]
                   PROVE  data_queue'[r][i] \in InQueues /\ data_queue'[r][i] # d
        BY DEF InQueues
      <3>1. CASE r = q
        <4>1. i + 1 \in DOMAIN data_queue[q] /\ data_queue'[r][i] = data_queue[q][i + 1]
              /\ i + 1 # 1
          BY <1>2, <3>1
        <4> QED BY <1>2, <4>1 DEF InQueues, Once
      <3>2. CASE r # q
        <4>1. i \in DOMAIN data_queue[r] /\ data_queue'[r][i] = data_queue[r][i]
          BY <1>2, <3>2
        <4> QED BY <1>2, <3>2, <4>1 DEF InQueues, Once
      <3> QED BY <3>1, <3>2
    <2>2. \A e \in InQueues : e \in InQueues' \/ e = d
      <3> SUFFICES ASSUME NEW r \in Queue, NEW i \in DOMAIN data_queue[r]
                   PROVE  data_queue[r][i] \in InQueues' \/ data_queue[r][i] = d
        BY DEF InQueues
      <3>1. CASE r = q /\ i # 1
        <4>1. i - 1 \in DOMAIN data_queue'[q] /\ i = (i - 1) + 1
          BY <1>2, <3>1
        <4>2. data_queue'[q][i - 1] = data_queue[r][i]
          BY <1>2, <3>1, <4>1
        <4> QED BY <4>1, <4>2 DEF InQueues
      <3>2. CASE r # q
        BY <1>2, <3>2 DEF InQueues
      <3> QED BY <1>2, <3>1, <3>2
    <2> QED BY <1>3, <2>1, <2>2
  <1>5. TypeOK'
    BY <1>1, <1>2 DEF TypeOK
  <1>6. HandsMatch'
    BY <1>1, <1>3 DEF HandsMatch, TypeOK
  <1>7. Once'
    <2>1. \A r, u \in Queue : \A i \in DOMAIN data_queue'[r] : \A j \in DOMAIN data_queue'[u] :
            data_queue'[r][i] = data_queue'[u][j] => r = u /\ i = j
      <3> SUFFICES ASSUME NEW r \in Queue, NEW u \in Queue, NEW i \in DOMAIN data_queue'[r],
                          NEW j \in DOMAIN data_queue'[u],
                          data_queue'[r][i] = data_queue'[u][j]
                   PROVE  r = u /\ i = j
        OBVIOUS
      <3> DEFINE x == IF r = q THEN i + 1 ELSE i
                 y == IF u = q THEN j + 1 ELSE j
      <3>1. x \in DOMAIN data_queue[r] /\ data_queue'[r][i] = data_queue[r][x]
        BY <1>2
      <3>2. y \in DOMAIN data_queue[u] /\ data_queue'[u][j] = data_queue[u][y]
        BY <1>2
      <3> HIDE DEF x, y
      <3>3. data_queue[r][x] = data_queue[u][y] => r = u /\ x = y
        BY <3>1, <3>2 DEF Once
      <3>4. r = u /\ x = y
        BY <3>1, <3>2, <3>3
      <3> QED BY <1>2, <3>4 DEF x, y
    <2>2. /\ \A e \in coming : e # d
          /\ \A p \in Pusher : pdata[p] # d
          /\ \A r \in Queue : data[r] # d
      BY <1>3 DEF Once
    <2> QED BY <1>1, <1>4, <2>1, <2>2 DEF Once, TypeOK
  <1>8. NoStrayItem'
    <2>1. \A r \in Queue : \A i \in DOMAIN data_queue'[r] :
            task_threads_[data_queue'[r][i].task_id] = r
      BY <1>2 DEF NoStrayItem
    <2>2. task_threads_[d.task_id] = q
      BY <1>2 DEF NoStrayItem
    <2> QED BY <1>1, <2>1, <2>2 DEF NoStrayItem, TypeOK
  <1>9. Pend' = Pend
    <2>1. {data[r] : r \in {r \in Queue : pc[r] \in Counting}}'
            = {data[r] : r \in {r \in Queue : pc[r] \in Counting}} \cup {d}
      BY <1>1 DEF TypeOK, Counting
    <2> QED BY <1>1, <1>4, <2>1 DEF Pend
  <1>10. Books'
    <2>1. \A r \in Queue : pc'[r] = "finish" => pc[r] = "finish" /\ data'[r] = data[r]
      BY <1>1 DEF TypeOK
    <2> QED BY <1>1, <1>9, <2>1, BooksKept
  <1>11. Wires'
    <2>1. fields[q] = 0
      BY <1>1 DEF Wires, Frames, TypeOK
    <2>2. \A r \in Queue : fields[r] # 0 => pc'[r] = pc[r] /\ data'[r] = data[r]
      BY <1>1, <2>1 DEF TypeOK
    <2> QED BY <1>1, <2>2, WiresKept
  <1> QED BY <1>5, <1>6, <1>7, <1>8, <1>10, <1>11

(* The queue that is handed out has counted nothing; neither has the task. *)
LEMMA DistributeHolds ==
  ASSUME IInv, NEW p \in Pusher, Distribute(p) PROVE IInv'
  <1> USE DEF IInv
  <1> DEFINE d == pdata[p]  k == d.task_id
  <1>1. /\ ppc[p] = "distribute" /\ d \in Items
        /\ ppc' = [ppc EXCEPT ![p] = "push"]
        /\ UNCHANGED <<wave, coming, closing, pdata, data_queue, sizes_, pc, data, fields,
                       mtxs_, wire, stored, acks>>
    BY DEF Distribute, HandsMatch, TypeOK, threadVars
  <1>2. PICK rt \in Tasks : k = rt.task_id
    BY <1>1, ItemCases, InfoFields, SumFields
  <1>3. k \in Task
    BY <1>2, TaskTypes
  <1>4. d \in Pend
    BY <1>1 DEF Pend
  <1>5. InQueues' = InQueues
    BY <1>1 DEF InQueues
  <1>6. Pend' = Pend
    <2>1. {pdata[r] : r \in {r \in Pusher : ppc[r] # "idle"}}'
            = {pdata[r] : r \in {r \in Pusher : ppc[r] # "idle"}}
      BY <1>1 DEF TypeOK
    <2> QED BY <1>1, <1>5, <2>1 DEF Pend
  <1>7. Once'
    BY <1>1, <1>5 DEF Once
  <1>8. Wires'
    BY <1>1, WiresKept
  <1>9. CASE /\ task_threads_[k] # NoQueue
             /\ pqid' = [pqid EXCEPT ![p] = task_threads_[k]]
             /\ UNCHANGED <<task_threads_, free_threads_>>
    <2>1. task_threads_[k] \in Queue
      BY <1>3, <1>9 DEF TypeOK
    <2>2. TypeOK'
      BY <1>1, <1>9, <2>1 DEF TypeOK
    <2>3. HandsMatch'
      BY <1>1, <1>9, <2>1 DEF HandsMatch, TypeOK
    <2>4. NoStrayItem'
      BY <1>1, <1>9 DEF NoStrayItem, TypeOK
    <2>5. Books'
      BY <1>1, <1>6, <1>9, BooksKept
    <2> QED BY <1>7, <1>8, <2>2, <2>3, <2>4, <2>5
  <1>10. CASE /\ task_threads_[k] = NoQueue
              /\ free_threads_ # <<>>
              /\ pqid' = [pqid EXCEPT ![p] = Head(free_threads_)]
              /\ task_threads_' = [task_threads_ EXCEPT ![k] = Head(free_threads_)]
              /\ free_threads_' = Tail(free_threads_)
    <2> HIDE DEF d, k
    <2>1. PICK h \in Queue : h = Head(free_threads_) /\ h = free_threads_[1]
                             /\ 1 \in DOMAIN free_threads_
      BY <1>10, Beheaded DEF TypeOK
    <2>2. /\ free_threads_' \in Seq(Queue)
          /\ \A i \in DOMAIN free_threads_ :
               i = 1 \/ (i \in Nat /\ i - 1 \in DOMAIN free_threads_')
          /\ \A i \in DOMAIN free_threads_' :
               /\ i \in Nat \ {0} /\ i + 1 \in DOMAIN free_threads_
               /\ free_threads_'[i] = free_threads_[i + 1]
      BY <1>10, Beheaded DEF TypeOK
    <2>3. \A i, j \in DOMAIN free_threads_ : free_threads_[i] = free_threads_[j] => i = j
      BY DEF Books, Partition
    <2>4. Free' = Free \ {h} /\ h \in Free
      <3>1. \A q \in Free' : q \in Free /\ q # h
        BY <2>1, <2>2, <2>3 DEF Free
      <3>2. \A q \in Free : q = h \/ q \in Free'
        <4> SUFFICES ASSUME NEW i \in DOMAIN free_threads_, i # 1
                     PROVE  free_threads_[i] \in Free'
          BY <2>1 DEF Free
        <4>1. i - 1 \in DOMAIN free_threads_' /\ (i - 1) + 1 = i
          BY <2>2
        <4> QED BY <2>2, <4>1 DEF Free
      <3> QED BY <2>1, <3>1, <3>2 DEF Free
    <2>5. /\ task_threads_'[k] = h
          /\ \A j \in Task : j # k => task_threads_'[j] = task_threads_[j]
      BY <1>3, <1>10, <2>1 DEF TypeOK
    <2>6. TypeOK'
      BY <1>1, <1>3, <1>10, <2>1, <2>2 DEF TypeOK
    <2>7. HandsMatch'
      BY <1>1, <1>10, <2>1 DEF HandsMatch, TypeOK
    <2>8. \A e \in Items : task_threads_[e.task_id] \in Queue
                           => task_threads_'[e.task_id] = task_threads_[e.task_id]
      <3>1. \A e \in Items : e.task_id \in Task
        BY ItemCases, InfoFields, SumFields, TaskTypes
      <3> QED BY <1>10, <2>5, <3>1, QueuesAreNot
    <2>9. NoStrayItem'
      <3>1. \A r \in Pusher : ppc'[r] = "push" => task_threads_'[pdata'[r].task_id] = pqid'[r]
        <4> SUFFICES ASSUME NEW r \in Pusher, ppc'[r] = "push"
                     PROVE  task_threads_'[pdata[r].task_id] = pqid'[r]
          BY <1>1
        <4>1. CASE r = p
          BY <1>10, <2>1, <2>5, <4>1 DEF TypeOK, k, d
        <4>2. CASE r # p
          <5>1. ppc[r] = "push" /\ pqid'[r] = pqid[r] /\ pqid[r] \in Queue
                /\ pdata[r] \in Items
            BY <1>1, <1>10, <4>2 DEF TypeOK, HandsMatch
          <5> QED BY <2>8, <5>1 DEF NoStrayItem
        <4> QED BY <4>1, <4>2
      <3>2. \A q \in Queue : \A i \in DOMAIN data_queue[q] :
              task_threads_'[data_queue[q][i].task_id] = q
        <4>1. \A q \in Queue : \A i \in DOMAIN data_queue[q] : data_queue[q][i] \in Items
          BY InQueuesAreItems DEF InQueues
        <4> QED BY <2>8, <4>1 DEF NoStrayItem
      <3>3. \A q \in Queue : data[q] # NoData => task_threads_'[data[q].task_id] = q
        <4> SUFFICES ASSUME NEW q \in Queue, data[q] # NoData
                     PROVE  task_threads_'[data[q].task_id] = q
          OBVIOUS
        <4>1. data[q] \in Items
          BY DEF TypeOK
        <4>2. task_threads_[data[q].task_id] = q
          BY DEF NoStrayItem
        <4> QED BY <2>8, <4>1, <4>2
      <3> QED BY <1>1, <3>1, <3>2, <3>3 DEF NoStrayItem
    <2>10. Partition'
      <3>1. \A i, j \in DOMAIN free_threads_' :
              free_threads_'[i] = free_threads_'[j] => i = j
        <4> SUFFICES ASSUME NEW i \in DOMAIN free_threads_', NEW j \in DOMAIN free_threads_',
                            free_threads_'[i] = free_threads_'[j]
                     PROVE  i = j
          OBVIOUS
        <4>1. i + 1 = j + 1 /\ i \in Nat /\ j \in Nat
          BY <2>2, <2>3
        <4> QED BY <4>1
      <3>2. \A q \in Queue : q \in Free' <=> \A j \in Task : task_threads_'[j] # q
        BY <1>3, <1>10, <2>4, <2>5, QueuesAreNot DEF Books, Partition
      <3>3. \A j \in Task : task_threads_[j] # h
        BY <2>4 DEF Books, Partition
      <3>4. \A i, j \in Task : task_threads_'[i] = task_threads_'[j] /\ i # j =>
              task_threads_'[i] = NoQueue
        BY <2>5, <3>3 DEF Books, Partition
      <3> QED BY <3>1, <3>2, <3>4 DEF Partition
    <2>11. AllPending(rt)
      BY <1>1, <1>2, <1>4, <1>10, SomethingPending DEF Books, Accounted, k, d
    <2>12. Accounted'
      <3>1. sizes_[h] = Bytes(rt, Left(rt)) - Owed(rt)
        BY <2>4, <2>11, BytesOfAll, TaskTypes DEF Books, Accounted, AllPending, Owed
      <3>2. \A rs \in Tasks, q \in Queue : task_threads_'[rs.task_id] = q =>
              sizes_[q] = Bytes(rs, Left(rs)) - Owed(rs)
        <4> SUFFICES ASSUME NEW rs \in Tasks, NEW q \in Queue, task_threads_'[rs.task_id] = q
                     PROVE  sizes_[q] = Bytes(rs, Left(rs)) - Owed(rs)
          OBVIOUS
        <4>1. CASE rs.task_id = k
          BY <1>2, <2>5, <3>1, <4>1, SameTask
        <4>2. CASE rs.task_id # k
          BY <2>5, <4>2, TaskTypes DEF Books, Accounted
        <4> QED BY <4>1, <4>2
      <3>3. \A rs \in Tasks : task_threads_'[rs.task_id] = NoQueue =>
              task_threads_[rs.task_id] = NoQueue
        BY <1>10, <2>5, TaskTypes
      <3>4. \A q \in Free' : sizes_[q] = 0
        BY <2>4 DEF Books, Accounted
      <3> QED BY <1>1, <1>6, <3>2, <3>3, <3>4, PendingSame DEF Books, Accounted
    <2>13. \A rs \in Tasks : NonePending(rs) => rs.task_id # k
      BY <1>1, <1>2, <1>4, SomethingPending, SameTask DEF k, d
    <2>14. NotBegun'
      <3>1. \A i \in DOMAIN Waves : \A rs \in Waves[i] : rs \in Tasks
        BY DEF Tasks
      <3> QED BY <1>1, <1>6, <2>5, <2>13, <3>1, PendingSame, TaskTypes DEF Books, NotBegun
    <2>15. Stored'
      <3>1. \A rs \in Tasks : acks[rs.task_id] = 1 =>
              rs.tar_id = id /\ NonePending(rs) /\ task_threads_'[rs.task_id] = NoQueue
        BY <2>5, <2>13, TaskTypes DEF Books, Stored
      <3> QED BY <1>1, <1>6, <3>1, PendingSame DEF Books, Stored
    <2> QED BY <1>7, <1>8, <2>6, <2>7, <2>9, <2>10, <2>12, <2>14, <2>15 DEF Books
  <1> QED BY <1>9, <1>10 DEF Distribute

-----------------------------------------------------------------------------
(* Groups begin and end.                                                   *)
LEMMA NextWaveHolds == ASSUME IInv, NextWave PROVE IInv'
  <1> USE DEF IInv
  <1>1. /\ wave < Len(Waves) /\ wave' = wave + 1 /\ GroupOver
        /\ coming' = coming \cup ItemsOf(Waves[wave + 1])
        /\ UNCHANGED <<closing, ppc, pdata, pqid, data_queue, task_threads_, free_threads_,
                       sizes_, pc, data, fields, mtxs_, wire, stored, acks>>
    BY DEF NextWave, threadVars
  <1>2. DOMAIN Waves = 1 .. Len(Waves) /\ wave \in Nat /\ wave \in DOMAIN Waves
        /\ wave + 1 \in DOMAIN Waves /\ Len(Waves) \in Nat
    BY <1>1, WavesAssumption, LenProperties DEF TypeOK
  <1> DEFINE new == ItemsOf(Waves[wave + 1])
  <1>3. \A i \in DOMAIN Waves : \A rt \in Waves[i] : rt \in Tasks
    BY DEF Tasks
  <1>4. \A d \in new : d \in Items /\ \E rt \in Waves[wave + 1] :
          d = Info(rt) \/ \E n \in Numbers(rt) : d = Nth(rt, n)
    BY <1>2, <1>3, NumbersAreSums, InfoFields, SumFields DEF ItemsOf
  <1>5. \A d \in new : d \notin Pend /\ \A q \in Queue : data[q] # d
    <2> SUFFICES ASSUME NEW d \in new
                 PROVE  d \notin Pend /\ \A q \in Queue : data[q] # d
      OBVIOUS
    <2>1. PICK rt \in Waves[wave + 1] : d = Info(rt) \/ \E n \in Numbers(rt) : d = Nth(rt, n)
      BY <1>4
    <2>2. NonePending(rt) /\ task_threads_[rt.task_id] = NoQueue
      BY <1>2 DEF Books, NotBegun
    <2>3. d.task_id = rt.task_id /\ d \in Items
      BY <1>2, <1>3, <2>1, InfoFields, SumFields
    <2>4. d \notin Pend
      BY <1>2, <1>3, <2>2, <2>3, SomethingPending
    <2>5. \A q \in Queue : data[q] # d
      BY <2>2, <2>3, NoDataAssumption, QueuesAreNot DEF NoStrayItem
    <2> QED BY <2>4, <2>5
  <1>6. InQueues' = InQueues
    BY <1>1 DEF InQueues
  <1>7. Pend' = Pend \cup new
    BY <1>1, <1>6 DEF Pend
  <1>8. TypeOK'
    BY <1>1, <1>2, <1>4 DEF TypeOK
  <1>9. HandsMatch' /\ NoStrayItem'
    BY <1>1 DEF HandsMatch, NoStrayItem
  <1>10. Once'
    <2>1. \A d \in new : /\ \A p \in Pusher : pdata[p] # d
                         /\ d \notin InQueues /\ \A q \in Queue : data[q] # d
      BY <1>4, <1>5, NoDataAssumption DEF Pend, HandsMatch
    <2> QED BY <1>1, <1>6, <2>1 DEF Once
  <1>11. Partition'
    BY <1>1 DEF Books, Partition, Free
  <1>12. \A rt \in Waves[wave + 1] : AllPending(rt)'
    BY <1>2, <1>3, <1>7, NumbersAreSums DEF AllPending, Left, ItemsOf
  <1>13. \A rt \in Tasks : rt \notin Waves[wave + 1] =>
           /\ Left(rt)' = Left(rt) /\ Owed(rt)' = Owed(rt)
           /\ NonePending(rt)' <=> NonePending(rt)
           /\ AllPending(rt)' <=> AllPending(rt)
    <2> SUFFICES ASSUME NEW rt \in Tasks, rt \notin Waves[wave + 1]
                 PROVE  /\ Left(rt)' = Left(rt) /\ Owed(rt)' = Owed(rt)
                        /\ NonePending(rt)' <=> NonePending(rt)
                        /\ AllPending(rt)' <=> AllPending(rt)
      OBVIOUS
    <2>1. \A d \in new : d.task_id # rt.task_id
      BY <1>2, <1>3, <1>4, InfoFields, SumFields, SameTask
    <2>2. \A d : d \in Items /\ d.task_id = rt.task_id => (d \in Pend' <=> d \in Pend)
      BY <1>7, <2>1
    <2>3. Info(rt) \in Pend' <=> Info(rt) \in Pend
      BY <2>2, InfoFields
    <2>4. \A n \in Numbers(rt) : Nth(rt, n) \in Pend' <=> Nth(rt, n) \in Pend
      BY <2>2, SumFields
    <2>5. Left(rt)' = Left(rt)
      BY <2>4 DEF Left
    <2> QED BY <2>3, <2>5 DEF Owed, NonePending, AllPending
  <1>14. \A rt \in Waves[wave + 1] : /\ task_threads_[rt.task_id] = NoQueue
                                     /\ acks[rt.task_id] = 0
    BY <1>2 DEF Books, NotBegun
  <1>15. Accounted'
    <2>1. \A rt \in Tasks, q \in Queue : task_threads_[rt.task_id] = q =>
            sizes_[q] = Bytes(rt, Left(rt)') - Owed(rt)'
      BY <1>13, <1>14, QueuesAreNot DEF Books, Accounted
    <2>2. \A q \in Free' : sizes_[q] = 0
      BY <1>1 DEF Books, Accounted, Free
    <2>3. \A rt \in Tasks : task_threads_[rt.task_id] = NoQueue =>
            NonePending(rt)' \/ AllPending(rt)'
      BY <1>12, <1>13 DEF Books, Accounted
    <2>4. \A q \in Queue : pc[q] = "finish" =>
            \A rt \in Tasks : data[q].task_id = rt.task_id => NonePending(rt)'
      <3> SUFFICES ASSUME NEW q \in Queue, pc[q] = "finish",
                          NEW rt \in Tasks, data[q].task_id = rt.task_id
                   PROVE  NonePending(rt)'
        OBVIOUS
      <3>1. task_threads_[rt.task_id] = q
        BY DEF HandsMatch, NoStrayItem
      <3>2. rt \notin Waves[wave + 1]
        BY <1>14, <3>1, QueuesAreNot
      <3> QED BY <1>13, <3>2 DEF Books, Accounted
    <2> QED BY <1>1, <2>1, <2>2, <2>3, <2>4 DEF Accounted
  <1>16. NotBegun'
    <2> SUFFICES ASSUME NEW i \in DOMAIN Waves, i > wave + 1, NEW rt \in Waves[i]
                 PROVE  NonePending(rt)' /\ task_threads_[rt.task_id] = NoQueue
                        /\ acks[rt.task_id] = 0
      BY <1>1 DEF NotBegun
    <2>1. rt \notin Waves[wave + 1] /\ i > wave
      BY <1>2, OneWave
    <2> QED BY <1>3, <1>13, <2>1 DEF Books, NotBegun
  <1>17. Stored'
    <2>1. \A i \in 1 .. wave + 1 : \A rt \in Waves[i] : rt.tar_id = id =>
            \A n \in Numbers(rt) : n \in Left(rt)' \/ Nth(rt, n) \in stored
      <3> SUFFICES ASSUME NEW i \in 1 .. wave + 1, NEW rt \in Waves[i], rt.tar_id = id,
                          NEW n \in Numbers(rt)
                   PROVE  n \in Left(rt)' \/ Nth(rt, n) \in stored
        OBVIOUS
      <3>1. CASE rt \in Waves[wave + 1]
        BY <1>12, <3>1 DEF AllPending
      <3>2. CASE rt \notin Waves[wave + 1]
        <4>1. i \in 1 .. wave /\ rt \in Tasks
          BY <1>2, <1>3, <3>2
        <4> QED BY <1>13, <3>2, <4>1 DEF Books, Stored
      <3> QED BY <3>1, <3>2
    <2>2. \A rt \in Tasks : /\ acks[rt.task_id] <= 1
                            /\ acks[rt.task_id] = 1 =>
                                 /\ rt.tar_id = id /\ NonePending(rt)'
                                 /\ task_threads_[rt.task_id] = NoQueue
      <3>1. \A rt \in Tasks : acks[rt.task_id] = 1 => rt \notin Waves[wave + 1]
        BY <1>14
      <3> QED BY <1>13, <3>1 DEF Books, Stored
    <2>3. closing = "no"
      <3>1. closing # "no" => wave = Len(Waves)
        BY DEF Books, Stored
      <3>2. ASSUME NEW a \in Nat, NEW b \in Nat, a < b PROVE a # b
        BY <3>2
      <3>3. wave # Len(Waves)
        BY <1>1, <1>2, <3>2
      <3> QED BY <3>1, <3>3
    <2>4. \A i \in DOMAIN Waves : i < wave + 1 =>
            \A rt \in Waves[i] : rt.tar_id = id => acks[rt.task_id] > 0
      <3> SUFFICES ASSUME NEW i \in DOMAIN Waves, i < wave + 1,
                          NEW rt \in Waves[i], rt.tar_id = id
                   PROVE  acks[rt.task_id] > 0
        OBVIOUS
      <3>1. i < wave \/ i = wave
        BY <1>2
      <3> QED BY <1>1, <3>1 DEF Books, Stored, GroupOver, Done
    <2> QED BY <1>1, <2>1, <2>2, <2>3, <2>4 DEF Stored
  <1>18. Wires'
    BY <1>1, WiresKept
  <1> QED BY <1>8, <1>9, <1>10, <1>11, <1>15, <1>16, <1>17, <1>18 DEF Books

LEMMA DestroyHolds == ASSUME IInv, Destroy PROVE IInv'
  <1> USE DEF IInv
  <1>1. /\ closing' \in {"computer", "file", "closed"}
        /\ UNCHANGED <<wave, coming, ppc, pdata, pqid, data_queue, task_threads_,
                       free_threads_, sizes_, pc, data, fields, mtxs_, wire, stored, acks>>
        /\ closing # "no" \/ (closing = "no" /\ wave = Len(Waves) /\ GroupOver)
    BY DEF Destroy, Close, CloseWhen, CloseFile, Join, threadVars
  <1>2. InQueues' = InQueues
    BY <1>1 DEF InQueues
  <1>3. Pend' = Pend
    BY <1>1, <1>2 DEF Pend
  <1>4. TypeOK' /\ HandsMatch' /\ NoStrayItem' /\ Once'
    BY <1>1, <1>2 DEF TypeOK, HandsMatch, NoStrayItem, Once
  <1>5. Partition' /\ Accounted' /\ NotBegun'
    BY <1>1, <1>3, PendingSame DEF Books, Partition, Accounted, NotBegun, Free
  <1>6. Stored'
    <2>1. \A i \in DOMAIN Waves : \A rt \in Waves[i] : rt.tar_id = id => acks[rt.task_id] > 0
      <3> SUFFICES ASSUME NEW i \in DOMAIN Waves, NEW rt \in Waves[i], rt.tar_id = id
                   PROVE  acks[rt.task_id] > 0
        OBVIOUS
      <3>1. CASE closing # "no"
        BY <3>1 DEF Books, Stored
      <3>2. CASE wave = Len(Waves) /\ GroupOver
        <4>1. i < wave \/ i = wave
          BY <3>2, WavesAssumption, LenProperties
        <4> QED BY <3>2, <4>1 DEF Books, Stored, GroupOver, Done
      <3> QED BY <1>1, <3>1, <3>2
    <2>2. wave = Len(Waves)
      BY <1>1 DEF Books, Stored
    <2> QED BY <1>1, <1>3, <2>1, <2>2, PendingSame DEF Books, Stored
  <1>7. Wires'
    BY <1>1, WiresKept
  <1> QED BY <1>4, <1>5, <1>6, <1>7 DEF Books

(* The queue and the task part, and the task is announced if it ends here: *)
(* nothing of it is left to be counted.                                    *)
LEMMA FinishHolds == ASSUME IInv, NEW q \in Queue, Finish(q) PROVE IInv'
  <1> USE DEF IInv
  <1> DEFINE d == data[q]  k == d.task_id
  <1>1. /\ pc[q] = "finish" /\ d \in Items /\ d # NoData
        /\ task_threads_' = [task_threads_ EXCEPT ![k] = NoQueue]
        /\ free_threads_' = Append(free_threads_, q)
        /\ acks' = IF d.tar_id = id THEN [acks EXCEPT ![k] = acks[k] + 1] ELSE acks
        /\ pc' = [pc EXCEPT ![q] = "idle"]
        /\ data' = [data EXCEPT ![q] = NoData]
        /\ UNCHANGED <<wave, coming, closing, ppc, pdata, pqid, data_queue, sizes_, fields,
                       mtxs_, wire, stored>>
    BY DEF Finish, FinishWith, Unmapped, EndsHere, HandsMatch, TypeOK, pushVars
  <1>2. PICK rt \in Tasks : k = rt.task_id /\ (d.tar_id = id => rt.tar_id = id)
    BY <1>1, ItemCases, InfoFields, SumFields
  <1>3. k \in Task /\ task_threads_[k] = q
    BY <1>1, <1>2, TaskTypes DEF NoStrayItem
  <1>4. NonePending(rt)
    BY <1>1, <1>2 DEF Books, Accounted
  <1>5. d \notin Pend
    BY <1>1, <1>2, <1>4, SomethingPending
  <1> HIDE DEF d, k
  <1>6. InQueues' = InQueues
    BY <1>1 DEF InQueues
  <1>7. Pend' = Pend
    <2>1. {data[r] : r \in {r \in Queue : pc[r] \in Counting}}'
            = {data[r] : r \in {r \in Queue : pc[r] \in Counting}}
      BY <1>1 DEF TypeOK, Counting
    <2> QED BY <1>1, <1>6, <2>1 DEF Pend
  <1>8. /\ free_threads_' \in Seq(Queue)
        /\ DOMAIN free_threads_' = DOMAIN free_threads_ \cup {Len(free_threads_) + 1}
        /\ Len(free_threads_) + 1 \notin DOMAIN free_threads_
        /\ free_threads_'[Len(free_threads_) + 1] = q
        /\ \A i \in DOMAIN free_threads_ : free_threads_'[i] = free_threads_[i]
    BY <1>1, Appended DEF TypeOK
  <1>9. Free' = Free \cup {q} /\ q \notin Free
    <2>1. Free' = Free \cup {q}
      BY <1>8 DEF Free
    <2> QED BY <1>3, <2>1 DEF Books, Partition
  <1>10. /\ task_threads_'[k] = NoQueue
         /\ \A j \in Task : j # k => task_threads_'[j] = task_threads_[j]
    BY <1>1, <1>3 DEF TypeOK
  <1>11. TypeOK'
    <2>1. /\ task_threads_' \in [Task -> Queue \cup {NoQueue}]
          /\ acks' \in [Task -> Nat]
      BY <1>1, <1>3 DEF TypeOK
    <2>2. /\ pc' \in [Queue -> {"idle", "info", "store", "send", "finish"}]
          /\ data' \in [Queue -> Items \cup {NoData}]
      BY <1>1 DEF TypeOK
    <2> QED BY <1>1, <1>8, <2>1, <2>2 DEF TypeOK
  <1>12. HandsMatch' /\ Once'
    <2>1. HandsMatch'
      BY <1>1 DEF HandsMatch, TypeOK
    <2>2. \A r \in Queue : data'[r] = (IF r = q THEN NoData ELSE data[r])
      BY <1>1 DEF TypeOK
    <2>3. \A e \in coming : e # NoData
      BY NoDataAssumption DEF TypeOK
    <2>4. Once'
      BY <1>1, <1>6, <2>2, <2>3 DEF Once
    <2> QED BY <2>1, <2>4
  <1>13. \A e \in Items : e \in Pend => task_threads_'[e.task_id] = task_threads_[e.task_id]
    <2> SUFFICES ASSUME NEW e \in Items, e \in Pend
                 PROVE  e.task_id \in Task /\ e.task_id # k
      BY <1>10
    <2> QED BY <1>2, <1>4, SomethingPending, ItemCases, InfoFields, SumFields, TaskTypes
  <1>14. NoStrayItem'
    <2>1. \A p \in Pusher : ppc[p] = "push" => task_threads_'[pdata[p].task_id] = pqid[p]
      <3>1. \A p \in Pusher : ppc[p] = "push" => pdata[p] \in Items /\ pdata[p] \in Pend
        BY DEF Pend, HandsMatch, TypeOK
      <3> QED BY <1>13, <3>1 DEF NoStrayItem
    <2>2. \A r \in Queue : \A i \in DOMAIN data_queue[r] :
            task_threads_'[data_queue[r][i].task_id] = r
      <3>1. \A r \in Queue : \A i \in DOMAIN data_queue[r] :
              data_queue[r][i] \in Items /\ data_queue[r][i] \in Pend
        BY InQueuesAreItems DEF Pend, InQueues
      <3> QED BY <1>13, <3>1 DEF NoStrayItem
    <2>3. \A r \in Queue : data'[r] # NoData => task_threads_'[data'[r].task_id] = r
      <3> SUFFICES ASSUME NEW r \in Queue, r # q, data[r] # NoData
                   PROVE  task_threads_'[data[r].task_id] = r
        BY <1>1 DEF TypeOK
      <3>0. data[r] \in Items
        BY DEF TypeOK
      <3>1. data[r].task_id \in Task
        BY <3>0, ItemCases, InfoFields, SumFields, TaskTypes
      <3>2. task_threads_[data[r].task_id] = r
        BY DEF NoStrayItem
      <3> QED BY <1>3, <1>10, <3>1, <3>2
    <2> QED BY <1>1, <2>1, <2>2, <2>3 DEF NoStrayItem
  <1>15. Partition'
    <2>1. \A i \in DOMAIN free_threads_ : free_threads_[i] # q
      BY <1>9 DEF Free
    <2>2. \A i, j \in DOMAIN free_threads_' : free_threads_'[i] = free_threads_'[j] => i = j
      BY <1>8, <2>1 DEF Books, Partition
    <2>3. \A r \in Queue : r \in Free' <=> \A j \in Task : task_threads_'[j] # r
      BY <1>3, <1>9, <1>10, QueuesAreNot DEF Books, Partition
    <2>4. \A i, j \in Task : task_threads_'[i] = task_threads_'[j] /\ i # j =>
            task_threads_'[i] = NoQueue
      BY <1>10 DEF Books, Partition
    <2> QED BY <2>2, <2>3, <2>4 DEF Partition
  <1>16. sizes_[q] = 0
    <2>1. sizes_[q] = Bytes(rt, Left(rt)) - Owed(rt)
      BY <1>2, <1>3 DEF Books, Accounted
    <2>2. Left(rt) = {} /\ Owed(rt) = 0
      BY <1>4 DEF NonePending, Owed
    <2> QED BY <2>1, <2>2, BytesOfNone
  <1>17. Accounted'
    <2>1. \A rs \in Tasks, r \in Queue : task_threads_'[rs.task_id] = r =>
            sizes_[r] = Bytes(rs, Left(rs)) - Owed(rs)
      BY <1>10, QueuesAreNot, TaskTypes DEF Books, Accounted
    <2>2. \A r \in Free' : sizes_[r] = 0
      BY <1>9, <1>16 DEF Books, Accounted
    <2>3. \A rs \in Tasks : task_threads_'[rs.task_id] = NoQueue =>
            NonePending(rs) \/ AllPending(rs)
      BY <1>2, <1>4, <1>10, SameTask, TaskTypes DEF Books, Accounted
    <2>4. \A r \in Queue : pc'[r] = "finish" =>
            \A rs \in Tasks : data'[r].task_id = rs.task_id => NonePending(rs)
      BY <1>1 DEF Books, Accounted, TypeOK
    <2> QED BY <1>1, <1>7, <2>1, <2>2, <2>3, <2>4, PendingSame DEF Accounted
  <1>18. \A i \in DOMAIN Waves : i > wave => \A rs \in Waves[i] : rs.task_id # k
    BY <1>3, QueuesAreNot DEF Books, NotBegun
  <1>19. NotBegun'
    <2>1. \A i \in DOMAIN Waves : \A rs \in Waves[i] : rs.task_id \in Task
      BY TaskTypes DEF Tasks
    <2>2. \A j \in Task : j # k => acks'[j] = acks[j]
      BY <1>1, <1>3 DEF TypeOK
    <2> QED BY <1>1, <1>7, <1>10, <1>18, <2>1, <2>2, PendingSame DEF Books, NotBegun
  <1>20. Stored'
    <2>1. acks[k] = 0
      <3>1. acks[k] \in Nat
        BY <1>3 DEF TypeOK
      <3>2. acks[k] <= 1 /\ acks[k] # 1
        BY <1>2, <1>3, QueuesAreNot DEF Books, Stored
      <3> QED BY <3>1, <3>2
    <2>2. \A j \in Task : /\ j # k => acks'[j] = acks[j]
                          /\ acks'[k] = IF d.tar_id = id THEN 1 ELSE 0
      BY <1>1, <1>3, <2>1 DEF TypeOK
    <2>3. \A rs \in Tasks : /\ acks'[rs.task_id] <= 1
                            /\ acks'[rs.task_id] = 1 =>
                                 /\ rs.tar_id = id /\ NonePending(rs)
                                 /\ task_threads_'[rs.task_id] = NoQueue
      <3> SUFFICES ASSUME NEW rs \in Tasks
                   PROVE  /\ acks'[rs.task_id] <= 1
                          /\ acks'[rs.task_id] = 1 =>
                                 /\ rs.tar_id = id /\ NonePending(rs)
                                 /\ task_threads_'[rs.task_id] = NoQueue
        OBVIOUS
      <3>1. CASE rs.task_id = k
        BY <1>2, <1>3, <1>4, <1>10, <2>2, <3>1, SameTask
      <3>2. CASE rs.task_id # k
        BY <1>10, <2>2, <3>2, TaskTypes DEF Books, Stored
      <3> QED BY <3>1, <3>2
    <2>4. \A i \in DOMAIN Waves : i < wave \/ closing # "no" =>
            \A rs \in Waves[i] : rs.tar_id = id => acks'[rs.task_id] > 0
      <3> SUFFICES ASSUME NEW i \in DOMAIN Waves, i < wave \/ closing # "no",
                          NEW rs \in Waves[i], rs.tar_id = id
                   PROVE  acks'[rs.task_id] > 0
        OBVIOUS
      <3>1. acks[rs.task_id] > 0 /\ rs.task_id \in Task
        BY TaskTypes DEF Books, Stored, Tasks
      <3> QED BY <2>1, <2>2, <3>1
    <2> QED BY <1>1, <1>7, <2>3, <2>4, PendingSame DEF Books, Stored
  <1>21. Wires'
    <2>1. \A r \in Queue : fields[r] # 0 => pc'[r] = pc[r] /\ data'[r] = data[r]
      BY <1>1 DEF Wires, Frames, TypeOK
    <2> QED BY <1>1, <2>1, WiresKept
  <1> QED BY <1>11, <1>12, <1>14, <1>15, <1>17, <1>19, <1>20, <1>21 DEF Books

-----------------------------------------------------------------------------
(* An item is counted.  What is left of its task is smaller by it, and the *)
(* sum is 0 only when that is nothing: while the info piece is missing it  *)
(* is negative, after that positive.                                       *)
LEMMA CountedHolds ==
  ASSUME IInv, NEW q \in Queue, pc[q] \in Counting, NEW s,
         s = IF data[q].buf = nullptr THEN sizes_[q] + data[q].size
                                      ELSE sizes_[q] - data[q].size,
         Counted(q, s),
         UNCHANGED <<wave, coming, closing, ppc, pdata, pqid, data_queue, task_threads_,
                     free_threads_, acks>>,
         stored' \subseteq Items, stored \subseteq stored',
         data[q].buf # nullptr /\ data[q].tar_id = id => data[q] \in stored'
  PROVE  /\ sizes_' \in [Queue -> Int]
         /\ pc' \in [Queue -> {"idle", "info", "store", "send", "finish"}]
         /\ data' \in [Queue -> Items \cup {NoData}]
         /\ HandsMatch' /\ Once' /\ NoStrayItem' /\ Books'
  <1> USE DEF IInv
  <1> DEFINE d == data[q]  k == d.task_id
  <1>1. d \in Items /\ d # NoData /\ pc[q] \in {"info", "store", "send"}
    BY DEF HandsMatch, TypeOK, Counting
  <1>2. /\ sizes_' = [sizes_ EXCEPT ![q] = s]
        /\ IF s = 0 THEN pc' = [pc EXCEPT ![q] = "finish"] /\ data' = data
           ELSE pc' = [pc EXCEPT ![q] = "idle"] /\ data' = [data EXCEPT ![q] = NoData]
    BY DEF Counted
  <1>3. PICK rt \in Tasks : \/ d = Info(rt)
                           \/ \E n \in Numbers(rt) : d = Nth(rt, n)
    BY <1>1, ItemCases
  <1>4. k = rt.task_id /\ k \in Task /\ task_threads_[k] = q
    BY <1>1, <1>3, InfoFields, SumFields, TaskTypes DEF NoStrayItem
  <1>5. /\ d \notin coming /\ d \notin InQueues
        /\ \A p \in Pusher : pdata[p] # d
        /\ \A r \in Queue : data[r] = d => r = q
    BY <1>1 DEF Once
  <1>6. s = IF d = Info(rt) THEN sizes_[q] + rt.size ELSE sizes_[q] - d.size
    BY <1>3, InfoFields, SumFields
  <1> HIDE DEF d, k
  <1>7. InQueues' = InQueues
    BY DEF InQueues
  <1>8. \A r \in Queue \ {q} : pc'[r] = pc[r] /\ data'[r] = data[r] /\ sizes_'[r] = sizes_[r]
    BY <1>2 DEF TypeOK
  <1>9. /\ sizes_'[q] = s
        /\ s = 0 => pc'[q] = "finish" /\ data'[q] = d
        /\ s # 0 => pc'[q] = "idle" /\ data'[q] = NoData
    BY <1>2 DEF TypeOK, d
  <1>10. Pend' = Pend \ {d} /\ d \in Pend
    <2>1. {data[r] : r \in {r \in Queue : pc[r] \in Counting}}'
            = {data[r] : r \in {r \in Queue : pc[r] \in Counting}} \ {d}
      <3>1. \A r \in Queue : pc'[r] \in Counting <=> pc[r] \in Counting /\ r # q
        BY <1>8, <1>9 DEF Counting
      <3> QED BY <1>5, <1>8, <3>1 DEF d
    <2>2. d \in {data[r] : r \in {r \in Queue : pc[r] \in Counting}}
      BY DEF d
    <2> QED BY <1>5, <1>7, <2>1, <2>2 DEF Pend
  <1>11. \A rs \in Tasks : rs # rt =>
           /\ Left(rs)' = Left(rs) /\ Owed(rs)' = Owed(rs)
           /\ NonePending(rs)' <=> NonePending(rs)
           /\ AllPending(rs)' <=> AllPending(rs)
    <2> SUFFICES ASSUME NEW rs \in Tasks, rs # rt
                 PROVE  /\ Left(rs)' = Left(rs) /\ Owed(rs)' = Owed(rs)
                        /\ NonePending(rs)' <=> NonePending(rs)
                        /\ AllPending(rs)' <=> AllPending(rs)
      OBVIOUS
    <2>1. rs.task_id # k
      BY <1>4, SameTask
    <2>2. Info(rs) \in Pend' <=> Info(rs) \in Pend
      BY <1>10, <2>1, InfoFields DEF k
    <2>3. \A n \in Numbers(rs) : Nth(rs, n) \in Pend' <=> Nth(rs, n) \in Pend
      BY <1>10, <2>1, SumFields DEF k
    <2>4. Left(rs)' = Left(rs)
      BY <2>3 DEF Left
    <2> QED BY <2>2, <2>4 DEF Owed, NonePending, AllPending
  <1>12. sizes_[q] = Bytes(rt, Left(rt)) - Owed(rt)
    BY <1>4 DEF Books, Accounted
  <1>13. Left(rt) \in SUBSET Numbers(rt)
    BY DEF Left
  <1>14. /\ Bytes(rt, Left(rt)) \in 0 .. rt.size /\ rt.size \in Nat \ {0}
         /\ \A R \in SUBSET Numbers(rt) : Bytes(rt, R) \in Nat /\ (Bytes(rt, R) = 0 => R = {})
    BY <1>13, BytesBounds, TaskTypes
  <1>15. /\ s \in Int /\ s = Bytes(rt, Left(rt)') - Owed(rt)'
         /\ s = 0 => NonePending(rt)'
    <2>1. CASE d = Info(rt)
      <3>1. \A n \in Numbers(rt) : Nth(rt, n) \in Pend' <=> Nth(rt, n) \in Pend
        BY <1>10, <2>1, SumFields
      <3>2. Left(rt)' = Left(rt)
        BY <3>1 DEF Left
      <3>3. Owed(rt) = rt.size /\ Owed(rt)' = 0 /\ Info(rt) \notin Pend'
        BY <1>10, <2>1 DEF Owed
      <3>4. s = Bytes(rt, Left(rt))
        BY <1>6, <1>12, <1>14, <2>1, <3>3
      <3> QED BY <1>13, <1>14, <3>2, <3>3, <3>4 DEF NonePending
    <2>2. CASE d # Info(rt)
      <3>1. PICK n \in Numbers(rt) : d = Nth(rt, n)
        BY <1>3, <2>2
      <3>2. n \in Left(rt)
        BY <1>10, <3>1 DEF Left
      <3>3. Left(rt)' = Left(rt) \ {n}
        BY <1>10, <3>1, NthInjective DEF Left
      <3>4. Owed(rt)' = Owed(rt) /\ (Info(rt) \in Pend' <=> Info(rt) \in Pend)
        BY <1>10, <2>2 DEF Owed
      <3>5. Bytes(rt, Left(rt)') = Bytes(rt, Left(rt)) - SizeOf(rt, n)
        BY <1>13, <3>2, <3>3, BytesOfOneLess
      <3>6. d.size = SizeOf(rt, n) /\ SizeOf(rt, n) \in Nat \ {0}
        BY <3>1, SumFields, SizesOfPieces
      <3>7. Owed(rt) = (IF Info(rt) \in Pend THEN rt.size ELSE 0)
        BY DEF Owed
      <3>8. s \in Int /\ s = Bytes(rt, Left(rt)') - Owed(rt)'
        BY <1>6, <1>12, <1>14, <2>2, <3>4, <3>5, <3>6, <3>7
      <3>9. ASSUME s = 0 PROVE NonePending(rt)'
        <4>1. Info(rt) \notin Pend
          BY <1>14, <3>4, <3>5, <3>6, <3>7, <3>8, <3>9
        <4>2. Left(rt)' \in SUBSET Numbers(rt) /\ Bytes(rt, Left(rt)') = 0
          BY <1>13, <1>14, <3>3, <3>4, <3>5, <3>6, <3>7, <3>8, <3>9, <4>1
        <4> QED BY <1>14, <3>4, <4>1, <4>2 DEF NonePending
      <3> QED BY <3>8, <3>9
    <2> QED BY <2>1, <2>2
  <1>16. \A rs \in Tasks : NonePending(rs) => NonePending(rs)'
    BY <1>10 DEF NonePending, Left
  <1>17. /\ sizes_' \in [Queue -> Int]
         /\ pc' \in [Queue -> {"idle", "info", "store", "send", "finish"}]
         /\ data' \in [Queue -> Items \cup {NoData}]
    BY <1>2, <1>15 DEF TypeOK
  <1>18. HandsMatch'
    BY <1>1, <1>8, <1>9 DEF HandsMatch
  <1>19. \A r \in Queue : data'[r] # NoData => data'[r] = data[r]
    BY <1>8, <1>9 DEF d
  <1>20. Once'
    <2>1. \A e \in coming : e # NoData
      BY NoDataAssumption DEF TypeOK
    <2> QED BY <1>7, <1>19, <2>1 DEF Once
  <1>21. NoStrayItem'
    BY <1>19 DEF NoStrayItem
  <1>22. Partition'
    BY DEF Books, Partition, Free
  <1>23. Accounted'
    <2>1. \A rs \in Tasks, r \in Queue : task_threads_[rs.task_id] = r =>
            sizes_'[r] = Bytes(rs, Left(rs)') - Owed(rs)'
      <3> SUFFICES ASSUME NEW rs \in Tasks, NEW r \in Queue, task_threads_[rs.task_id] = r
                   PROVE  sizes_'[r] = Bytes(rs, Left(rs)') - Owed(rs)'
        OBVIOUS
      <3>1. CASE rs = rt
        BY <1>4, <1>9, <1>15, <3>1
      <3>2. CASE rs # rt
        <4>1. r # q
          BY <1>4, <3>2, SameTask, TaskTypes, QueuesAreNot DEF Books, Partition
        <4> QED BY <1>8, <1>11, <3>2, <4>1 DEF Books, Accounted
      <3> QED BY <3>1, <3>2
    <2>2. \A r \in Free : sizes_'[r] = 0
      <3>1. q \notin Free /\ Free \subseteq Queue
        <4>1. \A i \in DOMAIN free_threads_ : free_threads_[i] \in Queue
          BY ElementOfSeq, LenProperties DEF TypeOK
        <4> QED BY <1>4, <4>1 DEF Books, Partition, Free
      <3> QED BY <1>8, <3>1 DEF Books, Accounted
    <2>3. \A rs \in Tasks : task_threads_[rs.task_id] = NoQueue =>
            NonePending(rs)' \/ AllPending(rs)'
      BY <1>4, <1>11, QueuesAreNot DEF Books, Accounted
    <2>4. \A r \in Queue : pc'[r] = "finish" =>
            \A rs \in Tasks : data'[r].task_id = rs.task_id => NonePending(rs)'
      <3> SUFFICES ASSUME NEW r \in Queue, pc'[r] = "finish",
                          NEW rs \in Tasks, data'[r].task_id = rs.task_id
                   PROVE  NonePending(rs)'
        OBVIOUS
      <3>1. CASE r = q
        BY <1>4, <1>9, <1>15, <3>1, SameTask DEF k
      <3>2. CASE r # q
        BY <1>8, <1>16, <3>2 DEF Books, Accounted
      <3> QED BY <3>1, <3>2
    <2>5. Free' = Free
      BY DEF Free
    <2> QED BY <2>1, <2>2, <2>3, <2>4, <2>5 DEF Accounted
  <1>24. NotBegun'
    <2>1. \A i \in DOMAIN Waves : \A rs \in Waves[i] : rs \in Tasks
      BY DEF Tasks
    <2> QED BY <1>16, <2>1 DEF Books, NotBegun
  <1>25. Stored'
    <2>1. \A i \in 1 .. wave : \A rs \in Waves[i] : rs.tar_id = id =>
            \A n \in Numbers(rs) : n \in Left(rs)' \/ Nth(rs, n) \in stored'
      <3> SUFFICES ASSUME NEW i \in 1 .. wave, NEW rs \in Waves[i], rs.tar_id = id,
                          NEW n \in Numbers(rs), n \notin Left(rs)'
                   PROVE  Nth(rs, n) \in stored'
        OBVIOUS
      <3>1. rs \in Tasks
        <4>1. i \in DOMAIN Waves
          BY WavesAssumption, LenProperties DEF TypeOK
        <4> QED BY <4>1 DEF Tasks
      <3>2. Nth(rs, n) \in Pend => Nth(rs, n) = d
        BY <1>10 DEF Left
      <3>3. CASE n \in Left(rs)
        <4>1. Nth(rs, n) = d
          BY <3>2, <3>3 DEF Left
        <4> QED BY <3>1, <4>1, SumFields DEF d
      <3>4. CASE n \notin Left(rs)
        BY <3>4 DEF Books, Stored
      <3> QED BY <3>3, <3>4
    <2>2. \A rs \in Tasks : /\ acks[rs.task_id] <= 1
                            /\ acks[rs.task_id] = 1 =>
                                 /\ rs.tar_id = id /\ NonePending(rs)'
                                 /\ task_threads_[rs.task_id] = NoQueue
      BY <1>16 DEF Books, Stored
    <2> QED BY <2>1, <2>2 DEF Books, Stored
  <1> QED BY <1>17, <1>18, <1>20, <1>21, <1>22, <1>23, <1>24, <1>25 DEF Books

(* What is not in the middle of a frame may go on without the wire.        *)
LEMMA OffTheWire ==
  ASSUME IInv, NEW q \in Queue, pc[q] # "send", NEW s, Counted(q, s),
         UNCHANGED <<fields, mtxs_, wire>>
  PROVE  Wires'
  <1>1. fields[q] = 0
    BY DEF IInv, Wires, Frames
  <1>2. \A r \in Queue : fields[r] # 0 => pc'[r] = pc[r] /\ data'[r] = data[r]
    BY <1>1 DEF Counted, IInv, TypeOK
  <1> QED BY <1>2, WiresKept DEF IInv

LEMMA AddInfoHolds == ASSUME IInv, NEW q \in Queue, AddInfo(q) PROVE IInv'
  <1> DEFINE s == sizes_[q] + data[q].size
  <1>1. /\ pc[q] = "info" /\ Counted(q, s)
        /\ UNCHANGED <<wave, coming, closing, ppc, pdata, pqid, data_queue, task_threads_,
                       free_threads_, fields, mtxs_, wire, stored, acks>>
    BY DEF AddInfo, pushVars
  <1>2. pc[q] \in Counting /\ data[q].buf = nullptr /\ stored \subseteq Items
    BY <1>1 DEF IInv, HandsMatch, TypeOK, Counting
  <1> HIDE DEF s
  <1>3. /\ sizes_' \in [Queue -> Int]
        /\ pc' \in [Queue -> {"idle", "info", "store", "send", "finish"}]
        /\ data' \in [Queue -> Items \cup {NoData}]
        /\ HandsMatch' /\ Once' /\ NoStrayItem' /\ Books'
    BY <1>1, <1>2, CountedHolds DEF s
  <1>4. TypeOK'
    BY <1>1, <1>3 DEF IInv, TypeOK
  <1>5. Wires'
    BY <1>1, OffTheWire
  <1> QED BY <1>3, <1>4, <1>5 DEF IInv

LEMMA StoreHolds == ASSUME IInv, NEW q \in Queue, Store(q) PROVE IInv'
  <1> DEFINE s == sizes_[q] - data[q].size
  <1>1. /\ pc[q] = "store" /\ Counted(q, s) /\ stored' = stored \cup {data[q]}
        /\ UNCHANGED <<wave, coming, closing, ppc, pdata, pqid, data_queue, task_threads_,
                       free_threads_, fields, mtxs_, wire, acks>>
    BY DEF Store, pushVars
  <1>2. pc[q] \in Counting /\ data[q].buf # nullptr /\ stored' \subseteq Items
    BY <1>1 DEF IInv, HandsMatch, TypeOK, Counting
  <1> HIDE DEF s
  <1>3. /\ sizes_' \in [Queue -> Int]
        /\ pc' \in [Queue -> {"idle", "info", "store", "send", "finish"}]
        /\ data' \in [Queue -> Items \cup {NoData}]
        /\ HandsMatch' /\ Once' /\ NoStrayItem' /\ Books'
    BY <1>1, <1>2, CountedHolds DEF s
  <1>4. TypeOK'
    BY <1>1, <1>2, <1>3 DEF IInv, TypeOK
  <1>5. Wires'
    BY <1>1, OffTheWire
  <1> QED BY <1>3, <1>4, <1>5 DEF IInv

-----------------------------------------------------------------------------
(* One field is sent: the first takes the mutex of the peer, the last      *)
(* gives it back, and on the wire they follow one another.                 *)
LEMMA SendOnWire ==
  ASSUME IInv, NEW q \in Queue, Send(q)
  PROVE  Wires' /\ wire' \in [Peer -> Seq(Items \X (1 .. 4))]
         /\ fields' \in [Queue -> 0 .. 3] /\ mtxs_' \in [Peer -> Queue \cup {NoQueue}]
  <1> USE DEF IInv
  <1> DEFINE d == data[q]  p == d.tar_id  f == fields[q]  len == Len(wire[p])
  <1>1. /\ pc[q] = "send" /\ mtxs_[p] = (IF f = 0 THEN NoQueue ELSE q)
        /\ wire' = [wire EXCEPT ![p] = Append(wire[p], <<d, f + 1>>)]
        /\ fields' = [fields EXCEPT ![q] = (f + 1) % 4]
        /\ mtxs_' = [mtxs_ EXCEPT ![p] = IF f = 3 THEN NoQueue ELSE q]
        /\ f # 3 => UNCHANGED <<pc, data>>
        /\ \A r \in Queue \ {q} : pc'[r] = pc[r] /\ data'[r] = data[r]
    BY DEF Send, Counted, TypeOK
  <1>2. d \in Items /\ d # NoData /\ p \in Peer
    <2>1. d \in Items /\ d # NoData /\ d.buf # nullptr /\ d.tar_id # id
      BY <1>1 DEF HandsMatch, TypeOK
    <2>2. d.tar_id \in Node
      BY <2>1, ItemCases, InfoFields, SumFields, TaskTypes
    <2> QED BY <2>1, <2>2 DEF Peer
  <1>3. f \in 0 .. 3 /\ len \in Nat
    BY <1>2, LenProperties DEF TypeOK
  <1>4. len % 4 = f /\ (f # 0 => wire[p][len - f + 1][1] = d)
    <2>1. CASE f = 0
      BY <1>1, <1>2, <2>1 DEF Wires, Frames
    <2>2. CASE f # 0
      <3>1. mtxs_[p] = q /\ mtxs_[p] # NoQueue
        BY <1>1, <2>2, QueuesAreNot
      <3>2. LET h == mtxs_[p] IN
              /\ data[h] # NoData /\ data[h].tar_id = p
              /\ fields[h] # 0 /\ Len(wire[p]) % 4 = fields[h]
              /\ wire[p][Len(wire[p]) - fields[h] + 1][1] = data[h]
        BY <1>2, <3>1 DEF Wires, Frames
      <3> QED BY <3>1, <3>2
    <2> QED BY <2>1, <2>2
  <1>5. /\ Append(wire[p], <<d, f + 1>>) \in Seq(Items \X (1 .. 4))
        /\ wire'[p] = Append(wire[p], <<d, f + 1>>) /\ Len(wire'[p]) = len + 1
        /\ DOMAIN wire[p] = 1 .. len /\ DOMAIN wire'[p] = 1 .. len + 1
        /\ wire'[p][len + 1] = <<d, f + 1>>
        /\ \A i \in 1 .. len : wire'[p][i] = wire[p][i]
        /\ \A r \in Peer \ {p} : wire'[r] = wire[r] /\ mtxs_'[r] = mtxs_[r]
        /\ mtxs_'[p] = (IF f = 3 THEN NoQueue ELSE q)
    <2>1. wire[p] \in Seq(Items \X (1 .. 4)) /\ <<d, f + 1>> \in Items \X (1 .. 4)
      BY <1>2, <1>3 DEF TypeOK
    <2>2. wire'[p] = Append(wire[p], <<d, f + 1>>)
      BY <1>1, <1>2 DEF TypeOK
    <2>3. \A r \in Peer \ {p} : wire'[r] = wire[r] /\ mtxs_'[r] = mtxs_[r]
      BY <1>1 DEF TypeOK
    <2>4. mtxs_'[p] = (IF f = 3 THEN NoQueue ELSE q)
      BY <1>1, <1>2 DEF TypeOK
    <2>5. /\ Append(wire[p], <<d, f + 1>>) \in Seq(Items \X (1 .. 4))
          /\ Len(Append(wire[p], <<d, f + 1>>)) = len + 1
          /\ \A i \in 1 .. len : Append(wire[p], <<d, f + 1>>)[i] = wire[p][i]
          /\ Append(wire[p], <<d, f + 1>>)[len + 1] = <<d, f + 1>>
      BY ONLY <2>1, AppendProperties
    <2>6. wire'[p] \in Seq(Items \X (1 .. 4)) /\ Len(wire'[p]) = len + 1
      BY ONLY <2>2, <2>5
    <2>7. DOMAIN wire[p] = 1 .. len /\ DOMAIN wire'[p] = 1 .. len + 1
      <3>1. DOMAIN wire[p] = 1 .. Len(wire[p])
        BY ONLY <2>1, LenProperties
      <3>2. DOMAIN wire'[p] = 1 .. Len(wire'[p])
        BY ONLY <2>6, LenProperties
      <3> QED BY ONLY <2>6, <3>1, <3>2
    <2> QED BY ONLY <2>2, <2>3, <2>4, <2>5, <2>6, <2>7
  <1>6. /\ fields'[q] = IF f = 3 THEN 0 ELSE f + 1
        /\ \A r \in Queue \ {q} : fields'[r] = fields[r]
    BY <1>1, <1>3 DEF TypeOK
  <1>7. /\ wire' \in [Peer -> Seq(Items \X (1 .. 4))]
        /\ fields' \in [Queue -> 0 .. 3] /\ mtxs_' \in [Peer -> Queue \cup {NoQueue}]
    <2>1. /\ wire \in [Peer -> Seq(Items \X (1 .. 4))]
          /\ mtxs_ \in [Peer -> Queue \cup {NoQueue}]
          /\ fields \in [Queue -> 0 .. 3]
      BY DEF TypeOK
    <2>2. wire' \in [Peer -> Seq(Items \X (1 .. 4))]
      BY ONLY <1>1, <1>5, <2>1
    <2>3. mtxs_' \in [Peer -> Queue \cup {NoQueue}]
      <3>1. (IF f = 3 THEN NoQueue ELSE q) \in Queue \cup {NoQueue}
        OBVIOUS
      <3> QED BY ONLY <1>1, <2>1, <3>1
    <2>4. fields' \in [Queue -> 0 .. 3]
      <3>1. (f + 1) % 4 \in 0 .. 3
        <4> HIDE DEF f
        <4> QED BY ONLY <1>3
      <3> HIDE DEF f
      <3> QED BY ONLY <1>1, <2>1, <3>1
    <2> QED BY ONLY <2>2, <2>3, <2>4
  <1>8. (len + 1) % 4 = (IF f = 3 THEN 0 ELSE f + 1)
    <2>1. ASSUME NEW a \in Nat, NEW b \in 0 .. 3, a % 4 = b
          PROVE  (a + 1) % 4 = (IF b = 3 THEN 0 ELSE b + 1)
      BY <2>1
    <2> QED BY <1>3, <1>4, <2>1
  <1>9. f # 3 => data'[q] = d /\ pc'[q] = "send"
    BY <1>1 DEF d
  <1> HIDE DEF d, p, f, len
  <1>10. Frames'
    <2>1. \A r \in Queue : fields'[r] # 0 => pc'[r] = "send" /\ mtxs_'[data'[r].tar_id] = r
      <3> SUFFICES ASSUME NEW r \in Queue, fields'[r] # 0
                   PROVE  pc'[r] = "send" /\ mtxs_'[data'[r].tar_id] = r
        OBVIOUS
      <3>1. CASE r = q
        BY <1>5, <1>6, <1>9, <3>1 DEF p
      <3>2. CASE r # q
        <4>1. fields[r] # 0 /\ pc'[r] = "send" /\ data'[r] = data[r]
              /\ mtxs_[data[r].tar_id] = r
          BY <1>1, <1>6, <3>2 DEF Wires, Frames
        <4>2. data[r].tar_id # p
          BY <1>1, <3>2, <4>1, QueuesAreNot
        <4>3. data[r].tar_id \in Peer
          <5>1. data[r] \in Items /\ data[r].buf # nullptr /\ data[r].tar_id # id
            BY <1>1, <3>2, <4>1 DEF HandsMatch, TypeOK
          <5>2. data[r].tar_id \in Node
            BY <5>1, ItemCases, InfoFields, SumFields, TaskTypes
          <5> QED BY <5>1, <5>2 DEF Peer
        <4> QED BY <1>5, <4>1, <4>2, <4>3
      <3> QED BY <3>1, <3>2
    <2>2. \A r \in Peer : mtxs_'[r] = NoQueue => Len(wire'[r]) % 4 = 0
      <3>1. mtxs_'[p] = NoQueue => Len(wire'[p]) % 4 = 0
        <4>1. q # NoQueue
          BY QueuesAreNot
        <4>2. mtxs_'[p] = NoQueue => f = 3
          BY ONLY <1>5, <4>1
        <4>3. f = 3 => Len(wire'[p]) % 4 = 0
          BY ONLY <1>5, <1>8
        <4> QED BY ONLY <4>2, <4>3
      <3>2. \A r \in Peer \ {p} : mtxs_'[r] = NoQueue => Len(wire'[r]) % 4 = 0
        BY <1>5 DEF Wires, Frames
      <3> QED BY <3>1, <3>2
    <2>3. \A r \in Peer : mtxs_'[r] # NoQueue =>
            /\ data'[mtxs_'[r]] # NoData /\ data'[mtxs_'[r]].tar_id = r
            /\ fields'[mtxs_'[r]] # 0 /\ Len(wire'[r]) % 4 = fields'[mtxs_'[r]]
            /\ wire'[r][Len(wire'[r]) - fields'[mtxs_'[r]] + 1][1] = data'[mtxs_'[r]]
      <3> SUFFICES ASSUME NEW r \in Peer, mtxs_'[r] # NoQueue
                   PROVE  /\ data'[mtxs_'[r]] # NoData /\ data'[mtxs_'[r]].tar_id = r
                          /\ fields'[mtxs_'[r]] # 0 /\ Len(wire'[r]) % 4 = fields'[mtxs_'[r]]
                          /\ wire'[r][Len(wire'[r]) - fields'[mtxs_'[r]] + 1][1] = data'[mtxs_'[r]]
        OBVIOUS
      <3>1. CASE r = p
        <4>1. f # 3 /\ mtxs_'[r] = q
          BY <1>5, <3>1
        <4>2. /\ data'[q] = d /\ d # NoData /\ d.tar_id = r /\ fields'[q] = f + 1
              /\ f + 1 # 0 /\ Len(wire'[r]) = len + 1 /\ (len + 1) % 4 = f + 1
          BY <1>2, <1>3, <1>5, <1>6, <1>8, <1>9, <3>1, <4>1 DEF p
        <4>3. wire'[r][len - f + 1][1] = d
          <5>1. CASE f = 0
            BY <1>3, <1>5, <3>1, <5>1
          <5>2. CASE f # 0
            <6>1. len >= f
              BY <1>3, <1>4
            <6>2. len - f + 1 \in 1 .. len
              BY <1>3, <5>2, <6>1
            <6> QED BY <1>4, <1>5, <3>1, <5>2, <6>2
          <5> QED BY <5>1, <5>2
        <4>4. (len + 1) - (f + 1) + 1 = len - f + 1
          BY <1>3
        <4> QED BY <4>1, <4>2, <4>3, <4>4
      <3>2. CASE r # p
        <4>1. mtxs_'[r] = mtxs_[r] /\ wire'[r] = wire[r] /\ mtxs_[r] \in Queue
          BY <1>5, <3>2 DEF TypeOK
        <4>2. data[mtxs_[r]].tar_id = r
          BY <4>1, QueuesAreNot DEF Wires, Frames
        <4>3. mtxs_[r] # q
          BY <3>2, <4>2 DEF p, d
        <4>4. data'[mtxs_[r]] = data[mtxs_[r]] /\ fields'[mtxs_[r]] = fields[mtxs_[r]]
          BY <1>1, <1>6, <4>1, <4>3
        <4>5. LET h == mtxs_[r]  l == Len(wire[r]) IN
                /\ data[h] # NoData /\ data[h].tar_id = r
                /\ fields[h] # 0 /\ l % 4 = fields[h]
                /\ wire[r][l - fields[h] + 1][1] = data[h]
          BY <4>1, QueuesAreNot DEF Wires, Frames
        <4> QED BY <4>1, <4>4, <4>5
      <3> QED BY <3>1, <3>2
    <2> QED BY <2>1, <2>2, <2>3 DEF Frames
  <1>11. NoInterleavedFrames'
    <2> SUFFICES ASSUME NEW r \in Peer, NEW i \in DOMAIN wire'[r]
                 PROVE  /\ wire'[r][i][2] = ((i - 1) % 4) + 1
                        /\ wire'[r][i][1] = wire'[r][i - ((i - 1) % 4)][1]
      BY DEF NoInterleavedFrames
    <2>1. CASE r # p
      BY <1>5, <2>1 DEF Wires, NoInterleavedFrames
    <2>2. CASE r = p /\ i \in 1 .. len
      <3>1. /\ wire[r][i][2] = ((i - 1) % 4) + 1
            /\ wire[r][i][1] = wire[r][i - ((i - 1) % 4)][1]
        BY <1>5, <2>2 DEF Wires, NoInterleavedFrames
      <3>2. i - ((i - 1) % 4) \in 1 .. len
        BY <1>3, <2>2
      <3> QED BY <1>5, <2>2, <3>1, <3>2
    <2>3. CASE r = p /\ i = len + 1
      <3>1. (i - 1) % 4 = f
        BY <1>3, <1>4, <2>3
      <3>2. wire'[r][i] = <<d, f + 1>>
        BY <1>5, <2>3
      <3>3. wire'[r][i - f][1] = d
        <4>1. CASE f = 0
          BY <1>3, <2>3, <3>2, <4>1
        <4>2. CASE f # 0
          <5>1. len - f + 1 \in 1 .. len /\ i - f = len - f + 1
            BY <1>3, <1>4, <2>3, <4>2
          <5> QED BY <1>4, <1>5, <2>3, <4>2, <5>1
        <4> QED BY <4>1, <4>2
      <3> QED BY <3>1, <3>2, <3>3
    <2> QED BY <1>3, <1>5, <2>1, <2>2, <2>3
  <1> QED BY <1>7, <1>10, <1>11 DEF Wires

LEMMA SendHolds == ASSUME IInv, NEW q \in Queue, Send(q) PROVE IInv'
  <1>1. /\ pc[q] = "send"
        /\ UNCHANGED <<wave, coming, closing, ppc, pdata, pqid, data_queue, task_threads_,
                       free_threads_, stored, acks>>
    BY DEF Send, pushVars
  <1>2. Wires' /\ wire' \in [Peer -> Seq(Items \X (1 .. 4))]
        /\ fields' \in [Queue -> 0 .. 3] /\ mtxs_' \in [Peer -> Queue \cup {NoQueue}]
    BY SendOnWire
  <1>3. CASE fields[q] = 3
    <2> DEFINE s == sizes_[q] - data[q].size
    <2>1. Counted(q, s)
      BY <1>3 DEF Send
    <2>2. /\ pc[q] \in Counting /\ data[q].buf # nullptr /\ data[q].tar_id # id
          /\ stored \subseteq Items
      BY <1>1 DEF IInv, HandsMatch, TypeOK, Counting
    <2> HIDE DEF s
    <2>3. /\ sizes_' \in [Queue -> Int]
          /\ pc' \in [Queue -> {"idle", "info", "store", "send", "finish"}]
          /\ data' \in [Queue -> Items \cup {NoData}]
          /\ HandsMatch' /\ Once' /\ NoStrayItem' /\ Books'
      BY <1>1, <2>1, <2>2, CountedHolds DEF s
    <2>4. TypeOK'
      BY <1>1, <1>2, <2>3 DEF IInv, TypeOK
    <2> QED BY <1>2, <2>3, <2>4 DEF IInv
  <1>4. CASE fields[q] # 3
    <2>1. UNCHANGED <<sizes_, pc, data>>
      BY <1>4 DEF Send
    <2>2. InQueues' = InQueues
      BY <1>1 DEF InQueues
    <2>3. Pend' = Pend
      BY <1>1, <2>1, <2>2 DEF Pend
    <2>4. TypeOK'
      BY <1>1, <1>2, <2>1 DEF IInv, TypeOK
    <2>5. HandsMatch' /\ Once' /\ NoStrayItem'
      BY <1>1, <2>1, <2>2 DEF IInv, HandsMatch, Once, NoStrayItem
    <2>6. Books'
      BY <1>1, <2>1, <2>3, BooksKept DEF IInv
    <2> QED BY <1>2, <2>4, <2>5, <2>6 DEF IInv
  <1> QED BY <1>3, <1>4

-----------------------------------------------------------------------------
LEMMA NextHolds == IInv /\ [Next]_vars => IInv'
  <1> SUFFICES ASSUME IInv, [Next]_vars PROVE IInv'
    OBVIOUS
  <1>1. CASE UNCHANGED vars
    <2>1. UNCHANGED <<wave, coming, closing, ppc, pdata, pqid, data_queue, task_threads_,
                      free_threads_, sizes_, pc, data, fields, mtxs_, wire, stored, acks>>
      BY <1>1 DEF vars, pushVars, threadVars
    <2>2. InQueues' = InQueues
      BY <2>1 DEF InQueues
    <2>3. Pend' = Pend
      BY <2>1, <2>2 DEF Pend
    <2>4. TypeOK' /\ HandsMatch' /\ Once' /\ NoStrayItem'
      BY <2>1, <2>2 DEF IInv, TypeOK, HandsMatch, Once, NoStrayItem
    <2>5. Books' /\ Wires'
      BY <2>1, <2>3, BooksKept, WiresKept DEF IInv
    <2> QED BY <2>4, <2>5 DEF IInv
  <1>2. CASE Next
    BY <1>2, NextWaveHolds, DestroyHolds, TakeHolds, DistributeHolds, PushHolds,
       ProcessHolds, AddInfoHolds, StoreHolds, SendHolds, FinishHolds
    DEF Next, Pushing, Step
  <1> QED BY <1>1, <1>2

THEOREM Invariance == Spec => []IInv
  BY InitHolds, NextHolds, PTL DEF Spec

(* ProceedProcessor keeps its types, for any number of queues, of pushers  *)
(* and of groups, and tasks and pieces of any size; the mutexes belong to  *)
(* queues or to no one.                                                    *)
THEOREM TypeCorrect == Spec => []TypeOK
  BY Invariance, PTL DEF IInv

(* Distribute, and the end of Process: a queue is in free_threads_ once or *)
(* belongs to one task, never both.                                        *)
THEOREM QueuesShared == Spec => []QueuesPartitioned
  <1>1. IInv => QueuesPartitioned
    <2> SUFFICES ASSUME IInv PROVE Len(free_threads_) = Cardinality(Free)
      BY DEF IInv, Books, Partition, QueuesPartitioned
    <2> DEFINE n == Len(free_threads_)
    <2>1. n \in Nat /\ DOMAIN free_threads_ = 1 .. n
      BY LenProperties DEF IInv, TypeOK
    <2>2. free_threads_ \in Bijection(1 .. n, Free)
      <3>1. free_threads_ \in [1 .. n -> Free]
        <4>1. free_threads_ = [i \in 1 .. n |-> free_threads_[i]]
          BY <2>1 DEF IInv, TypeOK
        <4> QED BY <2>1, <4>1 DEF Free
      <3>2. \A i, j \in 1 .. n : free_threads_[i] = free_threads_[j] => i = j
        BY <2>1 DEF IInv, Books, Partition
      <3>3. \A q \in Free : \E i \in 1 .. n : free_threads_[i] = q
        BY <2>1 DEF Free
      <3> QED BY <3>1, <3>2, <3>3 DEF Bijection, Injection, Surjection, IsInjective
    <2>3. IsFiniteSet(1 .. n) /\ Cardinality(1 .. n) = n
      <3>1. ASSUME NEW m \in Nat PROVE IsFiniteSet(1 .. m) /\ Cardinality(1 .. m) = m
        BY FS_Interval
      <3> QED BY <2>1, <3>1
    <2> QED BY <2>2, <2>3, FS_Bijection DEF ExistsBijection
  <1> QED BY <1>1, Invariance, PTL

(* sizes_ comes to 0 with the last item of a task and not before: the      *)
(* queue Distribute named, outside the lock, is still the task's when the  *)
(* item is pushed and until it has been processed.                         *)
THEOREM NothingStrays == Spec => []NoStrayItem
  BY Invariance, PTL DEF IInv

(* Store_ and the end of Process: the master hears of a task once, and     *)
(* only when every piece of it has been written.                           *)
LEMMA AcksAreTrue == IInv => AckMeansStored
  <1> SUFFICES ASSUME IInv, NEW rt \in Tasks
               PROVE  /\ acks[rt.task_id] <= 1
                      /\ acks[rt.task_id] = 1 => rt.tar_id = id /\ Sums(rt) \subseteq stored
    BY DEF AckMeansStored
  <1>1. PICK i \in DOMAIN Waves : rt \in Waves[i]
    BY DEF Tasks
  <1>2. acks[rt.task_id] <= 1
    BY DEF IInv, Books, Stored
  <1>3. ASSUME acks[rt.task_id] = 1 PROVE rt.tar_id = id /\ Sums(rt) \subseteq stored
    <2>1. rt.tar_id = id /\ NonePending(rt)
      BY <1>3 DEF IInv, Books, Stored
    <2>2. ~ (i > wave)
      BY <1>1, <1>3 DEF IInv, Books, NotBegun
    <2>3. i \in 1 .. wave
      BY <1>1, <2>2, WavesAssumption, LenProperties DEF IInv, TypeOK
    <2>4. \A n \in Numbers(rt) : Nth(rt, n) \in stored
      BY <1>1, <2>1, <2>3 DEF IInv, Books, Stored, NonePending
    <2> QED BY <2>1, <2>4, NumbersAreSums
  <1> QED BY <1>2, <1>3

THEOREM AcksTrue == Spec => []AckMeansStored
  BY Invariance, AcksAreTrue, PTL

(* Send_ holds mtxs_[tar_id] over its four calls: what a peer reads is one *)
(* whole frame after another, whichever threads send to it.                *)
THEOREM FramesWhole == Spec => []NoInterleavedFrames
  BY Invariance, PTL DEF IInv, Wires

(* The destructor closes the file before it joins the threads: by then     *)
(* everything is in it, and no thread is on its way to Store_.             *)
THEOREM ClosedLast == Spec => []WrittenBeforeClose
  <1>1. IInv => WrittenBeforeClose
    <2> SUFFICES ASSUME IInv, closing \in {"file", "closed"}
                 PROVE  /\ \A q \in Queue : pc[q] # "store"
                        /\ \A rt \in Tasks : rt.tar_id = id => Sums(rt) \subseteq stored
      BY DEF WrittenBeforeClose
    <2>1. \A rt \in Tasks : rt.tar_id = id => acks[rt.task_id] = 1
      <3> SUFFICES ASSUME NEW rt \in Tasks, rt.tar_id = id PROVE acks[rt.task_id] = 1
        OBVIOUS
      <3>1. PICK i \in DOMAIN Waves : rt \in Waves[i]
        BY DEF Tasks
      <3>2. acks[rt.task_id] > 0 /\ acks[rt.task_id] <= 1 /\ acks[rt.task_id] \in Nat
        BY <3>1, TaskTypes DEF IInv, Books, Stored, TypeOK
      <3> QED BY <3>2
    <2>2. \A rt \in Tasks : rt.tar_id = id => Sums(rt) \subseteq stored
      BY <2>1, AcksAreTrue DEF AckMeansStored
    <2>3. ASSUME NEW q \in Queue, pc[q] = "store" PROVE FALSE
      <3>1. data[q] \in Items /\ data[q].buf # nullptr /\ data[q].tar_id = id
        BY <2>3 DEF IInv, HandsMatch, TypeOK
      <3>2. PICK rt \in Tasks : data[q].task_id = rt.task_id /\ rt.tar_id = id
        BY <3>1, ItemCases, InfoFields, SumFields
      <3>3. data[q] \in Pend
        BY <2>3 DEF Pend, Counting
      <3>4. NonePending(rt)
        BY <2>1, <3>2 DEF IInv, Books, Stored
      <3> QED BY <3>1, <3>2, <3>3, <3>4, SomethingPending
    <2> QED BY <2>2, <2>3
  <1> QED BY <1>1, Invariance, PTL
=============================================================================
