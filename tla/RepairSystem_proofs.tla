------------------------ MODULE RepairSystem_proofs ------------------------
(***************************************************************************)
(* Proofs, for any number of nodes, any program of algorithms and routes   *)
(* and any number of queues, that the master and the nodes stay in step:   *)
(* every message is read as what it is, the rows of the bandwidth file     *)
(* agree, groups of tasks do not overlap, the master waits for exactly the *)
(* ends that come, and every step is one of the abstract RepairSession.    *)
(***************************************************************************)
EXTENDS RepairSystem, TLAPS, FiniteSetTheorems, SequenceTheorems

-----------------------------------------------------------------------------
(* The strengthening.  Where main and its threads are.                     *)
InGroup == mpc \in {"deliver", "wait"}

Position ==
  /\ mpc \notin {"algorithm", "close", "closed"} => alg \in Alg
  /\ mpc \in {"reload", "reloading"} => round = 0
  /\ mpc = "route" => round <= Len(RoundsOf(alg))
  /\ mpc \in {"set", "setting", "group", "deliver", "wait"} => round \in DOMAIN RoundsOf(alg)
  /\ mpc \in {"set", "setting"} => ThisAlg.alg # "t"
  /\ mpc \in {"set", "setting", "group"} => gid > 0
  /\ InGroup => gid \in DOMAIN Groups
  /\ mpc \notin {"reload", "reloading", "set", "setting", "close"} => next = 1
  /\ ~InGroup => waits_ = <<>>
  /\ mpc = "wait" => \A n \in Node : delivered[n] = task_num_
  /\ mpc = "deliver" => \A n \in Node : delivered[n] <= task_num_
  /\ \A n \in Node : ending[n] =>
       /\ mpc = "deliver" /\ delivered[n] < task_num_
       /\ n \in DOMAIN Group[delivered[n] + 1] /\ Group[delivered[n] + 1][n] = n

(* Between the groups nothing is under way but the message of the loop     *)
(* main is in, or its answer.                                              *)
ReloadRt == Rt(0, 0, 0, 1, 0, 1, 0)
SetRt(n) == Rt(0, 0, 0, 0, 0, 1, IF n = ThisAlg.rid THEN 0 ELSE 1)
EndRt == Rt(0, 0, 0, 0, 0, 0, 0)

Asked(n) == \/ mpc \in {"reload", "set", "close"} /\ n < next
            \/ mpc \in {"reloading", "setting"} /\ n >= next
            \/ mpc = "closed"
Idle(n) == gpc[n] = "task" /\ toNode[n] = <<>> /\ toMaster[n] = <<>>
Pending(n, r) == gpc[n] = "task" /\ toNode[n] = <<Task(r)>> /\ toMaster[n] = <<>>
Answered(n) == gpc[n] = "task" /\ toNode[n] = <<>> /\ toMaster[n] = <<n>>
Ended(n) == gpc[n] = "ended" /\ toNode[n] = <<>> /\ toMaster[n] = <<>>

BetweenAt(n) ==
  /\ waiting[n] = {} /\ parts[n] = {} /\ known[n] = {}
  /\ ~Asked(n) => Idle(n)
  /\ Asked(n) /\ mpc \in {"reload", "reloading"} => Pending(n, ReloadRt) \/ Answered(n)
  /\ Asked(n) /\ mpc \in {"set", "setting"} => Pending(n, SetRt(n)) \/ Answered(n)
  /\ Asked(n) /\ mpc \in {"close", "closed"} => Pending(n, EndRt) \/ Ended(n)
Between == ~InGroup => \A n \in Node : BetweenAt(n)

(* A node has the row of the master's round as soon as it has answered.    *)
Served(n) == toNode[n] = <<>> /\ (mpc \in {"reload", "set"} => n < next)
Due(n) == IF n = ThisAlg.rid THEN Full ELSE round
LevelAt(n) ==
  /\ mpc \in {"reload", "reloading"} /\ Served(n) => cur_[n] = 0
  /\ mpc = "route" /\ ThisAlg.alg # "t" => cur_[n] = round
  /\ mpc \in {"set", "setting"} =>
       /\ Served(n) => cur_[n] = round /\ speed[n] = Due(n)
       /\ ~Served(n) => cur_[n] + 1 = round
  /\ mpc \in {"group", "deliver", "wait"} /\ ThisAlg.alg # "t" =>
       cur_[n] = round /\ speed[n] = Due(n)
Level == \A n \in Node : LevelAt(n)

(* The tasks of the group that have been sent to a node, as it gets them.  *)
TaskId(k) == cur_tid_ + k - 1
TaskOf(n, k) == Rt(TaskId(k), Cardinality(SourcesOf(Group[k], n)), Group[k][n], 0, 1, 1, 0)
Ids(n, k) == SetToSeq(SourcesOf(Group[k], n))
Sent(n) == {k \in 1 .. task_num_ :
  /\ n \in DOMAIN Group[k]
  /\ k <= delivered[n] \/ (k = delivered[n] + 1 /\ ending[n])}

(* m elements, the last of s, come in q after position i, and a task then. *)
Follows(q, i, s, m) ==
  /\ i + m <= Len(q)
  /\ \A j \in 1 .. m : q[i + j] = Source(s[Len(s) - m + j])
  /\ i + m + 1 <= Len(q) => q[i + m + 1].kind = "rt"

(* On the way to a node each task comes once, with its sources behind it,  *)
(* and GetTaks is where the first message belongs.                         *)
TasksFramed(n) == \A i \in DOMAIN toNode[n] : toNode[n][i].kind = "rt" =>
  \E k \in Sent(n) : /\ toNode[n][i] = Task(TaskOf(n, k))
                     /\ Follows(toNode[n], i, Ids(n, k), Len(Ids(n, k)))
                     /\ TaskOf(n, k) \notin InHand(n)
OneOfEach(n) == \A i, j \in DOMAIN toNode[n] :
  toNode[n][i].kind = "rt" /\ toNode[n][i] = toNode[n][j] => i = j
Reading(n, k) ==
  /\ rt[n] = TaskOf(n, k) /\ rt[n] \in InHand(n)
  /\ left[n] \in 1 .. Len(Ids(n, k))
  /\ Follows(toNode[n], 0, Ids(n, k), left[n])
  /\ \A s \in Node : <<TaskId(k), s>> \in known[n] =>
       \E i \in 1 .. Len(Ids(n, k)) - left[n] : s = Ids(n, k)[i]
InPlace(n) ==
  /\ gpc[n] \in {"task", "sources"}
  /\ gpc[n] = "task" /\ toNode[n] # <<>> => toNode[n][1].kind = "rt"
  /\ gpc[n] = "sources" => \E k \in Sent(n) : Reading(n, k)
Framed == InGroup => \A n \in Node : TasksFramed(n) /\ OneOfEach(n) /\ InPlace(n)

(* What a node has in hand was sent to it, and what it was told of is for  *)
(* what it has in hand.                                                    *)
Holding(n) ==
  /\ waiting[n] \cap parts[n] = {}
  /\ \A t \in InHand(n) : \E k \in Sent(n) : t = TaskOf(n, k)
  /\ \A x \in known[n] : \E k \in Sent(n) :
       TaskOf(n, k) \in InHand(n) /\ x[1] = TaskId(k) /\ x[2] \in SourcesOf(Group[k], n)
Hands == InGroup => \A n \in Node : Holding(n)

(* A node is done with a task only after its sources, and is said to have  *)
(* sent all its sums only when it is done.                                 *)
IsComing(n, k) == \E i \in DOMAIN toNode[n] : toNode[n][i] = Task(TaskOf(n, k))
Done(n) == {k \in Sent(n) : TaskOf(n, k) \notin InHand(n) /\ ~IsComing(n, k)}
Trees == InGroup => \A n \in Node :
  /\ \A k \in Done(n) : \A s \in SourcesOf(Group[k], n) : k \in Done(s)
  /\ \A k \in 1 .. task_num_ : \A s \in Node : <<TaskId(k), s>> \in heard[n] => k \in Done(s)

(* No id of a group to come has been heard of.                             *)
Fresh == \A n \in Node : \A x \in heard[n] :
  x[1] < cur_tid_ + (IF InGroup THEN task_num_ ELSE 0)

(* A task is stored when the node where it ends is done with it.           *)
Kept == /\ AllStored
        /\ InGroup => \A n \in Node : \A k \in Done(n) : Group[k][n] = n => TaskId(k) \in stored

(* The tasks that end at a node and are not over are the entries of waits_ *)
(* without a message, with the one the deliver thread is about to make.    *)
Owed(n) == {k \in Sent(n) : Group[k][n] = n /\ k \notin Done(n)}
Counts == InGroup => \A n \in Node :
  Cardinality(Waits(n)) + (IF ending[n] THEN 1 ELSE 0) = Cardinality(Owed(n)) + Len(toMaster[n])

IInv == /\ TypeOK /\ Position /\ Between /\ Level
        /\ Framed /\ Hands /\ Trees /\ Fresh /\ Kept /\ Counts

-----------------------------------------------------------------------------
LEMMA FollowsTail ==
  ASSUME NEW M, NEW q \in Seq(M), q # <<>>, NEW i \in Nat \ {0}, NEW m \in Nat, NEW s,
         Follows(q, i, s, m)
  PROVE  Follows(Tail(q), i - 1, s, m)
  <1>1. /\ Len(q) \in Nat /\ Len(Tail(q)) = Len(q) - 1
        /\ \A k \in 1 .. Len(q) - 1 : Tail(q)[k] = q[k + 1]
    BY HeadTailProperties, LenProperties
  <1>2. (i - 1) + m <= Len(Tail(q))
    BY <1>1 DEF Follows
  <1>3. ASSUME NEW j \in 1 .. m
        PROVE  Tail(q)[(i - 1) + j] = Source(s[Len(s) - m + j])
    <2>1. (i - 1) + j \in 1 .. Len(q) - 1 /\ (i - 1) + j + 1 = i + j
      BY <1>1 DEF Follows
    <2> QED BY <1>1, <2>1 DEF Follows
  <1>4. ASSUME (i - 1) + m + 1 <= Len(Tail(q))
        PROVE  Tail(q)[(i - 1) + m + 1].kind = "rt"
    <2>1. (i - 1) + m + 1 \in 1 .. Len(q) - 1 /\ (i - 1) + m + 1 + 1 = i + m + 1
          /\ i + m + 1 <= Len(q)
      BY <1>1, <1>4
    <2> QED BY <1>1, <2>1 DEF Follows
  <1> QED BY <1>2, <1>3, <1>4 DEF Follows

LEMMA FollowsNext ==
  ASSUME NEW M, NEW q \in Seq(M), NEW m \in Nat \ {0}, NEW T, NEW s \in Seq(T),
         Follows(q, 0, s, m)
  PROVE  /\ q # <<>> /\ Head(q) = Source(s[Len(s) - m + 1])
         /\ Follows(Tail(q), 0, s, m - 1)
  <1>1. Len(q) \in Nat /\ q # <<>> /\ Len(s) \in Nat
    BY LenProperties, EmptySeq DEF Follows
  <1>2. /\ Len(Tail(q)) = Len(q) - 1 /\ Head(q) = q[1]
        /\ \A k \in 1 .. Len(q) - 1 : Tail(q)[k] = q[k + 1]
    BY <1>1, HeadTailProperties
  <1>3. Head(q) = Source(s[Len(s) - m + 1])
    BY <1>2 DEF Follows
  <1>4. ASSUME NEW j \in 1 .. m - 1
        PROVE  Tail(q)[0 + j] = Source(s[Len(s) - (m - 1) + j])
    <2>1. j \in 1 .. Len(q) - 1 /\ j + 1 \in 1 .. m /\ 0 + j = j /\ 0 + (j + 1) = j + 1
          /\ Len(s) - (m - 1) + j = Len(s) - m + (j + 1)
      BY <1>1 DEF Follows
    <2>2. q[0 + (j + 1)] = Source(s[Len(s) - m + (j + 1)])
      BY <2>1 DEF Follows
    <2> QED BY <1>2, <2>1, <2>2
  <1>5. ASSUME 0 + (m - 1) + 1 <= Len(Tail(q))
        PROVE  Tail(q)[0 + (m - 1) + 1].kind = "rt"
    <2>1. 0 + (m - 1) + 1 = m /\ m \in 1 .. Len(q) - 1 /\ 0 + m + 1 = m + 1
          /\ 0 + m + 1 <= Len(q)
      BY <1>1, <1>2, <1>5
    <2> QED BY <1>2, <2>1 DEF Follows
  <1>6. 0 + (m - 1) <= Len(Tail(q))
    BY <1>1, <1>2 DEF Follows
  <1>7. Follows(Tail(q), 0, s, m - 1)
    BY <1>4, <1>5, <1>6 DEF Follows
  <1> QED BY <1>1, <1>3, <1>7

LEMMA FollowsMore ==
  ASSUME NEW M, NEW q \in Seq(M), NEW p \in Seq(M), p # <<>>, p[1].kind = "rt",
         NEW i \in Nat, NEW m \in Nat, NEW s,
         Follows(q, i, s, m)
  PROVE  Follows(q \o p, i, s, m)
  <1>1. /\ Len(q) \in Nat /\ Len(p) \in Nat \ {0} /\ Len(q \o p) = Len(q) + Len(p)
        /\ \A k \in 1 .. Len(q) + Len(p) :
             (q \o p)[k] = IF k <= Len(q) THEN q[k] ELSE p[k - Len(q)]
    BY ConcatProperties, LenProperties, EmptySeq
  <1>2. i + m <= Len(q \o p)
    BY <1>1 DEF Follows
  <1>3. ASSUME NEW j \in 1 .. m
        PROVE  (q \o p)[i + j] = Source(s[Len(s) - m + j])
    <2>1. i + j \in 1 .. Len(q) + Len(p) /\ i + j <= Len(q)
      BY <1>1 DEF Follows
    <2> QED BY <1>1, <2>1 DEF Follows
  <1>4. ASSUME i + m + 1 <= Len(q \o p)
        PROVE  (q \o p)[i + m + 1].kind = "rt"
    <2>1. i + m + 1 \in 1 .. Len(q) + Len(p)
      BY <1>1, <1>4
    <2>2. CASE i + m + 1 <= Len(q)
      BY <1>1, <2>1, <2>2 DEF Follows
    <2>3. CASE i + m = Len(q)
      BY <1>1, <2>1, <2>3
    <2> QED BY <1>1, <2>2, <2>3 DEF Follows
  <1> QED BY <1>2, <1>3, <1>4 DEF Follows

(* A task's message with all its sources behind it, as Messages sends it. *)
LEMMA FollowsSent ==
  ASSUME NEW M, NEW q \in Seq(M), NEW x \in M, NEW T, NEW s \in Seq(T), NEW p \in Seq(M),
         Len(p) = Len(s), \A j \in 1 .. Len(s) : p[j] = Source(s[j])
  PROVE  /\ q \o (<<x>> \o p) \in Seq(M)
         /\ (q \o (<<x>> \o p))[Len(q) + 1] = x
         /\ Follows(q \o (<<x>> \o p), Len(q) + 1, s, Len(s))
         /\ Len(q \o (<<x>> \o p)) = Len(q) + 1 + Len(s)
         /\ \A j \in 1 .. Len(q) : (q \o (<<x>> \o p))[j] = q[j]
         /\ \A j \in 1 .. Len(s) : (q \o (<<x>> \o p))[Len(q) + 1 + j] = Source(s[j])
         /\ <<x>> \o p \in Seq(M) /\ <<x>> \o p # <<>> /\ (<<x>> \o p)[1] = x
  <1>1. Len(q) \in Nat /\ Len(s) \in Nat /\ <<x>> \in Seq(M) /\ Len(<<x>>) = 1 /\ <<x>>[1] = x
    BY LenProperties
  <1> DEFINE h == <<x>> \o p
  <1>2. /\ h \in Seq(M) /\ Len(h) = 1 + Len(s)
        /\ \A k \in 1 .. 1 + Len(s) : h[k] = IF k <= 1 THEN <<x>>[k] ELSE p[k - 1]
    BY <1>1, ConcatProperties
  <1>3. h # <<>> /\ h[1] = x
    BY <1>1, <1>2, EmptySeq
  <1> HIDE DEF h
  <1>4. /\ q \o h \in Seq(M) /\ Len(q \o h) = Len(q) + (1 + Len(s))
        /\ \A k \in 1 .. Len(q) + (1 + Len(s)) :
             (q \o h)[k] = IF k <= Len(q) THEN q[k] ELSE h[k - Len(q)]
    <2>1. /\ q \o h \in Seq(M) /\ Len(q \o h) = Len(q) + Len(h)
          /\ \A k \in 1 .. Len(q) + Len(h) :
               (q \o h)[k] = IF k <= Len(q) THEN q[k] ELSE h[k - Len(q)]
      BY <1>2, ConcatProperties
    <2> QED BY <1>2, <2>1
  <1>5. (q \o h)[Len(q) + 1] = x
    <2>1. Len(q) + 1 \in 1 .. Len(q) + (1 + Len(s)) /\ ~(Len(q) + 1 <= Len(q))
          /\ Len(q) + 1 - Len(q) = 1
      BY <1>1
    <2> QED BY <1>3, <1>4, <2>1
  <1>6. ASSUME NEW j \in 1 .. Len(s)
        PROVE  (q \o h)[Len(q) + 1 + j] = Source(s[j])
    <2>1. Len(q) + 1 + j \in 1 .. Len(q) + (1 + Len(s)) /\ ~(Len(q) + 1 + j <= Len(q))
          /\ Len(q) + 1 + j - Len(q) = 1 + j /\ 1 + j \in 1 .. 1 + Len(s)
          /\ ~(1 + j <= 1) /\ 1 + j - 1 = j
      BY <1>1
    <2> QED BY <1>2, <1>4, <2>1
  <1>7. Follows(q \o h, Len(q) + 1, s, Len(s))
    <2>1. \A j \in 1 .. Len(s) : Len(s) - Len(s) + j = j
      BY <1>1
    <2>2. Len(q) + 1 + Len(s) <= Len(q \o h) /\ ~(Len(q) + 1 + Len(s) + 1 <= Len(q \o h))
      BY <1>1, <1>4
    <2> QED BY <1>6, <2>1, <2>2 DEF Follows
  <1>8. \A j \in 1 .. Len(q) : (q \o h)[j] = q[j]
    BY <1>1, <1>4
  <1>9. Len(q \o h) = Len(q) + 1 + Len(s)
    BY <1>1, <1>4
  <1> QED BY <1>2, <1>3, <1>4, <1>5, <1>6, <1>7, <1>8, <1>9 DEF h

(* One order of the elements of a finite set. *)
LEMMA Ordered ==
  ASSUME NEW S, IsFiniteSet(S)
  PROVE  /\ SetToSeq(S) \in Seq(S) /\ Len(SetToSeq(S)) = Cardinality(S)
         /\ \A i, j \in 1 .. Len(SetToSeq(S)) : SetToSeq(S)[i] = SetToSeq(S)[j] => i = j
  <1>1. Cardinality(S) \in Nat /\ ExistsBijection(1 .. Cardinality(S), S)
    BY FS_CardinalityType
  <1>2. \E f \in [1 .. Cardinality(S) -> S] : IsInjective(f)
    BY <1>1 DEF ExistsBijection, Bijection, Injection, IsInjective
  <1>3. SetToSeq(S) \in [1 .. Cardinality(S) -> S] /\ IsInjective(SetToSeq(S))
    BY <1>2 DEF SetToSeq
  <1>4. SetToSeq(S) \in Seq(S) /\ Len(SetToSeq(S)) = Cardinality(S)
    BY <1>1, <1>3
  <1> QED BY <1>3, <1>4 DEF IsInjective

(* Replacing a function's value does not count; shifting by one, nor.      *)
LEMMA SameCount ==
  ASSUME NEW S, NEW T, IsFiniteSet(S), NEW f \in [S -> T],
         \A x, y \in S : f[x] = f[y] => x = y,
         \A y \in T : \E x \in S : f[x] = y
  PROVE  IsFiniteSet(T) /\ Cardinality(T) = Cardinality(S)
  <1>1. f \in Bijection(S, T)
    BY DEF Bijection, Injection, Surjection, IsInjective
  <1> QED BY <1>1, FS_Bijection DEF ExistsBijection

-----------------------------------------------------------------------------
(* What is known of routes, groups and messages.                           *)
LEMMA Nodes ==
  /\ N \in Nat \ {0} /\ Node = 1 .. N /\ 1 \in Node /\ N \in Node
  /\ IsFiniteSet(Node) /\ Cardinality(Node) = N /\ \A n \in Node : n \in Nat
  <1>1. N \in Nat \ {0} /\ Node = 1 .. N /\ 1 \in Node /\ N \in Node
    BY NAssumption DEF Node
  <1>2. ASSUME NEW m \in Nat \ {0} PROVE IsFiniteSet(1 .. m) /\ Cardinality(1 .. m) = m
    BY FS_Interval
  <1> QED BY <1>1, <1>2

LEMMA RouteTypes ==
  ASSUME NEW route \in Route
  PROVE  /\ DOMAIN route \subseteq Node
         /\ \A n \in DOMAIN route : route[n] \in DOMAIN route /\ route[n] \in Node
         /\ \E root \in DOMAIN route : /\ route[root] = root
               /\ \A S \in SUBSET DOMAIN route \ {{}} :
                    (\A n \in S : route[n] \in S) => root \in S
         /\ \A n : /\ SourcesOf(route, n) \subseteq Node
                   /\ SourcesOf(route, n) \subseteq DOMAIN route
                   /\ IsFiniteSet(SourcesOf(route, n))
                   /\ Cardinality(SourcesOf(route, n)) \in 0 .. N
                   /\ SetToSeq(SourcesOf(route, n)) \in Seq(SourcesOf(route, n))
                   /\ Len(SetToSeq(SourcesOf(route, n))) = Cardinality(SourcesOf(route, n))
  <1>1. PICK D \in SUBSET Node \ {{}} : route \in [D -> D]
    BY DEF Route
  <1>2. \E root \in DOMAIN route : /\ route[root] = root
               /\ \A S \in SUBSET DOMAIN route \ {{}} :
                    (\A n \in S : route[n] \in S) => root \in S
    BY DEF Route
  <1>3. ASSUME NEW n
        PROVE  /\ SourcesOf(route, n) \subseteq Node
               /\ SourcesOf(route, n) \subseteq DOMAIN route
               /\ IsFiniteSet(SourcesOf(route, n))
               /\ Cardinality(SourcesOf(route, n)) \in 0 .. N
               /\ SetToSeq(SourcesOf(route, n)) \in Seq(SourcesOf(route, n))
               /\ Len(SetToSeq(SourcesOf(route, n))) = Cardinality(SourcesOf(route, n))
    <2>1. SourcesOf(route, n) \subseteq DOMAIN route /\ SourcesOf(route, n) \subseteq Node
      BY <1>1 DEF SourcesOf
    <2>2. /\ IsFiniteSet(SourcesOf(route, n))
          /\ Cardinality(SourcesOf(route, n)) <= Cardinality(Node)
      BY <2>1, Nodes, FS_Subset
    <2>3. Cardinality(SourcesOf(route, n)) \in Nat
      BY <2>2, FS_CardinalityType
    <2>4. Cardinality(SourcesOf(route, n)) \in 0 .. N
      BY <2>2, <2>3, Nodes
    <2> QED BY <2>1, <2>2, <2>4, Ordered
  <1> QED BY <1>1, <1>2, <1>3

Msg == {Task(r) : r \in Rts} \cup {Source(s) : s \in Node}

LEMMA ProgramTypes ==
  /\ Len(Program) \in Nat /\ Alg = 1 .. Len(Program)
  /\ \A a \in Alg : /\ RoundsOf(a) \in Seq(Seq(Seq(Route) \ {<<>>}))
                    /\ Program[a].rid \in Nat
                    /\ Len(RoundsOf(a)) \in Nat /\ DOMAIN RoundsOf(a) = 1 .. Len(RoundsOf(a))
                    /\ Program[a].alg # "t" => Len(RoundsOf(a)) = BwNum
  <1> DEFINE P == [alg : STRING, rid : Nat, rounds : Seq(Seq(Seq(Route) \ {<<>>}))]
  <1>1. Program \in Seq(P)
    BY ProgramAssumption
  <1>2. Len(Program) \in Nat /\ Alg = 1 .. Len(Program) /\ \A a \in Alg : Program[a] \in P
    BY <1>1, LenProperties, ElementOfSeq DEF Alg
  <1>3. \A a \in Alg : RoundsOf(a) \in Seq(Seq(Seq(Route) \ {<<>>})) /\ Program[a].rid \in Nat
    BY <1>2 DEF RoundsOf
  <1>4. \A a \in Alg : Len(RoundsOf(a)) \in Nat /\ DOMAIN RoundsOf(a) = 1 .. Len(RoundsOf(a))
    BY <1>3, LenProperties
  <1>5. \A a \in Alg : Program[a].alg # "t" => Len(RoundsOf(a)) = BwNum
    BY ProgramAssumption
  <1> HIDE DEF P
  <1> QED BY <1>2, <1>3, <1>4, <1>5

LEMMA GroupsTyped ==
  ASSUME alg \in Alg, round \in DOMAIN RoundsOf(alg)
  PROVE  /\ Groups \in Seq(Seq(Route) \ {<<>>})
         /\ Len(Groups) \in Nat /\ DOMAIN Groups = 1 .. Len(Groups)
         /\ \A g \in DOMAIN Groups : Groups[g] \in Seq(Route) \ {<<>>}
  <1>1. Groups \in Seq(Seq(Route) \ {<<>>})
    BY ProgramTypes, ElementOfSeq DEF Groups
  <1> QED BY <1>1, LenProperties, ElementOfSeq

(* The tasks of the group under way.                                       *)
LEMMA GroupTyped ==
  ASSUME TypeOK, Position, InGroup
  PROVE  /\ Group \in Seq(Route) /\ task_num_ \in Nat
         /\ \A k \in 1 .. task_num_ : Group[k] \in Route
  <1>1. mpc \in {"deliver", "wait"} /\ alg \in Alg /\ round \in DOMAIN RoundsOf(alg)
        /\ gid \in DOMAIN Groups
    BY DEF Position, InGroup
  <1>2. Group \in Seq(Route)
    BY <1>1, GroupsTyped DEF Group
  <1> QED BY <1>2, LenProperties, ElementOfSeq DEF task_num_

LEMMA TaskTyped ==
  ASSUME TypeOK, Position, InGroup, NEW k \in 1 .. task_num_, NEW n \in DOMAIN Group[k]
  PROVE  /\ TaskOf(n, k) \in Rts /\ Task(TaskOf(n, k)) \in Msg
         /\ TaskId(k) \in TaskIds /\ TaskId(k) >= cur_tid_ /\ TaskId(k) < cur_tid_ + task_num_
         /\ n \in Node /\ Group[k][n] \in DOMAIN Group[k] /\ Group[k][n] \in Node
         /\ TaskOf(n, k).task_id = TaskId(k) /\ TaskOf(n, k).tar_id = Group[k][n]
         /\ TaskOf(n, k).src_num = Cardinality(SourcesOf(Group[k], n))
         /\ Means(TaskOf(n, k)) = "task" /\ TaskOf(n, k).size > 0
         /\ Ids(n, k) \in Seq(SourcesOf(Group[k], n))
         /\ Len(Ids(n, k)) = Cardinality(SourcesOf(Group[k], n)) /\ Len(Ids(n, k)) \in 0 .. N
         /\ SourcesOf(Group[k], n) \subseteq Node /\ IsFiniteSet(SourcesOf(Group[k], n))
         /\ \A s \in SourcesOf(Group[k], n) : s \in DOMAIN Group[k] /\ Group[k][s] = n /\ s # n
  <1>1. Group[k] \in Route /\ task_num_ \in Nat /\ cur_tid_ \in Nat /\ mpc \in {"deliver", "wait"}
    BY GroupTyped DEF TypeOK, InGroup
  <1>2. /\ n \in Node /\ Group[k][n] \in DOMAIN Group[k] /\ Group[k][n] \in Node
        /\ SourcesOf(Group[k], n) \subseteq Node /\ IsFiniteSet(SourcesOf(Group[k], n))
        /\ Cardinality(SourcesOf(Group[k], n)) \in 0 .. N
        /\ Ids(n, k) \in Seq(SourcesOf(Group[k], n))
        /\ Len(Ids(n, k)) = Cardinality(SourcesOf(Group[k], n))
    BY <1>1, RouteTypes DEF Ids
  <1>3. TaskId(k) \in TaskIds /\ TaskId(k) >= cur_tid_ /\ TaskId(k) < cur_tid_ + task_num_
    BY <1>1 DEF TaskIds, TaskId
  <1>4. /\ TaskOf(n, k).task_id = TaskId(k) /\ TaskOf(n, k).tar_id = Group[k][n]
        /\ TaskOf(n, k).src_num = Cardinality(SourcesOf(Group[k], n))
        /\ Means(TaskOf(n, k)) = "task" /\ TaskOf(n, k).size > 0
    BY DEF TaskOf, Rt, Means
  <1>5. TaskOf(n, k) \in Rts
    <2>1. Group[k][n] \in 0 .. N
      BY <1>2, Nodes
    <2> QED BY <1>2, <1>3, <2>1 DEF TaskOf, Rt, Rts
  <1>6. \A s \in SourcesOf(Group[k], n) : s \in DOMAIN Group[k] /\ Group[k][s] = n /\ s # n
    BY DEF SourcesOf
  <1> QED BY <1>2, <1>3, <1>4, <1>5, <1>6 DEF Msg

LEMMA TasksDiffer ==
  ASSUME cur_tid_ \in Nat, NEW j \in Nat, NEW k \in Nat, NEW m, NEW n,
         TaskOf(m, j) = TaskOf(n, k) \/ TaskId(j) = TaskId(k)
  PROVE  j = k
  BY DEF TaskOf, Rt, TaskId

LEMMA Kinds == /\ \A r : Task(r).kind = "rt" /\ Task(r).rt = r
               /\ \A s : Source(s).kind = "src" /\ Source(s).src_id = s
               /\ \A q, r : Task(q) = Task(r) => q = r
               /\ \A r, s : Task(r) # Source(s)
  BY DEF Task, Source

LEMMA NextNode ==
  ASSUME NEW n \in Node
  PROVE  /\ (n % N) + 1 = IF n = N THEN 1 ELSE n + 1
         /\ (n % N) + 1 \in Node
  <1>1. n \in 1 .. N /\ N \in Nat \ {0}
    BY Nodes
  <1>2. n % N = IF n = N THEN 0 ELSE n
    BY <1>1
  <1> QED BY <1>1, <1>2, Nodes

LEMMA ZeroRt ==
  ASSUME cur_tid_ \in Nat, ~InGroup
  PROVE  ReloadRt \in Rts /\ EndRt \in Rts /\ \A n \in Node : SetRt(n) \in Rts
  <1>1. 0 \in TaskIds /\ 0 \in 0 .. N
    BY Nodes DEF TaskIds, InGroup
  <1> QED BY <1>1 DEF ReloadRt, EndRt, SetRt, Rt, Rts

LEMMA InitHolds == Init => IInv
  <1> SUFFICES ASSUME Init PROVE IInv
    OBVIOUS
  <1> USE DEF Init, MasterInit, NodeInit, LinksInit
  <1>1. TypeOK
    <2>1. 0 \in 0 .. BwNum
      BY RepairerAssumption
    <2> QED BY <2>1, Nodes, ProgramTypes, EmptySeq DEF TypeOK, Full
  <1>2. Position
    BY DEF Position, InGroup
  <1>3. Between /\ Level
    BY DEF Between, BetweenAt, Asked, Idle, Level, LevelAt
  <1>4. ~InGroup
    BY DEF InGroup
  <1>5. Framed /\ Hands /\ Trees /\ Counts /\ Kept /\ Fresh
    BY <1>4 DEF Framed, Hands, Trees, Counts, Kept, Fresh, AllStored
  <1> QED BY <1>1, <1>2, <1>3, <1>5 DEF IInv

-----------------------------------------------------------------------------
(* The steps of main outside a group.                                      *)
LEMMA OutsideKeeps ==
  ASSUME ~InGroup, ~InGroup', Fresh, Kept, UNCHANGED <<heard, stored, cur_tid_>>
  PROVE  Framed' /\ Hands' /\ Trees' /\ Counts' /\ Fresh' /\ Kept'
  BY DEF Framed, Hands, Trees, Counts, Fresh, Kept, AllStored

LEMMA OutsideTypes ==
  ASSUME TypeOK, ~InGroup, ~InGroup', UNCHANGED <<nodeVars, cur_tid_, waits_, delivered, ending>>,
         toNode' \in [Node -> Seq(Msg)], toMaster' \in [Node -> Seq(Node)],
         mpc' \in {"algorithm", "reload", "reloading", "route", "set", "setting", "group",
                   "close", "closed"},
         alg' \in 0 .. Len(Program), round' \in Nat, gid' \in Nat, next' \in Node
  PROVE  TypeOK'
  <1>1. TaskIds' = TaskIds
    BY DEF TaskIds, InGroup
  <1>2. Rts' = Rts
    BY <1>1 DEF Rts
  <1>3. toNode' \in [Node -> Seq({Task(r) : r \in Rts'} \cup {Source(s) : s \in Node})]
    BY <1>2 DEF Msg
  <1>4. /\ rt' \in [Node -> Rts' \cup {NoTask}]
        /\ waiting' \in [Node -> SUBSET Rts'] /\ parts' \in [Node -> SUBSET Rts']
        /\ known' \in [Node -> SUBSET (TaskIds' \X Node)]
        /\ heard' \in [Node -> SUBSET (TaskIds' \X Node)]
        /\ stored' \subseteq TaskIds'
    BY <1>1, <1>2 DEF TypeOK, nodeVars, stageVars
  <1>5. /\ gpc' \in [Node -> {"task", "sources", "ended", "exited"}]
        /\ left' \in [Node -> 0 .. N] /\ cur_' \in [Node -> 0 .. BwNum]
        /\ speed' \in [Node -> 0 .. BwNum]
        /\ cur_tid_' \in Nat /\ waits_' \in Seq(Node)
        /\ delivered' \in [Node -> Nat] /\ ending' \in [Node -> BOOLEAN]
    BY DEF TypeOK, nodeVars
  <1> QED BY <1>3, <1>4, <1>5 DEF TypeOK

LEMMA ChangeAlgHolds ==
  ASSUME IInv, ChangeAlg, UNCHANGED nodeVars PROVE IInv'
  <1> USE DEF IInv, ChangeAlg, links
  <1>0. ~InGroup /\ ~InGroup'
    BY DEF InGroup
  <1>1. TypeOK'
    <2>1. alg + 1 \in 0 .. Len(Program)
      BY ProgramTypes DEF TypeOK
    <2> QED BY <1>0, <2>1, OutsideTypes DEF TypeOK, Msg
  <1>2. Position'
    <2>1. alg + 1 \in Alg
      BY ProgramTypes DEF TypeOK
    <2> QED BY <2>1 DEF Position, InGroup
  <1>3. Between' /\ Level'
    BY <1>0, Nodes DEF Between, BetweenAt, Asked, Idle, Level, LevelAt, Served, Position, InGroup, nodeVars, stageVars
  <1> QED BY <1>0, <1>1, <1>2, <1>3, OutsideKeeps DEF nodeVars, stageVars

LEMMA LastAlgHolds ==
  ASSUME IInv, LastAlg, UNCHANGED nodeVars PROVE IInv'
  <1> USE DEF IInv, LastAlg, links
  <1>0. ~InGroup /\ ~InGroup'
    BY DEF InGroup
  <1>1. TypeOK'
    BY <1>0, OutsideTypes DEF TypeOK, Msg
  <1>2. Position'
    BY DEF Position, InGroup
  <1>3. Between' /\ Level'
    BY <1>0, Nodes DEF Between, BetweenAt, Asked, Idle, Level, LevelAt, Served, Position, InGroup, nodeVars, stageVars
  <1> QED BY <1>0, <1>1, <1>2, <1>3, OutsideKeeps DEF nodeVars, stageVars

LEMMA GetTasksHolds ==
  ASSUME IInv, GetTasks, UNCHANGED nodeVars PROVE IInv'
  <1> USE DEF IInv, GetTasks, links
  <1>0. ~InGroup /\ ~InGroup' /\ mpc' \in {"algorithm", "group", "set"}
    BY DEF InGroup
  <1>1. TypeOK'
    <2>1. UNCHANGED <<alg, next, cur_tid_, waits_, delivered, ending, toNode, toMaster>>
          /\ round' = round + 1 /\ gid' = 1
      OBVIOUS
    <2> HIDE DEF GetTasks
    <2>2. round' \in Nat /\ gid' \in Nat /\ alg' \in 0 .. Len(Program) /\ next' \in Node
      BY <2>1 DEF TypeOK
    <2>3. toNode' \in [Node -> Seq(Msg)] /\ toMaster' \in [Node -> Seq(Node)]
      BY <2>1 DEF TypeOK, Msg
    <2> QED BY <1>0, <2>1, <2>2, <2>3, OutsideTypes
  <1>2. Position'
    <2>1. alg \in Alg /\ round <= Len(RoundsOf(alg)) /\ round \in Nat
      BY DEF Position, TypeOK
    <2>2. round # Len(RoundsOf(alg)) => round + 1 \in DOMAIN RoundsOf(alg)
      BY <2>1, ProgramTypes
    <2> QED BY <1>0, <2>1, <2>2 DEF Position, InGroup, ThisAlg
  <1>3. Between'
    BY <1>0, Nodes DEF Between, BetweenAt, Asked, Idle, Position, InGroup, nodeVars, stageVars
  <1>4. Level'
    <2> SUFFICES ASSUME NEW n \in Node PROVE LevelAt(n)'
      BY DEF Level
    <2>1. ThisAlg.alg # "t" => cur_[n] = round
      BY DEF Level, LevelAt
    <2>2. mpc' = "set" => ThisAlg.alg # "t" /\ ~Served(n)'
      BY Nodes DEF Served, Position
    <2>3. mpc' = "group" => ThisAlg.alg = "t"
      OBVIOUS
    <2> QED BY <1>0, <2>1, <2>2, <2>3 DEF LevelAt, nodeVars, ThisAlg, TypeOK
  <1> QED BY <1>0, <1>1, <1>2, <1>3, <1>4, OutsideKeeps DEF nodeVars, stageVars

(* A turn of a loop that sends: the message is alone on its way.           *)
LEMMA SendTurn ==
  ASSUME TypeOK, ~InGroup, NEW now, NEW r \in Rts, NEW after, SendLoop(now, r, after), Idle(next)
  PROVE  /\ toNode' \in [Node -> Seq(Msg)] /\ toMaster' = toMaster
         /\ next \in Node /\ next' \in Node /\ next' = IF next = N THEN 1 ELSE next + 1
         /\ mpc = now /\ mpc' = IF next = N THEN after ELSE now
         /\ UNCHANGED <<alg, round, gid, cur_tid_, waits_, delivered, ending>>
         /\ toNode'[next] = <<Task(r)>> /\ <<Task(r)>> # <<>>
         /\ \A m \in Node : m # next => toNode'[m] = toNode[m]
  <1> USE DEF SendLoop
  <1>1. next \in Node /\ toNode \in [Node -> Seq(Msg)] /\ toNode[next] = <<>>
    BY DEF TypeOK, Idle, Msg
  <1>2. Task(r) \in Msg
    BY DEF Msg
  <1>3. <<Task(r)>> \in Seq(Msg) /\ <<Task(r)>> # <<>> /\ toNode[next] \o <<Task(r)>> = <<Task(r)>>
    BY <1>1, <1>2, ConcatEmptySeq
  <1>4. toNode' = [toNode EXCEPT ![next] = <<Task(r)>>]
    BY <1>1, <1>3 DEF Send
  <1>5. next' \in Node /\ next' = IF next = N THEN 1 ELSE next + 1
    BY <1>1, NextNode
  <1> QED BY <1>1, <1>3, <1>4, <1>5

(* A turn of a loop that receives: the answer was all there was.           *)
LEMMA ReceiveTurn ==
  ASSUME TypeOK, ~InGroup, NEW now, NEW after, ReceiveLoop(now, after), Answered(next)
  PROVE  /\ toNode' = toNode /\ toMaster' \in [Node -> Seq(Node)]
         /\ next \in Node /\ next' \in Node /\ next' = IF next = N THEN 1 ELSE next + 1
         /\ mpc = now /\ mpc' = IF next = N THEN after ELSE now
         /\ UNCHANGED <<alg, round, gid, cur_tid_, waits_, delivered, ending>>
         /\ toMaster'[next] = <<>>
         /\ \A m \in Node : m # next => toMaster'[m] = toMaster[m]
  <1> USE DEF ReceiveLoop
  <1>1. next \in Node /\ toMaster \in [Node -> Seq(Node)] /\ toMaster[next] = <<next>>
    BY DEF TypeOK, Answered
  <1>2. Tail(toMaster[next]) = <<>> /\ <<>> \in Seq(Node)
    BY <1>1
  <1>3. toMaster' = [toMaster EXCEPT ![next] = <<>>]
    BY <1>2
  <1>4. next' \in Node /\ next' = IF next = N THEN 1 ELSE next + 1
    BY <1>1, NextNode
  <1> QED BY <1>1, <1>2, <1>3, <1>4

LEMMA SendReloadHolds ==
  ASSUME IInv, SendLoop("reload", Rt(0, 0, 0, 1, 0, 1, 0), "reloading"), UNCHANGED nodeVars
  PROVE  IInv'
  <1> USE DEF IInv
  <1>0. mpc = "reload" /\ mpc' \in {"reload", "reloading"} /\ ~InGroup /\ ~InGroup'
    BY DEF InGroup, SendLoop
  <1>1. ReloadRt \in Rts
    BY <1>0, ZeroRt DEF TypeOK
  <1>2. Idle(next) /\ next \in Node
    BY <1>0, Nodes DEF Between, BetweenAt, Asked, TypeOK
  <1>3. /\ toNode' \in [Node -> Seq(Msg)] /\ toMaster' = toMaster
        /\ next \in Node /\ next' \in Node /\ next' = IF next = N THEN 1 ELSE next + 1
        /\ mpc' = IF next = N THEN "reloading" ELSE "reload"
        /\ UNCHANGED <<alg, round, gid, cur_tid_, waits_, delivered, ending>>
        /\ toNode'[next] = <<Task(ReloadRt)>> /\ <<Task(ReloadRt)>> # <<>>
        /\ \A m \in Node : m # next => toNode'[m] = toNode[m]
    BY <1>0, <1>1, <1>2, SendTurn DEF ReloadRt
  <1>4. TypeOK'
    BY <1>0, <1>3, OutsideTypes DEF TypeOK
  <1>5. Position'
    BY <1>0, <1>3 DEF Position, InGroup
  <1>6. ASSUME NEW m \in Node PROVE BetweenAt(m)' /\ LevelAt(m)'
    <2>1. m \in 1 .. N /\ next \in 1 .. N /\ N \in Nat
      BY <1>3, Nodes
    <2>2. Asked(m)' <=> m <= next
      BY <1>0, <1>3, <2>1 DEF Asked
    <2>3. Asked(m) <=> m < next
      BY <1>0 DEF Asked
    <2>4. BetweenAt(m) /\ LevelAt(m)
      BY <1>0 DEF Between, Level
    <2>5. ASSUME Served(m)' PROVE m # next /\ m < next /\ Served(m)
      <3>1. toNode'[m] = <<>> /\ (mpc' = "reload" => m < next')
        BY <2>5 DEF Served
      <3>2. m # next
        BY <1>3, <3>1
      <3>3. m < next
        <4>1. CASE next = N
          BY <2>1, <3>2, <4>1
        <4>2. CASE next # N
          <5>1. mpc' = "reload" /\ next' = next + 1
            BY <1>3, <4>2
          <5> QED BY <2>1, <3>1, <3>2, <5>1
        <4> QED BY <4>1, <4>2
      <3> QED BY <1>3, <3>1, <3>2, <3>3 DEF Served
    <2>6. LevelAt(m)'
      BY <1>0, <2>4, <2>5 DEF LevelAt, nodeVars
    <2>7. CASE m = next
      BY <1>0, <1>2, <1>3, <2>1, <2>2, <2>4, <2>6, <2>7 DEF BetweenAt, Idle, Pending, nodeVars, stageVars
    <2>8. CASE m # next
      <3>1. Asked(m)' <=> Asked(m)
        BY <2>1, <2>2, <2>3, <2>8
      <3> QED BY <1>0, <1>3, <2>4, <2>6, <2>8, <3>1 DEF BetweenAt, Idle, Pending, Answered, nodeVars, stageVars
    <2> QED BY <2>7, <2>8
  <1>7. Between' /\ Level'
    BY <1>6 DEF Between, Level
  <1> QED BY <1>0, <1>3, <1>4, <1>5, <1>7, OutsideKeeps DEF nodeVars, stageVars

LEMMA SendSetHolds ==
  ASSUME IInv, UNCHANGED nodeVars,
         SendLoop("set", Rt(0, 0, 0, 0, 0, 1, IF next = ThisAlg.rid THEN 0 ELSE 1), "setting")
  PROVE  IInv'
  <1> USE DEF IInv
  <1>0. mpc = "set" /\ mpc' \in {"set", "setting"} /\ ~InGroup /\ ~InGroup'
    BY DEF InGroup, SendLoop
  <1>2. Idle(next) /\ next \in Node
    BY <1>0, Nodes DEF Between, BetweenAt, Asked, TypeOK
  <1>1. SetRt(next) \in Rts
    BY <1>0, <1>2, ZeroRt DEF TypeOK
  <1>3. /\ toNode' \in [Node -> Seq(Msg)] /\ toMaster' = toMaster
        /\ next \in Node /\ next' \in Node /\ next' = IF next = N THEN 1 ELSE next + 1
        /\ mpc' = IF next = N THEN "setting" ELSE "set"
        /\ UNCHANGED <<alg, round, gid, cur_tid_, waits_, delivered, ending>>
        /\ toNode'[next] = <<Task(SetRt(next))>> /\ <<Task(SetRt(next))>> # <<>>
        /\ \A m \in Node : m # next => toNode'[m] = toNode[m]
    BY <1>0, <1>1, <1>2, SendTurn DEF SetRt
  <1>4. TypeOK'
    BY <1>0, <1>3, OutsideTypes DEF TypeOK
  <1>5. Position'
    BY <1>0, <1>3 DEF Position, InGroup, ThisAlg
  <1>6. ASSUME NEW m \in Node PROVE BetweenAt(m)' /\ LevelAt(m)'
    <2>0. SetRt(m)' = SetRt(m) /\ Due(m)' = Due(m)
      BY <1>3 DEF SetRt, Due, ThisAlg
    <2>1. m \in 1 .. N /\ next \in 1 .. N /\ N \in Nat
      BY <1>3, Nodes
    <2>2. Asked(m)' <=> m <= next
      BY <1>0, <1>3, <2>1 DEF Asked
    <2>3. Asked(m) <=> m < next
      BY <1>0 DEF Asked
    <2>4. BetweenAt(m) /\ LevelAt(m)
      BY <1>0 DEF Between, Level
    <2>5. Served(m)' <=> m # next /\ Served(m)
      <3>1. CASE m = next
        BY <1>3, <3>1 DEF Served
      <3>2. CASE m < next
        <4>1. m # next /\ toNode'[m] = toNode[m] /\ (mpc' = "set" => m < next')
          BY <1>3, <2>1, <3>2
        <4> QED BY <1>0, <3>2, <4>1 DEF Served
      <3>3. CASE m > next
        <4>1. next # N /\ mpc' = "set" /\ ~(m < next') /\ ~(m < next)
          BY <1>3, <2>1, <3>3
        <4> QED BY <1>0, <4>1 DEF Served
      <3> QED BY <2>1, <3>1, <3>2, <3>3
    <2>6. LevelAt(m)'
      <3>1. ~Served(next)
        BY <1>0, <2>1 DEF Served
      <3> QED BY <1>0, <1>3, <2>0, <2>4, <2>5, <3>1 DEF LevelAt, nodeVars
    <2>7. CASE m = next
      BY <1>0, <1>2, <1>3, <2>0, <2>1, <2>2, <2>4, <2>6, <2>7 DEF BetweenAt, Idle, Pending, nodeVars, stageVars
    <2>8. CASE m # next
      <3>1. Asked(m)' <=> Asked(m)
        BY <2>1, <2>2, <2>3, <2>8
      <3> QED BY <1>0, <1>3, <2>0, <2>4, <2>6, <2>8, <3>1 DEF BetweenAt, Idle, Pending, Answered, nodeVars, stageVars
    <2> QED BY <2>7, <2>8
  <1>7. Between' /\ Level'
    BY <1>6 DEF Between, Level
  <1> QED BY <1>0, <1>3, <1>4, <1>5, <1>7, OutsideKeeps DEF nodeVars, stageVars

LEMMA CloseHolds ==
  ASSUME IInv, Close, UNCHANGED nodeVars PROVE IInv'
  <1> USE DEF IInv
  <1>0. mpc = "close" /\ mpc' \in {"close", "closed"} /\ ~InGroup /\ ~InGroup'
    BY DEF InGroup, Close, SendLoop
  <1>1. EndRt \in Rts
    BY <1>0, ZeroRt DEF TypeOK
  <1>2. Idle(next) /\ next \in Node
    BY <1>0, Nodes DEF Between, BetweenAt, Asked, TypeOK
  <1>3. /\ toNode' \in [Node -> Seq(Msg)] /\ toMaster' = toMaster
        /\ next \in Node /\ next' \in Node /\ next' = IF next = N THEN 1 ELSE next + 1
        /\ mpc' = IF next = N THEN "closed" ELSE "close"
        /\ UNCHANGED <<alg, round, gid, cur_tid_, waits_, delivered, ending>>
        /\ toNode'[next] = <<Task(EndRt)>>
        /\ \A m \in Node : m # next => toNode'[m] = toNode[m]
    BY <1>0, <1>1, <1>2, SendTurn DEF EndRt, Close
  <1>4. TypeOK'
    BY <1>0, <1>3, OutsideTypes DEF TypeOK
  <1>5. Position'
    BY <1>0, <1>3 DEF Position, InGroup
  <1>6. ASSUME NEW m \in Node PROVE BetweenAt(m)'
    <2>1. m \in 1 .. N /\ next \in 1 .. N /\ N \in Nat
      BY <1>3, Nodes
    <2>2. Asked(m)' <=> m <= next
      BY <1>0, <1>3, <2>1 DEF Asked
    <2>3. Asked(m) <=> m < next
      BY <1>0 DEF Asked
    <2>4. BetweenAt(m)
      BY <1>0 DEF Between
    <2>7. CASE m = next
      BY <1>0, <1>2, <1>3, <2>1, <2>2, <2>4, <2>7 DEF BetweenAt, Idle, Pending, nodeVars, stageVars
    <2>8. CASE m # next
      <3>1. Asked(m)' <=> Asked(m)
        BY <2>1, <2>2, <2>3, <2>8
      <3> QED BY <1>0, <1>3, <2>4, <2>8, <3>1 DEF BetweenAt, Idle, Pending, Ended, nodeVars, stageVars
    <2> QED BY <2>7, <2>8
  <1>7. Between' /\ Level'
    BY <1>0, <1>6 DEF Between, Level, LevelAt
  <1> QED BY <1>0, <1>3, <1>4, <1>5, <1>7, OutsideKeeps DEF nodeVars, stageVars

LEMMA ReceiveReloadHolds ==
  ASSUME IInv, ReceiveLoop("reloading", "route"), UNCHANGED nodeVars PROVE IInv'
  <1> USE DEF IInv
  <1>0. /\ mpc = "reloading" /\ mpc' \in {"reloading", "route"} /\ ~InGroup /\ ~InGroup'
        /\ toMaster[next] # <<>>
    BY DEF InGroup, ReceiveLoop
  <1>2. Answered(next) /\ next \in Node
    BY <1>0, Nodes DEF Between, BetweenAt, Asked, TypeOK, Pending
  <1>3. /\ toNode' = toNode /\ toMaster' \in [Node -> Seq(Node)]
        /\ next \in Node /\ next' \in Node /\ next' = IF next = N THEN 1 ELSE next + 1
        /\ mpc' = IF next = N THEN "route" ELSE "reloading"
        /\ UNCHANGED <<alg, round, gid, cur_tid_, waits_, delivered, ending>>
        /\ toMaster'[next] = <<>>
        /\ \A m \in Node : m # next => toMaster'[m] = toMaster[m]
    BY <1>0, <1>2, ReceiveTurn
  <1>4. TypeOK'
    BY <1>0, <1>3, OutsideTypes DEF TypeOK, Msg
  <1>5. Position'
    <2>1. alg \in Alg /\ round = 0
      BY <1>0 DEF Position
    <2>2. round <= Len(RoundsOf(alg))
      BY <2>1, ProgramTypes
    <2> QED BY <1>0, <1>3, <2>1, <2>2 DEF Position, InGroup
  <1>6. ASSUME NEW m \in Node PROVE BetweenAt(m)' /\ LevelAt(m)'
    <2>1. m \in 1 .. N /\ next \in 1 .. N /\ N \in Nat
      BY <1>3, Nodes
    <2>2. Asked(m)' <=> m > next
      BY <1>0, <1>3, <2>1 DEF Asked
    <2>3. Asked(m) <=> m >= next
      BY <1>0 DEF Asked
    <2>4. BetweenAt(m) /\ LevelAt(m)
      BY <1>0 DEF Between, Level
    <2>5. ~Asked(m)' => Idle(m)'
      <3>1. ASSUME m <= next PROVE Idle(m)'
        <4>1. CASE m = next
          BY <1>2, <1>3, <4>1 DEF Idle, Answered, nodeVars
        <4>2. CASE m # next
          <5>1. ~Asked(m)
            BY <2>1, <2>3, <3>1, <4>2
          <5> QED BY <1>3, <2>4, <4>2, <5>1 DEF BetweenAt, Idle, nodeVars
        <4> QED BY <4>1, <4>2
      <3> QED BY <2>1, <2>2, <3>1
    <2>6. BetweenAt(m)'
      <3>1. Asked(m)' => Asked(m) /\ m # next /\ mpc' = "reloading"
        BY <1>0, <1>3, <2>1, <2>2, <2>3
      <3> QED BY <1>0, <1>3, <2>4, <2>5, <3>1 DEF BetweenAt, Pending, Answered, nodeVars, stageVars
    <2>7. LevelAt(m)'
      <3>1. cur_[m] = 0 \/ (toNode[m] # <<>> /\ mpc' = "reloading")
        <4>1. CASE toNode[m] = <<>>
          BY <1>0, <2>4, <4>1 DEF LevelAt, Served
        <4>2. CASE toNode[m] # <<>>
          <5>1. Asked(m) /\ m # next
            BY <1>2, <2>4, <4>2 DEF BetweenAt, Idle, Answered
          <5>2. next # N
            BY <2>1, <2>3, <5>1
          <5> QED BY <1>3, <4>2, <5>2
        <4> QED BY <4>1, <4>2
      <3>2. round = 0
        BY <1>0 DEF Position
      <3> QED BY <1>0, <1>3, <3>1, <3>2 DEF LevelAt, Served, nodeVars
    <2> QED BY <2>6, <2>7
  <1>7. Between' /\ Level'
    BY <1>6 DEF Between, Level
  <1> QED BY <1>0, <1>3, <1>4, <1>5, <1>7, OutsideKeeps DEF nodeVars, stageVars

LEMMA ReceiveSetHolds ==
  ASSUME IInv, ReceiveLoop("setting", "group"), UNCHANGED nodeVars PROVE IInv'
  <1> USE DEF IInv
  <1>0. /\ mpc = "setting" /\ mpc' \in {"setting", "group"} /\ ~InGroup /\ ~InGroup'
        /\ toMaster[next] # <<>>
    BY DEF InGroup, ReceiveLoop
  <1>2. Answered(next) /\ next \in Node
    BY <1>0, Nodes DEF Between, BetweenAt, Asked, TypeOK, Pending
  <1>3. /\ toNode' = toNode /\ toMaster' \in [Node -> Seq(Node)]
        /\ next \in Node /\ next' \in Node /\ next' = IF next = N THEN 1 ELSE next + 1
        /\ mpc' = IF next = N THEN "group" ELSE "setting"
        /\ UNCHANGED <<alg, round, gid, cur_tid_, waits_, delivered, ending>>
        /\ toMaster'[next] = <<>>
        /\ \A m \in Node : m # next => toMaster'[m] = toMaster[m]
    BY <1>0, <1>2, ReceiveTurn
  <1>4. TypeOK'
    BY <1>0, <1>3, OutsideTypes DEF TypeOK, Msg
  <1>5. Position'
    BY <1>0, <1>3 DEF Position, InGroup, ThisAlg
  <1>6. ASSUME NEW m \in Node PROVE BetweenAt(m)' /\ LevelAt(m)'
    <2>0. SetRt(m)' = SetRt(m) /\ Due(m)' = Due(m)
      BY <1>3 DEF SetRt, Due, ThisAlg
    <2>1. m \in 1 .. N /\ next \in 1 .. N /\ N \in Nat
      BY <1>3, Nodes
    <2>2. Asked(m)' <=> (mpc' = "setting" /\ m > next)
      BY <1>0, <1>3, <2>1 DEF Asked
    <2>3. Asked(m) <=> m >= next
      BY <1>0 DEF Asked
    <2>4. BetweenAt(m) /\ LevelAt(m)
      BY <1>0 DEF Between, Level
    <2>5. ~Asked(m)' => Idle(m)'
      <3>1. ASSUME m <= next PROVE Idle(m)'
        <4>1. CASE m = next
          BY <1>2, <1>3, <4>1 DEF Idle, Answered, nodeVars
        <4>2. CASE m # next
          <5>1. ~Asked(m)
            BY <2>1, <2>3, <3>1, <4>2
          <5> QED BY <1>3, <2>4, <4>2, <5>1 DEF BetweenAt, Idle, nodeVars
        <4> QED BY <4>1, <4>2
      <3> QED BY <1>3, <2>1, <2>2, <3>1
    <2>6. BetweenAt(m)'
      <3>1. Asked(m)' => Asked(m) /\ m # next /\ mpc' = "setting"
        BY <1>0, <1>3, <2>1, <2>2, <2>3
      <3> QED BY <1>0, <1>3, <2>0, <2>4, <2>5, <3>1 DEF BetweenAt, Pending, Answered, nodeVars, stageVars
    <2>7. LevelAt(m)'
      <3>1. \/ cur_[m] = round /\ speed[m] = Due(m) /\ toNode[m] = <<>>
            \/ toNode[m] # <<>> /\ mpc' = "setting" /\ cur_[m] + 1 = round
        <4>1. CASE toNode[m] = <<>>
          BY <1>0, <2>4, <4>1 DEF LevelAt, Served
        <4>2. CASE toNode[m] # <<>>
          <5>1. Asked(m) /\ m # next
            BY <1>2, <2>4, <4>2 DEF BetweenAt, Idle, Answered
          <5>2. next # N
            BY <2>1, <2>3, <5>1
          <5> QED BY <1>0, <1>3, <2>4, <4>2, <5>2 DEF LevelAt, Served
        <4> QED BY <4>1, <4>2
      <3> QED BY <1>0, <1>3, <2>0, <3>1 DEF LevelAt, Served, nodeVars
    <2> QED BY <2>6, <2>7
  <1>7. Between' /\ Level'
    BY <1>6 DEF Between, Level
  <1> QED BY <1>0, <1>3, <1>4, <1>5, <1>7, OutsideKeeps DEF nodeVars, stageVars

-----------------------------------------------------------------------------
(* The steps of the nodes outside a group.                                 *)
LEMMA MasterSame ==
  ASSUME UNCHANGED masterVars
  PROVE  /\ Position => Position'
         /\ InGroup' = InGroup /\ Group' = Group /\ task_num_' = task_num_ /\ ThisAlg' = ThisAlg
         /\ TaskIds' = TaskIds /\ Rts' = Rts /\ Msg' = Msg
         /\ \A n : /\ Asked(n)' = Asked(n) /\ Due(n)' = Due(n) /\ SetRt(n)' = SetRt(n)
                   /\ Sent(n)' = Sent(n) /\ Waits(n)' = Waits(n)
         /\ \A k : TaskId(k)' = TaskId(k)
         /\ \A n, k : TaskOf(n, k)' = TaskOf(n, k) /\ Ids(n, k)' = Ids(n, k)
  <1> USE DEF masterVars
  <1>1. /\ InGroup' = InGroup /\ Group' = Group /\ task_num_' = task_num_ /\ ThisAlg' = ThisAlg
    BY DEF InGroup, Group, Groups, task_num_, ThisAlg
  <1>2. TaskIds' = TaskIds
    BY <1>1 DEF TaskIds
  <1>3. Rts' = Rts
    BY <1>2 DEF Rts
  <1>4. Msg' = Msg
    BY <1>3 DEF Msg
  <1>5. ASSUME NEW n
        PROVE  /\ Asked(n)' = Asked(n) /\ Due(n)' = Due(n) /\ SetRt(n)' = SetRt(n)
               /\ Sent(n)' = Sent(n) /\ Waits(n)' = Waits(n)
    BY <1>1 DEF Asked, Due, SetRt, Sent, Waits
  <1>6. \A k : TaskId(k)' = TaskId(k)
    BY DEF TaskId
  <1>7. \A n, k : TaskOf(n, k)' = TaskOf(n, k) /\ Ids(n, k)' = Ids(n, k)
    BY <1>1, <1>6 DEF TaskOf, Ids
  <1>8. Position => Position'
    BY <1>1 DEF Position, Groups, InGroup
  <1> QED BY <1>1, <1>2, <1>3, <1>4, <1>5, <1>6, <1>7, <1>8

LEMMA Meanings ==
  /\ Means(ReloadRt) = "reload" /\ Means(EndRt) = "end" /\ \A n : Means(SetRt(n)) = "set"
  BY DEF Means, ReloadRt, EndRt, SetRt, Rt

(* Inside a group the first message is that of a task.                     *)
LEMMA InsideMessage ==
  ASSUME IInv, InGroup, NEW n \in Node, NEW meaning, Message(n, meaning)
  PROVE  meaning = "task" /\ \E k \in Sent(n) : Head(toNode[n]) = Task(TaskOf(n, k))
                              /\ Head(toNode[n]).rt = TaskOf(n, k)
  <1> USE DEF IInv
  <1>1. /\ gpc[n] = "task" /\ toNode[n] # <<>> /\ Head(toNode[n]).kind = "rt"
        /\ Means(Head(toNode[n]).rt) = meaning
    BY DEF Message
  <1>2. toNode[n] \in Seq(Msg)
    BY DEF TypeOK, Msg
  <1>3. 1 \in DOMAIN toNode[n] /\ Head(toNode[n]) = toNode[n][1]
    BY <1>1, <1>2, EmptySeq, LenProperties
  <1>4. PICK k \in Sent(n) : toNode[n][1] = Task(TaskOf(n, k))
    BY <1>1, <1>3 DEF Framed, TasksFramed
  <1>5. Head(toNode[n]).rt = TaskOf(n, k)
    BY <1>3, <1>4, Kinds
  <1>6. k \in 1 .. task_num_ /\ n \in DOMAIN Group[k]
    BY DEF Sent
  <1>7. Means(TaskOf(n, k)) = "task"
    BY <1>6, TaskTyped
  <1> QED BY <1>1, <1>3, <1>4, <1>5, <1>7

LEMMA OutsideMessage ==
  ASSUME IInv, NEW n \in Node, NEW meaning \in {"reload", "set", "end"}, Message(n, meaning),
         UNCHANGED masterVars
  PROVE  /\ ~InGroup /\ ~InGroup' /\ Asked(n) /\ toNode' \in [Node -> Seq(Msg)]
         /\ toMaster[n] = <<>> /\ gpc[n] = "task"
         /\ toNode[n] # <<>> /\ toNode'[n] = <<>> /\ \A m \in Node : m # n => toNode'[m] = toNode[m]
         /\ meaning = "reload" => mpc \in {"reload", "reloading"}
         /\ meaning = "set" => mpc \in {"set", "setting"} /\ Head(toNode[n]).rt = SetRt(n)
         /\ meaning = "end" => mpc \in {"close", "closed"}
  <1> USE DEF IInv
  <1>1. ~InGroup /\ ~InGroup'
    BY InsideMessage, MasterSame
  <1>2. /\ gpc[n] = "task" /\ toNode[n] # <<>> /\ Means(Head(toNode[n]).rt) = meaning
        /\ toNode' = [toNode EXCEPT ![n] = Tail(@)]
    BY DEF Message, Take
  <1>3. BetweenAt(n)
    BY <1>1 DEF Between
  <1>4. Asked(n)
    BY <1>2, <1>3 DEF BetweenAt, Idle
  <1>5. mpc \in {"reload", "reloading", "set", "setting", "close", "closed"}
    BY <1>4 DEF Asked
  <1>6. \/ mpc \in {"reload", "reloading"} /\ Pending(n, ReloadRt)
        \/ mpc \in {"set", "setting"} /\ Pending(n, SetRt(n))
        \/ mpc \in {"close", "closed"} /\ Pending(n, EndRt)
    BY <1>2, <1>3, <1>4, <1>5 DEF BetweenAt, Answered, Ended
  <1>7. ASSUME NEW r, Pending(n, r)
        PROVE  toMaster[n] = <<>> /\ Tail(toNode[n]) = <<>> /\ Head(toNode[n]).rt = r
    BY <1>7, Kinds DEF Pending
  <1>8. /\ toMaster[n] = <<>> /\ Tail(toNode[n]) = <<>>
        /\ \/ mpc \in {"reload", "reloading"} /\ Head(toNode[n]).rt = ReloadRt
           \/ mpc \in {"set", "setting"} /\ Head(toNode[n]).rt = SetRt(n)
           \/ mpc \in {"close", "closed"} /\ Head(toNode[n]).rt = EndRt
    BY <1>6, <1>7
  <1>9. toNode' \in [Node -> Seq(Msg)] /\ toNode'[n] = <<>> /\ \A m \in Node : m # n => toNode'[m] = toNode[m]
    <2>1. toNode \in [Node -> Seq(Msg)]
      BY DEF TypeOK, Msg
    <2>2. <<>> \in Seq(Msg)
      BY EmptySeq
    <2>3. toNode' = [toNode EXCEPT ![n] = <<>>]
      BY <1>2, <1>8
    <2> QED BY <2>1, <2>2, <2>3
  <1> QED BY <1>1, <1>2, <1>4, <1>8, <1>9, Meanings

(* Types, when the group and the tasks in hand stay.                       *)
LEMMA NodeTypes ==
  ASSUME TypeOK, UNCHANGED <<masterVars, rt, left, waiting, parts, known, heard, stored>>,
         toNode' \in [Node -> Seq(Msg)], toMaster' \in [Node -> Seq(Node)],
         gpc' \in [Node -> {"task", "sources", "ended", "exited"}],
         cur_' \in [Node -> 0 .. BwNum], speed' \in [Node -> 0 .. BwNum]
  PROVE  TypeOK'
  <1>1. TaskIds' = TaskIds /\ Rts' = Rts
    BY MasterSame
  <1>2. toNode' \in [Node -> Seq({Task(r) : r \in Rts'} \cup {Source(s) : s \in Node})]
    BY <1>1 DEF Msg
  <1>3. /\ rt' \in [Node -> Rts' \cup {NoTask}]
        /\ waiting' \in [Node -> SUBSET Rts'] /\ parts' \in [Node -> SUBSET Rts']
        /\ known' \in [Node -> SUBSET (TaskIds' \X Node)]
        /\ heard' \in [Node -> SUBSET (TaskIds' \X Node)]
        /\ stored' \subseteq TaskIds'
    BY <1>1 DEF TypeOK
  <1>4. /\ mpc' \in {"algorithm", "reload", "reloading", "route", "set", "setting", "group",
                     "deliver", "wait", "close", "closed"}
        /\ alg' \in 0 .. Len(Program) /\ round' \in Nat /\ gid' \in Nat /\ next' \in Node
        /\ cur_tid_' \in Nat /\ waits_' \in Seq(Node)
        /\ delivered' \in [Node -> Nat] /\ ending' \in [Node -> BOOLEAN]
        /\ left' \in [Node -> 0 .. N]
    BY DEF TypeOK, masterVars
  <1> QED BY <1>2, <1>3, <1>4 DEF TypeOK

LEMMA TellTyped ==
  ASSUME TypeOK, NEW n \in Node, Tell(n), toMaster[n] = <<>>
  PROVE  /\ toMaster' \in [Node -> Seq(Node)] /\ toMaster'[n] = <<n>>
         /\ \A m \in Node : m # n => toMaster'[m] = toMaster[m]
  <1>1. toMaster \in [Node -> Seq(Node)] /\ Append(toMaster[n], n) = <<n>> /\ <<n>> \in Seq(Node)
    BY DEF TypeOK
  <1> QED BY <1>1 DEF Tell

LEMMA EndHolds ==
  ASSUME IInv, NEW n \in Node, End(n), UNCHANGED masterVars PROVE IInv'
  <1> USE DEF IInv
  <1>1. /\ ~InGroup /\ ~InGroup' /\ Asked(n) /\ toNode' \in [Node -> Seq(Msg)]
        /\ toMaster[n] = <<>> /\ gpc[n] = "task"
        /\ toNode'[n] = <<>> /\ \A m \in Node : m # n => toNode'[m] = toNode[m]
        /\ mpc \in {"close", "closed"}
    BY OutsideMessage DEF End
  <1>2. /\ gpc' = [gpc EXCEPT ![n] = "ended"]
        /\ UNCHANGED <<rt, left, cur_, speed, waiting, parts, known, heard, stored, toMaster>>
    BY DEF End, stageVars
  <1>3. TypeOK'
    BY <1>1, <1>2, NodeTypes DEF TypeOK
  <1>4. Position'
    BY MasterSame
  <1>5. ASSUME NEW m \in Node PROVE BetweenAt(m)' /\ LevelAt(m)'
    <2>1. BetweenAt(m) /\ Asked(m)' = Asked(m) /\ mpc' = mpc
      BY <1>1, MasterSame DEF Between, masterVars
    <2>2. LevelAt(m)'
      BY <1>1, <2>1 DEF LevelAt
    <2>3. CASE m = n
      BY <1>1, <1>2, <2>1, <2>2, <2>3 DEF BetweenAt, Ended, TypeOK
    <2>4. CASE m # n
      BY <1>1, <1>2, <2>1, <2>2, <2>4 DEF BetweenAt, Idle, Pending, Ended
    <2> QED BY <2>3, <2>4
  <1>6. Between' /\ Level'
    BY <1>5 DEF Between, Level
  <1> QED BY <1>1, <1>2, <1>3, <1>4, <1>6, OutsideKeeps DEF masterVars

LEMMA ReopenHolds ==
  ASSUME IInv, NEW n \in Node, Reopen(n), UNCHANGED masterVars PROVE IInv'
  <1> USE DEF IInv
  <1>1. /\ ~InGroup /\ ~InGroup' /\ Asked(n) /\ toNode' \in [Node -> Seq(Msg)]
        /\ toMaster[n] = <<>> /\ gpc[n] = "task"
        /\ toNode'[n] = <<>> /\ \A m \in Node : m # n => toNode'[m] = toNode[m]
        /\ mpc \in {"reload", "reloading"}
    BY OutsideMessage DEF Reopen
  <1>2. /\ cur_' = [cur_ EXCEPT ![n] = 0]
        /\ UNCHANGED <<gpc, rt, left, speed, waiting, parts, known, heard, stored>>
    BY DEF Reopen, stageVars
  <1>3. /\ toMaster' \in [Node -> Seq(Node)] /\ toMaster'[n] = <<n>>
        /\ \A m \in Node : m # n => toMaster'[m] = toMaster[m]
    BY <1>1, TellTyped DEF Reopen
  <1>4. TypeOK'
    <2>1. cur_' \in [Node -> 0 .. BwNum]
      BY <1>2, RepairerAssumption DEF TypeOK
    <2> QED BY <1>1, <1>2, <1>3, <2>1, NodeTypes DEF TypeOK
  <1>5. Position'
    BY MasterSame
  <1>6. ASSUME NEW m \in Node PROVE BetweenAt(m)' /\ LevelAt(m)'
    <2>1. BetweenAt(m) /\ LevelAt(m) /\ Asked(m)' = Asked(m) /\ mpc' = mpc /\ next' = next
      BY <1>1, MasterSame DEF Between, Level, masterVars
    <2>2. CASE m = n
      <3>1. cur_'[m] = 0
        BY <1>2, <2>2 DEF TypeOK
      <3> QED BY <1>1, <1>2, <1>3, <2>1, <2>2, <3>1 DEF BetweenAt, Answered, LevelAt
    <2>3. CASE m # n
      <3>1. cur_'[m] = cur_[m] /\ Served(m)' = Served(m)
        BY <1>1, <1>2, <2>1, <2>3 DEF TypeOK, Served
      <3> QED BY <1>1, <1>2, <1>3, <2>1, <2>3, <3>1 DEF BetweenAt, Idle, Pending, Answered, LevelAt
    <2> QED BY <2>2, <2>3
  <1>7. Between' /\ Level'
    BY <1>6 DEF Between, Level
  <1> QED BY <1>1, <1>2, <1>4, <1>5, <1>7, OutsideKeeps DEF masterVars

(* There is a row for each round, so that no node exits.                   *)
LEMMA LoadRowHolds ==
  ASSUME IInv, NEW n \in Node, LoadRow(n), UNCHANGED masterVars PROVE IInv'
  <1> USE DEF IInv
  <1>1. /\ ~InGroup /\ ~InGroup' /\ Asked(n) /\ toNode' \in [Node -> Seq(Msg)]
        /\ toMaster[n] = <<>> /\ gpc[n] = "task" /\ toNode[n] # <<>>
        /\ toNode'[n] = <<>> /\ \A m \in Node : m # n => toNode'[m] = toNode[m]
        /\ mpc \in {"set", "setting"} /\ Head(toNode[n]).rt = SetRt(n)
    BY OutsideMessage DEF LoadRow
  <1>2. alg \in Alg /\ round \in 1 .. BwNum /\ BwNum \in Nat /\ ThisAlg.alg # "t"
    <2>1. alg \in Alg /\ ThisAlg.alg # "t" /\ round \in DOMAIN RoundsOf(alg)
      BY <1>1 DEF Position
    <2> QED BY <2>1, ProgramTypes, RepairerAssumption DEF ThisAlg
  <1>3. cur_[n] + 1 = round /\ cur_[n] \in Nat
    BY <1>1 DEF Level, LevelAt, Served, TypeOK
  <1>4. ~(cur_[n] + 1 > BwNum)
    BY <1>2, <1>3
  <1>5. /\ cur_' = [cur_ EXCEPT ![n] = round]
        /\ speed' = [speed EXCEPT ![n] = Due(n)]
        /\ Tell(n)
        /\ UNCHANGED <<gpc, rt, left, waiting, parts, known, heard, stored>>
    <2>1. (IF SetRt(n).bandwidth = 0 THEN Full ELSE round) = Due(n)
      BY DEF SetRt, Due, Rt
    <2> QED BY <1>1, <1>3, <1>4, <2>1 DEF LoadRow, stageVars
  <1>6. /\ toMaster' \in [Node -> Seq(Node)] /\ toMaster'[n] = <<n>>
        /\ \A m \in Node : m # n => toMaster'[m] = toMaster[m]
    BY <1>1, <1>5, TellTyped
  <1>7. TypeOK'
    <2>1. round \in 0 .. BwNum /\ Due(n) \in 0 .. BwNum
      BY <1>2 DEF Due, Full
    <2>2. cur_' \in [Node -> 0 .. BwNum] /\ speed' \in [Node -> 0 .. BwNum]
      BY <1>5, <2>1 DEF TypeOK
    <2> QED BY <1>1, <1>5, <1>6, <2>2, NodeTypes DEF TypeOK
  <1>8. Position'
    BY MasterSame
  <1>9. ASSUME NEW m \in Node PROVE BetweenAt(m)' /\ LevelAt(m)'
    <2>1. /\ BetweenAt(m) /\ LevelAt(m) /\ Asked(m)' = Asked(m) /\ mpc' = mpc /\ next' = next
          /\ round' = round /\ Due(m)' = Due(m) /\ SetRt(m)' = SetRt(m)
      BY <1>1, MasterSame DEF Between, Level, masterVars
    <2>2. CASE m = n
      <3>1. cur_'[m] = round /\ speed'[m] = Due(m) /\ Served(m)'
        <4>1. mpc = "set" => m < next
          BY <1>1, <2>2 DEF Asked
        <4> QED BY <1>1, <1>5, <2>1, <2>2, <4>1 DEF TypeOK, Served
      <3> QED BY <1>1, <1>5, <1>6, <2>1, <2>2, <3>1 DEF BetweenAt, Answered, LevelAt
    <2>3. CASE m # n
      <3>1. cur_'[m] = cur_[m] /\ speed'[m] = speed[m] /\ Served(m)' = Served(m)
        BY <1>1, <1>5, <2>1, <2>3 DEF TypeOK, Served
      <3> QED BY <1>1, <1>5, <1>6, <2>1, <2>3, <3>1 DEF BetweenAt, Idle, Pending, Answered, LevelAt
    <2> QED BY <2>2, <2>3
  <1>10. Between' /\ Level'
    BY <1>9 DEF Between, Level
  <1> QED BY <1>1, <1>5, <1>7, <1>8, <1>10, OutsideKeeps DEF masterVars

-----------------------------------------------------------------------------
(* A group begins when nothing is under way ...                            *)
LEMMA BeginGroupHolds ==
  ASSUME IInv, BeginGroup, UNCHANGED nodeVars PROVE IInv'
  <1> USE DEF IInv
  <1>0. /\ mpc = "group" /\ mpc' = IF gid > Len(Groups) THEN "route" ELSE "deliver"
        /\ UNCHANGED <<alg, round, gid, next, cur_tid_, waits_, ending, toNode, toMaster>>
        /\ delivered' = [n \in Node |-> 0]
        /\ UNCHANGED <<gpc, rt, left, cur_, speed, waiting, parts, known, heard, stored>>
    BY DEF BeginGroup, nodeVars, stageVars, links
  <1>1. ~InGroup /\ alg \in Alg /\ round \in DOMAIN RoundsOf(alg) /\ gid > 0 /\ next = 1 /\ waits_ = <<>>
    BY <1>0 DEF Position, InGroup
  <1>2. \A n \in Node : /\ waiting[n] = {} /\ parts[n] = {} /\ known[n] = {} /\ Idle(n) /\ ~ending[n]
                        /\ ThisAlg.alg # "t" => cur_[n] = round /\ speed[n] = Due(n)
    BY <1>0, <1>1 DEF Between, BetweenAt, Asked, Level, LevelAt, Position
  <1> DEFINE Still(n) == /\ waiting[n] = {} /\ parts[n] = {} /\ known[n] = {} /\ ~ending[n]
                         /\ gpc[n] = "task" /\ toNode[n] = <<>> /\ toMaster[n] = <<>>
  <1>12. \A n \in Node : Still(n) /\ Still(n)'
    BY <1>0, <1>2 DEF Idle
  <1>13. delivered' = [n \in Node |-> 0] /\ UNCHANGED <<toNode, toMaster>>
    BY <1>0
  <1>3. Groups' = Groups /\ Group' = Group /\ task_num_' = task_num_ /\ ThisAlg' = ThisAlg
    BY <1>0 DEF Groups, Group, task_num_, ThisAlg
  <1>4. Len(Groups) \in Nat /\ DOMAIN Groups = 1 .. Len(Groups) /\ gid \in Nat
    BY <1>1, GroupsTyped DEF TypeOK
  <1>5. ~(gid > Len(Groups)) => /\ gid \in DOMAIN Groups /\ task_num_ \in Nat /\ mpc' = "deliver"
    <2> SUFFICES ASSUME ~(gid > Len(Groups)) PROVE gid \in DOMAIN Groups /\ task_num_ \in Nat
      BY <1>0
    <2>1. gid \in DOMAIN Groups
      BY <1>1, <1>4
    <2> QED BY <1>1, <2>1, GroupsTyped, LenProperties DEF Group, task_num_
  <1>6. Position'
    <2>1. CASE gid > Len(Groups)
      <3>1. round <= Len(RoundsOf(alg))
        BY <1>1, ProgramTypes
      <3> QED BY <1>0, <1>1, <1>2, <2>1, <3>1 DEF Position, InGroup
    <2>2. CASE ~(gid > Len(Groups))
      BY <1>0, <1>1, <1>2, <1>3, <1>5, <2>2 DEF Position, InGroup
    <2> QED BY <2>1, <2>2
  <1>7. TaskIds \subseteq TaskIds' /\ Rts \subseteq Rts' /\ mpc' \in {"route", "deliver"}
    <2>1. TaskIds = 0 .. cur_tid_ /\ cur_tid_ \in Nat
      <3>1. cur_tid_ + 0 = cur_tid_ /\ cur_tid_ \in Nat
        BY DEF TypeOK
      <3> QED BY <1>1, <3>1 DEF TaskIds, InGroup
    <2>2. TaskIds \subseteq TaskIds'
      <3>1. CASE gid > Len(Groups)
        BY <1>0, <2>1, <3>1 DEF TaskIds
      <3>2. CASE ~(gid > Len(Groups))
        BY <1>0, <1>3, <1>5, <2>1, <3>2 DEF TaskIds
      <3> QED BY <3>1, <3>2
    <2>3. Rts \subseteq Rts'
      BY <2>2 DEF Rts
    <2> QED BY <1>0, <2>2, <2>3
  <1>8. TypeOK'
    <2>1. toNode' \in [Node -> Seq({Task(r) : r \in Rts'} \cup {Source(s) : s \in Node})]
      <3>1. DOMAIN toNode = Node /\ toNode = [n \in DOMAIN toNode |-> toNode[n]] /\ toNode' = toNode
        BY <1>0 DEF TypeOK
      <3>2. \A n \in Node : toNode[n] \in Seq({Task(r) : r \in Rts'} \cup {Source(s) : s \in Node})
        BY <1>12, EmptySeq
      <3> QED BY <3>1, <3>2
    <2>2. /\ rt' \in [Node -> Rts' \cup {NoTask}]
          /\ waiting' \in [Node -> SUBSET Rts'] /\ parts' \in [Node -> SUBSET Rts']
          /\ stored' \subseteq TaskIds'
      BY <1>0, <1>7 DEF TypeOK
    <2>3. /\ known' \in [Node -> SUBSET (TaskIds' \X Node)]
          /\ heard' \in [Node -> SUBSET (TaskIds' \X Node)]
      <3>1. known \in [Node -> SUBSET (TaskIds \X Node)] /\ heard \in [Node -> SUBSET (TaskIds \X Node)]
        BY DEF TypeOK
      <3> QED BY <1>0, <1>7, <3>1
    <2>4. delivered' \in [Node -> Nat]
      BY <1>0
    <2>5. /\ toMaster' \in [Node -> Seq(Node)]
          /\ mpc' \in {"algorithm", "reload", "reloading", "route", "set", "setting", "group",
                       "deliver", "wait", "close", "closed"}
          /\ alg' \in 0 .. Len(Program) /\ round' \in Nat /\ gid' \in Nat /\ next' \in Node
          /\ cur_tid_' \in Nat /\ waits_' \in Seq(Node) /\ ending' \in [Node -> BOOLEAN]
          /\ gpc' \in [Node -> {"task", "sources", "ended", "exited"}]
          /\ left' \in [Node -> 0 .. N] /\ cur_' \in [Node -> 0 .. BwNum]
          /\ speed' \in [Node -> 0 .. BwNum]
      BY <1>0, <1>7 DEF TypeOK
    <2> QED BY <2>1, <2>2, <2>3, <2>4, <2>5 DEF TypeOK
  <1>9. Between' /\ Level'
    <2> SUFFICES ASSUME NEW n \in Node PROVE BetweenAt(n)' /\ LevelAt(n)'
      BY DEF Between, Level
    <2>1. Due(n)' = Due(n) /\ ~Asked(n)' /\ mpc' \in {"route", "deliver"}
      BY <1>0, <1>3, <1>7 DEF Due, Asked
    <2>2. BetweenAt(n)'
      BY <1>12, <2>1 DEF BetweenAt, Idle
    <2>3. ThisAlg.alg # "t" => cur_[n] = round /\ speed[n] = Due(n)
      BY <1>2
    <2>4. cur_'[n] = cur_[n] /\ speed'[n] = speed[n] /\ round' = round
      BY <1>0
    <2> HIDE DEF Still
    <2> QED BY <1>3, <2>1, <2>2, <2>3, <2>4 DEF LevelAt
  <1>10. CASE gid > Len(Groups)
    <2>1. ~InGroup'
      BY <1>0, <1>10 DEF InGroup
    <2> QED BY <1>0, <1>1, <1>6, <1>8, <1>9, <2>1, OutsideKeeps
  <1>11. CASE ~(gid > Len(Groups))
    <2>1. \A n \in Node : Sent(n)' = {} /\ Done(n)' = {} /\ Owed(n)' = {} /\ Waits(n)' = {}
      <3> SUFFICES ASSUME NEW n \in Node
                   PROVE  Sent(n)' = {} /\ Done(n)' = {} /\ Owed(n)' = {} /\ Waits(n)' = {}
        OBVIOUS
      <3>1. Sent(n)' = {}
        <4>1. delivered'[n] = 0 /\ ~ending'[n]
          BY <1>12, <1>13
        <4>2. \A k \in 1 .. task_num_' : ~(k <= delivered'[n])
          BY <1>3, <1>5, <1>11, <4>1
        <4> QED BY <4>1, <4>2 DEF Sent
      <3>2. Done(n)' = {} /\ Owed(n)' = {}
        BY <3>1 DEF Done, Owed
      <3>3. Waits(n)' = {}
        BY <1>0, <1>1 DEF Waits
      <3> QED BY <3>1, <3>2, <3>3
    <2>2. \A n \in Node : InHand(n)' = {} /\ known'[n] = {} /\ toNode'[n] = <<>> /\ toMaster'[n] = <<>>
                         /\ ~ending'[n] /\ gpc'[n] = "task" /\ waiting'[n] = {}
      BY <1>12 DEF InHand
    <2>3. Framed' /\ Hands'
      BY <2>2 DEF Framed, TasksFramed, OneOfEach, InPlace, Hands, Holding
    <2>4. Trees'
      <3>1. ASSUME NEW n \in Node, NEW k \in 1 .. task_num_', NEW s \in Node,
                   <<TaskId(k)', s>> \in heard'[n]
            PROVE  FALSE
        <4>1. <<TaskId(k)', s>>[1] < cur_tid_ + 0
          BY <1>0, <1>1, <3>1 DEF Fresh
        <4>2. TaskId(k)' = cur_tid_ + k - 1 /\ k \in Nat \ {0} /\ cur_tid_ \in Nat
          BY <1>0, <1>3, <1>5, <1>11 DEF TaskId, TypeOK
        <4> QED BY <4>1, <4>2
      <3> QED BY <2>1, <3>1 DEF Trees
    <2>5. Fresh'
      <3> SUFFICES ASSUME NEW n \in Node, NEW x \in heard'[n]
                   PROVE  x[1] < cur_tid_' + (IF InGroup' THEN task_num_' ELSE 0)
        BY DEF Fresh
      <3>1. x[1] < cur_tid_ + 0
        BY <1>0, <1>1 DEF Fresh
      <3>2. x[1] \in Nat /\ cur_tid_ \in Nat
        BY <1>0 DEF TypeOK, TaskIds
      <3> QED BY <1>0, <1>3, <1>5, <1>11, <3>1, <3>2
    <2>6. Kept'
      BY <1>0, <2>1 DEF Kept, AllStored
    <2>7. Counts'
      BY <2>1, <2>2, FS_EmptySet DEF Counts
    <2> QED BY <1>6, <1>8, <1>9, <2>3, <2>4, <2>5, <2>6, <2>7
  <1> QED BY <1>10, <1>11

-----------------------------------------------------------------------------
(* ... and ends when all are done with it, the root of each tree the last. *)
LEMMA SentTyped ==
  ASSUME TypeOK, Position, InGroup, NEW n
  PROVE  /\ Sent(n) \subseteq 1 .. task_num_ /\ \A k \in Sent(n) : k \in Nat \ {0} /\ n \in DOMAIN Group[k]
         /\ IsFiniteSet(Sent(n)) /\ IsFiniteSet(Owed(n)) /\ Owed(n) \subseteq Sent(n)
         /\ Cardinality(Owed(n)) \in Nat
         /\ IsFiniteSet(Waits(n)) /\ Cardinality(Waits(n)) \in Nat
  <1>1. task_num_ \in Nat
    BY GroupTyped
  <1>2. Sent(n) \subseteq 1 .. task_num_ /\ \A k \in Sent(n) : k \in Nat \ {0} /\ n \in DOMAIN Group[k]
    BY <1>1 DEF Sent
  <1>3. IsFiniteSet(1 .. task_num_)
    BY <1>1, FS_Interval
  <1>4. IsFiniteSet(Sent(n)) /\ IsFiniteSet(Owed(n)) /\ Owed(n) \subseteq Sent(n)
    <2>1. Owed(n) \subseteq Sent(n)
      BY DEF Owed
    <2> QED BY <1>2, <1>3, <2>1, FS_Subset
  <1>5. IsFiniteSet(Waits(n))
    <2>1. Len(waits_) \in Nat /\ DOMAIN waits_ = 1 .. Len(waits_)
      BY LenProperties DEF TypeOK
    <2>2. IsFiniteSet(DOMAIN waits_)
      BY <2>1, FS_Interval
    <2>3. Waits(n) \subseteq DOMAIN waits_
      BY DEF Waits
    <2> QED BY <2>2, <2>3, FS_Subset
  <1> QED BY <1>2, <1>4, <1>5, FS_CardinalityType

LEMMA AllDone ==
  ASSUME IInv, mpc = "wait", waits_ = <<>>
  PROVE  /\ \A n \in Node : Idle(n) /\ waiting[n] = {} /\ parts[n] = {} /\ known[n] = {}
         /\ \A k \in 1 .. task_num_ : TaskId(k) \in stored
         /\ \A n \in Node : ~ending[n]
  <1> USE DEF IInv
  <1>1. InGroup /\ task_num_ \in Nat /\ \A n \in Node : delivered[n] = task_num_ /\ ~ending[n]
    BY GroupTyped DEF Position, InGroup
  <1>2. ASSUME NEW n \in Node PROVE Owed(n) = {} /\ toMaster[n] = <<>>
    <2>1. Waits(n) = {}
      BY DEF Waits
    <2>2. Cardinality(Owed(n)) + Len(toMaster[n]) = 0
      <3>1. Cardinality(Waits(n)) + (IF ending[n] THEN 1 ELSE 0) = Cardinality(Owed(n)) + Len(toMaster[n])
        BY <1>1 DEF Counts
      <3>2. Cardinality(Waits(n)) = 0 /\ ~ending[n]
        BY <1>1, <2>1, FS_EmptySet
      <3> QED BY <3>1, <3>2
    <2>3. Len(toMaster[n]) \in Nat /\ Cardinality(Owed(n)) \in Nat /\ IsFiniteSet(Owed(n))
      BY <1>1, SentTyped, LenProperties DEF TypeOK
    <2>4. Len(toMaster[n]) = 0 /\ Cardinality(Owed(n)) = 0
      BY <2>2, <2>3
    <2>5. toMaster[n] = <<>>
      BY <2>4, EmptySeq DEF TypeOK
    <2> QED BY <2>3, <2>4, <2>5, FS_EmptySet
  <1>3. ASSUME NEW n \in Node, NEW k \in 1 .. task_num_, n \in DOMAIN Group[k] PROVE k \in Sent(n)
    BY <1>1, <1>3 DEF Sent
  <1>4. ASSUME NEW k \in 1 .. task_num_
        PROVE  (\A n \in DOMAIN Group[k] : k \in Done(n)) /\ TaskId(k) \in stored
    <2>1. Group[k] \in Route
      BY <1>1, GroupTyped
    <2>2. /\ DOMAIN Group[k] \subseteq Node
          /\ \A n \in DOMAIN Group[k] : Group[k][n] \in DOMAIN Group[k]
      BY <2>1, RouteTypes
    <2>3. PICK root \in DOMAIN Group[k] :
            /\ Group[k][root] = root
            /\ \A S \in SUBSET DOMAIN Group[k] \ {{}} :
                 (\A n \in S : Group[k][n] \in S) => root \in S
      BY <2>1, RouteTypes
    <2>4. k \in Done(root)
      BY <1>2, <1>3, <2>2, <2>3 DEF Owed
    <2> DEFINE U == {n \in DOMAIN Group[k] : k \notin Done(n)}
    <2>5. ASSUME NEW n \in U PROVE Group[k][n] \in U
      <3>1. n \in DOMAIN Group[k] /\ Group[k][n] \in DOMAIN Group[k] /\ Group[k][n] \in Node /\ k \notin Done(n)
        BY <2>2
      <3>2. CASE Group[k][n] = n
        BY <3>2
      <3>3. CASE Group[k][n] # n
        <4>1. n \in SourcesOf(Group[k], Group[k][n])
          BY <3>1, <3>3 DEF SourcesOf
        <4>2. k \notin Done(Group[k][n])
          BY <1>1, <3>1, <4>1 DEF Trees
        <4> QED BY <3>1, <4>2
      <3> QED BY <3>2, <3>3
    <2>6. U = {}
      <3>1. root \notin U
        BY <2>4
      <3>2. U \in SUBSET DOMAIN Group[k]
        OBVIOUS
      <3> HIDE DEF U
      <3> QED BY <2>3, <2>5, <3>1, <3>2
    <2>7. TaskId(k) \in stored
      BY <1>1, <2>2, <2>3, <2>4 DEF Kept
    <2> QED BY <2>6, <2>7
  <1>5. ASSUME NEW n \in Node, NEW k \in Sent(n) PROVE TaskOf(n, k) \notin InHand(n) /\ ~IsComing(n, k)
    BY <1>1, <1>4, SentTyped DEF Done
  <1>6. ASSUME NEW n \in Node PROVE Idle(n) /\ waiting[n] = {} /\ parts[n] = {} /\ known[n] = {}
    <2>1. Holding(n) /\ InPlace(n) /\ TasksFramed(n)
      BY <1>1 DEF Hands, Framed
    <2>2. InHand(n) = {} /\ known[n] = {}
      BY <1>5, <2>1 DEF Holding
    <2>3. gpc[n] = "task"
      BY <2>1, <2>2 DEF InPlace, Reading
    <2>4. toNode[n] = <<>>
      <3> SUFFICES ASSUME toNode[n] # <<>> PROVE FALSE
        OBVIOUS
      <3>1. 1 \in DOMAIN toNode[n]
        <4>1. toNode[n] \in Seq(Msg)
          BY DEF TypeOK, Msg
        <4> QED BY <4>1, EmptySeq, LenProperties
      <3>2. \E k \in Sent(n) : toNode[n][1] = Task(TaskOf(n, k))
        BY <2>1, <2>3, <3>1 DEF InPlace, TasksFramed
      <3> QED BY <1>5, <3>1, <3>2 DEF IsComing
    <2> QED BY <1>2, <2>2, <2>3, <2>4 DEF Idle, InHand
  <1> QED BY <1>1, <1>4, <1>6

LEMMA EndGroupHolds ==
  ASSUME IInv, EndGroup, UNCHANGED nodeVars PROVE IInv'
  <1> USE DEF IInv
  <1>0. /\ mpc = "wait" /\ waits_ = <<>> /\ mpc' = "group" /\ gid' = gid + 1
        /\ cur_tid_' = cur_tid_ + task_num_
        /\ UNCHANGED <<alg, round, next, waits_, delivered, ending, toNode, toMaster>>
        /\ UNCHANGED <<gpc, rt, left, cur_, speed, waiting, parts, known, heard, stored>>
    BY DEF EndGroup, nodeVars, stageVars, links
  <1>1. InGroup /\ ~InGroup' /\ task_num_ \in Nat /\ cur_tid_ \in Nat /\ gid \in Nat
    BY <1>0, GroupTyped DEF InGroup, TypeOK
  <1>2. /\ \A n \in Node : Idle(n) /\ waiting[n] = {} /\ parts[n] = {} /\ known[n] = {} /\ ~ending[n]
        /\ \A k \in 1 .. task_num_ : TaskId(k) \in stored
    BY <1>0, AllDone
  <1>3. TaskIds' = TaskIds /\ Rts' = Rts
    <2>1. TaskIds = 0 .. cur_tid_ + task_num_
      BY <1>1 DEF TaskIds, InGroup
    <2>2. TaskIds' = 0 .. (cur_tid_ + task_num_) + 0
      BY <1>0 DEF TaskIds
    <2>3. TaskIds' = TaskIds
      BY <1>1, <2>1, <2>2
    <2> QED BY <2>3 DEF Rts
  <1>4. TypeOK'
    <2>1. cur_tid_' \in Nat /\ gid' \in Nat
      BY <1>0, <1>1
    <2> QED BY <1>0, <1>3, <2>1 DEF TypeOK
  <1>5. Position'
    <2>1. gid' > 0 /\ alg \in Alg /\ round \in DOMAIN RoundsOf(alg) /\ next = 1
      BY <1>0, <1>1 DEF Position
    <2> QED BY <1>0, <1>2, <2>1 DEF Position, InGroup
  <1>6. Between' /\ Level'
    <2> SUFFICES ASSUME NEW n \in Node PROVE BetweenAt(n)' /\ LevelAt(n)'
      BY DEF Between, Level
    <2>1. Due(n)' = Due(n) /\ ~Asked(n)' /\ ThisAlg' = ThisAlg
      BY <1>0 DEF Due, Asked, ThisAlg
    <2>2. BetweenAt(n)'
      BY <1>0, <1>2, <2>1 DEF BetweenAt, Idle
    <2>3. ThisAlg.alg # "t" => cur_[n] = round /\ speed[n] = Due(n)
      BY <1>0 DEF Level, LevelAt
    <2> QED BY <1>0, <2>1, <2>2, <2>3 DEF LevelAt
  <1>7. Framed' /\ Hands' /\ Trees' /\ Counts'
    BY <1>1 DEF Framed, Hands, Trees, Counts
  <1>8. Fresh'
    <2> SUFFICES ASSUME NEW n \in Node, NEW x \in heard[n] PROVE x[1] < cur_tid_ + task_num_ + 0
      BY <1>0, <1>1 DEF Fresh
    <2>1. x[1] < cur_tid_ + task_num_
      BY <1>1 DEF Fresh
    <2>2. x[1] \in Nat
      BY DEF TypeOK, TaskIds
    <2> QED BY <1>1, <2>1, <2>2
  <1>9. Kept'
    <2> SUFFICES ASSUME NEW t \in 0 .. cur_tid_ + task_num_ - 1 PROVE t \in stored
      BY <1>0, <1>1 DEF Kept, AllStored
    <2>1. CASE t < cur_tid_
      <3>1. t \in 0 .. cur_tid_ - 1
        BY <1>1, <2>1
      <3> QED BY <3>1 DEF Kept, AllStored
    <2>2. CASE t >= cur_tid_
      <3>1. t - cur_tid_ + 1 \in 1 .. task_num_ /\ TaskId(t - cur_tid_ + 1) = t
        BY <1>1, <2>2 DEF TaskId
      <3> QED BY <1>2, <3>1
    <2> QED BY <1>1, <2>1, <2>2
  <1> QED BY <1>4, <1>5, <1>6, <1>7, <1>8, <1>9

-----------------------------------------------------------------------------
(* How often an element is in a sequence that loses its head or grows.     *)
Places(q, x) == {i \in DOMAIN q : q[i] = x}

LEMMA PlacesFinite ==
  ASSUME NEW S, NEW q \in Seq(S), NEW x
  PROVE  IsFiniteSet(Places(q, x)) /\ Cardinality(Places(q, x)) \in Nat
  <1>1. DOMAIN q = 1 .. Len(q) /\ Len(q) \in Nat
    BY LenProperties
  <1>2. IsFiniteSet(DOMAIN q)
    BY <1>1, FS_Interval
  <1> QED BY <1>2, FS_Subset, FS_CardinalityType DEF Places

LEMMA PlacesAppend ==
  ASSUME NEW S, NEW q \in Seq(S), NEW y \in S, NEW x
  PROVE  Cardinality(Places(Append(q, y), x)) = Cardinality(Places(q, x)) + (IF y = x THEN 1 ELSE 0)
  <1>1. /\ Len(q) \in Nat /\ DOMAIN q = 1 .. Len(q)
        /\ Append(q, y) \in Seq(S) /\ Len(Append(q, y)) = Len(q) + 1
        /\ \A i \in 1 .. Len(q) : Append(q, y)[i] = q[i]
        /\ Append(q, y)[Len(q) + 1] = y
    BY AppendProperties, LenProperties
  <1>2. DOMAIN Append(q, y) = 1 .. Len(q) + 1
    BY <1>1, LenProperties
  <1>3. 1 .. Len(q) + 1 = (1 .. Len(q)) \cup {Len(q) + 1} /\ Len(q) + 1 \notin 1 .. Len(q)
    BY <1>1
  <1>4. IsFiniteSet(Places(q, x)) /\ Cardinality(Places(q, x)) \in Nat /\ Len(q) + 1 \notin Places(q, x)
    BY <1>1, <1>3, PlacesFinite DEF Places
  <1>5. CASE y = x
    <2>1. Places(Append(q, y), x) = Places(q, x) \cup {Len(q) + 1}
      BY <1>1, <1>2, <1>3, <1>5 DEF Places
    <2> QED BY <1>4, <1>5, <2>1, FS_AddElement
  <1>6. CASE y # x
    <2>1. Places(Append(q, y), x) = Places(q, x)
      BY <1>1, <1>2, <1>3, <1>6 DEF Places
    <2> QED BY <1>4, <1>6, <2>1
  <1> QED BY <1>5, <1>6

LEMMA PlacesTail ==
  ASSUME NEW S, NEW q \in Seq(S), q # <<>>, NEW x
  PROVE  Cardinality(Places(Tail(q), x)) + (IF Head(q) = x THEN 1 ELSE 0) = Cardinality(Places(q, x))
  <1>1. /\ Len(q) \in Nat \ {0} /\ DOMAIN q = 1 .. Len(q) /\ Head(q) = q[1]
        /\ Tail(q) \in Seq(S) /\ Len(Tail(q)) = Len(q) - 1
        /\ \A i \in 1 .. Len(Tail(q)) : Tail(q)[i] = q[i + 1]
    BY HeadTailProperties, LenProperties, EmptySeq
  <1>2. DOMAIN Tail(q) = 1 .. Len(q) - 1
    BY <1>1, LenProperties
  <1>3. IsFiniteSet(Places(q, x)) /\ IsFiniteSet(Places(Tail(q), x)) /\ Cardinality(Places(q, x)) \in Nat
    BY <1>1, PlacesFinite
  <1> DEFINE P == Places(Tail(q), x)
             Q == Places(q, x) \ {1}
             f == [i \in P |-> i + 1]
  <1>4. f \in [P -> Q]
    BY <1>1, <1>2 DEF Places
  <1>5. \A i, j \in P : f[i] = f[j] => i = j
    BY <1>2 DEF Places
  <1>6. \A j \in Q : \E i \in P : f[i] = j
    <2> SUFFICES ASSUME NEW j \in Q PROVE \E i \in P : f[i] = j
      OBVIOUS
    <2>1. j - 1 \in 1 .. Len(q) - 1 /\ j - 1 + 1 = j /\ q[j] = x
      BY <1>1 DEF Places
    <2>2. j - 1 \in P
      BY <1>1, <1>2, <2>1 DEF Places
    <2> QED BY <2>1, <2>2
  <1>7. Cardinality(Q) = Cardinality(P)
    <2> HIDE DEF f, P, Q
    <2>1. IsFiniteSet(P)
      BY <1>3 DEF P
    <2> QED BY <1>4, <1>5, <1>6, <2>1, SameCount
  <1>8. Cardinality(Q) = IF 1 \in Places(q, x) THEN Cardinality(Places(q, x)) - 1 ELSE Cardinality(Places(q, x))
    BY <1>3, FS_RemoveElement
  <1>9. 1 \in Places(q, x) <=> Head(q) = x
    BY <1>1 DEF Places
  <1> HIDE DEF Q
  <1> QED BY <1>3, <1>7, <1>8, <1>9

-----------------------------------------------------------------------------
(* The steps of main and of the deliver threads inside a group.            *)
LEMMA TasksSame ==
  ASSUME UNCHANGED <<alg, round, gid, cur_tid_>>
  PROVE  /\ Group' = Group /\ Groups' = Groups /\ task_num_' = task_num_ /\ ThisAlg' = ThisAlg
         /\ \A k : TaskId(k)' = TaskId(k)
         /\ \A n, k : TaskOf(n, k)' = TaskOf(n, k) /\ Ids(n, k)' = Ids(n, k)
         /\ InGroup /\ InGroup' => TaskIds' = TaskIds /\ Rts' = Rts /\ Msg' = Msg
  <1>1. Group' = Group /\ Groups' = Groups /\ task_num_' = task_num_ /\ ThisAlg' = ThisAlg
    BY DEF Group, Groups, task_num_, ThisAlg
  <1>2. \A k : TaskId(k)' = TaskId(k)
    BY DEF TaskId
  <1>3. \A n, k : TaskOf(n, k)' = TaskOf(n, k) /\ Ids(n, k)' = Ids(n, k)
    BY <1>1, <1>2 DEF TaskOf, Ids
  <1>4. ASSUME InGroup, InGroup' PROVE TaskIds' = TaskIds /\ Rts' = Rts /\ Msg' = Msg
    <2>1. TaskIds' = TaskIds
      BY <1>1, <1>4 DEF TaskIds, InGroup
    <2>2. Rts' = Rts
      BY <2>1 DEF Rts
    <2> QED BY <2>1, <2>2 DEF Msg
  <1> QED BY <1>1, <1>2, <1>3, <1>4

LEMMA InsideTypes ==
  ASSUME TypeOK, InGroup, InGroup', UNCHANGED <<nodeVars, alg, round, gid, next, cur_tid_>>,
         toNode' \in [Node -> Seq(Msg)], toMaster' \in [Node -> Seq(Node)],
         waits_' \in Seq(Node), delivered' \in [Node -> Nat], ending' \in [Node -> BOOLEAN]
  PROVE  TypeOK'
  <1>1. TaskIds' = TaskIds /\ Rts' = Rts
    BY TasksSame
  <1>2. toNode' \in [Node -> Seq({Task(r) : r \in Rts'} \cup {Source(s) : s \in Node})]
    BY <1>1 DEF Msg
  <1>3. /\ rt' \in [Node -> Rts' \cup {NoTask}]
        /\ waiting' \in [Node -> SUBSET Rts'] /\ parts' \in [Node -> SUBSET Rts']
        /\ known' \in [Node -> SUBSET (TaskIds' \X Node)]
        /\ heard' \in [Node -> SUBSET (TaskIds' \X Node)]
        /\ stored' \subseteq TaskIds'
    BY <1>1 DEF TypeOK, nodeVars, stageVars
  <1>4. /\ mpc' \in {"algorithm", "reload", "reloading", "route", "set", "setting", "group",
                     "deliver", "wait", "close", "closed"}
        /\ alg' \in 0 .. Len(Program) /\ round' \in Nat /\ gid' \in Nat /\ next' \in Node
        /\ cur_tid_' \in Nat
        /\ gpc' \in [Node -> {"task", "sources", "ended", "exited"}]
        /\ left' \in [Node -> 0 .. N] /\ cur_' \in [Node -> 0 .. BwNum]
        /\ speed' \in [Node -> 0 .. BwNum]
    BY DEF TypeOK, nodeVars, InGroup
  <1> QED BY <1>2, <1>3, <1>4 DEF TypeOK

(* When no task is sent.                                                   *)
LEMMA InsideKeeps ==
  ASSUME IInv, InGroup, InGroup', UNCHANGED <<nodeVars, alg, round, gid, cur_tid_, toNode>>,
         \A n \in Node : Sent(n)' = Sent(n)
  PROVE  /\ Between' /\ Level' /\ Framed' /\ Hands' /\ Trees' /\ Fresh' /\ Kept'
         /\ \A n \in Node : Done(n)' = Done(n) /\ Owed(n)' = Owed(n)
  <1> USE DEF IInv, nodeVars, stageVars
  <1>1. /\ Group' = Group /\ task_num_' = task_num_ /\ ThisAlg' = ThisAlg
        /\ \A k : TaskId(k)' = TaskId(k)
        /\ \A n, k : TaskOf(n, k)' = TaskOf(n, k) /\ Ids(n, k)' = Ids(n, k)
    BY TasksSame
  <1>2. Between'
    BY DEF Between
  <1>3. Level'
    <2>1. mpc \in {"deliver", "wait"} /\ mpc' \in {"deliver", "wait"}
      BY DEF InGroup
    <2>2. \A n \in Node : Due(n)' = Due(n)
      BY <1>1 DEF Due
    <2> QED BY <1>1, <2>1, <2>2 DEF Level, LevelAt
  <1>4. \A n \in Node : InHand(n)' = InHand(n) /\ \A k : IsComing(n, k)' = IsComing(n, k)
    BY <1>1 DEF InHand, IsComing
  <1>5. \A n \in Node : Done(n)' = Done(n) /\ Owed(n)' = Owed(n)
    <2>1. \A n \in Node : Done(n)' = Done(n)
      BY <1>1, <1>4 DEF Done
    <2> QED BY <1>1, <2>1 DEF Owed
  <1>6. Framed'
    <2> SUFFICES ASSUME NEW n \in Node PROVE (TasksFramed(n) /\ OneOfEach(n) /\ InPlace(n))'
      BY DEF Framed
    <2>1. TasksFramed(n) /\ OneOfEach(n) /\ InPlace(n)
      BY DEF Framed
    <2>2. TasksFramed(n)'
      BY <1>1, <1>4, <2>1 DEF TasksFramed
    <2>3. OneOfEach(n)'
      BY <2>1 DEF OneOfEach
    <2>4. \A k : Reading(n, k)' = Reading(n, k)
      BY <1>1, <1>4 DEF Reading
    <2>5. InPlace(n)'
      BY <2>1, <2>4 DEF InPlace
    <2> QED BY <2>2, <2>3, <2>5
  <1>7. Hands'
    BY <1>1, <1>4 DEF Hands, Holding
  <1>8. Trees'
    <2>1. \A k \in 1 .. task_num_ : \A n \in Node : SourcesOf(Group[k], n) \subseteq Node
      BY GroupTyped, RouteTypes
    <2>2. \A n \in Node : Done(n) \subseteq 1 .. task_num_
      BY DEF Done, Sent
    <2> QED BY <1>1, <1>5, <2>1, <2>2 DEF Trees
  <1>9. Fresh'
    BY <1>1 DEF Fresh
  <1>10. Kept'
    BY <1>1, <1>5 DEF Kept, AllStored
  <1> QED BY <1>2, <1>3, <1>5, <1>6, <1>7, <1>8, <1>9, <1>10

LEMMA WaitsPlaces == \A n : Waits(n) = Places(waits_, n) /\ Waits(n)' = Places(waits_', n)
  BY DEF Waits, Places

LEMMA RecordWaitHolds ==
  ASSUME IInv, NEW n \in Node, RecordWait(n), UNCHANGED nodeVars PROVE IInv'
  <1> USE DEF IInv
  <1>0. /\ ending[n] /\ waits_' = Append(waits_, n)
        /\ ending' = [ending EXCEPT ![n] = FALSE]
        /\ delivered' = [delivered EXCEPT ![n] = @ + 1]
        /\ UNCHANGED <<mpc, alg, round, gid, next, cur_tid_, toNode, toMaster>>
    BY DEF RecordWait, links
  <1>1. mpc = "deliver" /\ InGroup /\ InGroup' /\ delivered[n] < task_num_ /\ delivered[n] \in Nat
    BY <1>0 DEF Position, InGroup, TypeOK
  <1>2. task_num_ \in Nat /\ Group' = Group /\ Groups' = Groups /\ task_num_' = task_num_ /\ waits_ \in Seq(Node)
    BY <1>0, <1>1, TasksSame, GroupTyped DEF TypeOK
  <1>3. /\ delivered'[n] = delivered[n] + 1 /\ ending'[n] = FALSE
        /\ \A m \in Node : m # n => delivered'[m] = delivered[m] /\ ending'[m] = ending[m]
        /\ delivered' \in [Node -> Nat] /\ ending' \in [Node -> BOOLEAN]
    <2>1. DOMAIN delivered = Node /\ DOMAIN ending = Node
      BY DEF TypeOK
    <2>2. /\ delivered'[n] = delivered[n] + 1 /\ ending'[n] = FALSE
          /\ \A m \in Node : m # n => delivered'[m] = delivered[m] /\ ending'[m] = ending[m]
      BY ONLY <1>0, <2>1, n \in Node
    <2>3. delivered' \in [Node -> Nat] /\ ending' \in [Node -> BOOLEAN]
      <3>1. delivered \in [Node -> Nat] /\ ending \in [Node -> BOOLEAN]
        BY DEF TypeOK
      <3>2. delivered[n] + 1 \in Nat
        BY ONLY <1>1
      <3> QED BY ONLY <1>0, <3>1, <3>2, n \in Node
    <2> QED BY ONLY <2>2, <2>3
  <1>4. TypeOK'
    <2>1. waits_' \in Seq(Node)
      BY <1>0, <1>2, AppendProperties
    <2> QED BY <1>0, <1>1, <1>3, <2>1, InsideTypes DEF TypeOK, Msg
  <1>5. \A m \in Node : Sent(m)' = Sent(m)
    <2> SUFFICES ASSUME NEW m \in Node, NEW k \in 1 .. task_num_
                 PROVE  (k <= delivered'[m] \/ (k = delivered'[m] + 1 /\ ending'[m])) <=>
                        (k <= delivered[m] \/ (k = delivered[m] + 1 /\ ending[m]))
      BY <1>2 DEF Sent
    <2>1. CASE m = n
      BY <1>0, <1>1, <1>3, <2>1
    <2>2. CASE m # n
      BY <1>3, <2>2
    <2> QED BY <2>1, <2>2
  <1>6. Position'
    <2>1. /\ \A m \in Node : delivered'[m] <= task_num_
      BY <1>1, <1>2, <1>3 DEF Position
    <2>2. \A m \in Node : ending'[m] => m # n /\ ending[m] /\ delivered'[m] = delivered[m]
      BY <1>3
    <2>3. mpc' = "deliver" /\ next = 1 /\ alg \in Alg /\ round \in DOMAIN RoundsOf(alg) /\ gid \in DOMAIN Groups
      BY <1>0, <1>1 DEF Position, InGroup
    <2>4. \A m \in Node : ending'[m] =>
            /\ delivered'[m] < task_num_
            /\ m \in DOMAIN Group[delivered'[m] + 1] /\ Group[delivered'[m] + 1][m] = m
      BY <2>2 DEF Position
    <2> QED BY <1>0, <1>1, <1>2, <2>1, <2>3, <2>4 DEF Position
  <1>7. /\ Between' /\ Level' /\ Framed' /\ Hands' /\ Trees' /\ Fresh' /\ Kept'
        /\ \A m \in Node : Owed(m)' = Owed(m)
    BY <1>0, <1>1, <1>5, InsideKeeps
  <1>8. Counts'
    <2> SUFFICES ASSUME NEW m \in Node
                 PROVE  Cardinality(Waits(m)') + (IF ending'[m] THEN 1 ELSE 0)
                          = Cardinality(Owed(m)') + Len(toMaster'[m])
      BY DEF Counts
    <2>1. Cardinality(Waits(m)) + (IF ending[m] THEN 1 ELSE 0) = Cardinality(Owed(m)) + Len(toMaster[m])
      BY <1>1 DEF Counts
    <2>2. Cardinality(Waits(m)') = Cardinality(Waits(m)) + (IF m = n THEN 1 ELSE 0)
      BY <1>0, <1>2, PlacesAppend, WaitsPlaces
    <2>3. Cardinality(Waits(m)) \in Nat
      BY <1>2, PlacesFinite, WaitsPlaces
    <2> QED BY <1>0, <1>3, <1>7, <2>1, <2>2, <2>3
  <1> QED BY <1>4, <1>6, <1>7, <1>8

LEMMA JoinHolds ==
  ASSUME IInv, Join, UNCHANGED nodeVars PROVE IInv'
  <1> USE DEF IInv
  <1>0. /\ mpc = "deliver" /\ mpc' = "wait" /\ \A n \in Node : delivered[n] = task_num_
        /\ UNCHANGED <<alg, round, gid, next, cur_tid_, waits_, delivered, ending, toNode, toMaster>>
    BY DEF Join, links
  <1>1. InGroup /\ InGroup'
    BY <1>0 DEF InGroup
  <1>2. /\ task_num_ \in Nat /\ Group' = Group /\ Groups' = Groups /\ task_num_' = task_num_
        /\ \A n \in Node : ~ending[n]
    BY <1>0, <1>1, TasksSame, GroupTyped DEF Position
  <1>3. TypeOK'
    BY <1>0, <1>1, InsideTypes DEF TypeOK, Msg
  <1>4. \A m \in Node : Sent(m)' = Sent(m)
    BY <1>0, <1>2 DEF Sent
  <1>5. Position'
    <2>1. next = 1 /\ alg \in Alg /\ round \in DOMAIN RoundsOf(alg) /\ gid \in DOMAIN Groups
      BY <1>0, <1>1 DEF Position
    <2> QED BY <1>0, <1>2, <2>1 DEF Position, InGroup
  <1>6. /\ Between' /\ Level' /\ Framed' /\ Hands' /\ Trees' /\ Fresh' /\ Kept'
        /\ \A m \in Node : Owed(m)' = Owed(m)
    BY <1>0, <1>1, <1>4, InsideKeeps
  <1>7. Counts'
    BY <1>0, <1>1, <1>6, WaitsPlaces DEF Counts
  <1> QED BY <1>3, <1>5, <1>6, <1>7

LEMMA BothLess ==
  ASSUME NEW a \in Nat, NEW b \in Nat, NEW c \in Nat, NEW d \in Nat, NEW e \in Nat, NEW o \in Nat,
         NEW g \in Nat, a + g = b, d + g = e, b + c = o + e
  PROVE  a + c = o + d
  OBVIOUS

LEMMA ReceiveFinishHolds ==
  ASSUME IInv, ReceiveFinish, UNCHANGED nodeVars PROVE IInv'
  <1> USE DEF IInv
  <1> DEFINE n == Head(waits_)
  <1>0. /\ mpc = "wait" /\ waits_ # <<>> /\ toMaster[n] # <<>>
        /\ toMaster' = [toMaster EXCEPT ![n] = Tail(@)]
        /\ waits_' = Tail(waits_)
        /\ UNCHANGED <<mpc, alg, round, gid, next, cur_tid_, delivered, ending, toNode>>
    BY DEF ReceiveFinish
  <1>1. InGroup /\ InGroup' /\ waits_ \in Seq(Node) /\ toMaster \in [Node -> Seq(Node)]
    BY <1>0 DEF InGroup, TypeOK
  <1>2. n \in Node /\ Tail(waits_) \in Seq(Node)
    BY <1>0, <1>1, HeadTailProperties
  <1> HIDE DEF n
  <1>3. toMaster[n] \in Seq(Node)
    BY <1>1, <1>2
  <1>4. Tail(toMaster[n]) \in Seq(Node) /\ Len(Tail(toMaster[n])) = Len(toMaster[n]) - 1
        /\ Len(toMaster[n]) \in Nat \ {0}
    BY <1>0, <1>3, HeadTailProperties, EmptySeq
  <1>5. TypeOK'
    <2>1. toMaster' \in [Node -> Seq(Node)]
      BY <1>0, <1>1, <1>2, <1>4
    <2> QED BY <1>0, <1>1, <1>2, <2>1, InsideTypes DEF TypeOK, Msg
  <1>6. Group' = Group /\ Groups' = Groups /\ task_num_' = task_num_
    BY <1>0, TasksSame
  <1>7. \A m \in Node : Sent(m)' = Sent(m)
    BY <1>0, <1>6 DEF Sent
  <1>8. Position'
    BY <1>0, <1>1, <1>6 DEF Position
  <1>9. /\ Between' /\ Level' /\ Framed' /\ Hands' /\ Trees' /\ Fresh' /\ Kept'
        /\ \A m \in Node : Owed(m)' = Owed(m)
    BY <1>0, <1>1, <1>7, InsideKeeps
  <1>10. Counts'
    <2> SUFFICES ASSUME NEW m \in Node
                 PROVE  Cardinality(Waits(m)') + (IF ending'[m] THEN 1 ELSE 0)
                          = Cardinality(Owed(m)') + Len(toMaster'[m])
      BY DEF Counts
    <2>1. Cardinality(Waits(m)) + (IF ending[m] THEN 1 ELSE 0) = Cardinality(Owed(m)) + Len(toMaster[m])
      BY <1>1 DEF Counts
    <2>2. Cardinality(Waits(m)') + (IF n = m THEN 1 ELSE 0) = Cardinality(Waits(m))
      BY <1>0, <1>1, PlacesTail, WaitsPlaces DEF n
    <2>3. Cardinality(Waits(m)') \in Nat
      BY <1>0, <1>2, PlacesFinite, WaitsPlaces
    <2>4. Len(toMaster'[m]) + (IF n = m THEN 1 ELSE 0) = Len(toMaster[m])
      <3>1. Len(toMaster[m]) \in Nat
        BY <1>1, LenProperties
      <3>2. CASE n = m
        <4>1. toMaster'[m] = Tail(toMaster[n])
          BY <1>0, <1>1, <1>2, <3>2
        <4> QED BY <1>4, <3>2, <4>1
      <3>3. CASE n # m
        <4>1. toMaster'[m] = toMaster[m]
          BY <1>0, <1>1, <1>2, <3>3
        <4> QED BY <3>1, <3>3, <4>1
      <3> QED BY <3>2, <3>3
    <2>5. Len(toMaster[m]) \in Nat /\ Len(toMaster'[m]) \in Nat
      BY <1>5, LenProperties DEF TypeOK
    <2>6. Cardinality(Owed(m)) \in Nat
      BY <1>1, SentTyped
    <2>7. Owed(m)' = Owed(m) /\ ending' = ending
      BY <1>0, <1>9
    <2>9. Cardinality(Waits(m)) \in Nat
      BY <1>1, SentTyped
    <2>10. \E a, b, c, d, e, o, g \in Nat :
             /\ a = Cardinality(Waits(m)') /\ b = Cardinality(Waits(m)) /\ o = Cardinality(Owed(m))
             /\ d = Len(toMaster'[m]) /\ e = Len(toMaster[m])
             /\ c = (IF ending[m] THEN 1 ELSE 0) /\ g = (IF n = m THEN 1 ELSE 0)
      BY ONLY <2>3, <2>5, <2>6, <2>9
    <2>11. PICK a, b, c, d, e, o, g \in Nat :
             /\ a = Cardinality(Waits(m)') /\ b = Cardinality(Waits(m)) /\ o = Cardinality(Owed(m))
             /\ d = Len(toMaster'[m]) /\ e = Len(toMaster[m])
             /\ c = (IF ending[m] THEN 1 ELSE 0) /\ g = (IF n = m THEN 1 ELSE 0)
      BY ONLY <2>10
    <2>12. a + g = b /\ d + g = e /\ b + c = o + e
      BY ONLY <2>1, <2>2, <2>4, <2>11
    <2>13. a + c = o + d
      BY ONLY <2>12, BothLess
    <2> QED BY <2>7, <2>11, <2>13
  <1> QED BY <1>5, <1>8, <1>9, <1>10

(* A thread goes past a task its node takes no part in ...                 *)
LEMMA SkipTaskHolds ==
  ASSUME IInv, NEW n \in Node, DeliverTask(n), UNCHANGED nodeVars,
         n \notin DOMAIN Group[delivered[n] + 1]
  PROVE  IInv'
  <1> USE DEF IInv
  <1>0. /\ mpc = "deliver" /\ ~ending[n] /\ delivered[n] < task_num_
        /\ delivered' = [delivered EXCEPT ![n] = @ + 1]
        /\ UNCHANGED <<toNode, ending, mpc, alg, round, gid, next, cur_tid_, waits_, toMaster>>
    BY DEF DeliverTask
  <1>1. InGroup /\ InGroup' /\ delivered[n] \in Nat
    BY <1>0 DEF InGroup, TypeOK
  <1>2. task_num_ \in Nat /\ Group' = Group /\ Groups' = Groups /\ task_num_' = task_num_
    BY <1>0, <1>1, TasksSame, GroupTyped
  <1>3. /\ delivered'[n] = delivered[n] + 1
        /\ \A m \in Node : m # n => delivered'[m] = delivered[m]
        /\ delivered' \in [Node -> Nat]
    <2>1. delivered \in [Node -> Nat]
      BY DEF TypeOK
    <2>2. delivered[n] + 1 \in Nat
      BY ONLY <1>1
    <2> QED BY ONLY <1>0, <2>1, <2>2, n \in Node
  <1>4. TypeOK'
    BY <1>0, <1>1, <1>3, InsideTypes DEF TypeOK, Msg
  <1>5. \A m \in Node : Sent(m)' = Sent(m)
    <2> SUFFICES ASSUME NEW m \in Node, NEW k \in 1 .. task_num_, m \in DOMAIN Group[k]
                 PROVE  (k <= delivered'[m] \/ (k = delivered'[m] + 1 /\ ending[m])) <=>
                        (k <= delivered[m] \/ (k = delivered[m] + 1 /\ ending[m]))
      BY <1>0, <1>2 DEF Sent
    <2>1. CASE m = n
      <3>1. k # delivered[n] + 1
        BY <2>1
      <3> QED BY <1>0, <1>1, <1>3, <2>1, <3>1
    <2>2. CASE m # n
      BY <1>3, <2>2
    <2> QED BY <2>1, <2>2
  <1>6. Position'
    <2>1. \A m \in Node : delivered'[m] <= task_num_
      BY <1>0, <1>1, <1>2, <1>3 DEF Position
    <2>2. \A m \in Node : ending[m] => delivered'[m] = delivered[m]
      BY <1>0, <1>3
    <2>3. next = 1 /\ alg \in Alg /\ round \in DOMAIN RoundsOf(alg) /\ gid \in DOMAIN Groups
      BY <1>0, <1>1 DEF Position
    <2>4. \A m \in Node : ending[m] =>
            /\ delivered'[m] < task_num_
            /\ m \in DOMAIN Group[delivered'[m] + 1] /\ Group[delivered'[m] + 1][m] = m
      BY <2>2 DEF Position
    <2> QED BY <1>0, <1>1, <1>2, <2>1, <2>3, <2>4 DEF Position
  <1>7. /\ Between' /\ Level' /\ Framed' /\ Hands' /\ Trees' /\ Fresh' /\ Kept'
        /\ \A m \in Node : Owed(m)' = Owed(m)
    BY <1>0, <1>1, <1>5, InsideKeeps
  <1>8. Counts'
    BY <1>0, <1>1, <1>7, WaitsPlaces DEF Counts
  <1> QED BY <1>4, <1>6, <1>7, <1>8

(* ... or sends it: with its sources it comes after all that is under way. *)
LEMMA SendTaskQueue ==
  ASSUME IInv, NEW n \in Node, DeliverTask(n), NEW k0, k0 = delivered[n] + 1,
         n \in DOMAIN Group[k0]
  PROVE  /\ k0 \in 1 .. task_num_
         /\ toNode' \in [Node -> Seq(Msg)]
         /\ \A m \in Node : m # n => toNode'[m] = toNode[m]
         /\ Len(toNode[n]) \in Nat /\ Len(toNode'[n]) = Len(toNode[n]) + 1 + Len(Ids(n, k0))
         /\ DOMAIN toNode[n] = 1 .. Len(toNode[n]) /\ DOMAIN toNode'[n] = 1 .. Len(toNode'[n])
         /\ \A i \in 1 .. Len(toNode[n]) : toNode'[n][i] = toNode[n][i]
         /\ toNode'[n][Len(toNode[n]) + 1] = Task(TaskOf(n, k0))
         /\ \A i \in 1 .. Len(Ids(n, k0)) : toNode'[n][Len(toNode[n]) + 1 + i] = Source(Ids(n, k0)[i])
         /\ Follows(toNode'[n], Len(toNode[n]) + 1, Ids(n, k0), Len(Ids(n, k0)))
         /\ \A i \in Nat, k \in Sent(n), x \in Nat :
              Follows(toNode[n], i, Ids(n, k), x) => Follows(toNode'[n], i, Ids(n, k), x)
         /\ \A i \in DOMAIN toNode'[n] : toNode'[n][i].kind = "rt" => i <= Len(toNode[n]) + 1
  <1> USE DEF IInv
  <1>0. /\ mpc = "deliver" /\ ~ending[n] /\ delivered[n] < task_num_
        /\ toNode' = [toNode EXCEPT ![n] = @ \o Messages(n)]
    BY DEF DeliverTask, Send
  <1>1. InGroup /\ delivered[n] \in Nat /\ cur_tid_ \in Nat /\ toNode \in [Node -> Seq(Msg)]
    BY <1>0 DEF InGroup, TypeOK, Msg
  <1>2. task_num_ \in Nat /\ k0 \in 1 .. task_num_
    <2>1. task_num_ \in Nat
      BY <1>1, GroupTyped
    <2> QED BY <1>0, <1>1, <2>1
  <1> DEFINE s == Ids(n, k0)
             x == Task(TaskOf(n, k0))
             p == [i \in 1 .. Len(s) |-> Source(s[i])]
             q == toNode[n]
  <1>3. /\ x \in Msg /\ s \in Seq(SourcesOf(Group[k0], n)) /\ SourcesOf(Group[k0], n) \subseteq Node
        /\ Len(s) = Cardinality(SourcesOf(Group[k0], n)) /\ Len(s) \in Nat
    <2>1. /\ Task(TaskOf(n, k0)) \in Msg /\ Ids(n, k0) \in Seq(SourcesOf(Group[k0], n))
          /\ SourcesOf(Group[k0], n) \subseteq Node
          /\ Len(Ids(n, k0)) = Cardinality(SourcesOf(Group[k0], n))
      BY <1>1, <1>2, TaskTyped
    <2>2. Len(Ids(n, k0)) \in Nat
      BY <2>1, LenProperties
    <2> QED BY <2>1, <2>2
  <1>4. Messages(n) = <<x>> \o p
    <2>1. RtFor(n) = TaskOf(n, k0)
      <3>1. TaskId(k0) = cur_tid_ + delivered[n]
        BY <1>1 DEF TaskId
      <3> QED BY <3>1 DEF RtFor, TaskOf
    <2> QED BY <1>3, <2>1 DEF Messages, Ids
  <1>5. p \in Seq(Msg) /\ Len(p) = Len(s) /\ \A j \in 1 .. Len(s) : p[j] = Source(s[j])
    <2>1. \A j \in 1 .. Len(s) : s[j] \in Node
      BY <1>3, ElementOfSeq
    <2>2. \A j \in 1 .. Len(s) : Source(s[j]) \in Msg
      BY <2>1 DEF Msg
    <2> QED BY <1>3, <2>2
  <1>6. q \in Seq(Msg) /\ Len(q) \in Nat /\ DOMAIN q = 1 .. Len(q)
    BY <1>1, LenProperties
  <1> HIDE DEF s, x, p, q
  <1> DEFINE r == q \o (<<x>> \o p)
  <1>7. /\ r \in Seq(Msg) /\ r[Len(q) + 1] = x /\ Follows(r, Len(q) + 1, s, Len(s))
        /\ Len(r) = Len(q) + 1 + Len(s)
        /\ \A j \in 1 .. Len(q) : r[j] = q[j]
        /\ \A j \in 1 .. Len(s) : r[Len(q) + 1 + j] = Source(s[j])
        /\ <<x>> \o p \in Seq(Msg) /\ <<x>> \o p # <<>> /\ (<<x>> \o p)[1] = x
    <2>1. s \in Seq(Node)
      <3>1. \A i \in 1 .. Len(s) : s[i] \in Node
        BY <1>3, ElementOfSeq
      <3> QED BY <1>3, <3>1
    <2>2. x \in Msg /\ q \in Seq(Msg) /\ p \in Seq(Msg) /\ Len(p) = Len(s)
          /\ \A j \in 1 .. Len(s) : p[j] = Source(s[j])
      BY <1>3, <1>5, <1>6
    <2> QED BY ONLY <2>1, <2>2, FollowsSent
  <1>8. x.kind = "rt"
    BY Kinds DEF x
  <1>9. \A i \in Nat, k \in Sent(n), y \in Nat : Follows(q, i, Ids(n, k), y) => Follows(r, i, Ids(n, k), y)
    BY <1>6, <1>7, <1>8, FollowsMore
  <1>10. toNode' = [toNode EXCEPT ![n] = r]
    BY <1>0, <1>4 DEF q
  <1> HIDE DEF r
  <1>11. toNode'[n] = r /\ toNode' \in [Node -> Seq(Msg)] /\ \A m \in Node : m # n => toNode'[m] = toNode[m]
    BY <1>1, <1>7, <1>10
  <1>12. DOMAIN r = 1 .. Len(r)
    BY <1>7, LenProperties
  <1>13. ASSUME NEW i \in DOMAIN r, r[i].kind = "rt" PROVE i <= Len(q) + 1
    <2> SUFFICES ASSUME i > Len(q) + 1 PROVE FALSE
      BY <1>3, <1>6, <1>7, <1>12
    <2>1. i - Len(q) - 1 \in 1 .. Len(s) /\ Len(q) + 1 + (i - Len(q) - 1) = i
      <3>1. \A a, b \in Nat : \A c \in 1 .. a + 1 + b : c > a + 1 =>
              c - a - 1 \in 1 .. b /\ a + 1 + (c - a - 1) = c
        OBVIOUS
      <3>2. Len(q) \in Nat /\ Len(s) \in Nat /\ i \in 1 .. Len(q) + 1 + Len(s) /\ i > Len(q) + 1
        BY <1>3, <1>6, <1>7, <1>12
      <3> QED BY ONLY <3>1, <3>2
    <2>2. r[i] = Source(s[i - Len(q) - 1])
      BY <1>7, <2>1
    <2> QED BY <1>13, <2>2, Kinds
  <1> QED BY <1>2, <1>6, <1>7, <1>9, <1>11, <1>12, <1>13 DEF q, s, x

(* Within a group, the node of a step is the only one it changes much for. *)
LEMMA OtherNode ==
  ASSUME UNCHANGED <<alg, round, gid, cur_tid_>>, NEW m, Sent(m)' = Sent(m),
         toNode'[m] = toNode[m], gpc'[m] = gpc[m], rt'[m] = rt[m], left'[m] = left[m],
         InHand(m)' = InHand(m), known'[m] = known[m],
         waiting[m] \cap parts[m] = {} => waiting'[m] \cap parts'[m] = {}
  PROVE  /\ TasksFramed(m) => TasksFramed(m)'
         /\ OneOfEach(m) => OneOfEach(m)'
         /\ InPlace(m) => InPlace(m)'
         /\ Holding(m) => Holding(m)'
         /\ Done(m)' = Done(m) /\ Owed(m)' = Owed(m)
  <1>1. /\ Group' = Group /\ \A k : TaskId(k)' = TaskId(k)
        /\ \A k : TaskOf(m, k)' = TaskOf(m, k) /\ Ids(m, k)' = Ids(m, k)
    BY TasksSame
  <1>2. InHand(m)' = InHand(m) /\ \A k : IsComing(m, k)' = IsComing(m, k)
    BY <1>1 DEF IsComing
  <1>3. Done(m)' = Done(m)
    BY <1>1, <1>2 DEF Done
  <1>4. Owed(m)' = Owed(m)
    BY <1>1, <1>3 DEF Owed
  <1>5. TasksFramed(m) => TasksFramed(m)'
    BY <1>1, <1>2 DEF TasksFramed
  <1>6. OneOfEach(m) => OneOfEach(m)'
    BY DEF OneOfEach
  <1>7. \A k : Reading(m, k)' = Reading(m, k)
    BY <1>1, <1>2 DEF Reading
  <1>8. InPlace(m) => InPlace(m)'
    BY <1>7 DEF InPlace
  <1>9. Holding(m) => Holding(m)'
    BY <1>1, <1>2 DEF Holding
  <1> QED BY <1>3, <1>4, <1>5, <1>6, <1>8, <1>9

LEMMA LevelInside ==
  ASSUME Level, InGroup, InGroup', UNCHANGED <<alg, round, gid, cur_tid_, cur_, speed>>
  PROVE  Level' /\ Between'
  <1>1. Between'
    BY DEF Between
  <1>2. mpc \in {"deliver", "wait"} /\ mpc' \in {"deliver", "wait"}
    BY DEF InGroup
  <1>3. ThisAlg' = ThisAlg /\ \A n \in Node : Due(n)' = Due(n)
    BY TasksSame DEF Due
  <1>4. Level'
    BY <1>2, <1>3 DEF Level, LevelAt
  <1> QED BY <1>1, <1>4

(* What the trees need when no node gets done with a task.                 *)
LEMMA SameDone ==
  ASSUME IInv, InGroup, InGroup', UNCHANGED <<alg, round, gid, cur_tid_, heard, stored>>,
         \A n \in Node : Done(n)' = Done(n)
  PROVE  Trees' /\ Fresh' /\ Kept'
  <1> USE DEF IInv
  <1>1. Group' = Group /\ task_num_' = task_num_ /\ \A k : TaskId(k)' = TaskId(k)
    BY TasksSame
  <1>2. Trees'
    <2>1. \A k \in 1 .. task_num_ : \A n \in Node : SourcesOf(Group[k], n) \subseteq Node
      BY GroupTyped, RouteTypes
    <2>2. \A n \in Node : Done(n) \subseteq 1 .. task_num_
      BY DEF Done, Sent
    <2> QED BY <1>1, <2>1, <2>2 DEF Trees
  <1>3. Fresh'
    BY <1>1 DEF Fresh
  <1>4. Kept'
    BY <1>1 DEF Kept, AllStored
  <1> QED BY <1>2, <1>3, <1>4

LEMMA SendTaskHolds ==
  ASSUME IInv, NEW n \in Node, DeliverTask(n), UNCHANGED nodeVars,
         n \in DOMAIN Group[delivered[n] + 1]
  PROVE  IInv'
  <1> USE DEF IInv
  <1>k. PICK k0 : k0 = delivered[n] + 1
    OBVIOUS
  <1> DEFINE root == Group[k0][n] = n
  <1>0. /\ mpc = "deliver" /\ ~ending[n] /\ delivered[n] < task_num_
        /\ ending' = [ending EXCEPT ![n] = root]
        /\ delivered' = IF root THEN delivered ELSE [delivered EXCEPT ![n] = @ + 1]
        /\ UNCHANGED <<mpc, alg, round, gid, next, cur_tid_, waits_, toMaster>>
        /\ UNCHANGED <<gpc, rt, left, cur_, speed, waiting, parts, known, heard, stored>>
    BY <1>k DEF DeliverTask, nodeVars, stageVars
  <1>1. InGroup /\ InGroup' /\ delivered[n] \in Nat /\ cur_tid_ \in Nat
    BY <1>0 DEF InGroup, TypeOK
  <1>2. /\ task_num_ \in Nat /\ Group' = Group /\ Groups' = Groups /\ task_num_' = task_num_
        /\ \A k : TaskId(k)' = TaskId(k)
        /\ \A m, k : TaskOf(m, k)' = TaskOf(m, k) /\ Ids(m, k)' = Ids(m, k)
    BY <1>0, <1>1, TasksSame, GroupTyped
  <1>3. /\ \A m \in Node : m # n => delivered'[m] = delivered[m] /\ ending'[m] = ending[m]
        /\ ending'[n] = root /\ delivered'[n] = (IF root THEN delivered[n] ELSE delivered[n] + 1)
        /\ delivered' \in [Node -> Nat] /\ ending' \in [Node -> BOOLEAN]
    <2>1. delivered \in [Node -> Nat] /\ ending \in [Node -> BOOLEAN] /\ root \in BOOLEAN
      BY DEF TypeOK
    <2> HIDE DEF root
    <2>2. CASE root
      BY <1>0, <2>1, <2>2
    <2>3. CASE ~root
      BY <1>0, <2>1, <2>3
    <2> QED BY <2>1, <2>2, <2>3
  <1> DEFINE q == toNode[n]
  <1>4. /\ k0 \in 1 .. task_num_
        /\ toNode' \in [Node -> Seq(Msg)]
        /\ \A m \in Node : m # n => toNode'[m] = toNode[m]
        /\ Len(q) \in Nat /\ Len(toNode'[n]) = Len(q) + 1 + Len(Ids(n, k0))
        /\ DOMAIN q = 1 .. Len(q) /\ DOMAIN toNode'[n] = 1 .. Len(toNode'[n])
        /\ \A i \in 1 .. Len(q) : toNode'[n][i] = q[i]
        /\ toNode'[n][Len(q) + 1] = Task(TaskOf(n, k0))
        /\ Follows(toNode'[n], Len(q) + 1, Ids(n, k0), Len(Ids(n, k0)))
        /\ \A i \in Nat, k \in Sent(n), x \in Nat :
             Follows(q, i, Ids(n, k), x) => Follows(toNode'[n], i, Ids(n, k), x)
        /\ \A i \in DOMAIN toNode'[n] : toNode'[n][i].kind = "rt" => i <= Len(q) + 1
    BY <1>k, SendTaskQueue
  <1>5. Len(Ids(n, k0)) \in Nat
    BY <1>1, <1>4, TaskTyped
  <1> HIDE DEF root, q
  <1>6. TypeOK'
    BY <1>0, <1>1, <1>3, <1>4, InsideTypes DEF TypeOK, nodeVars, stageVars
  <1>7. Position'
    <2>1. \A m \in Node : delivered'[m] <= task_num_
      <3>1. delivered[n] + 1 <= task_num_
        BY <1>0, <1>1, <1>2
      <3> QED BY <1>0, <1>1, <1>2, <1>3, <3>1 DEF Position
    <2>2. next = 1 /\ alg \in Alg /\ round \in DOMAIN RoundsOf(alg) /\ gid \in DOMAIN Groups
      BY <1>0, <1>1 DEF Position
    <2>3. \A m \in Node : ending'[m] =>
            /\ delivered'[m] < task_num_
            /\ m \in DOMAIN Group[delivered'[m] + 1] /\ Group[delivered'[m] + 1][m] = m
      <3> SUFFICES ASSUME NEW m \in Node, ending'[m]
                   PROVE  /\ delivered'[m] < task_num_
                          /\ m \in DOMAIN Group[delivered'[m] + 1] /\ Group[delivered'[m] + 1][m] = m
        OBVIOUS
      <3>1. CASE m = n
        BY <1>k, <1>0, <1>3, <3>1 DEF root
      <3>2. CASE m # n
        BY <1>3, <3>2 DEF Position
      <3> QED BY <3>1, <3>2
    <2> QED BY <1>0, <1>1, <1>2, <2>1, <2>2, <2>3 DEF Position
  <1>8. Sent(n)' = Sent(n) \cup {k0} /\ k0 \notin Sent(n)
    <2>1. ASSUME NEW k \in 1 .. task_num_
          PROVE  (k <= delivered'[n] \/ (k = delivered'[n] + 1 /\ ending'[n])) <=>
                 (k <= delivered[n] \/ k = k0)
      BY <1>k, <1>1, <1>3
    <2>2. Sent(n)' = {k \in 1 .. task_num_ : n \in DOMAIN Group[k] /\ (k <= delivered[n] \/ k = k0)}
      BY <1>2, <2>1 DEF Sent
    <2>3. Sent(n) = {k \in 1 .. task_num_ : n \in DOMAIN Group[k] /\ k <= delivered[n]}
      BY <1>0 DEF Sent
    <2>4. ~(k0 <= delivered[n])
      BY <1>k, <1>1
    <2>5. n \in DOMAIN Group[k0]
      BY <1>k
    <2> QED BY <1>4, <2>2, <2>3, <2>4, <2>5
  <1>9. \A m \in Node : m # n => Sent(m)' = Sent(m)
    BY <1>2, <1>3 DEF Sent
  <1>10. Sent(n) \subseteq Nat /\ k0 \in Nat
    BY <1>k, <1>1, <1>2 DEF Sent
  <1>11. InHand(n)' = InHand(n) /\ TaskOf(n, k0) \notin InHand(n)
    <2>1. InHand(n)' = InHand(n)
      BY <1>0 DEF InHand
    <2>2. \A t \in InHand(n) : \E k \in Sent(n) : t = TaskOf(n, k)
      BY <1>1 DEF Hands, Holding
    <2> QED BY <1>1, <1>8, <1>10, <2>1, <2>2, TasksDiffer
  <1>12. TasksFramed(n) /\ OneOfEach(n) /\ InPlace(n) /\ Holding(n)
    BY <1>1 DEF Framed, Hands
  <1>13. ASSUME NEW i \in DOMAIN toNode'[n], toNode'[n][i].kind = "rt"
         PROVE  \/ /\ i \in DOMAIN q /\ toNode'[n][i] = q[i]
                   /\ \E k \in Sent(n) : /\ q[i] = Task(TaskOf(n, k))
                                         /\ Follows(q, i, Ids(n, k), Len(Ids(n, k)))
                                         /\ TaskOf(n, k) \notin InHand(n)
                \/ i = Len(q) + 1
    <2>1. i \in Nat \ {0} /\ i <= Len(q) + 1
      BY <1>4, <1>5, <1>13
    <2>2. CASE i <= Len(q)
      <3>1. i \in DOMAIN q /\ toNode'[n][i] = q[i]
        BY <1>4, <2>1, <2>2
      <3>2. q[i].kind = "rt"
        BY <1>13, <3>1
      <3>3. \E k \in Sent(n) : /\ q[i] = Task(TaskOf(n, k))
                               /\ Follows(q, i, Ids(n, k), Len(Ids(n, k)))
                               /\ TaskOf(n, k) \notin InHand(n)
        BY <1>12, <3>1, <3>2 DEF TasksFramed, q
      <3> QED BY <3>1, <3>3
    <2>3. Len(q) \in Nat
      BY <1>4
    <2>4. i <= Len(q) \/ i = Len(q) + 1
      BY <2>1, <2>3
    <2> QED BY <2>2, <2>4
  <1>14. \A k \in Sent(n) : Len(Ids(n, k)) \in Nat
    BY <1>1, TaskTyped DEF Sent
  <1>15. TasksFramed(n)'
    <2> SUFFICES ASSUME NEW i \in DOMAIN toNode'[n], toNode'[n][i].kind = "rt"
                 PROVE  \E k \in Sent(n) \cup {k0} :
                          /\ toNode'[n][i] = Task(TaskOf(n, k))
                          /\ Follows(toNode'[n], i, Ids(n, k), Len(Ids(n, k)))
                          /\ TaskOf(n, k) \notin InHand(n)
      BY <1>2, <1>8, <1>11 DEF TasksFramed, Follows
    <2>1. CASE i = Len(q) + 1
      BY <1>4, <1>11, <2>1
    <2>2. CASE i # Len(q) + 1
      <3>1. PICK k \in Sent(n) : /\ toNode'[n][i] = Task(TaskOf(n, k))
                                 /\ Follows(q, i, Ids(n, k), Len(Ids(n, k)))
                                 /\ TaskOf(n, k) \notin InHand(n)
        BY <1>13, <2>2
      <3>2. i \in Nat
        BY <1>4, <1>5
      <3> QED BY <1>4, <1>14, <3>1, <3>2
    <2> QED BY <2>1, <2>2
  <1>16. OneOfEach(n)'
    <2> SUFFICES ASSUME NEW i \in DOMAIN toNode'[n], NEW j \in DOMAIN toNode'[n],
                        toNode'[n][i].kind = "rt", toNode'[n][i] = toNode'[n][j]
                 PROVE  i = j
      BY DEF OneOfEach
    <2>1. ASSUME NEW l \in DOMAIN q, toNode'[n][l] = Task(TaskOf(n, k0)), toNode'[n][l] = q[l]
          PROVE  FALSE
      <3>0. l \in DOMAIN toNode[n] /\ toNode[n][l] = Task(TaskOf(n, k0)) /\ toNode[n][l].kind = "rt"
        BY <2>1, Kinds DEF q
      <3>1. \E k \in Sent(n) : toNode[n][l] = Task(TaskOf(n, k))
        BY <1>12, <3>0 DEF TasksFramed
      <3>2. PICK k \in Sent(n) : TaskOf(n, k) = TaskOf(n, k0)
        BY <3>0, <3>1, Kinds
      <3> QED BY <1>1, <1>8, <1>10, <3>2, TasksDiffer
    <2>2. CASE i = Len(q) + 1 /\ j # Len(q) + 1
      BY <1>4, <1>13, <2>1, <2>2
    <2>3. CASE i # Len(q) + 1 /\ j = Len(q) + 1
      BY <1>4, <1>13, <2>1, <2>3
    <2>4. CASE i # Len(q) + 1 /\ j # Len(q) + 1
      <3>1. i \in DOMAIN q /\ j \in DOMAIN q /\ q[i] = q[j] /\ q[i].kind = "rt"
        BY <1>13, <2>4
      <3> QED BY <1>12, <3>1 DEF OneOfEach, q
    <2> QED BY <2>2, <2>3, <2>4
  <1>17. InPlace(n)'
    <2>1. gpc[n] = "task" => toNode'[n][1].kind = "rt"
      <3>1. CASE q = <<>>
        BY <1>4, <3>1, Kinds
      <3>2. CASE q # <<>>
        <4>1. 1 \in 1 .. Len(q)
          <5>1. q \in Seq(Msg)
            BY DEF TypeOK, Msg, q
          <5> QED BY <1>4, <3>2, <5>1, EmptySeq
        <4> QED BY <1>4, <1>12, <3>2, <4>1 DEF InPlace, q
      <3> QED BY <3>1, <3>2
    <2>2. ASSUME NEW k \in Sent(n), Reading(n, k) PROVE Reading(n, k)'
      <3>1. left[n] \in Nat /\ 0 \in Nat
        BY <1>14, <2>2 DEF Reading
      <3>2. Follows(toNode'[n], 0, Ids(n, k), left[n])
        BY <1>4, <2>2, <3>1 DEF Reading, q
      <3> QED BY <1>0, <1>2, <1>11, <2>2, <3>2 DEF Reading, Follows
    <2> QED BY <1>0, <1>8, <1>12, <2>1, <2>2 DEF InPlace
  <1>18. Holding(n)'
    BY <1>0, <1>2, <1>8, <1>11, <1>12 DEF Holding
  <1>19. Done(n)' = Done(n)
    <2>1. IsComing(n, k0)'
      <3>1. Len(q) + 1 \in DOMAIN toNode'[n]
        BY <1>4, <1>5
      <3> QED BY <1>2, <1>4, <3>1 DEF IsComing
    <2>2. ASSUME NEW k \in Sent(n) PROVE IsComing(n, k)' <=> IsComing(n, k)
      <3>1. ASSUME IsComing(n, k) PROVE IsComing(n, k)'
        <4>1. PICK i \in DOMAIN q : q[i] = Task(TaskOf(n, k))
          BY <3>1 DEF IsComing, q
        <4>2. i \in DOMAIN toNode'[n] /\ toNode'[n][i] = q[i]
          BY <1>4, <1>5, <4>1
        <4> QED BY <1>2, <4>1, <4>2 DEF IsComing
      <3>2. ASSUME IsComing(n, k)' PROVE IsComing(n, k)
        <4>1. PICK i \in DOMAIN toNode'[n] : toNode'[n][i] = Task(TaskOf(n, k))
          BY <1>2, <3>2 DEF IsComing
        <4>2. CASE i = Len(q) + 1
          BY <1>1, <1>4, <1>8, <1>10, <4>1, <4>2, TasksDiffer, Kinds
        <4>3. CASE i # Len(q) + 1
          BY <1>13, <4>1, <4>3, Kinds DEF IsComing, q
        <4> QED BY <4>2, <4>3
      <3> QED BY <3>1, <3>2
    <2> QED BY <1>2, <1>8, <1>11, <2>1, <2>2 DEF Done
  <1>20. ASSUME NEW m \in Node, m # n
         PROVE  /\ TasksFramed(m)' /\ OneOfEach(m)' /\ InPlace(m)' /\ Holding(m)'
                /\ Done(m)' = Done(m) /\ Owed(m)' = Owed(m)
    <2>1. InHand(m)' = InHand(m)
      BY <1>0 DEF InHand
    <2> QED BY <1>0, <1>1, <1>4, <1>9, <1>20, <2>1, OtherNode DEF Framed, Hands
  <1>21. Framed' /\ Hands'
    BY <1>15, <1>16, <1>17, <1>18, <1>20 DEF Framed, Hands
  <1>22. Trees' /\ Fresh' /\ Kept'
    BY <1>0, <1>1, <1>19, <1>20, SameDone
  <1>23. Level' /\ Between'
    BY <1>0, <1>1, LevelInside
  <1>24. Counts'
    <2> SUFFICES ASSUME NEW m \in Node
                 PROVE  Cardinality(Waits(m)') + (IF ending'[m] THEN 1 ELSE 0)
                          = Cardinality(Owed(m)') + Len(toMaster'[m])
      BY DEF Counts
    <2>1. Cardinality(Waits(m)) + (IF ending[m] THEN 1 ELSE 0) = Cardinality(Owed(m)) + Len(toMaster[m])
      BY <1>1 DEF Counts
    <2>2. Waits(m)' = Waits(m) /\ toMaster' = toMaster
      BY <1>0 DEF Waits
    <2>3. CASE m # n
      BY <1>3, <1>20, <2>1, <2>2, <2>3
    <2>4. CASE m = n
      <3>1. Owed(n)' = IF root THEN Owed(n) \cup {k0} ELSE Owed(n)
        <4>1. k0 \notin Done(n)
          BY <1>8 DEF Done
        <4> QED BY <1>2, <1>8, <1>19, <4>1 DEF Owed, root
      <3>2. k0 \notin Owed(n) /\ IsFiniteSet(Owed(n)) /\ Cardinality(Owed(n)) \in Nat
        BY <1>1, <1>8, SentTyped
      <3>3. Cardinality(Owed(n)') = Cardinality(Owed(n)) + (IF root THEN 1 ELSE 0)
        <4>1. CASE root
          <5>1. Cardinality(Owed(n) \cup {k0}) = Cardinality(Owed(n)) + 1
            BY <3>2, FS_AddElement
          <5> QED BY <3>1, <4>1, <5>1
        <4>2. CASE ~root
          BY <3>1, <3>2, <4>2
        <4> QED BY <4>1, <4>2
      <3>4. Cardinality(Waits(n)) \in Nat /\ Len(toMaster[n]) \in Nat
        BY <1>1, SentTyped, LenProperties DEF TypeOK
      <3>5. \A a, o, l, b \in Nat : a + 0 = o + l => a + b = (o + b) + l
        OBVIOUS
      <3>6. Cardinality(Waits(n)) + (IF root THEN 1 ELSE 0)
              = (Cardinality(Owed(n)) + (IF root THEN 1 ELSE 0)) + Len(toMaster[n])
        <4>1. Cardinality(Waits(n)) + 0 = Cardinality(Owed(n)) + Len(toMaster[n])
          BY <1>0, <2>1, <2>4
        <4>2. (IF root THEN 1 ELSE 0) \in Nat
          OBVIOUS
        <4> QED BY ONLY <3>2, <3>4, <3>5, <4>1, <4>2
      <3> QED BY <1>3, <2>2, <2>4, <3>3, <3>6
    <2> QED BY <2>3, <2>4
  <1> QED BY <1>6, <1>7, <1>21, <1>22, <1>23, <1>24

-----------------------------------------------------------------------------
(* The steps of the nodes inside a group.                                  *)
LEMMA TailOf ==
  ASSUME NEW M, NEW q \in Seq(M), q # <<>>
  PROVE  /\ Len(q) \in Nat \ {0} /\ DOMAIN q = 1 .. Len(q) /\ Head(q) = q[1] /\ 1 \in DOMAIN q
         /\ Tail(q) \in Seq(M) /\ Len(Tail(q)) = Len(q) - 1 /\ DOMAIN Tail(q) = 1 .. Len(q) - 1
         /\ \A i \in DOMAIN Tail(q) : /\ i \in Nat /\ i + 1 \in DOMAIN q /\ i + 1 # 1
                                      /\ Tail(q)[i] = q[i + 1]
         /\ \A j \in DOMAIN q : j # 1 => j - 1 \in DOMAIN Tail(q) /\ Tail(q)[j - 1] = q[j]
  <1>1. /\ Len(q) \in Nat \ {0} /\ DOMAIN q = 1 .. Len(q) /\ Head(q) = q[1]
        /\ Tail(q) \in Seq(M) /\ Len(Tail(q)) = Len(q) - 1
        /\ \A i \in 1 .. Len(Tail(q)) : Tail(q)[i] = q[i + 1]
    BY HeadTailProperties, LenProperties, EmptySeq
  <1>2. DOMAIN Tail(q) = 1 .. Len(q) - 1
    BY <1>1, LenProperties
  <1>3. \A i \in 1 .. Len(q) - 1 : i \in Nat /\ i + 1 \in 1 .. Len(q) /\ i + 1 # 1
    BY <1>1
  <1>4. \A j \in 1 .. Len(q) : j # 1 => j - 1 \in 1 .. Len(q) - 1 /\ (j - 1) + 1 = j
    BY <1>1
  <1>5. \A j \in DOMAIN q : j # 1 => j - 1 \in DOMAIN Tail(q) /\ Tail(q)[j - 1] = q[j]
    BY <1>1, <1>2, <1>4
  <1> QED BY <1>1, <1>2, <1>3, <1>5

(* A task message is read within a group, by GetTaks between two tasks.    *)
LEMMA TaskInside ==
  ASSUME IInv, NEW n \in Node,
         Message(n, "task") \/ gpc[n] = "sources" \/ InHand(n) # {}
  PROVE  InGroup
  <1> USE DEF IInv
  <1> SUFFICES ASSUME ~InGroup PROVE FALSE
    OBVIOUS
  <1>1. BetweenAt(n)
    BY DEF Between
  <1>2. CASE InHand(n) # {}
    BY <1>1, <1>2 DEF BetweenAt, InHand
  <1>3. Idle(n) \/ Answered(n) \/ Ended(n) \/ \E r \in {ReloadRt, SetRt(n), EndRt} : Pending(n, r)
    BY <1>1 DEF BetweenAt, Asked
  <1>4. CASE gpc[n] = "sources"
    BY <1>3, <1>4 DEF Idle, Answered, Ended, Pending
  <1>5. CASE Message(n, "task")
    <2>1. gpc[n] = "task" /\ toNode[n] # <<>> /\ Means(Head(toNode[n]).rt) = "task"
      BY <1>5 DEF Message
    <2>2. PICK r \in {ReloadRt, SetRt(n), EndRt} : toNode[n] = <<Task(r)>>
      BY <1>3, <2>1 DEF Idle, Answered, Ended, Pending
    <2>3. Head(toNode[n]).rt = r
      BY <2>2, Kinds
    <2> QED BY <2>1, <2>2, <2>3, Meanings
  <1> QED BY <1>2, <1>4, <1>5

(* What is behind the first message is framed as it was.                   *)
LEMMA TakeFrames ==
  ASSUME TypeOK, Position, InGroup, NEW n \in Node, TasksFramed(n), OneOfEach(n), toNode[n] # <<>>
  PROVE  /\ \A i \in DOMAIN Tail(toNode[n]) : Tail(toNode[n])[i].kind = "rt" =>
              \E k \in Sent(n) :
                /\ Tail(toNode[n])[i] = Task(TaskOf(n, k))
                /\ Follows(Tail(toNode[n]), i, Ids(n, k), Len(Ids(n, k)))
                /\ TaskOf(n, k) \notin InHand(n)
                /\ toNode[n][1] # Task(TaskOf(n, k))
         /\ \A i, j \in DOMAIN Tail(toNode[n]) :
              Tail(toNode[n])[i].kind = "rt" /\ Tail(toNode[n])[i] = Tail(toNode[n])[j] => i = j
  <1> DEFINE q == toNode[n]
  <1>1. q \in Seq(Msg)
    BY DEF TypeOK, Msg
  <1>2. /\ DOMAIN q = 1 .. Len(q) /\ 1 \in DOMAIN q
        /\ \A i \in DOMAIN Tail(q) : /\ i \in Nat /\ i + 1 \in DOMAIN q /\ i + 1 # 1
                                     /\ Tail(q)[i] = q[i + 1]
    BY <1>1, TailOf
  <1>3. \A k \in Sent(n) : Len(Ids(n, k)) \in Nat
    BY TaskTyped DEF Sent
  <1>4. ASSUME NEW i \in DOMAIN Tail(q), Tail(q)[i].kind = "rt"
        PROVE  \E k \in Sent(n) : /\ Tail(q)[i] = Task(TaskOf(n, k))
                                  /\ Follows(Tail(q), i, Ids(n, k), Len(Ids(n, k)))
                                  /\ TaskOf(n, k) \notin InHand(n)
                                  /\ q[1] # Task(TaskOf(n, k))
    <2>1. i + 1 \in DOMAIN q /\ q[i + 1].kind = "rt" /\ i \in Nat /\ i + 1 # 1
      BY <1>2, <1>4
    <2>2. PICK k \in Sent(n) : /\ q[i + 1] = Task(TaskOf(n, k))
                               /\ Follows(q, i + 1, Ids(n, k), Len(Ids(n, k)))
                               /\ TaskOf(n, k) \notin InHand(n)
      BY <2>1 DEF TasksFramed
    <2>3. Follows(Tail(q), (i + 1) - 1, Ids(n, k), Len(Ids(n, k)))
      <3>1. i + 1 \in Nat \ {0}
        BY <2>1
      <3> QED BY <1>1, <1>3, <2>2, <3>1, FollowsTail
    <2>4. (i + 1) - 1 = i
      BY <2>1
    <2>5. q[1] # q[i + 1]
      BY <1>2, <2>1 DEF OneOfEach
    <2> QED BY <1>2, <1>4, <2>2, <2>3, <2>4, <2>5
  <1>5. ASSUME NEW i \in DOMAIN Tail(q), NEW j \in DOMAIN Tail(q),
               Tail(q)[i].kind = "rt", Tail(q)[i] = Tail(q)[j]
        PROVE  i = j
    <2>1. i + 1 \in DOMAIN q /\ j + 1 \in DOMAIN q /\ q[i + 1].kind = "rt" /\ q[i + 1] = q[j + 1]
          /\ i \in Nat /\ j \in Nat
      BY <1>2, <1>5
    <2>2. i + 1 = j + 1
      BY <2>1 DEF OneOfEach
    <2> QED BY <2>1, <2>2
  <1> QED BY <1>4, <1>5

LEMMA StageTypes ==
  ASSUME TypeOK, UNCHANGED <<masterVars, cur_, speed>>,
         toNode' \in [Node -> Seq(Msg)], toMaster' \in [Node -> Seq(Node)],
         gpc' \in [Node -> {"task", "sources", "ended", "exited"}],
         rt' \in [Node -> Rts \cup {NoTask}], left' \in [Node -> 0 .. N],
         waiting' \in [Node -> SUBSET Rts], parts' \in [Node -> SUBSET Rts],
         known' \in [Node -> SUBSET (TaskIds \X Node)],
         heard' \in [Node -> SUBSET (TaskIds \X Node)],
         stored' \subseteq TaskIds
  PROVE  TypeOK'
  <1>1. TaskIds' = TaskIds /\ Rts' = Rts
    BY MasterSame
  <1>2. toNode' \in [Node -> Seq({Task(r) : r \in Rts'} \cup {Source(s) : s \in Node})]
    BY <1>1 DEF Msg
  <1>3. /\ rt' \in [Node -> Rts' \cup {NoTask}]
        /\ waiting' \in [Node -> SUBSET Rts'] /\ parts' \in [Node -> SUBSET Rts']
        /\ known' \in [Node -> SUBSET (TaskIds' \X Node)]
        /\ heard' \in [Node -> SUBSET (TaskIds' \X Node)]
        /\ stored' \subseteq TaskIds'
    BY <1>1
  <1>4. /\ mpc' \in {"algorithm", "reload", "reloading", "route", "set", "setting", "group",
                     "deliver", "wait", "close", "closed"}
        /\ alg' \in 0 .. Len(Program) /\ round' \in Nat /\ gid' \in Nat /\ next' \in Node
        /\ cur_tid_' \in Nat /\ waits_' \in Seq(Node)
        /\ delivered' \in [Node -> Nat] /\ ending' \in [Node -> BOOLEAN]
        /\ cur_' \in [Node -> 0 .. BwNum] /\ speed' \in [Node -> 0 .. BwNum]
    BY DEF TypeOK, masterVars
  <1> QED BY <1>2, <1>3, <1>4 DEF TypeOK

LEMMA ReceiveTaskHolds ==
  ASSUME IInv, NEW n \in Node, ReceiveTask(n), UNCHANGED masterVars PROVE IInv'
  <1> USE DEF IInv
  <1> DEFINE q == toNode[n]
             new == Head(q).rt
  <1>0. /\ Message(n, "task") /\ toNode' = [toNode EXCEPT ![n] = Tail(q)]
        /\ gpc[n] = "task" /\ q # <<>>
        /\ rt' = [rt EXCEPT ![n] = new]
        /\ left' = [left EXCEPT ![n] = new.src_num]
        /\ gpc' = [gpc EXCEPT ![n] = IF new.src_num = 0 THEN "task" ELSE "sources"]
        /\ waiting' = [waiting EXCEPT ![n] = @ \cup {new}]
        /\ UNCHANGED <<cur_, speed, parts, known, heard, stored, toMaster>>
    BY DEF ReceiveTask, ReceiveTaskWith, Message, Take
  <1>1. InGroup /\ InGroup'
    <2>1. InGroup
      BY <1>0, TaskInside
    <2> QED BY <2>1, MasterSame
  <1>2. /\ Group' = Group /\ task_num_' = task_num_ /\ \A k : TaskId(k)' = TaskId(k)
        /\ \A m : Sent(m)' = Sent(m) /\ Waits(m)' = Waits(m)
        /\ \A m, k : TaskOf(m, k)' = TaskOf(m, k) /\ Ids(m, k)' = Ids(m, k)
        /\ Position' /\ UNCHANGED <<alg, round, gid, cur_tid_, ending>>
    BY MasterSame DEF masterVars
  <1>3. PICK k0 \in Sent(n) : Head(q) = Task(TaskOf(n, k0)) /\ new = TaskOf(n, k0)
    BY <1>0, <1>1, InsideMessage
  <1> HIDE DEF new
  <1>4. k0 \in 1 .. task_num_ /\ n \in DOMAIN Group[k0] /\ task_num_ \in Nat /\ Sent(n) \subseteq 1 .. task_num_
    BY <1>1, GroupTyped DEF Sent
  <1>5. /\ new \in Rts /\ new.src_num = Len(Ids(n, k0)) /\ Len(Ids(n, k0)) \in 0 .. N
        /\ cur_tid_ \in Nat /\ k0 \in Nat /\ Sent(n) \subseteq Nat
    <2>1. /\ TaskOf(n, k0) \in Rts /\ TaskOf(n, k0).src_num = Cardinality(SourcesOf(Group[k0], n))
          /\ Len(Ids(n, k0)) = Cardinality(SourcesOf(Group[k0], n)) /\ Len(Ids(n, k0)) \in 0 .. N
      BY <1>1, <1>4, TaskTyped
    <2>2. cur_tid_ \in Nat
      BY DEF TypeOK
    <2>3. k0 \in Nat /\ Sent(n) \subseteq Nat
      BY ONLY <1>4
    <2>4. new \in Rts /\ new.src_num = Len(Ids(n, k0))
      BY ONLY <1>3, <2>1
    <2> QED BY ONLY <2>1, <2>2, <2>3, <2>4
  <1>6. TasksFramed(n) /\ OneOfEach(n) /\ InPlace(n) /\ Holding(n)
    BY <1>1 DEF Framed, Hands
  <1>7. /\ q \in Seq(Msg) /\ DOMAIN q = 1 .. Len(q) /\ Head(q) = q[1] /\ 1 \in DOMAIN q
        /\ Tail(q) \in Seq(Msg) /\ Len(Tail(q)) \in Nat /\ DOMAIN Tail(q) = 1 .. Len(Tail(q))
        /\ \A i \in DOMAIN Tail(q) : i + 1 \in DOMAIN q /\ Tail(q)[i] = q[i + 1]
        /\ \A j \in DOMAIN q : j # 1 => j - 1 \in DOMAIN Tail(q) /\ Tail(q)[j - 1] = q[j]
    <2>1. q \in Seq(Msg)
      BY DEF TypeOK, Msg
    <2> QED BY <1>0, <2>1, TailOf
  <1>8. /\ toNode'[n] = Tail(q) /\ rt'[n] = new /\ left'[n] = new.src_num
        /\ gpc'[n] = (IF new.src_num = 0 THEN "task" ELSE "sources")
        /\ waiting'[n] = waiting[n] \cup {new}
        /\ \A m \in Node : m # n => /\ toNode'[m] = toNode[m] /\ rt'[m] = rt[m] /\ left'[m] = left[m]
                                    /\ gpc'[m] = gpc[m] /\ waiting'[m] = waiting[m]
    BY <1>0 DEF TypeOK
  <1>9. TypeOK'
    <2>1. toNode' \in [Node -> Seq(Msg)]
      BY <1>0, <1>7 DEF TypeOK, Msg
    <2>2. /\ rt' \in [Node -> Rts \cup {NoTask}] /\ left' \in [Node -> 0 .. N]
          /\ gpc' \in [Node -> {"task", "sources", "ended", "exited"}]
          /\ waiting' \in [Node -> SUBSET Rts]
      BY <1>0, <1>5 DEF TypeOK
    <2>3. /\ toMaster' \in [Node -> Seq(Node)] /\ parts' \in [Node -> SUBSET Rts]
          /\ known' \in [Node -> SUBSET (TaskIds \X Node)]
          /\ heard' \in [Node -> SUBSET (TaskIds \X Node)]
          /\ stored' \subseteq TaskIds
      BY <1>0 DEF TypeOK
    <2> QED BY <1>0, <2>1, <2>2, <2>3, StageTypes
  <1> HIDE DEF q
  <1>10. TaskOf(n, k0) \notin InHand(n) /\ Follows(q, 1, Ids(n, k0), Len(Ids(n, k0)))
    <2>1. 1 \in DOMAIN toNode[n] /\ toNode[n][1] = Task(TaskOf(n, k0)) /\ toNode[n][1].kind = "rt"
      BY <1>3, <1>7, Kinds DEF q
    <2>2. PICK k \in Sent(n) : /\ toNode[n][1] = Task(TaskOf(n, k))
                               /\ Follows(q, 1, Ids(n, k), Len(Ids(n, k)))
                               /\ TaskOf(n, k) \notin InHand(n)
      BY <1>6, <2>1 DEF TasksFramed, q
    <2>3. k = k0
      <3>1. TaskOf(n, k) = TaskOf(n, k0) /\ k \in Nat
        BY <1>5, <2>1, <2>2, Kinds
      <3> QED BY <1>5, <3>1, TasksDiffer
    <2> QED BY <2>2, <2>3
  <1>11. InHand(n)' = InHand(n) \cup {TaskOf(n, k0)}
    BY <1>0, <1>3, <1>8 DEF InHand
  <1>12. Follows(Tail(q), 0, Ids(n, k0), Len(Ids(n, k0)))
    <2>1. Follows(Tail(q), 1 - 1, Ids(n, k0), Len(Ids(n, k0)))
      <3>1. 1 \in Nat \ {0} /\ Len(Ids(n, k0)) \in Nat /\ q # <<>>
        BY <1>0, <1>5 DEF q
      <3> QED BY <1>7, <1>10, <3>1, FollowsTail
    <2> QED BY <2>1
  <1>13. /\ \A i \in DOMAIN Tail(q) : Tail(q)[i].kind = "rt" =>
              \E k \in Sent(n) :
                /\ Tail(q)[i] = Task(TaskOf(n, k))
                /\ Follows(Tail(q), i, Ids(n, k), Len(Ids(n, k)))
                /\ TaskOf(n, k) \notin InHand(n)
                /\ q[1] # Task(TaskOf(n, k))
         /\ \A i, j \in DOMAIN Tail(q) : Tail(q)[i].kind = "rt" /\ Tail(q)[i] = Tail(q)[j] => i = j
    BY <1>0, <1>1, <1>6, TakeFrames DEF q
  <1>14. TasksFramed(n)'
    <2> SUFFICES ASSUME NEW i \in DOMAIN Tail(q), Tail(q)[i].kind = "rt"
                 PROVE  \E k \in Sent(n) : /\ Tail(q)[i] = Task(TaskOf(n, k))
                                           /\ Follows(Tail(q), i, Ids(n, k), Len(Ids(n, k)))
                                           /\ TaskOf(n, k) \notin InHand(n)'
      <3>1. \A i, k : Follows(toNode'[n], i, Ids(n, k)', Len(Ids(n, k)')) <=>
                      Follows(Tail(q), i, Ids(n, k), Len(Ids(n, k)))
        BY <1>2, <1>8
      <3>2. Sent(n)' = Sent(n) /\ \A k : TaskOf(n, k)' = TaskOf(n, k)
        BY <1>2
      <3>3. toNode'[n] = Tail(q)
        BY <1>8
      <3> QED BY <3>1, <3>2, <3>3 DEF TasksFramed
    <2>1. PICK k \in Sent(n) : /\ Tail(q)[i] = Task(TaskOf(n, k))
                               /\ Follows(Tail(q), i, Ids(n, k), Len(Ids(n, k)))
                               /\ TaskOf(n, k) \notin InHand(n)
                               /\ q[1] # Task(TaskOf(n, k))
      BY <1>13
    <2>2. TaskOf(n, k) # TaskOf(n, k0)
      BY <1>3, <1>7, <2>1
    <2> QED BY <1>11, <2>1, <2>2
  <1>15. OneOfEach(n)'
    BY <1>8, <1>13 DEF OneOfEach
  <1>16. InPlace(n)'
    <2>1. CASE Len(Ids(n, k0)) = 0
      <3>1. gpc'[n] = "task"
        BY <1>5, <1>8, <2>1
      <3>2. Tail(q) # <<>> => 1 <= Len(Tail(q))
        BY <1>7, EmptySeq
      <3>3. 1 <= Len(Tail(q)) => Tail(q)[1].kind = "rt"
        <4>1. 0 + Len(Ids(n, k0)) + 1 = 1
          BY <2>1
        <4> QED BY <1>12, <4>1 DEF Follows
      <3> QED BY <1>8, <3>1, <3>2, <3>3 DEF InPlace
    <2>2. CASE Len(Ids(n, k0)) # 0
      <3>1. gpc'[n] = "sources" /\ left'[n] = Len(Ids(n, k0)) /\ left'[n] \in 1 .. Len(Ids(n, k0))
        BY <1>5, <1>8, <2>2
      <3>2. \A s \in Node : <<TaskId(k0), s>> \notin known[n]
        <4> SUFFICES ASSUME NEW s \in Node, <<TaskId(k0), s>> \in known[n] PROVE FALSE
          OBVIOUS
        <4>1. PICK k \in Sent(n) : TaskOf(n, k) \in InHand(n) /\ <<TaskId(k0), s>>[1] = TaskId(k)
          BY <1>6 DEF Holding
        <4>2. k = k0
          BY <1>5, <4>1, TasksDiffer
        <4> QED BY <1>10, <4>1, <4>2
      <3>3. Reading(n, k0)'
        <4>1. rt'[n] = TaskOf(n, k0) /\ TaskOf(n, k0) \in InHand(n)'
          BY <1>3, <1>8, <1>11
        <4>2. Follows(toNode'[n], 0, Ids(n, k0), left'[n])
          BY ONLY <1>8, <1>12, <3>1
        <4>3. known' = known
          BY <1>0
        <4>4. TaskOf(n, k0)' = TaskOf(n, k0) /\ Ids(n, k0)' = Ids(n, k0) /\ TaskId(k0)' = TaskId(k0)
          BY ONLY <1>2
        <4>5. Reading(n, k0)' <=>
                /\ rt'[n] = TaskOf(n, k0) /\ rt'[n] \in InHand(n)'
                /\ left'[n] \in 1 .. Len(Ids(n, k0))
                /\ Follows(toNode'[n], 0, Ids(n, k0), left'[n])
                /\ \A s \in Node : <<TaskId(k0), s>> \in known[n] =>
                     \E i \in 1 .. Len(Ids(n, k0)) - left'[n] : s = Ids(n, k0)[i]
          BY <4>3, <4>4 DEF Reading, Follows
        <4> QED BY ONLY <3>1, <3>2, <4>1, <4>2, <4>5
      <3> QED BY <1>2, <3>1, <3>3 DEF InPlace
    <2> QED BY <2>1, <2>2
  <1>17. Holding(n)'
    <2>1. waiting'[n] \cap parts'[n] = {}
      BY <1>0, <1>3, <1>6, <1>8, <1>10 DEF Holding, InHand
    <2>2. \A t \in InHand(n)' : \E k \in Sent(n) : t = TaskOf(n, k)
      BY <1>6, <1>11 DEF Holding
    <2> QED BY <1>0, <1>2, <1>6, <1>11, <2>1, <2>2 DEF Holding
  <1>18. Done(n)' = Done(n)
    <2>1. IsComing(n, k0)
      BY <1>3, <1>7 DEF IsComing, q
    <2>2. ASSUME NEW k \in Sent(n), k # k0 PROVE IsComing(n, k)' <=> IsComing(n, k)
      <3>1. ASSUME IsComing(n, k)' PROVE IsComing(n, k)
        <4>1. PICK i \in DOMAIN Tail(q) : Tail(q)[i] = Task(TaskOf(n, k))
          BY <1>2, <1>8, <3>1 DEF IsComing
        <4> QED BY <1>7, <4>1 DEF IsComing, q
      <3>2. ASSUME IsComing(n, k) PROVE IsComing(n, k)'
        <4>1. PICK i \in DOMAIN q : q[i] = Task(TaskOf(n, k))
          BY <3>2 DEF IsComing, q
        <4>2. i # 1
          BY <1>3, <1>5, <1>7, <2>2, <4>1, Kinds, TasksDiffer
        <4>3. i - 1 \in DOMAIN Tail(q) /\ Tail(q)[i - 1] = Task(TaskOf(n, k))
          BY <1>7, <4>1, <4>2
        <4> QED BY <1>2, <1>8, <4>3 DEF IsComing
      <3> QED BY <3>1, <3>2
    <2>3. ASSUME NEW k \in Sent(n), k # k0 PROVE TaskOf(n, k) \in InHand(n)' <=> TaskOf(n, k) \in InHand(n)
      BY <1>5, <1>11, <2>3, TasksDiffer
    <2>4. TaskOf(n, k0) \in InHand(n)'
      BY <1>11
    <2>5. Done(n) = {k \in Sent(n) : TaskOf(n, k) \notin InHand(n) /\ ~IsComing(n, k)}
      BY DEF Done
    <2>6. Done(n)' = {k \in Sent(n) : TaskOf(n, k) \notin InHand(n)' /\ ~IsComing(n, k)'}
      BY <1>2 DEF Done
    <2>7. ASSUME NEW k \in Sent(n) PROVE k \in Done(n)' <=> k \in Done(n)
      <3>1. CASE k = k0
        BY <2>1, <2>4, <2>5, <2>6, <3>1
      <3>2. CASE k # k0
        BY <2>2, <2>3, <2>5, <2>6, <3>2
      <3> QED BY <3>1, <3>2
    <2> QED BY <2>5, <2>6, <2>7
  <1>19. Owed(n)' = Owed(n)
    BY <1>2, <1>18 DEF Owed
  <1>20. ASSUME NEW m \in Node, m # n
         PROVE  /\ TasksFramed(m)' /\ OneOfEach(m)' /\ InPlace(m)' /\ Holding(m)'
                /\ Done(m)' = Done(m) /\ Owed(m)' = Owed(m)
    <2>1. InHand(m)' = InHand(m) /\ waiting'[m] = waiting[m] /\ parts'[m] = parts[m]
      BY <1>0, <1>8, <1>20 DEF InHand
    <2> QED BY <1>0, <1>1, <1>2, <1>8, <1>20, <2>1, OtherNode DEF Framed, Hands
  <1>21. Framed' /\ Hands'
    BY <1>14, <1>15, <1>16, <1>17, <1>20 DEF Framed, Hands
  <1>22. Trees' /\ Fresh' /\ Kept'
    BY <1>0, <1>1, <1>2, <1>18, <1>20, SameDone
  <1>23. Level' /\ Between'
    BY <1>0, <1>1, <1>2, LevelInside
  <1>24. Counts'
    BY <1>0, <1>1, <1>2, <1>19, <1>20 DEF Counts
  <1> QED BY <1>2, <1>9, <1>21, <1>22, <1>23, <1>24

LEMMA ReceiveSourceHolds ==
  ASSUME IInv, NEW n \in Node, ReceiveSource(n), UNCHANGED masterVars PROVE IInv'
  <1> USE DEF IInv
  <1> DEFINE q == toNode[n]
             told == <<rt[n].task_id, Head(q).src_id>>
  <1>0. /\ toNode' = [toNode EXCEPT ![n] = Tail(q)]
        /\ gpc[n] = "sources" /\ q # <<>> /\ Head(q).kind = "src"
        /\ known' = [known EXCEPT ![n] = @ \cup {told}]
        /\ left' = [left EXCEPT ![n] = @ - 1]
        /\ gpc' = [gpc EXCEPT ![n] = IF left[n] = 1 THEN "task" ELSE "sources"]
        /\ UNCHANGED <<rt, cur_, speed, waiting, parts, heard, stored, toMaster>>
    BY DEF ReceiveSource, Take
  <1>1. InGroup /\ InGroup'
    <2>1. InGroup
      BY <1>0, TaskInside
    <2> QED BY <2>1, MasterSame
  <1>2. /\ Group' = Group /\ task_num_' = task_num_ /\ \A k : TaskId(k)' = TaskId(k)
        /\ \A m : Sent(m)' = Sent(m) /\ Waits(m)' = Waits(m)
        /\ \A m, k : TaskOf(m, k)' = TaskOf(m, k) /\ Ids(m, k)' = Ids(m, k)
        /\ Position' /\ UNCHANGED <<alg, round, gid, cur_tid_, ending>>
    BY MasterSame DEF masterVars
  <1>3. TasksFramed(n) /\ OneOfEach(n) /\ InPlace(n) /\ Holding(n)
    BY <1>1 DEF Framed, Hands
  <1>4. PICK k0 \in Sent(n) : Reading(n, k0)
    BY <1>0, <1>3 DEF InPlace
  <1>5. k0 \in 1 .. task_num_ /\ n \in DOMAIN Group[k0]
    BY DEF Sent
  <1>6. /\ TaskOf(n, k0).task_id = TaskId(k0) /\ TaskId(k0) \in TaskIds
        /\ Ids(n, k0) \in Seq(SourcesOf(Group[k0], n)) /\ SourcesOf(Group[k0], n) \subseteq Node
        /\ Len(Ids(n, k0)) \in 0 .. N
    BY <1>1, <1>5, TaskTyped
  <1>7. /\ rt[n] = TaskOf(n, k0) /\ rt[n] \in InHand(n) /\ left[n] \in 1 .. Len(Ids(n, k0))
        /\ Follows(q, 0, Ids(n, k0), left[n])
        /\ \A s \in Node : <<TaskId(k0), s>> \in known[n] =>
             \E i \in 1 .. Len(Ids(n, k0)) - left[n] : s = Ids(n, k0)[i]
    BY <1>4 DEF Reading
  <1> DEFINE l0 == Len(Ids(n, k0)) - left[n] + 1
  <1>8. /\ q \in Seq(Msg) /\ DOMAIN q = 1 .. Len(q) /\ Head(q) = q[1] /\ 1 \in DOMAIN q
        /\ Tail(q) \in Seq(Msg) /\ Len(Tail(q)) \in Nat /\ DOMAIN Tail(q) = 1 .. Len(Tail(q))
        /\ \A i \in DOMAIN Tail(q) : i + 1 \in DOMAIN q /\ Tail(q)[i] = q[i + 1]
        /\ \A j \in DOMAIN q : j # 1 => j - 1 \in DOMAIN Tail(q) /\ Tail(q)[j - 1] = q[j]
    <2>1. q \in Seq(Msg)
      BY DEF TypeOK, Msg
    <2> QED BY <1>0, <2>1, TailOf
  <1>9. Head(q) = Source(Ids(n, k0)[l0]) /\ Follows(Tail(q), 0, Ids(n, k0), left[n] - 1)
    <2>1. left[n] \in Nat \ {0}
      BY <1>6, <1>7
    <2>2. q \in Seq(Msg) /\ Ids(n, k0) \in Seq(SourcesOf(Group[k0], n))
          /\ Follows(q, 0, Ids(n, k0), left[n])
      BY ONLY <1>6, <1>7, <1>8
    <2> QED BY ONLY <2>1, <2>2, FollowsNext
  <1>10. l0 \in 1 .. Len(Ids(n, k0)) /\ Ids(n, k0)[l0] \in SourcesOf(Group[k0], n)
         /\ left[n] - 1 \in 0 .. N /\ (left[n] # 1 => left[n] - 1 \in 1 .. Len(Ids(n, k0)))
    <2>1. l0 \in 1 .. Len(Ids(n, k0)) /\ left[n] - 1 \in 0 .. N
          /\ (left[n] # 1 => left[n] - 1 \in 1 .. Len(Ids(n, k0)))
      <3>1. \A M \in Nat : \A c \in 0 .. M : \A d \in 1 .. c :
              c - d + 1 \in 1 .. c /\ d - 1 \in 0 .. M /\ (d # 1 => d - 1 \in 1 .. c)
        OBVIOUS
      <3> QED BY <1>6, <1>7, <3>1, Nodes
    <2> HIDE DEF l0
    <2> QED BY <1>6, <2>1, ElementOfSeq
  <1>11. told = <<TaskId(k0), Ids(n, k0)[l0]>>
    BY <1>6, <1>7, <1>9, Kinds
  <1>12. \A i \in 1 .. Len(Ids(n, k0)) - left[n] : i \in 1 .. Len(Ids(n, k0)) - (left[n] - 1)
    BY <1>6, <1>7
  <1>13. l0 \in 1 .. Len(Ids(n, k0)) - (left[n] - 1)
    BY <1>6, <1>7
  <1> HIDE DEF l0, told, q
  <1>14. /\ toNode'[n] = Tail(q) /\ left'[n] = left[n] - 1
         /\ gpc'[n] = (IF left[n] = 1 THEN "task" ELSE "sources")
         /\ known'[n] = known[n] \cup {told}
         /\ \A m \in Node : m # n => /\ toNode'[m] = toNode[m] /\ left'[m] = left[m]
                                     /\ gpc'[m] = gpc[m] /\ known'[m] = known[m]
    BY <1>0 DEF TypeOK
  <1>15. TypeOK'
    <2>1. toNode' \in [Node -> Seq(Msg)]
      BY <1>0, <1>8 DEF TypeOK, Msg
    <2>2. told \in TaskIds \X Node
      BY <1>6, <1>10, <1>11
    <2>3. /\ left' \in [Node -> 0 .. N]
          /\ gpc' \in [Node -> {"task", "sources", "ended", "exited"}]
          /\ known' \in [Node -> SUBSET (TaskIds \X Node)]
      <3>1. left' \in [Node -> 0 .. N]
        <4>1. left' = [left EXCEPT ![n] = left[n] - 1]
          BY <1>0
        <4> QED BY <1>10, <4>1 DEF TypeOK
      <3>2. gpc' \in [Node -> {"task", "sources", "ended", "exited"}]
        BY <1>0 DEF TypeOK
      <3>3. known' \in [Node -> SUBSET (TaskIds \X Node)]
        <4>1. known \in [Node -> SUBSET (TaskIds \X Node)]
          BY DEF TypeOK
        <4>2. known[n] \cup {told} \in SUBSET (TaskIds \X Node)
          BY <2>2, <4>1
        <4>3. known' = [known EXCEPT ![n] = known[n] \cup {told}]
          BY <1>0
        <4> QED BY <4>1, <4>2, <4>3
      <3> QED BY <3>1, <3>2, <3>3
    <2>4. /\ toMaster' \in [Node -> Seq(Node)] /\ parts' \in [Node -> SUBSET Rts]
          /\ rt' \in [Node -> Rts \cup {NoTask}] /\ waiting' \in [Node -> SUBSET Rts]
          /\ heard' \in [Node -> SUBSET (TaskIds \X Node)]
          /\ stored' \subseteq TaskIds
      BY <1>0 DEF TypeOK
    <2> QED BY <1>0, <2>1, <2>3, <2>4, StageTypes
  <1>16. \A m \in Node : InHand(m)' = InHand(m)
    BY <1>0 DEF InHand
  <1>17. /\ \A i \in DOMAIN Tail(q) : Tail(q)[i].kind = "rt" =>
              \E k \in Sent(n) :
                /\ Tail(q)[i] = Task(TaskOf(n, k))
                /\ Follows(Tail(q), i, Ids(n, k), Len(Ids(n, k)))
                /\ TaskOf(n, k) \notin InHand(n)
                /\ q[1] # Task(TaskOf(n, k))
         /\ \A i, j \in DOMAIN Tail(q) : Tail(q)[i].kind = "rt" /\ Tail(q)[i] = Tail(q)[j] => i = j
    BY <1>0, <1>1, <1>3, TakeFrames DEF q
  <1>18. TasksFramed(n)'
    <2>1. \A i, k : Follows(toNode'[n], i, Ids(n, k)', Len(Ids(n, k)')) <=>
                    Follows(Tail(q), i, Ids(n, k), Len(Ids(n, k)))
      BY <1>2, <1>14
    <2>2. Sent(n)' = Sent(n) /\ \A k : TaskOf(n, k)' = TaskOf(n, k)
      BY <1>2
    <2>3. toNode'[n] = Tail(q)
      BY <1>14
    <2> QED BY <1>16, <1>17, <2>1, <2>2, <2>3 DEF TasksFramed
  <1>19. OneOfEach(n)'
    BY <1>14, <1>17 DEF OneOfEach
  <1>20. InPlace(n)'
    <2>1. CASE left[n] = 1
      <3>1. Tail(q) # <<>> => 1 <= Len(Tail(q))
        BY <1>8, EmptySeq
      <3>2. 1 <= Len(Tail(q)) => Tail(q)[1].kind = "rt"
        <4>1. 0 + (left[n] - 1) + 1 = 1
          BY <2>1
        <4> QED BY <1>9, <4>1 DEF Follows
      <3> QED BY <1>14, <2>1, <3>1, <3>2 DEF InPlace
    <2>2. CASE left[n] # 1
      <3>1. gpc'[n] = "sources" /\ left'[n] = left[n] - 1 /\ left'[n] \in 1 .. Len(Ids(n, k0))
        BY <1>10, <1>14, <2>2
      <3>2. ASSUME NEW s \in Node, <<TaskId(k0), s>> \in known'[n]
            PROVE  \E i \in 1 .. Len(Ids(n, k0)) - left'[n] : s = Ids(n, k0)[i]
        <4>1. CASE <<TaskId(k0), s>> \in known[n]
          BY <1>7, <1>12, <1>14, <4>1
        <4>2. CASE <<TaskId(k0), s>> = told
          BY <1>11, <1>13, <1>14, <4>2
        <4> QED BY <1>14, <3>2, <4>1, <4>2
      <3>3. Follows(toNode'[n], 0, Ids(n, k0)', left'[n])
        BY <1>2, <1>9, <1>14
      <3>4. Reading(n, k0)'
        BY <1>0, <1>2, <1>7, <1>16, <3>1, <3>2, <3>3 DEF Reading
      <3> QED BY <1>2, <3>1, <3>4 DEF InPlace
    <2> QED BY <2>1, <2>2
  <1>21. Holding(n)'
    <2>1. waiting'[n] \cap parts'[n] = {} /\ \A t \in InHand(n)' : \E k \in Sent(n)' : t = TaskOf(n, k)'
      BY <1>0, <1>2, <1>3, <1>16 DEF Holding
    <2>2. ASSUME NEW x \in known'[n]
          PROVE  \E k \in Sent(n) :
                   TaskOf(n, k) \in InHand(n) /\ x[1] = TaskId(k) /\ x[2] \in SourcesOf(Group[k], n)
      <3>1. CASE x \in known[n]
        BY <1>3, <3>1 DEF Holding
      <3>2. CASE x = told
        <4>1. x[1] = TaskId(k0) /\ x[2] = Ids(n, k0)[l0]
          BY <1>11, <3>2
        <4> QED BY <1>7, <1>10, <4>1
      <3> QED BY <1>14, <2>2, <3>1, <3>2
    <2> QED BY <1>2, <1>16, <2>1, <2>2 DEF Holding
  <1>22. Done(n)' = Done(n)
    <2>1. ASSUME NEW k PROVE IsComing(n, k)' <=> IsComing(n, k)
      <3>1. ASSUME IsComing(n, k)' PROVE IsComing(n, k)
        <4>1. PICK i \in DOMAIN Tail(q) : Tail(q)[i] = Task(TaskOf(n, k))
          BY <1>2, <1>14, <3>1 DEF IsComing
        <4> QED BY <1>8, <4>1 DEF IsComing, q
      <3>2. ASSUME IsComing(n, k) PROVE IsComing(n, k)'
        <4>1. PICK i \in DOMAIN q : q[i] = Task(TaskOf(n, k))
          BY <3>2 DEF IsComing, q
        <4>2. i # 1
          BY <1>8, <1>9, <4>1, Kinds
        <4>3. i - 1 \in DOMAIN Tail(q) /\ Tail(q)[i - 1] = Task(TaskOf(n, k))
          BY <1>8, <4>1, <4>2
        <4> QED BY <1>2, <1>14, <4>3 DEF IsComing
      <3> QED BY <3>1, <3>2
    <2> QED BY <1>2, <1>16, <2>1 DEF Done
  <1>23. Owed(n)' = Owed(n)
    BY <1>2, <1>22 DEF Owed
  <1>24. ASSUME NEW m \in Node, m # n
         PROVE  /\ TasksFramed(m)' /\ OneOfEach(m)' /\ InPlace(m)' /\ Holding(m)'
                /\ Done(m)' = Done(m) /\ Owed(m)' = Owed(m)
    BY <1>0, <1>1, <1>2, <1>14, <1>16, <1>24, OtherNode DEF Framed, Hands
  <1>25. Framed' /\ Hands'
    BY <1>18, <1>19, <1>20, <1>21, <1>24 DEF Framed, Hands
  <1>26. Trees' /\ Fresh' /\ Kept'
    BY <1>0, <1>1, <1>2, <1>22, <1>24, SameDone
  <1>27. Level' /\ Between'
    BY <1>0, <1>1, <1>2, LevelInside
  <1>28. Counts'
    BY <1>0, <1>1, <1>2, <1>23, <1>24 DEF Counts
  <1> QED BY <1>2, <1>15, <1>25, <1>26, <1>27, <1>28

LEMMA AdmitHolds ==
  ASSUME IInv, NEW n \in Node, Admit(n), UNCHANGED masterVars PROVE IInv'
  <1> USE DEF IInv
  <1>0. PICK t \in waiting[n] :
          /\ waiting' = [waiting EXCEPT ![n] = @ \ {t}]
          /\ parts' = [parts EXCEPT ![n] = @ \cup {t}]
          /\ UNCHANGED <<gpc, rt, left, cur_, speed, known, heard, stored, toNode, toMaster>>
    BY DEF Admit, AdmitBelow, links
  <1>1. InGroup /\ InGroup'
    <2>1. InGroup
      BY <1>0, TaskInside DEF InHand
    <2> QED BY <2>1, MasterSame
  <1>2. /\ \A m : Sent(m)' = Sent(m) /\ Waits(m)' = Waits(m)
        /\ Position' /\ UNCHANGED <<alg, round, gid, cur_tid_, ending>>
    BY MasterSame DEF masterVars
  <1>3. /\ waiting'[n] = waiting[n] \ {t} /\ parts'[n] = parts[n] \cup {t}
        /\ \A m \in Node : m # n => waiting'[m] = waiting[m] /\ parts'[m] = parts[m]
    BY <1>0 DEF TypeOK
  <1>4. TypeOK'
    <2>1. waiting' \in [Node -> SUBSET Rts] /\ parts' \in [Node -> SUBSET Rts]
      BY <1>0 DEF TypeOK
    <2> QED BY <1>0, <2>1, StageTypes DEF TypeOK, Msg
  <1>5. ASSUME NEW m \in Node
        PROVE  /\ InHand(m)' = InHand(m)
               /\ waiting[m] \cap parts[m] = {} => waiting'[m] \cap parts'[m] = {}
    <2>1. CASE m = n
      BY <1>3, <2>1 DEF InHand
    <2>2. CASE m # n
      BY <1>3, <2>2 DEF InHand
    <2> QED BY <2>1, <2>2
  <1>6. ASSUME NEW m \in Node
        PROVE  /\ TasksFramed(m)' /\ OneOfEach(m)' /\ InPlace(m)' /\ Holding(m)'
               /\ Done(m)' = Done(m) /\ Owed(m)' = Owed(m)
    BY <1>0, <1>1, <1>2, <1>5, OtherNode DEF Framed, Hands
  <1>7. Framed' /\ Hands'
    BY <1>6 DEF Framed, Hands
  <1>8. Trees' /\ Fresh' /\ Kept'
    BY <1>0, <1>1, <1>2, <1>6, SameDone
  <1>9. Level' /\ Between'
    BY <1>0, <1>1, <1>2, LevelInside
  <1>10. Counts'
    BY <1>0, <1>1, <1>2, <1>6 DEF Counts
  <1> QED BY <1>2, <1>4, <1>7, <1>8, <1>9, <1>10

(* A node whose part is ready has been told of all the task's sources: it  *)
(* is not reading them any more, and they are done.                        *)
LEMMA ReadyMeans ==
  ASSUME IInv, InGroup, NEW n \in Node, NEW k0 \in Sent(n), TaskOf(n, k0) \in parts[n],
         Ready(n, TaskOf(n, k0))
  PROVE  /\ \A s \in SourcesOf(Group[k0], n) : k0 \in Done(s)
         /\ ~(gpc[n] = "sources" /\ Reading(n, k0))
  <1> USE DEF IInv
  <1> DEFINE S == SourcesOf(Group[k0], n)
             all == {<<TaskId(k0), s>> : s \in S}
             of == {x \in known[n] : x[1] = TaskId(k0)}
  <1>1. k0 \in 1 .. task_num_ /\ n \in DOMAIN Group[k0] /\ cur_tid_ \in Nat /\ task_num_ \in Nat
        /\ Sent(n) \subseteq Nat
    <2>1. Sent(n) \subseteq 1 .. task_num_ /\ \A k \in Sent(n) : k \in Nat \ {0} /\ n \in DOMAIN Group[k]
      BY SentTyped
    <2>2. cur_tid_ \in Nat /\ task_num_ \in Nat
      BY GroupTyped DEF TypeOK
    <2> QED BY <2>1, <2>2
  <1>2. /\ S \subseteq Node /\ IsFiniteSet(S) /\ TaskOf(n, k0).task_id = TaskId(k0)
        /\ TaskOf(n, k0).src_num = Cardinality(S)
        /\ Ids(n, k0) \in Seq(S) /\ Len(Ids(n, k0)) = Cardinality(S) /\ Len(Ids(n, k0)) \in 0 .. N
    BY <1>1, TaskTyped
  <1>3. of \subseteq all
    <2> SUFFICES ASSUME NEW x \in of PROVE x \in all
      OBVIOUS
    <2>1. x \in known[n] /\ x[1] = TaskId(k0) /\ x \in TaskIds \X Node
      BY DEF TypeOK
    <2>2. PICK k \in Sent(n) : x[1] = TaskId(k) /\ x[2] \in SourcesOf(Group[k], n)
      BY <2>1 DEF Hands, Holding
    <2>3. k = k0
      BY <1>1, <2>1, <2>2, TasksDiffer
    <2>4. x = <<TaskId(k0), x[2]>> /\ x[2] \in S
      BY <2>1, <2>2, <2>3
    <2> QED BY <2>4
  <1>4. IsFiniteSet(all) /\ Cardinality(all) = Cardinality(S)
    <2> DEFINE f == [s \in S |-> <<TaskId(k0), s>>]
    <2>1. f \in [S -> all] /\ (\A x, y \in S : f[x] = f[y] => x = y) /\ \A y \in all : \E x \in S : f[x] = y
      OBVIOUS
    <2> HIDE DEF f, S, all
    <2> QED BY <1>2, <2>1, SameCount
  <1>5. Cardinality(of) = Cardinality(S) /\ of \subseteq heard[n]
    BY <1>2 DEF Ready
  <1>6. of = all
    <2> HIDE DEF of, all
    <2> QED BY <1>3, <1>4, <1>5, FS_Subset
  <1>7. \A s \in S : k0 \in Done(s)
    <2> SUFFICES ASSUME NEW s \in S PROVE k0 \in Done(s)
      OBVIOUS
    <2>1. <<TaskId(k0), s>> \in heard[n]
      BY <1>5, <1>6
    <2> QED BY <1>1, <1>2, <2>1 DEF Trees
  <1>8. ASSUME Reading(n, k0) PROVE FALSE
    <2>1. left[n] \in 1 .. Len(Ids(n, k0))
          /\ \A s \in Node : <<TaskId(k0), s>> \in known[n] =>
               \E i \in 1 .. Len(Ids(n, k0)) - left[n] : s = Ids(n, k0)[i]
      BY <1>8 DEF Reading
    <2> DEFINE l == Len(Ids(n, k0))
    <2>2. l \in 1 .. l /\ l \in Nat
      BY <1>2, <2>1
    <2>3. Ids(n, k0)[l] \in S
      BY <1>2, <2>2, ElementOfSeq
    <2>4. <<TaskId(k0), Ids(n, k0)[l]>> \in known[n]
      BY <1>6, <2>3
    <2>5. PICK i \in 1 .. l - left[n] : Ids(n, k0)[l] = Ids(n, k0)[i]
      BY <1>2, <2>1, <2>3, <2>4
    <2>6. i \in 1 .. l /\ i # l
      BY <2>1, <2>2
    <2>7. \A i1, j1 \in 1 .. Len(Ids(n, k0)) : Ids(n, k0)[i1] = Ids(n, k0)[j1] => i1 = j1
      BY <1>2, Ordered DEF Ids
    <2> QED BY <2>2, <2>5, <2>6, <2>7
  <1> QED BY <1>7, <1>8

LEMMA FinishTypes ==
  ASSUME TypeOK, NEW n \in Node, Finish(n), UNCHANGED masterVars PROVE TypeOK'
  <1>0. PICK t \in parts[n] :
          /\ parts' = [parts EXCEPT ![n] = @ \ {t}]
          /\ known' = [known EXCEPT ![n] = {x \in @ : x[1] # t.task_id}]
          /\ LET rest == [heard EXCEPT ![n] = {x \in @ : x[1] # t.task_id}]
             IN IF t.tar_id = n
                THEN stored' = stored \cup {t.task_id} /\ heard' = rest
                ELSE /\ heard' = [rest EXCEPT ![t.tar_id] = @ \cup {<<t.task_id, n>>}]
                     /\ UNCHANGED stored
          /\ (IF t.tar_id = n THEN Tell(n) ELSE UNCHANGED toMaster)
          /\ UNCHANGED <<gpc, rt, left, cur_, speed, waiting, toNode>>
    BY DEF Finish, FinishTelling
  <1>1. t \in Rts /\ t.task_id \in TaskIds
    BY <1>0 DEF TypeOK, Rts
  <1> DEFINE rest == [heard EXCEPT ![n] = {x \in @ : x[1] # t.task_id}]
  <1>2. rest \in [Node -> SUBSET (TaskIds \X Node)]
    BY DEF TypeOK
  <1>3. heard' \in [Node -> SUBSET (TaskIds \X Node)]
    <2>1. CASE t.tar_id = n
      BY <1>0, <1>2, <2>1
    <2>2. CASE t.tar_id # n
      <3>1. heard' = [rest EXCEPT ![t.tar_id] = rest[t.tar_id] \cup {<<t.task_id, n>>}]
        BY <1>0, <2>2
      <3> HIDE DEF rest
      <3>2. CASE t.tar_id \in Node
        BY <1>1, <1>2, <3>1, <3>2
      <3>3. CASE t.tar_id \notin Node
        BY <1>1, <1>2, <3>1, <3>3
      <3> QED BY <3>2, <3>3
    <2> QED BY <2>1, <2>2
  <1>4. stored' \subseteq TaskIds
    BY <1>0, <1>1 DEF TypeOK
  <1>5. parts' \in [Node -> SUBSET Rts] /\ known' \in [Node -> SUBSET (TaskIds \X Node)]
    BY <1>0 DEF TypeOK
  <1>6. toMaster' \in [Node -> Seq(Node)]
    <2>1. toMaster \in [Node -> Seq(Node)]
      BY DEF TypeOK
    <2>2. Append(toMaster[n], n) \in Seq(Node)
      BY <2>1, AppendProperties
    <2> QED BY <1>0, <2>1, <2>2 DEF Tell
  <1> QED BY <1>0, <1>3, <1>4, <1>5, <1>6, StageTypes DEF TypeOK, Msg

LEMMA FinishHolds ==
  ASSUME IInv, NEW n \in Node, Finish(n), UNCHANGED masterVars PROVE IInv'
  <1> USE DEF IInv
  <1>0. PICK t \in parts[n] :
          /\ Ready(n, t)
          /\ parts' = [parts EXCEPT ![n] = @ \ {t}]
          /\ known' = [known EXCEPT ![n] = {x \in @ : x[1] # t.task_id}]
          /\ LET rest == [heard EXCEPT ![n] = {x \in @ : x[1] # t.task_id}]
             IN IF t.tar_id = n
                THEN stored' = stored \cup {t.task_id} /\ heard' = rest
                ELSE /\ heard' = [rest EXCEPT ![t.tar_id] = @ \cup {<<t.task_id, n>>}]
                     /\ UNCHANGED stored
          /\ (IF t.tar_id = n THEN Tell(n) ELSE UNCHANGED toMaster)
          /\ UNCHANGED <<gpc, rt, left, cur_, speed, waiting, toNode>>
    BY DEF Finish, FinishTelling
  <1>1. InGroup /\ InGroup'
    <2>1. InGroup
      BY <1>0, TaskInside DEF InHand
    <2> QED BY <2>1, MasterSame
  <1>2. /\ Group' = Group /\ task_num_' = task_num_ /\ \A k : TaskId(k)' = TaskId(k)
        /\ \A m : Sent(m)' = Sent(m) /\ Waits(m)' = Waits(m)
        /\ \A m, k : TaskOf(m, k)' = TaskOf(m, k) /\ Ids(m, k)' = Ids(m, k)
        /\ Position' /\ UNCHANGED <<alg, round, gid, cur_tid_, ending>>
    BY MasterSame DEF masterVars
  <1>3. TasksFramed(n) /\ OneOfEach(n) /\ InPlace(n) /\ Holding(n)
    BY <1>1 DEF Framed, Hands
  <1>4. PICK k0 \in Sent(n) : t = TaskOf(n, k0)
    BY <1>0, <1>3 DEF Holding, InHand
  <1>5. k0 \in 1 .. task_num_ /\ n \in DOMAIN Group[k0] /\ task_num_ \in Nat /\ cur_tid_ \in Nat
        /\ Sent(n) \subseteq 1 .. task_num_ /\ Sent(n) \subseteq Nat
    <2>1. Sent(n) \subseteq 1 .. task_num_ /\ \A k \in Sent(n) : k \in Nat \ {0} /\ n \in DOMAIN Group[k]
      BY <1>1, SentTyped
    <2>2. cur_tid_ \in Nat /\ task_num_ \in Nat
      BY <1>1, GroupTyped DEF TypeOK
    <2> QED BY <2>1, <2>2
  <1>6. /\ t.task_id = TaskId(k0) /\ TaskId(k0) \in TaskIds /\ TaskId(k0) < cur_tid_ + task_num_
        /\ t.tar_id = Group[k0][n] /\ Group[k0][n] \in Node
    <2>1. /\ TaskOf(n, k0).task_id = TaskId(k0) /\ TaskOf(n, k0).tar_id = Group[k0][n]
          /\ TaskId(k0) \in TaskIds /\ TaskId(k0) < cur_tid_ + task_num_
          /\ Group[k0][n] \in Node
      BY <1>1, <1>5, TaskTyped
    <2> QED BY ONLY <1>4, <2>1
  <1>7. /\ \A s \in SourcesOf(Group[k0], n) : k0 \in Done(s)
        /\ ~(gpc[n] = "sources" /\ Reading(n, k0))
    BY <1>0, <1>1, <1>4, ReadyMeans
  <1>8. /\ parts'[n] = parts[n] \ {t} /\ known'[n] = {x \in known[n] : x[1] # t.task_id}
        /\ \A m \in Node : m # n => parts'[m] = parts[m] /\ known'[m] = known[m]
    BY <1>0 DEF TypeOK
  <1>9. InHand(n)' = InHand(n) \ {t} /\ t \in InHand(n)
    BY <1>0, <1>3, <1>8 DEF InHand, Holding
  <1>10. \A k \in Sent(n) : k # k0 => TaskOf(n, k) # t /\ TaskId(k) # TaskId(k0)
    BY <1>4, <1>5, TasksDiffer
  <1>11. ~IsComing(n, k0)
    <2> SUFFICES ASSUME IsComing(n, k0) PROVE FALSE
      OBVIOUS
    <2>1. PICK i \in DOMAIN toNode[n] : toNode[n][i] = Task(t)
      BY <1>4 DEF IsComing
    <2>2. PICK k \in Sent(n) : toNode[n][i] = Task(TaskOf(n, k)) /\ TaskOf(n, k) \notin InHand(n)
      BY <1>3, <2>1, Kinds DEF TasksFramed
    <2>3. TaskOf(n, k) = t
      BY <2>1, <2>2, Kinds
    <2> QED BY <1>9, <2>2, <2>3
  <1>12. \A m, k : IsComing(m, k)' = IsComing(m, k)
    BY <1>0, <1>2 DEF IsComing
  <1>13. Done(n)' = Done(n) \cup {k0} /\ k0 \notin Done(n)
    <2>1. k0 \notin Done(n)
      BY <1>4, <1>9 DEF Done
    <2>2. Done(n)' = {k \in Sent(n) : TaskOf(n, k) \notin InHand(n)' /\ ~IsComing(n, k)}
      BY <1>2, <1>12 DEF Done
    <2>3. ASSUME NEW k \in Sent(n), k # k0 PROVE TaskOf(n, k) \in InHand(n)' <=> TaskOf(n, k) \in InHand(n)
      BY <1>9, <1>10, <2>3
    <2>4. TaskOf(n, k0) \notin InHand(n)'
      BY <1>4, <1>9
    <2>5. ASSUME NEW k \in Sent(n) PROVE k \in Done(n)' <=> k \in Done(n) \cup {k0}
      <3>1. CASE k = k0
        BY <1>11, <2>2, <2>4, <3>1
      <3>2. CASE k # k0
        BY <2>2, <2>3, <3>2 DEF Done
      <3> QED BY <3>1, <3>2
    <2>6. Done(n) \subseteq Sent(n) /\ Done(n)' \subseteq Sent(n)
      BY <2>2 DEF Done
    <2> QED BY <2>1, <2>5, <2>6
  <1>14. ASSUME NEW m \in Node, m # n
         PROVE  /\ TasksFramed(m)' /\ OneOfEach(m)' /\ InPlace(m)' /\ Holding(m)'
                /\ Done(m)' = Done(m) /\ Owed(m)' = Owed(m)
    <2>1. InHand(m)' = InHand(m) /\ waiting'[m] = waiting[m] /\ parts'[m] = parts[m]
      BY <1>0, <1>8, <1>14 DEF InHand
    <2> QED BY <1>0, <1>1, <1>2, <1>8, <1>14, <2>1, OtherNode DEF Framed, Hands
  <1>15. TasksFramed(n)' /\ OneOfEach(n)'
    <2>1. Sent(n)' = Sent(n) /\ (\A k : TaskOf(n, k)' = TaskOf(n, k) /\ Ids(n, k)' = Ids(n, k))
          /\ toNode' = toNode
      BY <1>0, <1>2
    <2>2. TasksFramed(n)'
      BY <1>3, <1>9, <2>1 DEF TasksFramed
    <2> QED BY <1>3, <2>1, <2>2 DEF OneOfEach
  <1>16. InPlace(n)'
    <2>1. ASSUME gpc[n] = "sources" PROVE \E k \in Sent(n) : Reading(n, k)'
      <3>1. PICK k \in Sent(n) : Reading(n, k)
        BY <1>3, <2>1 DEF InPlace
      <3>2. k # k0
        BY <1>7, <2>1, <3>1
      <3>3. TaskOf(n, k) \in InHand(n)'
        BY <1>9, <1>10, <3>1, <3>2 DEF Reading
      <3>4. known'[n] \subseteq known[n]
        BY <1>8
      <3>5. Reading(n, k)'
        BY <1>0, <1>2, <3>1, <3>3, <3>4 DEF Reading
      <3> QED BY <3>5
    <2> QED BY <1>0, <1>2, <1>3, <2>1 DEF InPlace
  <1>17. Holding(n)'
    <2>1. waiting'[n] \cap parts'[n] = {}
      BY <1>0, <1>3, <1>8 DEF Holding
    <2>2. \A u \in InHand(n)' : \E k \in Sent(n)' : u = TaskOf(n, k)'
      BY <1>2, <1>3, <1>9 DEF Holding
    <2>3. ASSUME NEW x \in known'[n]
          PROVE  \E k \in Sent(n) :
                   TaskOf(n, k) \in InHand(n)' /\ x[1] = TaskId(k) /\ x[2] \in SourcesOf(Group[k], n)
      <3>1. x \in known[n] /\ x[1] # TaskId(k0)
        BY <1>6, <1>8
      <3>2. PICK k \in Sent(n) :
              TaskOf(n, k) \in InHand(n) /\ x[1] = TaskId(k) /\ x[2] \in SourcesOf(Group[k], n)
        BY <1>3, <3>1 DEF Holding
      <3> QED BY <1>9, <1>10, <3>1, <3>2
    <2> QED BY <1>2, <2>1, <2>2, <2>3 DEF Holding
  <1>18. Framed' /\ Hands'
    BY <1>14, <1>15, <1>16, <1>17 DEF Framed, Hands
  <1>19. ASSUME NEW m \in Node, NEW x \in heard'[m]
         PROVE  x \in heard[m] \/ x = <<TaskId(k0), n>>
    <2> DEFINE rest == [heard EXCEPT ![n] = {y \in @ : y[1] # t.task_id}]
    <2>1. rest \in [Node -> SUBSET (TaskIds \X Node)] /\ \A l \in Node : rest[l] \subseteq heard[l]
      BY DEF TypeOK
    <2>2. \/ heard' = rest
          \/ heard' = [rest EXCEPT ![t.tar_id] = rest[t.tar_id] \cup {<<t.task_id, n>>}]
      BY <1>0
    <2> HIDE DEF rest
    <2>3. heard'[m] \subseteq rest[m] \cup {<<t.task_id, n>>}
      BY <1>6, <2>1, <2>2
    <2> QED BY <1>6, <1>19, <2>1, <2>3
  <1>20. \A m \in Node : Done(m) \subseteq Done(m)'
    BY <1>13, <1>14
  <1>21. Trees'
    <2>1. \A k \in 1 .. task_num_ : \A m \in Node : SourcesOf(Group[k], m) \subseteq Node
      BY <1>1, GroupTyped, RouteTypes
    <2>2. ASSUME NEW m \in Node, NEW k \in Done(m)', NEW s \in SourcesOf(Group[k], m)
          PROVE  k \in Done(s)'
      <3>1. CASE k \in Done(m)
        <4>1. k \in Done(s) /\ k \in 1 .. task_num_
          BY <1>1, <2>2, <3>1 DEF Trees, Done, Sent
        <4>2. s \in Node
          BY <2>1, <4>1
        <4> QED BY <1>20, <4>1, <4>2
      <3>2. CASE m = n /\ k = k0
        <4>1. k \in Done(s)
          BY <1>7, <3>2
        <4>2. s \in Node
          BY <1>5, <2>1, <3>2
        <4> QED BY <1>20, <4>1, <4>2
      <3> QED BY <1>13, <1>14, <3>1, <3>2
    <2>3. ASSUME NEW m \in Node, NEW k \in 1 .. task_num_, NEW s \in Node, <<TaskId(k), s>> \in heard'[m]
          PROVE  k \in Done(s)'
      <3>1. CASE <<TaskId(k), s>> \in heard[m]
        <4>1. k \in Done(s)
          BY <1>1, <3>1 DEF Trees
        <4> QED BY <1>20, <4>1
      <3>2. CASE <<TaskId(k), s>> = <<TaskId(k0), n>>
        <4>1. k \in Nat /\ k0 \in Nat /\ TaskId(k) = TaskId(k0) /\ s = n
          BY <1>5, <3>2
        <4>2. k = k0
          BY <1>5, <4>1, TasksDiffer
        <4> QED BY <1>13, <4>1, <4>2
      <3> QED BY <1>19, <2>3, <3>1, <3>2
    <2> QED BY <1>2, <2>2, <2>3 DEF Trees
  <1>22. Fresh'
    <2> SUFFICES ASSUME NEW m \in Node, NEW x \in heard'[m] PROVE x[1] < cur_tid_ + task_num_
      BY <1>1, <1>2 DEF Fresh
    <2>1. CASE x \in heard[m]
      BY <1>1, <2>1 DEF Fresh
    <2>2. CASE x = <<TaskId(k0), n>>
      BY <1>6, <2>2
    <2> QED BY <1>19, <2>1, <2>2
  <1>23. Kept'
    <2>1. stored \subseteq stored'
      BY <1>0
    <2>2. AllStored'
      BY <1>2, <2>1 DEF Kept, AllStored
    <2>3. ASSUME NEW m \in Node, NEW k \in Done(m)', Group[k][m] = m PROVE TaskId(k) \in stored'
      <3>1. CASE k \in Done(m)
        BY <1>1, <2>1, <2>3, <3>1 DEF Kept
      <3>2. CASE m = n /\ k = k0
        <4>1. t.tar_id = n
          BY <1>6, <2>3, <3>2
        <4> QED BY <1>0, <1>6, <3>2, <4>1
      <3> QED BY <1>13, <1>14, <3>1, <3>2
    <2> QED BY <1>2, <2>2, <2>3 DEF Kept
  <1>24. Level' /\ Between'
    BY <1>0, <1>1, <1>2, LevelInside
  <1>25. Counts'
    <2> SUFFICES ASSUME NEW m \in Node
                 PROVE  Cardinality(Waits(m)) + (IF ending[m] THEN 1 ELSE 0)
                          = Cardinality(Owed(m)') + Len(toMaster'[m])
      BY <1>2 DEF Counts
    <2>1. Cardinality(Waits(m)) + (IF ending[m] THEN 1 ELSE 0) = Cardinality(Owed(m)) + Len(toMaster[m])
      BY <1>1 DEF Counts
    <2>2. toMaster \in [Node -> Seq(Node)]
      BY DEF TypeOK
    <2>3. CASE m # n
      <3>1. toMaster'[m] = toMaster[m]
        BY <1>0, <2>2, <2>3 DEF Tell
      <3> QED BY <1>14, <2>1, <2>3, <3>1
    <2>4. CASE m = n /\ t.tar_id # n
      <3>1. Owed(n)' = Owed(n) /\ toMaster' = toMaster
        BY <1>0, <1>2, <1>6, <1>13, <2>4 DEF Owed
      <3> QED BY <2>1, <2>4, <3>1
    <2>5. CASE m = n /\ t.tar_id = n
      <3>1. Owed(n)' = Owed(n) \ {k0} /\ k0 \in Owed(n)
        BY <1>2, <1>6, <1>13, <2>5 DEF Owed
      <3>2. IsFiniteSet(Owed(n)) /\ Cardinality(Owed(n)) \in Nat
        BY <1>1, SentTyped
      <3>3. Cardinality(Owed(n) \ {k0}) = Cardinality(Owed(n)) - 1
        BY <3>1, <3>2, FS_RemoveElement
      <3>4. toMaster'[n] = Append(toMaster[n], n)
        BY <1>0, <2>2, <2>5 DEF Tell
      <3>5. Len(Append(toMaster[n], n)) = Len(toMaster[n]) + 1 /\ Len(toMaster[n]) \in Nat
        BY <2>2, AppendProperties, LenProperties
      <3>6. \A o, l \in Nat : (o - 1) + (l + 1) = o + l
        OBVIOUS
      <3>7. Cardinality(Owed(n)') + Len(toMaster'[n]) = (Cardinality(Owed(n)) - 1) + (Len(toMaster[n]) + 1)
        BY <3>1, <3>3, <3>4, <3>5
      <3>8. (Cardinality(Owed(n)) - 1) + (Len(toMaster[n]) + 1) = Cardinality(Owed(n)) + Len(toMaster[n])
        BY ONLY <3>2, <3>5, <3>6
      <3> QED BY <2>1, <2>5, <3>7, <3>8
    <2> QED BY <2>3, <2>4, <2>5
  <1>26. TypeOK'
    BY FinishTypes
  <1> QED BY <1>2, <1>18, <1>21, <1>22, <1>23, <1>24, <1>25, <1>26

-----------------------------------------------------------------------------
LEMMA NextHolds == IInv /\ [Next]_vars => IInv'
  <1> SUFFICES ASSUME IInv, [Next]_vars PROVE IInv'
    OBVIOUS
  <1>1. CASE Main /\ UNCHANGED nodeVars
    <2>1. CASE ReloadNodeBandwidth
      BY <1>1, <2>1, SendReloadHolds, ReceiveReloadHolds DEF ReloadNodeBandwidth, ReloadRt
    <2>2. CASE SetNewNodeBandwidth
      BY <1>1, <2>2, SendSetHolds, ReceiveSetHolds DEF SetNewNodeBandwidth, SetRt
    <2>3. CASE Close
      BY <1>1, <2>3, CloseHolds
    <2> QED BY <1>1, <2>1, <2>2, <2>3, ChangeAlgHolds, GetTasksHolds, BeginGroupHolds, JoinHolds,
               ReceiveFinishHolds, EndGroupHolds, LastAlgHolds DEF Main
  <1>2. CASE \E n \in Node : DeliverTasks(n) /\ UNCHANGED nodeVars
    BY <1>2, SkipTaskHolds, SendTaskHolds, RecordWaitHolds DEF DeliverTasks
  <1>3. CASE \E n \in Node : GetTaks(n) /\ UNCHANGED masterVars
    BY <1>3, EndHolds, ReopenHolds, LoadRowHolds, ReceiveTaskHolds, ReceiveSourceHolds DEF GetTaks
  <1>4. CASE \E n \in Node : Stages(n) /\ UNCHANGED masterVars
    BY <1>4, AdmitHolds, FinishHolds DEF Stages
  <1>5. CASE UNCHANGED vars
    <2> USE <1>5 DEF vars, masterVars, nodeVars, stageVars, links, IInv
    <2>1. /\ InGroup' = InGroup /\ ThisAlg' = ThisAlg /\ Groups' = Groups /\ Group' = Group
          /\ task_num_' = task_num_
      BY DEF InGroup, ThisAlg, Groups, Group, task_num_
    <2>2. Position'
      BY MasterSame
    <2>3. TypeOK'
      BY StageTypes DEF TypeOK, Msg
    <2>4. Between' /\ Level'
      BY <2>1 DEF Between, BetweenAt, Asked, Idle, Pending, Answered, Ended, SetRt, Level, LevelAt,
         Served, Due
    <2>5. \A n : Sent(n)' = Sent(n) /\ Waits(n)' = Waits(n)
      BY MasterSame
    <2>6. CASE InGroup
      <3>1. \A n : InHand(n)' = InHand(n)
        BY DEF InHand
      <3>2. \A n \in Node : /\ TasksFramed(n)' /\ OneOfEach(n)' /\ InPlace(n)' /\ Holding(n)'
                            /\ Done(n)' = Done(n) /\ Owed(n)' = Owed(n)
        BY <2>5, <2>6, <3>1, OtherNode DEF Framed, Hands
      <3>3. Trees' /\ Fresh' /\ Kept'
        BY <2>1, <2>6, <3>2, SameDone
      <3>4. Counts'
        BY <2>5, <2>6, <3>2 DEF Counts
      <3> QED BY <2>2, <2>3, <2>4, <3>2, <3>3, <3>4 DEF Framed, Hands
    <2>7. CASE ~InGroup
      BY <2>1, <2>2, <2>3, <2>4, <2>7, OutsideKeeps
    <2> QED BY <2>6, <2>7
  <1> QED BY <1>1, <1>2, <1>3, <1>4, <1>5 DEF Next

(* The inductive invariant holds of every run of the master and the nodes. *)
THEOREM Invariance == Spec => []IInv
  BY InitHolds, NextHolds, PTL DEF Spec

(* Every variable, message and local keeps its range; in particular, no    *)
(* node asks the bandwidth file for a row that it does not have.           *)
THEOREM TypeCorrect == Spec => []TypeOK
  <1>1. IInv => TypeOK
    BY DEF IInv
  <1> QED BY <1>1, Invariance, PTL

(* GetTaks (repairer.cc:26-80) never takes a source id for a task, nor the *)
(* reverse, whatever the routes.                                           *)
THEOREM NodesInStep == Spec => []InStep
  <1>1. IInv => InStep
    <2> SUFFICES ASSUME IInv, NEW n \in Node, toNode[n] # <<>>
                 PROVE  /\ gpc[n] = "task" => Head(toNode[n]).kind = "rt"
                        /\ gpc[n] = "sources" => Head(toNode[n]).kind = "src"
                        /\ gpc[n] # "ended"
      BY DEF InStep
    <2> USE DEF IInv
    <2>0. toNode[n] \in Seq(Msg)
      BY DEF TypeOK, Msg
    <2>1. toNode[n] \in Seq(Msg) /\ Head(toNode[n]) = toNode[n][1]
      BY <2>0, TailOf
    <2>2. CASE InGroup
      <3>1. InPlace(n)
        BY <2>2 DEF Framed
      <3>2. ASSUME gpc[n] = "sources" PROVE Head(toNode[n]).kind = "src"
        <4>1. PICK k \in Sent(n) : Reading(n, k)
          BY <3>1, <3>2 DEF InPlace
        <4>2. Follows(toNode[n], 0, Ids(n, k), left[n]) /\ left[n] \in 1 .. Len(Ids(n, k))
          BY <4>1 DEF Reading
        <4>3. Ids(n, k) \in Seq(SourcesOf(Group[k], n)) /\ Len(Ids(n, k)) \in 0 .. N
          BY <2>2, TaskTyped DEF Sent
        <4>4. left[n] \in Nat \ {0}
          BY <4>2, <4>3
        <4>5. Head(toNode[n]) = Source(Ids(n, k)[Len(Ids(n, k)) - left[n] + 1])
          BY <2>1, <4>2, <4>3, <4>4, FollowsNext
        <4> QED BY <4>5, Kinds
      <3> QED BY <2>1, <3>1, <3>2 DEF InPlace
    <2>3. CASE ~InGroup
      <3>1. BetweenAt(n)
        BY <2>3 DEF Between
      <3>2. \E r \in {ReloadRt, SetRt(n), EndRt} : Pending(n, r)
        BY <3>1 DEF BetweenAt, Asked, Idle, Answered, Ended
      <3> QED BY <3>2, Kinds DEF Pending
    <2> QED BY <2>2, <2>3
  <1> QED BY <1>1, Invariance, PTL

(* A node works at the speed of the row the master chose the routes from.  *)
THEOREM RowsStayLevel == Spec => []RowsAgree
  <1>1. IInv => RowsAgree
    <2> SUFFICES ASSUME IInv, NEW n \in Node
                 PROVE  /\ gpc[n] # "exited"
                        /\ InHand(n) # {} /\ ThisAlg.alg # "t" =>
                             speed[n] = IF n = ThisAlg.rid THEN Full ELSE round
      BY DEF RowsAgree
    <2> USE DEF IInv
    <2>1. gpc[n] # "exited"
      <3>1. CASE InGroup
        BY <3>1 DEF Framed, InPlace
      <3>2. CASE ~InGroup
        BY <3>2 DEF Between, BetweenAt, Asked, Idle, Pending, Answered, Ended
      <3> QED BY <3>1, <3>2
    <2>2. ASSUME InHand(n) # {}, ThisAlg.alg # "t" PROVE speed[n] = Due(n)
      <3>1. InGroup
        BY <2>2, TaskInside
      <3> QED BY <2>2, <3>1 DEF Level, LevelAt, InGroup
    <2> QED BY <2>1, <2>2 DEF Due
  <1> QED BY <1>1, Invariance, PTL

(* Groups of tasks do not overlap: not even a node that nobody waits for   *)
(* has a task in hand when the master goes on.                             *)
THEOREM GroupsStayApart == Spec => []GroupsApart
  <1>1. IInv => GroupsApart
    <2> SUFFICES ASSUME IInv, NEW n \in Node, NEW t \in InHand(n)
                 PROVE  /\ mpc \in {"deliver", "wait"}
                        /\ t.task_id \in cur_tid_ .. cur_tid_ + task_num_ - 1
      BY DEF GroupsApart
    <2> USE DEF IInv
    <2>1. InGroup
      BY TaskInside
    <2>2. PICK k \in Sent(n) : t = TaskOf(n, k)
      BY <2>1 DEF Hands, Holding
    <2>3. k \in 1 .. task_num_ /\ n \in DOMAIN Group[k] /\ task_num_ \in Nat /\ cur_tid_ \in Nat
      BY <2>1, SentTyped, GroupTyped DEF TypeOK
    <2>4. t.task_id = cur_tid_ + k - 1
      BY <2>2 DEF TaskOf, Rt, TaskId
    <2>5. cur_tid_ + k - 1 \in cur_tid_ .. cur_tid_ + task_num_ - 1
      BY <2>3
    <2> QED BY <2>1, <2>4, <2>5 DEF InGroup
  <1> QED BY <1>1, Invariance, PTL

(* The tasks that end at a node and are not over are on the way to it or   *)
(* in its hand.                                                            *)
LEMMA OwedSplit ==
  ASSUME IInv, InGroup, NEW n \in Node
  PROVE  /\ Cardinality(Owed(n)) = Cardinality(Coming(n)) + Cardinality(Ending(n))
         /\ Cardinality(Owed(n)) \in Nat
  <1> USE DEF IInv
  <1> DEFINE C == {k \in Owed(n) : IsComing(n, k)}
             E == {k \in Owed(n) : TaskOf(n, k) \in InHand(n)}
             g == [k \in C |-> CHOOSE i \in DOMAIN toNode[n] : toNode[n][i] = Task(TaskOf(n, k))]
             h == [k \in E |-> TaskOf(n, k)]
  <1>1. TasksFramed(n) /\ OneOfEach(n) /\ Holding(n) /\ cur_tid_ \in Nat
    BY DEF Framed, Hands, TypeOK
  <1>2. /\ IsFiniteSet(Owed(n)) /\ Cardinality(Owed(n)) \in Nat /\ Owed(n) \subseteq Sent(n)
        /\ Sent(n) \subseteq Nat /\ \A k \in Sent(n) : k \in 1 .. task_num_ /\ n \in DOMAIN Group[k]
    BY SentTyped
  <1>3. \A k \in Sent(n) : TaskOf(n, k).size > 0 /\ TaskOf(n, k).tar_id = Group[k][n]
    BY <1>2, TaskTyped
  <1>4. ASSUME NEW i \in DOMAIN toNode[n], NEW k \in Sent(n), toNode[n][i] = Task(TaskOf(n, k))
        PROVE  TaskOf(n, k) \notin InHand(n)
    <2>1. PICK j \in Sent(n) : toNode[n][i] = Task(TaskOf(n, j)) /\ TaskOf(n, j) \notin InHand(n)
      BY <1>1, <1>4, Kinds DEF TasksFramed
    <2> QED BY <1>4, <2>1, Kinds
  <1>5. Owed(n) = C \cup E /\ C \cap E = {}
    <2>1. C \cap E = {}
      BY <1>2, <1>4 DEF IsComing
    <2>2. \A k \in Owed(n) : TaskOf(n, k) \in InHand(n) \/ IsComing(n, k)
      BY DEF Owed, Done
    <2> QED BY <2>1, <2>2
  <1>6. IsFiniteSet(C) /\ IsFiniteSet(E)
    BY <1>2, FS_Subset
  <1>7. Cardinality(Coming(n)) = Cardinality(C)
    <2>1. \A k \in C : g[k] \in DOMAIN toNode[n] /\ toNode[n][g[k]] = Task(TaskOf(n, k))
      BY DEF IsComing
    <2>2. g \in [C -> Coming(n)]
      <3> SUFFICES ASSUME NEW k \in C PROVE g[k] \in Coming(n)
        OBVIOUS
      <3>1. k \in Sent(n) /\ Group[k][n] = n
        BY <1>2 DEF Owed
      <3> QED BY <1>3, <2>1, <3>1, Kinds DEF Coming
    <2>3. ASSUME NEW x \in C, NEW y \in C, g[x] = g[y] PROVE x = y
      <3>1. TaskOf(n, x) = TaskOf(n, y) /\ x \in Nat /\ y \in Nat
        BY <1>2, <2>1, <2>3, Kinds
      <3> QED BY <1>1, <3>1, TasksDiffer
    <2>4. ASSUME NEW i \in Coming(n) PROVE \E k \in C : g[k] = i
      <3>1. i \in DOMAIN toNode[n] /\ toNode[n][i].kind = "rt" /\ toNode[n][i].rt.tar_id = n
        BY DEF Coming
      <3>2. PICK k \in Sent(n) : toNode[n][i] = Task(TaskOf(n, k))
        BY <1>1, <3>1 DEF TasksFramed
      <3>3. Group[k][n] = n
        BY <1>3, <3>1, <3>2, Kinds
      <3>4. k \in C
        BY <3>1, <3>2, <3>3 DEF Owed, Done, IsComing
      <3>5. g[k] = i
        BY <1>1, <2>1, <3>1, <3>2, <3>4 DEF OneOfEach
      <3> QED BY <3>4, <3>5
    <2> HIDE DEF C, g
    <2> QED BY <1>6, <2>2, <2>3, <2>4, SameCount
  <1>8. Cardinality(Ending(n)) = Cardinality(E)
    <2>1. h \in [E -> Ending(n)]
      BY <1>2, <1>3 DEF Ending, Owed
    <2>2. ASSUME NEW x \in E, NEW y \in E, h[x] = h[y] PROVE x = y
      <3>1. TaskOf(n, x) = TaskOf(n, y) /\ x \in Nat /\ y \in Nat
        BY <1>2, <2>2
      <3> QED BY <1>1, <3>1, TasksDiffer
    <2>3. ASSUME NEW t \in Ending(n) PROVE \E k \in E : h[k] = t
      <3>1. t \in InHand(n) /\ t.tar_id = n
        BY DEF Ending
      <3>2. PICK k \in Sent(n) : t = TaskOf(n, k)
        BY <1>1, <3>1 DEF Holding
      <3>3. k \in E
        BY <1>3, <3>1, <3>2 DEF Owed, Done
      <3> QED BY <3>2, <3>3
    <2> HIDE DEF E, h
    <2> QED BY <1>6, <2>1, <2>2, <2>3, SameCount
  <1>9. Cardinality(C \cup E) = Cardinality(C) + Cardinality(E)
    <2> HIDE DEF C, E
    <2>1. Cardinality(C \cup E) = Cardinality(C) + Cardinality(E) - Cardinality(C \cap E)
      BY <1>6, FS_Union
    <2>2. Cardinality(C \cap E) = 0 /\ Cardinality(C) \in Nat /\ Cardinality(E) \in Nat
      BY <1>5, <1>6, FS_EmptySet, FS_CardinalityType
    <2> QED BY <2>1, <2>2
  <1> HIDE DEF C, E
  <1> QED BY <1>2, <1>5, <1>7, <1>8, <1>9

(* For every entry of waits_ there is a message or a task that will send   *)
(* one, and between the groups no answer but that of the loop main is in.  *)
THEOREM WaitsStayMatched == Spec => []WaitsMatched
  <1>1. IInv => WaitsMatched
    <2> SUFFICES ASSUME IInv, NEW n \in Node
                 PROVE  /\ mpc = "wait" => Cardinality(Waits(n)) =
                             Cardinality(Coming(n)) + Cardinality(Ending(n)) + Len(toMaster[n])
                        /\ mpc \notin {"deliver", "wait"} =>
                             Len(toMaster[n]) <=
                               (IF mpc \in {"reloading", "setting"} /\ n < next THEN 0 ELSE 1)
      BY DEF WaitsMatched
    <2> USE DEF IInv
    <2>1. ASSUME mpc = "wait"
          PROVE  Cardinality(Waits(n)) = Cardinality(Coming(n)) + Cardinality(Ending(n)) + Len(toMaster[n])
      <3>1. InGroup /\ ~ending[n]
        BY <2>1 DEF InGroup, Position
      <3>2. Cardinality(Waits(n)) + (IF ending[n] THEN 1 ELSE 0) = Cardinality(Owed(n)) + Len(toMaster[n])
        BY <3>1 DEF Counts
      <3>3. Cardinality(Waits(n)) \in Nat
        BY <3>1, SentTyped
      <3>4. Cardinality(Waits(n)) = Cardinality(Owed(n)) + Len(toMaster[n])
        BY <3>1, <3>2, <3>3
      <3> QED BY <3>1, <3>4, OwedSplit
    <2>2. ASSUME mpc \notin {"deliver", "wait"}
          PROVE  Len(toMaster[n]) <= (IF mpc \in {"reloading", "setting"} /\ n < next THEN 0 ELSE 1)
      <3>1. BetweenAt(n)
        BY <2>2 DEF Between, InGroup
      <3>2. toMaster[n] = <<>> \/ (toMaster[n] = <<n>> /\ Asked(n))
        BY <3>1 DEF BetweenAt, Asked, Idle, Pending, Answered, Ended
      <3>3. mpc \in {"reloading", "setting"} /\ n < next => ~Asked(n)
        <4>1. next \in Nat /\ n \in Nat
          BY Nodes DEF TypeOK
        <4> QED BY <4>1 DEF Asked
      <3>4. Len(<<>>) = 0 /\ Len(<<n>>) = 1
        OBVIOUS
      <3>5. CASE toMaster[n] = <<>>
        BY <3>4, <3>5
      <3>6. CASE toMaster[n] = <<n>> /\ Asked(n)
        BY <3>3, <3>4, <3>6
      <3> QED BY <3>2, <3>5, <3>6
    <2> QED BY <2>1, <2>2
  <1> QED BY <1>1, Invariance, PTL

(* When a group is over, its tasks are stored where they end: one message  *)
(* for each entry of waits_, whatever its task, is enough to know.         *)
THEOREM GroupsAreStored == Spec => []AllStored
  <1>1. IInv => AllStored
    BY DEF IInv, Kept
  <1> QED BY <1>1, Invariance, PTL

-----------------------------------------------------------------------------
(* Towards the refinement: main leaves no group of an algorithm or a round *)
(* behind, and no task of a group to come is stored.                       *)
Passed ==
  /\ mpc = "algorithm" /\ alg > 0 => round > Len(RoundsOf(alg))
  /\ mpc = "route" /\ round > 0 => gid > Len(Groups)
NoneAhead == \A x \in stored : x < cur_tid_ + (IF InGroup THEN task_num_ ELSE 0)
Order == Passed /\ NoneAhead

(* A step of main, or one that does not concern main but for a task.       *)
LEMMA StepKinds ==
  ASSUME IInv, [Next]_vars
  PROVE  \/ UNCHANGED <<mpc, alg, round, gid, cur_tid_, stored>>
         \/ Main /\ UNCHANGED nodeVars
         \/ \E n \in Node : Finish(n) /\ UNCHANGED masterVars
  <1>1. CASE \E n \in Node : DeliverTasks(n) /\ UNCHANGED nodeVars
    BY <1>1 DEF DeliverTasks, DeliverTask, RecordWait, nodeVars, stageVars
  <1>2. CASE \E n \in Node : GetTaks(n) /\ UNCHANGED masterVars
    BY <1>2 DEF GetTaks, End, Reopen, LoadRow, ReceiveTask, ReceiveTaskWith, ReceiveSource,
                stageVars, masterVars
  <1>3. CASE \E n \in Node : Stages(n) /\ UNCHANGED masterVars
    <2>1. CASE \E n \in Node : Admit(n) /\ UNCHANGED masterVars
      BY <2>1 DEF Admit, AdmitBelow, masterVars
    <2> QED BY <1>3, <2>1 DEF Stages
  <1>4. CASE UNCHANGED vars
    BY <1>4 DEF vars, masterVars, nodeVars, stageVars
  <1> QED BY <1>1, <1>2, <1>3, <1>4 DEF Next

(* What ends at a node is a task of the group under way.                   *)
LEMMA FinishStores ==
  ASSUME IInv, NEW n \in Node, Finish(n), UNCHANGED masterVars
  PROVE  /\ InGroup /\ task_num_ \in Nat /\ cur_tid_ \in Nat
         /\ \/ stored' = stored
            \/ \E k \in 1 .. task_num_ : stored' = stored \cup {cur_tid_ + k - 1}
  <1>1. PICK t \in parts[n] : stored' = stored \/ stored' = stored \cup {t.task_id}
    BY DEF Finish, FinishTelling
  <1>2. InGroup
    BY <1>1, TaskInside DEF InHand
  <1>3. PICK k \in Sent(n) : t = TaskOf(n, k)
    BY <1>1, <1>2 DEF IInv, Hands, Holding, InHand
  <1>4. k \in 1 .. task_num_ /\ n \in DOMAIN Group[k] /\ task_num_ \in Nat /\ cur_tid_ \in Nat
    BY <1>2, SentTyped, GroupTyped DEF IInv, TypeOK
  <1>5. t.task_id = cur_tid_ + k - 1
    BY <1>3 DEF TaskOf, Rt, TaskId
  <1> QED BY <1>1, <1>2, <1>4, <1>5

LEMMA MainNumbers ==
  ASSUME IInv
  PROVE  /\ alg \in Nat /\ round \in Nat /\ gid \in Nat /\ cur_tid_ \in Nat
         /\ \A x \in stored : x \in Nat
         /\ InGroup => task_num_ \in Nat
  <1>1. alg \in Nat /\ round \in Nat /\ gid \in Nat /\ cur_tid_ \in Nat
    BY ProgramTypes DEF IInv, TypeOK
  <1>2. InGroup => task_num_ \in Nat
    BY GroupTyped DEF IInv
  <1>3. stored \subseteq Nat
    BY <1>1, <1>2 DEF IInv, TypeOK, TaskIds, InGroup
  <1> QED BY <1>1, <1>2, <1>3

(* A group there is has tasks; it is the place main is at. *)
LEMMA BeginTyped ==
  ASSUME IInv, BeginGroup
  PROVE  /\ Len(Groups) \in Nat /\ gid \in Nat \ {0}
         /\ gid <= Len(Groups) => task_num_ \in Nat /\ Here \in AllGroups
  <1>1. alg \in Alg /\ round \in DOMAIN RoundsOf(alg) /\ gid \in Nat \ {0}
    BY DEF BeginGroup, IInv, Position, TypeOK
  <1>2. Len(Groups) \in Nat /\ DOMAIN Groups = 1 .. Len(Groups)
    BY <1>1, GroupsTyped
  <1>3. ASSUME gid <= Len(Groups) PROVE task_num_ \in Nat /\ Here \in AllGroups
    <2>1. gid \in DOMAIN Groups
      BY <1>1, <1>2, <1>3
    <2>2. Groups[gid] \in Seq(Route)
      BY <1>1, <2>1, GroupsTyped
    <2>3. task_num_ \in Nat
      BY <2>2, LenProperties DEF task_num_, Group
    <2>4. Here \in AllGroups
      BY <1>1, <2>1 DEF Here, AllGroups, Groups
    <2> QED BY <2>3, <2>4
  <1> QED BY <1>1, <1>2, <1>3

LEMMA InitOrder == Init => Order
  BY DEF Init, MasterInit, NodeInit, Order, Passed, NoneAhead

LEMMA OrderStep == IInv /\ Order /\ [Next]_vars => Order'
  <1> SUFFICES ASSUME IInv, Order, [Next]_vars PROVE Order'
    OBVIOUS
  <1> USE MainNumbers
  <1>1. CASE UNCHANGED <<mpc, alg, round, gid, cur_tid_, stored>>
    BY <1>1 DEF Order, Passed, NoneAhead, InGroup, task_num_, Group, Groups
  <1>2. CASE Main /\ UNCHANGED nodeVars
    <2>0. stored' = stored
      BY <1>2 DEF nodeVars, stageVars
    <2>1. CASE ChangeAlg \/ LastAlg
      BY <2>0, <2>1 DEF ChangeAlg, LastAlg, Order, Passed, NoneAhead, InGroup
    <2>2. CASE ReloadNodeBandwidth
      BY <2>0, <2>2 DEF ReloadNodeBandwidth, SendLoop, ReceiveLoop, Order, Passed, NoneAhead, InGroup,
                        IInv, Position
    <2>3. CASE SetNewNodeBandwidth \/ Close
      BY <2>0, <2>3 DEF SetNewNodeBandwidth, Close, SendLoop, ReceiveLoop, Order, Passed, NoneAhead, InGroup
    <2>4. CASE GetTasks
      BY <2>0, <2>4 DEF GetTasks, Order, Passed, NoneAhead, InGroup
    <2>5. CASE BeginGroup
      <3>1. /\ mpc = "group" /\ mpc' = (IF gid > Len(Groups) THEN "route" ELSE "deliver")
            /\ UNCHANGED <<alg, round, gid, cur_tid_>>
        BY <2>5 DEF BeginGroup
      <3>2. Len(Groups) \in Nat /\ (gid <= Len(Groups) => task_num_ \in Nat)
        BY <2>5, BeginTyped
      <3>3. task_num_' = task_num_ /\ Groups' = Groups
        BY <3>1 DEF task_num_, Group, Groups
      <3>4. Passed'
        BY <3>1, <3>2, <3>3 DEF Passed
      <3>5. \A x \in stored : x < cur_tid_
        BY <3>1 DEF Order, NoneAhead, InGroup
      <3>6. NoneAhead'
        BY <2>0, <3>1, <3>2, <3>3, <3>5 DEF NoneAhead, InGroup
      <3> QED BY <3>4, <3>6 DEF Order
    <2>6. CASE Join \/ ReceiveFinish
      BY <2>0, <2>6 DEF Join, ReceiveFinish, Order, Passed, NoneAhead, InGroup, task_num_, Group, Groups
    <2>7. CASE EndGroup
      BY <2>0, <2>7 DEF EndGroup, Order, Passed, NoneAhead, InGroup
    <2> QED BY <1>2, <2>1, <2>2, <2>3, <2>4, <2>5, <2>6, <2>7 DEF Main
  <1>3. CASE \E n \in Node : Finish(n) /\ UNCHANGED masterVars
    <2>1. /\ InGroup
          /\ stored' = stored \/ \E k \in 1 .. task_num_ : stored' = stored \cup {cur_tid_ + k - 1}
      BY <1>3, FinishStores
    <2>2. UNCHANGED <<mpc, alg, round, gid, cur_tid_>>
      BY <1>3 DEF masterVars
    <2>3. task_num_' = task_num_ /\ InGroup' /\ Passed'
      BY <2>1, <2>2 DEF task_num_, Group, Groups, InGroup, Order, Passed
    <2> QED BY <2>1, <2>2, <2>3 DEF Order, NoneAhead
  <1> QED BY <1>1, <1>2, <1>3, StepKinds

LEMMA OrderHolds == Spec => []Order
  BY InitOrder, OrderStep, Invariance, PTL DEF Spec

-----------------------------------------------------------------------------
BegunGroups == {p \in AllGroups : HasBegun(p)}
Open == IF mpc \in {"deliver", "wait"}
        THEN {k \in 1 .. task_num_ : cur_tid_ + k - 1 \notin stored} ELSE {}
SessionStep == [Session!Next]_(Session!vars)

LEMMA Stutters ==
  ASSUME BegunGroups' = BegunGroups, Open' = Open PROVE SessionStep
  BY DEF SessionStep, Session!vars, BegunGroups, Open

LEMMA GroupNumbers ==
  ASSUME NEW p \in AllGroups
  PROVE  /\ p[1] \in Alg /\ p[2] \in DOMAIN RoundsOf(p[1])
         /\ p[3] \in 1 .. Len(RoundsOf(p[1])[p[2]])
         /\ p[1] \in Nat \ {0} /\ p[2] \in Nat \ {0} /\ p[3] \in Nat \ {0}
         /\ p[2] <= Len(RoundsOf(p[1])) /\ Len(RoundsOf(p[1])) \in Nat
         /\ Len(RoundsOf(p[1])[p[2]]) \in Nat
         /\ p = <<p[1], p[2], p[3]>>
  <1>0. PICK a \in Alg : \E r \in DOMAIN RoundsOf(a) : \E g \in DOMAIN RoundsOf(a)[r] : p = <<a, r, g>>
    BY DEF AllGroups
  <1>1. PICK r \in DOMAIN RoundsOf(a) : \E g \in DOMAIN RoundsOf(a)[r] : p = <<a, r, g>>
    BY <1>0
  <1>2. PICK g \in DOMAIN RoundsOf(a)[r] : p = <<a, r, g>>
    BY <1>1
  <1>3. RoundsOf(a) \in Seq(Seq(Seq(Route) \ {<<>>}))
    BY ProgramTypes
  <1>4. RoundsOf(a)[r] \in Seq(Seq(Route) \ {<<>>})
    BY <1>3, ElementOfSeq
  <1>5. Len(RoundsOf(a)[r]) \in Nat /\ DOMAIN RoundsOf(a)[r] = 1 .. Len(RoundsOf(a)[r])
    BY <1>4, LenProperties
  <1>6. p[1] = a /\ p[2] = r /\ p[3] = g
    BY <1>2
  <1> QED BY <1>2, <1>5, <1>6, ProgramTypes

(* A group has begun when main has come past it, or is at work on it.      *)
LEMMA BegunMeans ==
  ASSUME NEW p \in AllGroups
  PROVE  HasBegun(p) <=> \/ p[1] < alg
                         \/ p[1] = alg /\ p[2] < round
                         \/ p[1] = alg /\ p[2] = round /\ (p[3] < gid \/ (p[3] = gid /\ InGroup))
  <1>1. p = <<p[1], p[2], p[3]>>
    BY GroupNumbers
  <1>2. p = Here <=> p[1] = alg /\ p[2] = round /\ p[3] = gid
    BY <1>1 DEF Here
  <1>3. Here[1] = alg /\ Here[2] = round /\ Here[3] = gid
    BY DEF Here
  <1> QED BY ONLY <1>2, <1>3 DEF HasBegun, Earlier, InGroup

LEMMA BegunMeansNext ==
  ASSUME NEW p \in AllGroups
  PROVE  HasBegun(p)' <=> \/ p[1] < alg'
                          \/ p[1] = alg' /\ p[2] < round'
                          \/ p[1] = alg' /\ p[2] = round' /\ (p[3] < gid' \/ (p[3] = gid' /\ InGroup'))
  <1>1. p = <<p[1], p[2], p[3]>>
    BY GroupNumbers
  <1>2. p = Here' <=> p[1] = alg' /\ p[2] = round' /\ p[3] = gid'
    BY <1>1 DEF Here
  <1>3. Here'[1] = alg' /\ Here'[2] = round' /\ Here'[3] = gid'
    BY DEF Here
  <1> QED BY <1>2, <1>3 DEF HasBegun, Earlier, InGroup

LEMMA SameBegun ==
  ASSUME \A p \in AllGroups : HasBegun(p)' <=> HasBegun(p)
  PROVE  BegunGroups' = BegunGroups
  BY DEF BegunGroups

(* While main goes from group to group, round to round and algorithm to    *)
(* algorithm, no group begins.                                             *)
LEMMA ChangeAlgMaps == ASSUME IInv, Order, ChangeAlg, UNCHANGED nodeVars PROVE SessionStep
  <1>1. /\ mpc = "algorithm" /\ alg' = alg + 1 /\ round' = 0 /\ mpc' = "reload"
        /\ alg > 0 => round > Len(RoundsOf(alg))
    BY DEF ChangeAlg, Order, Passed
  <1>2. ASSUME NEW p \in AllGroups PROVE HasBegun(p)' <=> HasBegun(p)
    <2>1. HasBegun(p) <=> p[1] < alg \/ p[1] = alg
      <3>1. p[1] = alg => p[2] < round
        BY <1>1, GroupNumbers, MainNumbers
      <3> QED BY <3>1, BegunMeans
    <2>2. HasBegun(p)' <=> p[1] < alg + 1
      <3>1. p[2] > 0 /\ ~(p[2] < 0) /\ p[2] # 0
        BY GroupNumbers
      <3>2. ~InGroup'
        BY <1>1 DEF InGroup
      <3> QED BY <1>1, <3>1, <3>2, BegunMeansNext
    <2> QED BY <2>1, <2>2, GroupNumbers, MainNumbers
  <1>3. Open' = Open
    BY <1>1 DEF Open
  <1> QED BY <1>2, <1>3, SameBegun, Stutters

LEMMA GetTasksMaps == ASSUME IInv, Order, GetTasks, UNCHANGED nodeVars PROVE SessionStep
  <1>1. /\ mpc = "route" /\ alg' = alg /\ round' = round + 1 /\ gid' = 1
        /\ mpc' \in {"algorithm", "group", "set"}
        /\ round > 0 => gid > Len(Groups)
    BY DEF GetTasks, Order, Passed
  <1>2. ASSUME NEW p \in AllGroups PROVE HasBegun(p)' <=> HasBegun(p)
    <2>1. ~InGroup /\ ~InGroup'
      BY <1>1 DEF InGroup
    <2>2. p[1] = alg /\ p[2] = round => p[3] < gid
      BY <1>1, GroupNumbers, MainNumbers DEF Groups
    <2>3. ~(p[3] < 1)
      BY GroupNumbers
    <2>4. p[2] < round + 1 <=> p[2] < round \/ p[2] = round
      BY GroupNumbers, MainNumbers
    <2> QED BY <1>1, <2>1, <2>2, <2>3, <2>4, BegunMeans, BegunMeansNext
  <1>3. Open' = Open
    BY <1>1 DEF Open
  <1> QED BY <1>2, <1>3, SameBegun, Stutters

(* When main goes on to the next group, all tasks of this one are stored.  *)
LEMMA EndGroupMaps == ASSUME IInv, Order, EndGroup, UNCHANGED nodeVars PROVE SessionStep
  <1>1. /\ mpc = "wait" /\ mpc' = "group" /\ gid' = gid + 1 /\ cur_tid_' = cur_tid_ + task_num_
        /\ alg' = alg /\ round' = round /\ stored' = stored /\ InGroup /\ ~InGroup'
    BY DEF EndGroup, InGroup, nodeVars, stageVars
  <1>2. ASSUME NEW p \in AllGroups PROVE HasBegun(p)' <=> HasBegun(p)
    <2>1. p[3] < gid + 1 <=> p[3] < gid \/ p[3] = gid
      BY GroupNumbers, MainNumbers
    <2> QED BY <1>1, <2>1, BegunMeans, BegunMeansNext
  <1>3. IInv'
    BY EndGroupHolds
  <1>4. 0 .. (cur_tid_ + task_num_) - 1 \subseteq stored
    BY <1>1, <1>3 DEF IInv, Kept, AllStored
  <1>5. \A k \in 1 .. task_num_ : cur_tid_ + k - 1 \in stored
    BY <1>1, <1>4, MainNumbers
  <1>6. Open = {} /\ Open' = {}
    BY <1>1, <1>5 DEF Open
  <1> QED BY <1>2, <1>6, SameBegun, Stutters

LEMMA BeginGroupMaps == ASSUME IInv, Order, BeginGroup, UNCHANGED nodeVars PROVE SessionStep
  <1>1. /\ mpc = "group" /\ ~InGroup /\ UNCHANGED <<alg, round, gid, cur_tid_, stored>>
        /\ mpc' = (IF gid > Len(Groups) THEN "route" ELSE "deliver")
    BY DEF BeginGroup, InGroup, nodeVars, stageVars
  <1>2. Len(Groups) \in Nat /\ gid \in Nat
    BY BeginTyped
  <1>3. CASE gid > Len(Groups)
    <2>1. mpc' = "route" /\ ~InGroup'
      BY <1>1, <1>3 DEF InGroup
    <2>2. \A p \in AllGroups : HasBegun(p)' <=> HasBegun(p)
      BY <1>1, <2>1, BegunMeans, BegunMeansNext
    <2>3. Open' = Open
      BY <1>1, <2>1 DEF Open
    <2> QED BY <2>2, <2>3, SameBegun, Stutters
  <1>4. CASE gid <= Len(Groups)
    <2>1. mpc' = "deliver" /\ InGroup' /\ task_num_ \in Nat /\ Here \in AllGroups
      BY <1>1, <1>2, <1>4, BeginTyped DEF InGroup
    <2>2. \A p \in AllGroups : p = Here <=> p[1] = alg /\ p[2] = round /\ p[3] = gid
      BY GroupNumbers DEF Here
    <2>3. \A p \in AllGroups : HasBegun(p)' <=> HasBegun(p) \/ p = Here
      <3> SUFFICES ASSUME NEW p \in AllGroups PROVE HasBegun(p)' <=> HasBegun(p) \/ p = Here
        OBVIOUS
      <3> QED BY <1>1, <2>1, <2>2, BegunMeans, BegunMeansNext
    <2>4. Here \notin BegunGroups
      <3>1. ~(gid < gid) /\ ~(round < round) /\ ~(alg < alg)
        BY MainNumbers
      <3>2. Here[1] = alg /\ Here[2] = round /\ Here[3] = gid
        BY DEF Here
      <3> QED BY <1>1, <2>1, <3>1, <3>2, BegunMeans DEF BegunGroups
    <2>5. BegunGroups' = BegunGroups \cup {Here}
      BY <2>1, <2>3 DEF BegunGroups
    <2>6. \A h \in AllGroups : Earlier(h, Here) => h \in BegunGroups
      BY DEF BegunGroups, HasBegun
    <2>7. Open = {}
      BY <1>1 DEF Open
    <2>8. task_num_' = task_num_ /\ task_num_ = Len(RoundsOf(alg)[round][gid])
      BY <1>1 DEF task_num_, Group, Groups
    <2>9. Open' = 1 .. task_num_
      <3>1. \A x \in stored : x < cur_tid_
        BY <1>1, MainNumbers DEF Order, NoneAhead
      <3>2. \A k \in 1 .. task_num_ : cur_tid_ + k - 1 \notin stored
        BY <2>1, <3>1, MainNumbers
      <3>3. Open' = {k \in 1 .. task_num_' : cur_tid_' + k - 1 \notin stored'}
        BY <2>1 DEF Open
      <3> QED BY <1>1, <2>8, <3>2, <3>3
    <2>10. Session!Begin
      <3> DEFINE size == [p \in AllGroups |-> Len(RoundsOf(p[1])[p[2]][p[3]])]
                 before == {pq \in AllGroups \X AllGroups : Earlier(pq[1], pq[2])}
      <3>1. DOMAIN size = AllGroups /\ size[Here] = task_num_
        BY <2>1, <2>8 DEF Here
      <3>2. \A h \in AllGroups : <<h, Here>> \in before => h \in BegunGroups
        BY <2>6
      <3> HIDE DEF size, before
      <3>3. \E g \in DOMAIN size \ BegunGroups :
              /\ Open = {}
              /\ \A h \in DOMAIN size : <<h, g>> \in before => h \in BegunGroups
              /\ BegunGroups' = BegunGroups \cup {g}
              /\ Open' = 1 .. size[g]
        BY <2>1, <2>4, <2>5, <2>7, <2>9, <3>1, <3>2
      <3> QED BY <3>3 DEF Session!Begin, BegunGroups, Open, size, before
    <2> QED BY <2>10 DEF SessionStep, Session!Next
  <1> QED BY <1>2, <1>3, <1>4

LEMMA FinishMaps ==
  ASSUME IInv, Order, NEW n \in Node, Finish(n), UNCHANGED masterVars PROVE SessionStep
  <1>1. /\ InGroup /\ task_num_ \in Nat /\ cur_tid_ \in Nat
        /\ stored' = stored \/ \E k \in 1 .. task_num_ : stored' = stored \cup {cur_tid_ + k - 1}
    BY FinishStores
  <1>2. /\ UNCHANGED <<mpc, alg, round, gid, cur_tid_>> /\ InGroup'
        /\ mpc \in {"deliver", "wait"} /\ mpc' \in {"deliver", "wait"}
    BY <1>1 DEF masterVars, InGroup
  <1>3. task_num_' = task_num_
    BY <1>2 DEF task_num_, Group, Groups
  <1>4. \A p \in AllGroups : HasBegun(p)' <=> HasBegun(p)
    BY <1>1, <1>2, BegunMeans, BegunMeansNext
  <1>5. BegunGroups' = BegunGroups
    BY <1>4, SameBegun
  <1>6. /\ Open = {k \in 1 .. task_num_ : cur_tid_ + k - 1 \notin stored}
        /\ Open' = {k \in 1 .. task_num_ : cur_tid_ + k - 1 \notin stored'}
    BY <1>2, <1>3 DEF Open
  <1>7. CASE stored' = stored
    BY <1>5, <1>6, <1>7, Stutters
  <1>8. ASSUME NEW k \in 1 .. task_num_, stored' = stored \cup {cur_tid_ + k - 1} PROVE SessionStep
    <2>1. \A j \in 1 .. task_num_ : cur_tid_ + j - 1 = cur_tid_ + k - 1 <=> j = k
      BY <1>1
    <2>2. Open' = Open \ {k}
      BY <1>6, <1>8, <2>1
    <2>3. CASE k \in Open
      <3>1. Session!Repair
        BY <1>5, <2>2, <2>3 DEF Session!Repair, BegunGroups, Open
      <3> QED BY <3>1 DEF SessionStep, Session!Next
    <2>4. CASE k \notin Open
      BY <1>5, <2>2, <2>4, Stutters
    <2> QED BY <2>3, <2>4
  <1> QED BY <1>1, <1>7, <1>8

(* Nothing the session shows changes. *)
LEMMA OthersMap ==
  ASSUME IInv, UNCHANGED <<alg, round, gid, cur_tid_, stored>>, InGroup' = InGroup
  PROVE  SessionStep
  <1>1. BegunGroups' = BegunGroups
    <2>1. \A p \in AllGroups : HasBegun(p)' <=> HasBegun(p)
      BY BegunMeans, BegunMeansNext
    <2> QED BY <2>1, SameBegun
  <1>2. task_num_' = task_num_
    BY DEF task_num_, Group, Groups
  <1>3. Open' = Open
    BY <1>2 DEF Open, InGroup
  <1> QED BY <1>1, <1>3, Stutters

LEMMA NextMaps == IInv /\ Order /\ [Next]_vars => SessionStep
  <1> SUFFICES ASSUME IInv, Order, [Next]_vars PROVE SessionStep
    OBVIOUS
  <1>1. CASE UNCHANGED <<mpc, alg, round, gid, cur_tid_, stored>>
    BY <1>1, OthersMap DEF InGroup
  <1>2. CASE Main /\ UNCHANGED nodeVars
    <2>0. stored' = stored
      BY <1>2 DEF nodeVars, stageVars
    <2>1. CASE ReloadNodeBandwidth \/ SetNewNodeBandwidth \/ Join \/ ReceiveFinish \/ LastAlg \/ Close
      <3>1. UNCHANGED <<alg, round, gid, cur_tid_>> /\ InGroup' = InGroup
        BY <2>1 DEF ReloadNodeBandwidth, SetNewNodeBandwidth, Join, ReceiveFinish, LastAlg, Close,
                    SendLoop, ReceiveLoop, InGroup
      <3> QED BY <2>0, <3>1, OthersMap
    <2> QED BY <1>2, <2>1, ChangeAlgMaps, GetTasksMaps, BeginGroupMaps, EndGroupMaps DEF Main
  <1>3. CASE \E n \in Node : Finish(n) /\ UNCHANGED masterVars
    BY <1>3, FinishMaps
  <1> QED BY <1>1, <1>2, <1>3, StepKinds

LEMMA InitMaps == Init => Session!Init
  <1> SUFFICES ASSUME Init PROVE Session!Init
    OBVIOUS
  <1>1. mpc = "algorithm" /\ alg = 0 /\ ~InGroup
    BY DEF Init, MasterInit, InGroup
  <1>2. \A p \in AllGroups : ~HasBegun(p)
    <2> SUFFICES ASSUME NEW p \in AllGroups PROVE ~HasBegun(p)
      OBVIOUS
    <2>1. p[1] # alg /\ ~(p[1] < alg)
      BY <1>1, GroupNumbers
    <2> QED BY <2>1, BegunMeans
  <1>3. Open = {} /\ BegunGroups = {}
    BY <1>1, <1>2 DEF Open, BegunGroups
  <1> QED BY <1>3 DEF Session!Init, Open, BegunGroups

(* Every step of the master and the nodes is one of the session they       *)
(* promise, or nothing there: DoTaskGroups (controller.cc:52-67) begins a  *)
(* group when all before it have begun and nothing of them is open, its    *)
(* tasks are not stored yet, and each is then stored once.                 *)
THEOREM StepsImplement == Spec => Session!Init /\ [][Session!Next]_(Session!vars)
  <1>1. IInv /\ Order /\ [Next]_vars => [Session!Next]_(Session!vars)
    BY NextMaps DEF SessionStep
  <1> QED BY <1>1, InitMaps, Invariance, OrderHolds, PTL DEF Spec
=============================================================================
