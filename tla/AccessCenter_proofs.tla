------------------------- MODULE AccessCenter_proofs -------------------------
(***************************************************************************)
(* For any number of nodes and any backlog: Connect keeps its types, a     *)
(* node never has one node's socket under another node's id, and it has one*)
(* to every other node when Connect returns.                               *)
(***************************************************************************)
EXTENDS AccessCenter, FiniteSets, TLAPS, SequenceTheorems, FiniteSetTheorems

(* What a node sends while it connects is its own id and nothing else.     *)
OwnIds == \A c, s \in Node : \A k \in 1 .. Len(wire[c][s]) : wire[c][s][k] = c

(* The loops are within their bounds: of the smaller ids for the one, of   *)
(* the connections yet to come for the other.                              *)
LoopsHold == \A n \in Node :
  /\ i[n] <= n
  /\ main[n] = "listen" => i[n] = 0
  /\ main[n] \in {"connect", "send"} => i[n] < n
  /\ thread[n] \in {"accept", "read"} => left[n] >= 1
  /\ thread[n] = "read" => ds[n] \in Node

IInv == TypeOK /\ OwnIds /\ LoopsHold /\ RightPeer

LEMMA Ids == /\ \A n : n \in Node <=> n \in Nat /\ n < total_
             /\ None \notin Node /\ 0 \in Node /\ total_ - 1 \in Node
  BY TotalAssumption DEF Node, None

(* What appending to a sequence, and taking its head, does to its elements.*)
LEMMA Appended == ASSUME NEW S, NEW s \in Seq(S), NEW e \in S
                  PROVE  /\ Append(s, e) \in Seq(S) /\ Len(Append(s, e)) = Len(s) + 1
                         /\ \A k \in 1 .. Len(s) : Append(s, e)[k] = s[k]
                         /\ Append(s, e)[Len(s) + 1] = e
  BY AppendProperties
LEMMA Beheaded == ASSUME NEW S, NEW s \in Seq(S), s # <<>>
                  PROVE  /\ Head(s) = s[1] /\ 1 \in 1 .. Len(s) /\ Head(s) \in S
                         /\ Tail(s) \in Seq(S) /\ Len(Tail(s)) = Len(s) - 1
                         /\ \A k \in 1 .. Len(Tail(s)) : Tail(s)[k] = s[k + 1] /\ k + 1 \in 1 .. Len(s)
  <1>1. Len(s) \in Nat /\ Len(s) # 0
    BY EmptySeq, LenProperties
  <1> QED BY <1>1, HeadTailProperties, ElementOfSeq

LEMMA InitHolds == Init => IInv
  <1> SUFFICES ASSUME Init PROVE IInv
    OBVIOUS
  <1>1. TypeOK
    BY Ids, BacklogAssumption, EmptySeq DEF Init, TypeOK
  <1>2. LoopsHold
    BY Ids DEF Init, LoopsHold
  <1>3. OwnIds
    BY EmptySeq DEF Init, OwnIds
  <1> QED BY <1>1, <1>2, <1>3 DEF Init, IInv, RightPeer

LEMMA ListenHolds == ASSUME IInv, NEW n \in Node, Listen(n) PROVE IInv'
  <1>1. n # total_ - 1 => total_ - 1 - n \in Node /\ total_ - 1 - n >= 1
    BY Ids, TotalAssumption
  <1>2. main' = [main EXCEPT ![n] = IF 0 < n THEN "connect" ELSE "join"]
    BY DEF Listen, LoopOrJoin
  <1>3. \/ UNCHANGED <<acc_, thread, left, ds>>
        \/ /\ n # total_ - 1
           /\ acc_' = acc_ \cup {n}
           /\ thread' = [thread EXCEPT ![n] = "accept"]
           /\ left' = [left EXCEPT ![n] = total_ - 1 - n]
           /\ UNCHANGED ds
    BY DEF Listen, threadVars
  <1>4. UNCHANGED <<i, queue, wire, tis>>
    BY DEF Listen
  <1>5. TypeOK'
    <2>1. main' \in [Node -> {"listen", "connect", "send", "join", "returned"}]
      BY <1>2 DEF IInv, TypeOK
    <2>2. /\ acc_' \subseteq Node /\ ds' \in [Node -> Node \cup {None}]
          /\ thread' \in [Node -> {"off", "accept", "read", "done"}]
          /\ left' \in [Node -> Node]
      <3>1. CASE UNCHANGED <<acc_, thread, left, ds>>
        BY <3>1 DEF IInv, TypeOK
      <3>2. CASE ~UNCHANGED <<acc_, thread, left, ds>>
        <4>1. acc_' \subseteq Node /\ ds' \in [Node -> Node \cup {None}]
          BY <1>3, <3>2 DEF IInv, TypeOK
        <4>2. thread' \in [Node -> {"off", "accept", "read", "done"}]
          BY <1>3, <3>2 DEF IInv, TypeOK
        <4>3. left' \in [Node -> Node]
          <5>1. total_ - 1 - n \in Node /\ left' = [left EXCEPT ![n] = total_ - 1 - n]
            BY <1>1, <1>3, <3>2
          <5> QED BY <5>1 DEF IInv, TypeOK
        <4> QED BY <4>1, <4>2, <4>3
      <3> QED BY <1>3, <3>1, <3>2
    <2> QED BY <1>4, <2>1, <2>2 DEF IInv, TypeOK
  <1>6. OwnIds' /\ RightPeer'
    BY <1>4 DEF IInv, OwnIds, RightPeer
  <1>7. LoopsHold'
    <2> SUFFICES ASSUME NEW m \in Node PROVE LoopsHold!(m)'
      BY DEF LoopsHold
    <2>1. main'[m] \in {"connect", "send"} => i[m] < m
      BY <1>2, Ids DEF Listen, IInv, TypeOK, LoopsHold
    <2>2. /\ thread'[m] \in {"accept", "read"} => left'[m] >= 1
          /\ thread'[m] = "read" => ds'[m] \in Node
      <3> DEFINE Threaded == /\ thread[m] \in {"accept", "read"} => left[m] >= 1
                             /\ thread[m] = "read" => ds[m] \in Node
      <3>1. Threaded
        BY DEF IInv, LoopsHold
      <3>2. CASE thread'[m] = thread[m] /\ left'[m] = left[m] /\ ds'[m] = ds[m]
        BY ONLY <3>1, <3>2
      <3>3. CASE thread'[m] = "accept" /\ left'[m] >= 1
        BY ONLY <3>3
      <3>4. \/ thread'[m] = thread[m] /\ left'[m] = left[m] /\ ds'[m] = ds[m]
            \/ thread'[m] = "accept" /\ left'[m] >= 1
        <4>1. CASE UNCHANGED <<acc_, thread, left, ds>>
          BY ONLY <4>1
        <4>2. CASE ~UNCHANGED <<acc_, thread, left, ds>>
          <5>1. /\ total_ - 1 - n >= 1
                /\ thread' = [thread EXCEPT ![n] = "accept"]
                /\ left' = [left EXCEPT ![n] = total_ - 1 - n]
                /\ ds' = ds
            BY <1>1, <1>3, <4>2
          <5>2. DOMAIN thread = Node /\ DOMAIN left = Node
            BY DEF IInv, TypeOK
          <5>3. CASE m = n
            BY ONLY <5>1, <5>2, <5>3, m \in Node, n \in Node
          <5>4. CASE m # n
            BY ONLY <5>1, <5>2, <5>4, m \in Node, n \in Node
          <5> QED BY ONLY <5>3, <5>4
        <4> QED BY ONLY <4>1, <4>2
      <3> QED BY ONLY <3>2, <3>3, <3>4
    <2>3. i'[m] <= m /\ (main'[m] = "listen" => i'[m] = 0)
      BY <1>2, <1>4 DEF IInv, TypeOK, LoopsHold
    <2> QED BY <1>4, <2>1, <2>2, <2>3
  <1> QED BY <1>5, <1>6, <1>7 DEF IInv

LEMMA ConnectHolds == ASSUME IInv, NEW n \in Node, Connect(n) PROVE IInv'
  <1> DEFINE s == i[n]
  <1>1. s \in Node /\ queue[s] \in Seq(Node) /\ Len(queue[s]) < Backlog
    BY DEF Connect, IInv, TypeOK
  <1>2. Append(queue[s], n) \in Seq(Node) /\ Len(Append(queue[s], n)) <= Backlog
    BY <1>1, Appended, BacklogAssumption, LenProperties
  <1>3. /\ queue' = [queue EXCEPT ![s] = Append(queue[s], n)]
        /\ tis' = [tis EXCEPT ![n][s] = s]
    BY DEF Connect
  <1> HIDE DEF s
  <1>4. TypeOK'
    <2>1. /\ queue' \in [Node -> Seq(Node)] /\ \A m \in Node : Len(queue'[m]) <= Backlog
      BY <1>1, <1>2, <1>3 DEF IInv, TypeOK
    <2>2. tis' \in [Node -> [Node -> Node \cup {None}]]
      BY <1>1, <1>3 DEF IInv, TypeOK
    <2> QED BY <2>1, <2>2 DEF Connect, threadVars, IInv, TypeOK
  <1>5. OwnIds'
    BY DEF Connect, IInv, OwnIds
  <1>6. LoopsHold'
    BY DEF Connect, threadVars, IInv, TypeOK, LoopsHold
  <1>7. RightPeer'
    BY <1>1, <1>3 DEF IInv, TypeOK, RightPeer
  <1> QED BY <1>4, <1>5, <1>6, <1>7 DEF IInv

LEMMA SendHolds == ASSUME IInv, NEW n \in Node, Send(n) PROVE IInv'
  <1> DEFINE s == i[n]
             w == wire[n][s]
  <1>1. s \in Node /\ w \in Seq(Node) /\ s < n
    BY DEF Send, IInv, TypeOK, LoopsHold
  <1>2. s + 1 \in Node /\ s + 1 <= n
    <2>1. s \in Nat /\ n \in Nat /\ n < total_
      BY <1>1, Ids
    <2> HIDE DEF s
    <2> QED BY <1>1, <2>1, Ids, TotalAssumption
  <1>3. Append(w, n) \in Seq(Node) /\ \A k \in 1 .. Len(Append(w, n)) : Append(w, n)[k] = n
    <2>1. \A k \in 1 .. Len(w) : w[k] = n
      BY <1>1 DEF IInv, OwnIds
    <2> QED BY <1>1, <2>1, Appended, LenProperties
  <1>4. wire' = [wire EXCEPT ![n][s] = Append(w, n)] /\ i' = [i EXCEPT ![n] = s + 1]
    BY DEF Send
  <1> HIDE DEF s, w
  <1>5. TypeOK'
    <2>1. wire' \in [Node -> [Node -> Seq(Node)]] /\ i' \in [Node -> Node]
      BY <1>1, <1>2, <1>3, <1>4 DEF IInv, TypeOK
    <2> QED BY <2>1 DEF Send, LoopOrJoin, threadVars, IInv, TypeOK
  <1>6. OwnIds'
    <2> SUFFICES ASSUME NEW a \in Node, NEW b \in Node PROVE OwnIds!(a, b)'
      BY DEF OwnIds
    <2>1. CASE a = n /\ b = s
      BY <1>1, <1>3, <1>4, <2>1 DEF IInv, TypeOK
    <2>2. CASE ~(a = n /\ b = s)
      <3>1. wire'[a][b] = wire[a][b]
        BY <1>1, <1>4, <2>2 DEF IInv, TypeOK
      <3> QED BY <3>1 DEF IInv, OwnIds
    <2> QED BY <2>1, <2>2
  <1>7. LoopsHold'
    <2> SUFFICES ASSUME NEW m \in Node PROVE LoopsHold!(m)'
      BY DEF LoopsHold
    <2>1. CASE m = n
      <3>1. main'[n] = (IF s + 1 < n THEN "connect" ELSE "join") /\ i'[n] = s + 1
        BY <1>1, <1>4 DEF Send, LoopOrJoin, IInv, TypeOK, s
      <3>2. thread' = thread /\ left' = left /\ ds' = ds
        BY DEF Send, threadVars
      <3>3. main'[m] \in {"connect", "send"} => i'[m] < m
        BY ONLY <2>1, <3>1
      <3>4. i'[m] <= m /\ (main'[m] = "listen" => i'[m] = 0)
        BY ONLY <1>2, <2>1, <3>1
      <3>5. /\ thread'[m] \in {"accept", "read"} => left'[m] >= 1
            /\ thread'[m] = "read" => ds'[m] \in Node
        BY <3>2 DEF IInv, LoopsHold
      <3> QED BY ONLY <3>3, <3>4, <3>5
    <2>2. CASE m # n
      BY <1>1, <1>2, <1>4, <2>2 DEF Send, threadVars, IInv, TypeOK, LoopsHold
    <2> QED BY <2>1, <2>2
  <1>8. RightPeer'
    BY DEF Send, IInv, RightPeer
  <1> QED BY <1>5, <1>6, <1>7, <1>8 DEF IInv

LEMMA AcceptHolds == ASSUME IInv, NEW n \in Node, Accept(n) PROVE IInv'
  <1>1. queue[n] \in Seq(Node) /\ queue[n] # <<>> /\ Len(queue[n]) <= Backlog
    BY DEF Accept, IInv, TypeOK
  <1>2. Head(queue[n]) \in Node /\ Tail(queue[n]) \in Seq(Node) /\ Len(Tail(queue[n])) <= Backlog
    BY <1>1, Beheaded, LenProperties, BacklogAssumption
  <1>3. TypeOK'
    BY <1>2 DEF Accept, mainVars, IInv, TypeOK
  <1>4. OwnIds' /\ RightPeer'
    BY DEF Accept, IInv, OwnIds, RightPeer
  <1>5. LoopsHold'
    BY <1>2 DEF Accept, mainVars, IInv, TypeOK, LoopsHold
  <1> QED BY <1>3, <1>4, <1>5 DEF IInv

LEMMA ReadHolds == ASSUME IInv, NEW n \in Node, Read(n) PROVE IInv'
  <1> DEFINE c == ds[n]
             w == wire[c][n]
  <1>1. /\ c \in Node /\ w \in Seq(Node) /\ w # <<>>
        /\ left[n] >= 1 /\ left[n] \in Node
    BY DEF Read, IInv, TypeOK, LoopsHold
  <1>2. \A k \in 1 .. Len(w) : w[k] = c
    BY <1>1 DEF IInv, OwnIds
  <1>3. Head(w) = c /\ Tail(w) \in Seq(Node) /\ \A k \in 1 .. Len(Tail(w)) : Tail(w)[k] = c
    BY <1>1, <1>2, Beheaded
  <1>4. wire' = [wire EXCEPT ![c][n] = Tail(w)] /\ tis' = [tis EXCEPT ![n][c] = c]
    BY <1>3 DEF Read
  <1>5. left[n] - 1 \in Node /\ (left[n] # 1 => left[n] - 1 >= 1)
    <2>1. left[n] \in Nat /\ left[n] < total_
      BY <1>1, Ids
    <2>2. ASSUME NEW l \in Nat, l < total_, l >= 1
          PROVE  l - 1 \in Node /\ (l # 1 => l - 1 >= 1)
      BY ONLY l \in Nat, <2>2, TotalAssumption DEF Node
    <2> QED BY <1>1, <2>1, <2>2
  <1> HIDE DEF c, w
  <1>6. TypeOK'
    <2>1. wire' \in [Node -> [Node -> Seq(Node)]]
      BY <1>1, <1>3, <1>4 DEF IInv, TypeOK
    <2>2. tis' \in [Node -> [Node -> Node \cup {None}]]
      BY <1>1, <1>4 DEF IInv, TypeOK
    <2>3. left' \in [Node -> Node] /\ thread' \in [Node -> {"off", "accept", "read", "done"}]
      BY <1>5 DEF Read, IInv, TypeOK
    <2> QED BY <2>1, <2>2, <2>3 DEF Read, mainVars, IInv, TypeOK
  <1>7. OwnIds'
    <2> SUFFICES ASSUME NEW a \in Node, NEW b \in Node PROVE OwnIds!(a, b)'
      BY DEF OwnIds
    <2>1. CASE a = c /\ b = n
      BY <1>1, <1>3, <1>4, <2>1 DEF IInv, TypeOK
    <2>2. CASE ~(a = c /\ b = n)
      <3>1. wire'[a][b] = wire[a][b]
        BY <1>1, <1>4, <2>2 DEF IInv, TypeOK
      <3> QED BY <3>1 DEF IInv, OwnIds
    <2> QED BY <2>1, <2>2
  <1>8. LoopsHold'
    BY <1>5 DEF Read, mainVars, IInv, TypeOK, LoopsHold
  <1>9. RightPeer'
    BY <1>1, <1>4 DEF IInv, TypeOK, RightPeer
  <1> QED BY <1>6, <1>7, <1>8, <1>9 DEF IInv

LEMMA JoinHolds == ASSUME IInv, NEW n \in Node, Join(n) PROVE IInv'
  <1>1. TypeOK' /\ OwnIds' /\ RightPeer'
    BY DEF Join, threadVars, IInv, TypeOK, OwnIds, RightPeer
  <1>2. LoopsHold'
    BY DEF Join, threadVars, IInv, TypeOK, LoopsHold
  <1> QED BY <1>1, <1>2 DEF IInv

(* The invariant of Connect: types, the loops' bounds, what is on the wire.*)
THEOREM Invariance == Spec => []IInv
  <1>1. IInv /\ [Next]_vars => IInv'
    <2> SUFFICES ASSUME IInv, [Next]_vars PROVE IInv'
      OBVIOUS
    <2>1. ASSUME NEW n \in Node, Main(n) PROVE IInv'
      BY <2>1, ListenHolds, ConnectHolds, SendHolds, JoinHolds DEF Main
    <2>2. ASSUME NEW n \in Node, ReceiveThread(n) PROVE IInv'
      BY <2>2, AcceptHolds, ReadHolds DEF ReceiveThread
    <2>3. CASE UNCHANGED vars
      BY <2>3 DEF vars, mainVars, threadVars, IInv, TypeOK, OwnIds, LoopsHold, RightPeer
    <2> QED BY <2>1, <2>2, <2>3 DEF Next
  <1> QED BY <1>1, InitHolds, PTL DEF Spec

(* For any number of nodes, Connect's variables keep their types and no    *)
(* socket waits for more connections than its backlog.                     *)
THEOREM TypeCorrect == Spec => []TypeOK
  BY Invariance, PTL DEF IInv

(* For any number of nodes, in whatever order they connect: what a node has*)
(* under an id is a socket to the node with that id.                       *)
THEOREM SocketsMatch == Spec => []RightPeer
  BY Invariance, PTL DEF IInv

-----------------------------------------------------------------------------
(* p's connection to n is made: it waits, is being read, or has its place. *)
Arrived(n) == {p \in Node : i[p] > n \/ (i[p] = n /\ main[p] = "send")}
(* The connections n's thread has yet to put in their places.              *)
Awaited(n) == {p \in Node : p > n /\ tis[n][p] = None}

(* Towards the smaller ids a node's place in its loop says what it has.    *)
Outgoing == \A n \in Node :
  /\ \A p \in Node : p < n /\ n \in Arrived(p) => tis[n][p] # None
  /\ main[n] \in {"join", "returned"} => i[n] = n
  /\ main[n] = "returned" => n = total_ - 1 \/ thread[n] = "done"

(* A connection is in one place only, and in none before it is made.       *)
Incoming == \A n \in Node :
  /\ \A p \in Node : p > n /\ p \notin Arrived(n) => tis[n][p] = None
  /\ n \in acc_ => thread[n] # "off"
  /\ main[n] = "listen" => thread[n] = "off"
  /\ thread[n] = "off" => queue[n] = <<>> /\ \A p \in Node : p > n => tis[n][p] = None
  /\ \A k \in 1 .. Len(queue[n]) : queue[n][k] \in Awaited(n) /\ queue[n][k] \in Arrived(n)
  /\ \A k, l \in 1 .. Len(queue[n]) : k # l => queue[n][k] # queue[n][l]
  /\ thread[n] = "read" => /\ ds[n] \in Awaited(n) /\ ds[n] \in Arrived(n)
                           /\ \A k \in 1 .. Len(queue[n]) : queue[n][k] # ds[n]

(* The thread's loop runs as often as there are sockets without a place.   *)
Counted == \A n \in Node :
  /\ thread[n] # "off" => left[n] = Cardinality(Awaited(n))
  /\ thread[n] = "done" => left[n] = 0
Accounted == Outgoing /\ Incoming /\ Counted

LEMMA AwaitedFinite == ASSUME NEW n \in Node
                       PROVE IsFiniteSet(Awaited(n)) /\ Cardinality(Awaited(n)) \in Nat
  <1>1. Awaited(n) \in SUBSET Nat /\ \A p \in Awaited(n) : p <= total_
    BY Ids, TotalAssumption DEF Awaited
  <1>2. IsFiniteSet(Awaited(n))
    BY <1>1, TotalAssumption, FS_BoundedSetOfNaturals
  <1> QED BY <1>2, FS_CardinalityType

LEMMA AccountedInit == Init => Accounted
  <1> SUFFICES ASSUME Init PROVE Accounted
    OBVIOUS
  <1>1. \A p, n \in Node : p \notin Arrived(n)
    BY Ids DEF Init, Arrived
  <1> QED BY <1>1, EmptySeq, Ids DEF Init, Accounted, Outgoing, Incoming, Counted

(* Before n listens all bigger ids are awaited.                            *)
LEMMA AllAwaited == ASSUME NEW n \in Node, \A p \in Node : p > n => tis[n][p] = None
                    PROVE Cardinality(Awaited(n)) = total_ - 1 - n
  <1>1. Awaited(n) = n + 1 .. total_ - 1
    BY Ids, TotalAssumption DEF Awaited
  <1>2. n + 1 \in Int /\ total_ - 1 \in Int /\ n \in Nat /\ n < total_
    BY Ids, TotalAssumption
  <1>3. Cardinality(n + 1 .. total_ - 1) = IF n + 1 > total_ - 1 THEN 0 ELSE total_ - 1 - (n + 1) + 1
    BY <1>2, FS_Interval
  <1> QED BY <1>1, <1>2, <1>3, TotalAssumption

LEMMA ListenCounts == ASSUME IInv, Accounted, NEW n \in Node, Listen(n) PROVE Accounted'
  <1>1. /\ main' = [main EXCEPT ![n] = IF 0 < n THEN "connect" ELSE "join"]
        /\ main[n] = "listen" /\ i[n] = 0 /\ n \in Nat
    BY Ids DEF Listen, LoopOrJoin, IInv, LoopsHold
  <1>2. \/ n = total_ - 1 /\ UNCHANGED <<acc_, thread, left>>
        \/ /\ n # total_ - 1
           /\ acc_' = acc_ \cup {n}
           /\ thread' = [thread EXCEPT ![n] = "accept"]
           /\ left' = [left EXCEPT ![n] = total_ - 1 - n]
    BY DEF Listen, threadVars
  <1>3. UNCHANGED <<i, ds, queue, wire, tis>>
    BY DEF Listen, threadVars
  <1>4. \A p, m \in Node : p \in Arrived(m)' <=> p \in Arrived(m)
    BY <1>1, <1>3, Ids DEF Arrived, IInv, TypeOK
  <1>5. \A m \in Node : Awaited(m)' = Awaited(m)
    BY <1>3 DEF Awaited
  <1>6. Outgoing'
    <2> SUFFICES ASSUME NEW m \in Node PROVE Outgoing!(m)'
      BY DEF Outgoing
    <2>1. \A p \in Node : p < m /\ m \in Arrived(p)' => tis'[m][p] # None
      BY <1>3, <1>4 DEF Accounted, Outgoing
    <2>2. main'[m] \in {"join", "returned"} => i'[m] = m
      BY <1>1, <1>3 DEF Accounted, Outgoing, IInv, TypeOK
    <2>3. main'[m] = "returned" => m = total_ - 1 \/ thread'[m] = "done"
      BY <1>1, <1>2 DEF Accounted, Outgoing, IInv, TypeOK
    <2> QED BY <2>1, <2>2, <2>3
  <1>7. thread[n] = "off"
    BY <1>1 DEF Accounted, Incoming
  <1>8. Incoming'
    <2> SUFFICES ASSUME NEW m \in Node PROVE Incoming!(m)'
      BY DEF Incoming
    <2>1. \A p \in Node : p > m /\ p \notin Arrived(m)' => tis'[m][p] = None
      BY <1>3, <1>4 DEF Accounted, Incoming
    <2>2. m \in acc_' => thread'[m] # "off"
      BY <1>2 DEF Accounted, Incoming, IInv, TypeOK
    <2>3. main'[m] = "listen" => thread'[m] = "off"
      BY <1>1, <1>2 DEF Accounted, Incoming, IInv, TypeOK
    <2>4. thread'[m] = "off" => thread[m] = "off"
      BY <1>2, <1>7 DEF IInv, TypeOK
    <2>5. thread'[m] = "off" => queue'[m] = <<>> /\ \A p \in Node : p > m => tis'[m][p] = None
      BY <1>3, <2>4 DEF Accounted, Incoming
    <2>6. \A k \in 1 .. Len(queue'[m]) : queue'[m][k] \in Awaited(m)' /\ queue'[m][k] \in Arrived(m)'
      <3>1. \A k \in 1 .. Len(queue[m]) : queue[m][k] \in Awaited(m) /\ queue[m][k] \in Arrived(m)
        BY DEF Accounted, Incoming
      <3>2. \A k \in 1 .. Len(queue[m]) : queue[m][k] \in Node
        BY <3>1 DEF Awaited
      <3> QED BY <1>3, <1>4, <1>5, <3>1, <3>2
    <2>7. \A k, l \in 1 .. Len(queue'[m]) : k # l => queue'[m][k] # queue'[m][l]
      BY <1>3 DEF Accounted, Incoming
    <2>8. thread'[m] = "read" => /\ ds'[m] \in Awaited(m)' /\ ds'[m] \in Arrived(m)'
                                /\ \A k \in 1 .. Len(queue'[m]) : queue'[m][k] # ds'[m]
      <3>1. thread'[m] = "read" => thread[m] = "read"
        BY <1>2 DEF IInv, TypeOK
      <3>2. thread[m] = "read" => /\ ds[m] \in Awaited(m) /\ ds[m] \in Arrived(m)
                                 /\ \A k \in 1 .. Len(queue[m]) : queue[m][k] # ds[m]
        BY DEF Accounted, Incoming
      <3>3. ds[m] \in Awaited(m) => ds[m] \in Node
        BY DEF Awaited
      <3> QED BY <1>3, <1>4, <1>5, <3>1, <3>2, <3>3
    <2> QED BY <2>1, <2>2, <2>3, <2>5, <2>6, <2>7, <2>8
  <1>9. Counted'
    <2> SUFFICES ASSUME NEW m \in Node PROVE Counted!(m)'
      BY DEF Counted
    <2>1. CASE m = n /\ n # total_ - 1
      <3>1. Cardinality(Awaited(n)) = total_ - 1 - n
        BY <1>7, AllAwaited DEF Accounted, Incoming
      <3> QED BY <1>2, <1>5, <2>1, <3>1 DEF IInv, TypeOK
    <2>2. CASE ~(m = n /\ n # total_ - 1)
      BY <1>2, <1>5, <2>2 DEF Accounted, Counted, IInv, TypeOK
    <2> QED BY <2>1, <2>2
  <1> QED BY <1>6, <1>8, <1>9 DEF Accounted

LEMMA ConnectCounts == ASSUME IInv, Accounted, NEW n \in Node, Connect(n) PROVE Accounted'
  <1>0. PICK s \in Node : s = i[n]
    BY DEF IInv, TypeOK
  <1>1. s \in Node /\ s < n /\ main[n] = "connect" /\ queue[s] \in Seq(Node) /\ s \in acc_
    BY <1>0 DEF Connect, IInv, TypeOK, LoopsHold
  <1>2. /\ queue' = [queue EXCEPT ![s] = Append(queue[s], n)]
        /\ tis' = [tis EXCEPT ![n][s] = s]
        /\ main' = [main EXCEPT ![n] = "send"]
        /\ UNCHANGED <<i, thread, left, ds, acc_>>
    BY <1>0 DEF Connect, threadVars
  <1>4. n \notin Arrived(s) /\ n \in Arrived(s)' /\ n \in Nat /\ s \in Nat
    <2>1. n \in Nat /\ s \in Nat
      BY <1>1, Ids
    <2>2. n \notin Arrived(s)
      BY <1>1, <1>0, <2>1 DEF Arrived
    <2>3. main'[n] = "send" /\ i'[n] = s
      BY <1>2, <1>0 DEF IInv, TypeOK
    <2> QED BY <2>1, <2>2, <2>3 DEF Arrived
  <1>5. \A p, m \in Node : ~(p = n /\ m = s) => (p \in Arrived(m)' <=> p \in Arrived(m))
    BY <1>1, <1>2, <1>0, Ids DEF Arrived, IInv, TypeOK
  <1>6. \A m, p \in Node : ~(m = n /\ p = s) => tis'[m][p] = tis[m][p]
    BY <1>1, <1>2 DEF IInv, TypeOK
  <1>7. tis'[n][s] = s /\ s # None
    BY <1>1, <1>2, Ids DEF IInv, TypeOK
  <1>8. \A m \in Node : Awaited(m)' = Awaited(m)
    BY <1>1, <1>4, <1>6, Ids DEF Awaited
  <1>9. n \in Awaited(s)
    BY <1>1, <1>4 DEF Awaited, Accounted, Incoming
  <1>10. Outgoing'
    <2> SUFFICES ASSUME NEW m \in Node PROVE Outgoing!(m)'
      BY DEF Outgoing
    <2>1. \A p \in Node : p < m /\ m \in Arrived(p)' => tis'[m][p] # None
      BY <1>5, <1>6, <1>7 DEF Accounted, Outgoing
    <2>2. main'[m] \in {"join", "returned"} => i'[m] = m
      BY <1>2 DEF Accounted, Outgoing, IInv, TypeOK
    <2>3. main'[m] = "returned" => m = total_ - 1 \/ thread'[m] = "done"
      BY <1>2 DEF Accounted, Outgoing, IInv, TypeOK
    <2> QED BY <2>1, <2>2, <2>3
  <1>11. Incoming'
    <2> SUFFICES ASSUME NEW m \in Node PROVE Incoming!(m)'
      BY DEF Incoming
    <2>1. \A p \in Node : p > m /\ p \notin Arrived(m)' => tis'[m][p] = None
      <3> SUFFICES ASSUME NEW p \in Node, p > m, p \notin Arrived(m)' PROVE tis'[m][p] = None
        OBVIOUS
      <3>1. ~(p = n /\ m = s) /\ ~(m = n /\ p = s)
        BY <1>1, <1>4
      <3>2. tis[m][p] = None
        BY <1>5, <3>1 DEF Accounted, Incoming
      <3> QED BY <1>6, <3>1, <3>2
    <2>2. /\ m \in acc_' => thread'[m] # "off"
          /\ main'[m] = "listen" => thread'[m] = "off"
      BY <1>2 DEF Accounted, Incoming, IInv, TypeOK
    <2>3. thread'[m] = "off" => queue'[m] = <<>> /\ \A p \in Node : p > m => tis'[m][p] = None
      <3>1. thread[m] = "off" => m # s
        BY <1>1 DEF Accounted, Incoming
      <3>2. m # s => queue'[m] = queue[m]
        BY <1>2 DEF IInv, TypeOK
      <3>3. \A p \in Node : p > m => tis'[m][p] = tis[m][p]
        BY <1>1, <1>4, <1>6
      <3> QED BY <1>2, <3>1, <3>2, <3>3 DEF Accounted, Incoming
    <2>4. /\ \A k \in 1 .. Len(queue[m]) : queue[m][k] \in Awaited(m) /\ queue[m][k] \in Arrived(m)
          /\ \A k, l \in 1 .. Len(queue[m]) : k # l => queue[m][k] # queue[m][l]
          /\ thread[m] = "read" => /\ ds[m] \in Awaited(m) /\ ds[m] \in Arrived(m)
                                   /\ \A k \in 1 .. Len(queue[m]) : queue[m][k] # ds[m]
      BY DEF Accounted, Incoming
    <2>5. \A p \in Awaited(m) : p \in Node /\ p \in Awaited(m)' /\ (p \in Arrived(m) => p \in Arrived(m)')
      BY <1>4, <1>5, <1>8 DEF Awaited
    <2>6. CASE m # s
      <3>1. queue'[m] = queue[m]
        BY <1>2, <2>6 DEF IInv, TypeOK
      <3>2. \A k \in 1 .. Len(queue'[m]) : queue'[m][k] \in Awaited(m)' /\ queue'[m][k] \in Arrived(m)'
        BY <2>4, <2>5, <3>1
      <3>3. thread'[m] = "read" => /\ ds'[m] \in Awaited(m)' /\ ds'[m] \in Arrived(m)'
                                  /\ \A k \in 1 .. Len(queue'[m]) : queue'[m][k] # ds'[m]
        BY <1>2, <2>4, <2>5, <3>1
      <3>4. \A k, l \in 1 .. Len(queue'[m]) : k # l => queue'[m][k] # queue'[m][l]
        BY <2>4, <3>1
      <3> QED BY <2>1, <2>2, <2>3, <3>2, <3>3, <3>4
    <2>7. CASE m = s
      <3> DEFINE q == queue[s]
                 r == Append(q, n)
      <3>1. /\ r = queue'[m] /\ Len(q) \in Nat /\ Len(r) = Len(q) + 1 /\ r[Len(q) + 1] = n
            /\ \A k \in 1 .. Len(q) : r[k] = q[k] /\ k # Len(q) + 1
        BY <1>1, <1>2, <2>7, Appended, LenProperties DEF IInv, TypeOK
      <3>2. q = queue[m]
        BY <2>7
      <3> HIDE DEF q, r
      <3>3. \A k \in 1 .. Len(r) : k = Len(q) + 1 \/ k \in 1 .. Len(q)
        BY <3>1
      <3>4. \A k \in 1 .. Len(q) : q[k] # n
        BY <1>4, <2>4, <2>7, <3>2
      <3>5. \A k \in 1 .. Len(r) : r[k] \in Awaited(m)' /\ r[k] \in Arrived(m)'
        <4> SUFFICES ASSUME NEW k \in 1 .. Len(r)
                     PROVE r[k] \in Awaited(m)' /\ r[k] \in Arrived(m)'
          OBVIOUS
        <4>1. CASE k = Len(q) + 1
          BY <1>4, <1>8, <1>9, <2>7, <3>1, <4>1
        <4>2. CASE k \in 1 .. Len(q)
          BY <2>4, <2>5, <3>1, <3>2, <4>2
        <4> QED BY <3>3, <4>1, <4>2
      <3>6. \A k, l \in 1 .. Len(r) : k # l => r[k] # r[l]
        <4>1. \A k, l \in 1 .. Len(q) : k # l => q[k] # q[l]
          BY <2>4, <3>2
        <4> SUFFICES ASSUME NEW k \in 1 .. Len(r), NEW l \in 1 .. Len(r), k # l PROVE r[k] # r[l]
          OBVIOUS
        <4>2. CASE k = Len(q) + 1
          BY <3>1, <3>3, <3>4, <4>2
        <4>3. CASE l = Len(q) + 1
          BY <3>1, <3>3, <3>4, <4>3
        <4>4. CASE k \in 1 .. Len(q) /\ l \in 1 .. Len(q)
          BY <3>1, <4>1, <4>4
        <4> QED BY <3>3, <4>2, <4>3, <4>4
      <3>7. thread'[m] = "read" => /\ ds'[m] \in Awaited(m)' /\ ds'[m] \in Arrived(m)'
                                  /\ \A k \in 1 .. Len(r) : r[k] # ds'[m]
        <4> SUFFICES ASSUME thread[m] = "read"
                     PROVE ds[m] \in Awaited(m)' /\ ds[m] \in Arrived(m)' /\ \A k \in 1 .. Len(r) : r[k] # ds[m]
          BY <1>2
        <4>1. ds[m] # n
          BY <1>4, <2>4, <2>7
        <4> QED BY <2>4, <2>5, <3>1, <3>2, <3>3, <4>1
      <3> QED BY <2>1, <2>2, <2>3, <3>1, <3>5, <3>6, <3>7
    <2> QED BY <2>6, <2>7
  <1>12. Counted'
    BY <1>2, <1>8 DEF Accounted, Counted
  <1> QED BY <1>10, <1>11, <1>12 DEF Accounted

LEMMA SendCounts == ASSUME IInv, Accounted, NEW n \in Node, Send(n) PROVE Accounted'
  <1> DEFINE s == i[n]
  <1>1. s \in Nat /\ n \in Nat /\ s < n /\ main[n] = "send"
    BY Ids DEF Send, IInv, TypeOK, LoopsHold
  <1>2. /\ i' = [i EXCEPT ![n] = s + 1]
        /\ main' = [main EXCEPT ![n] = IF s + 1 < n THEN "connect" ELSE "join"]
        /\ UNCHANGED <<thread, left, ds, acc_, queue, tis>>
    BY DEF Send, LoopOrJoin, threadVars
  <1>3. i[n] = s
    OBVIOUS
  <1> HIDE DEF s
  <1>4. \A p, m \in Node : p \in Arrived(m)' <=> p \in Arrived(m)
    <2> SUFFICES ASSUME NEW p \in Node, NEW m \in Node PROVE p \in Arrived(m)' <=> p \in Arrived(m)
      OBVIOUS
    <2>1. CASE p # n
      BY <1>2, <2>1 DEF Arrived, IInv, TypeOK
    <2>2. CASE p = n
      <3>1. i'[n] = s + 1 /\ main'[n] # "send" /\ m \in Nat
        BY <1>2, Ids DEF IInv, TypeOK
      <3> QED BY <1>1, <1>3, <2>2, <3>1 DEF Arrived
    <2> QED BY <2>1, <2>2
  <1>5. \A m \in Node : Awaited(m)' = Awaited(m)
    BY <1>2 DEF Awaited
  <1>6. Outgoing'
    <2> SUFFICES ASSUME NEW m \in Node PROVE Outgoing!(m)'
      BY DEF Outgoing
    <2>1. \A p \in Node : p < m /\ m \in Arrived(p)' => tis'[m][p] # None
      BY <1>2, <1>4 DEF Accounted, Outgoing
    <2>2. main'[m] \in {"join", "returned"} => i'[m] = m
      BY <1>1, <1>2 DEF Accounted, Outgoing, IInv, TypeOK
    <2>3. main'[m] = "returned" => m = total_ - 1 \/ thread'[m] = "done"
      BY <1>2 DEF Accounted, Outgoing, IInv, TypeOK
    <2> QED BY <2>1, <2>2, <2>3
  <1>7. Incoming'
    <2> SUFFICES ASSUME NEW m \in Node PROVE Incoming!(m)'
      BY DEF Incoming
    <2>1. Incoming!(m)
      BY DEF Accounted, Incoming
    <2>2. \A p \in Awaited(m) : p \in Node /\ p \in Awaited(m)' /\ (p \in Arrived(m)' <=> p \in Arrived(m))
      BY <1>4, <1>5 DEF Awaited
    <2>3. main'[m] = "listen" => main[m] = "listen"
      BY <1>2 DEF IInv, TypeOK
    <2> QED BY <1>2, <1>4, <2>1, <2>2, <2>3
  <1>8. Counted'
    BY <1>2, <1>5 DEF Accounted, Counted
  <1> QED BY <1>6, <1>7, <1>8 DEF Accounted

LEMMA AcceptCounts == ASSUME IInv, Accounted, NEW n \in Node, Accept(n) PROVE Accounted'
  <1> DEFINE q == queue[n]
             r == Tail(q)
             h == Head(q)
  <1>1. /\ ds' = [ds EXCEPT ![n] = h]
        /\ queue' = [queue EXCEPT ![n] = r]
        /\ thread' = [thread EXCEPT ![n] = "read"]
        /\ thread[n] = "accept" /\ UNCHANGED <<main, i, left, acc_, tis>>
    BY DEF Accept, mainVars
  <1>2. /\ h = q[1] /\ 1 \in 1 .. Len(q) /\ Len(r) = Len(q) - 1 /\ Len(q) \in Nat
        /\ \A k \in 1 .. Len(r) : r[k] = q[k + 1] /\ k + 1 \in 1 .. Len(q) /\ k + 1 # 1
    <2>1. q \in Seq(Node) /\ q # <<>>
      BY DEF Accept, IInv, TypeOK
    <2>2. Len(q) \in Nat
      BY <2>1, LenProperties
    <2> HIDE DEF q
    <2> QED BY <2>1, <2>2, Beheaded
  <1>3. /\ \A k \in 1 .. Len(q) : q[k] \in Awaited(n) /\ q[k] \in Arrived(n)
        /\ \A k, l \in 1 .. Len(q) : k # l => q[k] # q[l]
    BY DEF Accounted, Incoming
  <1>4. q = queue[n]
    OBVIOUS
  <1> HIDE DEF q, r, h
  <1>5. \A m \in Node : Awaited(m)' = Awaited(m) /\ Arrived(m)' = Arrived(m)
    BY <1>1 DEF Awaited, Arrived
  <1>6. Outgoing'
    <2> SUFFICES ASSUME NEW m \in Node PROVE Outgoing!(m)'
      BY DEF Outgoing
    <2>1. \A p \in Node : p < m /\ m \in Arrived(p)' => tis'[m][p] # None
      BY <1>1, <1>5 DEF Accounted, Outgoing
    <2>2. main'[m] \in {"join", "returned"} => i'[m] = m
      BY <1>1 DEF Accounted, Outgoing
    <2>3. main'[m] = "returned" => m = total_ - 1 \/ thread'[m] = "done"
      BY <1>1 DEF Accounted, Outgoing, IInv, TypeOK
    <2> QED BY <2>1, <2>2, <2>3
  <1>7. Incoming'
    <2> SUFFICES ASSUME NEW m \in Node PROVE Incoming!(m)'
      BY DEF Incoming
    <2>1. Incoming!(m)
      BY DEF Accounted, Incoming
    <2>2. CASE m # n
      <3>1. queue'[m] = queue[m] /\ thread'[m] = thread[m] /\ ds'[m] = ds[m]
        BY <1>1, <2>2 DEF IInv, TypeOK
      <3> QED BY <1>1, <1>5, <2>1, <3>1
    <2>3. CASE m = n
      <3>1. queue'[m] = r /\ thread'[m] = "read" /\ ds'[m] = h
        BY <1>1, <2>3 DEF IInv, TypeOK
      <3>2. \A k \in 1 .. Len(r) : r[k] \in Awaited(m) /\ r[k] \in Arrived(m) /\ r[k] # h
        BY <1>2, <1>3, <2>3
      <3>3. \A k, l \in 1 .. Len(r) : k # l => r[k] # r[l]
        <4> SUFFICES ASSUME NEW k \in 1 .. Len(r), NEW l \in 1 .. Len(r), k # l PROVE r[k] # r[l]
          OBVIOUS
        <4>1. k + 1 # l + 1
          BY <1>2
        <4> QED BY <1>2, <1>3, <4>1
      <3>4. h \in Awaited(m) /\ h \in Arrived(m)
        BY <1>2, <1>3, <2>3
      <3>5. main[m] = "listen" => FALSE
        BY <1>1, <2>1, <2>3
      <3> QED BY <1>1, <1>5, <2>1, <3>1, <3>2, <3>3, <3>4, <3>5
    <2> QED BY <2>2, <2>3
  <1>8. Counted'
    BY <1>1, <1>5 DEF Accounted, Counted, IInv, TypeOK
  <1> QED BY <1>6, <1>7, <1>8 DEF Accounted

LEMMA ReadCounts == ASSUME IInv, Accounted, NEW n \in Node, Read(n) PROVE Accounted'
  <1> DEFINE c == ds[n]
  <1>1. thread[n] = "read" /\ c \in Node /\ c > n /\ c \in Arrived(n) /\ c \in Awaited(n)
        /\ c # None /\ \A k \in 1 .. Len(queue[n]) : queue[n][k] # c
    BY Ids DEF Read, Accounted, Incoming, Awaited
  <1>2. /\ tis' = [tis EXCEPT ![n][c] = c]
        /\ left' = [left EXCEPT ![n] = left[n] - 1]
        /\ thread' = [thread EXCEPT ![n] = IF left[n] = 1 THEN "done" ELSE "accept"]
        /\ UNCHANGED <<main, i, ds, acc_, queue>>
    <2>1. wire[c][n] \in Seq(Node) /\ \A k \in 1 .. Len(wire[c][n]) : wire[c][n][k] = c
      <3> HIDE DEF c
      <3>1. c \in Node
        BY <1>1
      <3> QED BY <3>1 DEF IInv, TypeOK, OwnIds
    <2>2. Head(wire[c][n]) = c
      <3>1. wire[c][n] # <<>>
        BY DEF Read
      <3> QED BY <2>1, <3>1, Beheaded
    <2> QED BY <2>2 DEF Read, mainVars
  <1> HIDE DEF c
  <1>3. \A m \in Node : Arrived(m)' = Arrived(m)
    BY <1>2 DEF Arrived
  <1>4. \A m, p \in Node : ~(m = n /\ p = c) => tis'[m][p] = tis[m][p]
    BY <1>1, <1>2 DEF IInv, TypeOK
  <1>5. tis'[n][c] = c
    BY <1>1, <1>2 DEF IInv, TypeOK
  <1>6. /\ \A m \in Node \ {n} : Awaited(m)' = Awaited(m)
        /\ Awaited(n)' = Awaited(n) \ {c}
    BY <1>1, <1>4, <1>5 DEF Awaited
  <1>7. Outgoing'
    <2> SUFFICES ASSUME NEW m \in Node PROVE Outgoing!(m)'
      BY DEF Outgoing
    <2>1. \A p \in Node : p < m /\ m \in Arrived(p)' => tis'[m][p] # None
      BY <1>1, <1>3, <1>4, <1>5 DEF Accounted, Outgoing
    <2>2. main'[m] \in {"join", "returned"} => i'[m] = m
      BY <1>2 DEF Accounted, Outgoing
    <2>3. main'[m] = "returned" => m = total_ - 1 \/ thread'[m] = "done"
      BY <1>1, <1>2 DEF Accounted, Outgoing, IInv, TypeOK
    <2> QED BY <2>1, <2>2, <2>3
  <1>8. Incoming'
    <2> SUFFICES ASSUME NEW m \in Node PROVE Incoming!(m)'
      BY DEF Incoming
    <2>1. Incoming!(m)
      BY DEF Accounted, Incoming
    <2>2. CASE m # n
      <3>1. thread'[m] = thread[m] /\ Awaited(m)' = Awaited(m)
            /\ \A p \in Node : tis'[m][p] = tis[m][p]
        BY <1>2, <1>4, <1>6, <2>2 DEF IInv, TypeOK
      <3> QED BY <1>2, <1>3, <2>1, <3>1
    <2>3. CASE m = n
      <3>1. thread'[m] \in {"done", "accept"}
        BY <1>2, <2>3 DEF IInv, TypeOK
      <3>2. \A p \in Node : p > m /\ p \notin Arrived(m) => tis'[m][p] = None
        BY <1>1, <1>4, <2>1, <2>3
      <3>3. \A k \in 1 .. Len(queue[m]) : queue[m][k] \in Awaited(m)'
        BY <1>1, <1>6, <2>1, <2>3
      <3>4. main[m] # "listen"
        BY <1>1, <2>1, <2>3
      <3> QED BY <1>2, <1>3, <2>1, <3>1, <3>2, <3>3, <3>4
    <2> QED BY <2>2, <2>3
  <1>9. Counted'
    <2>1. left[n] = Cardinality(Awaited(n)) /\ left[n] \in Nat
      BY <1>1, AwaitedFinite DEF Accounted, Counted
    <2>2. Cardinality(Awaited(n)') = left[n] - 1
      BY <1>1, <1>6, <2>1, AwaitedFinite, FS_RemoveElement
    <2> SUFFICES ASSUME NEW m \in Node PROVE Counted!(m)'
      BY DEF Counted
    <2>3. CASE m = n
      <3>1. left'[m] = left[n] - 1 /\ (thread'[m] = "done" => left[n] = 1)
        BY <1>2, <2>3 DEF IInv, TypeOK
      <3> QED BY <2>1, <2>2, <2>3, <3>1
    <2>4. CASE m # n
      <3>1. thread'[m] = thread[m] /\ Awaited(m)' = Awaited(m) /\ left'[m] = left[m]
        BY <1>2, <1>6, <2>4 DEF IInv, TypeOK
      <3> QED BY <3>1 DEF Accounted, Counted
    <2> QED BY <2>3, <2>4
  <1> QED BY <1>7, <1>8, <1>9 DEF Accounted

LEMMA JoinCounts == ASSUME IInv, Accounted, NEW n \in Node, Join(n) PROVE Accounted'
  <1>1. /\ main' = [main EXCEPT ![n] = "returned"] /\ main[n] = "join"
        /\ n = total_ - 1 \/ thread[n] = "done"
        /\ UNCHANGED <<i, thread, left, ds, acc_, queue, tis>>
    BY DEF Join, threadVars
  <1>2. \A m \in Node : Awaited(m)' = Awaited(m)
    BY <1>1 DEF Awaited
  <1>3. \A m \in Node : Arrived(m)' = Arrived(m)
    BY <1>1 DEF Arrived, IInv, TypeOK
  <1>4. Outgoing'
    <2> SUFFICES ASSUME NEW m \in Node PROVE Outgoing!(m)'
      BY DEF Outgoing
    <2>1. \A p \in Node : p < m /\ m \in Arrived(p)' => tis'[m][p] # None
      BY <1>1, <1>3 DEF Accounted, Outgoing
    <2>2. main'[m] \in {"join", "returned"} => i'[m] = m
      BY <1>1 DEF Accounted, Outgoing, IInv, TypeOK
    <2>3. main'[m] = "returned" => m = total_ - 1 \/ thread'[m] = "done"
      BY <1>1 DEF Accounted, Outgoing, IInv, TypeOK
    <2> QED BY <2>1, <2>2, <2>3
  <1>5. Incoming'
    <2> SUFFICES ASSUME NEW m \in Node PROVE Incoming!(m)'
      BY DEF Incoming
    <2>1. Incoming!(m) /\ (main'[m] = "listen" => main[m] = "listen")
      BY <1>1 DEF Accounted, Incoming, IInv, TypeOK
    <2> QED BY <1>1, <1>2, <1>3, <2>1
  <1>6. Counted'
    BY <1>1, <1>2 DEF Accounted, Counted
  <1> QED BY <1>4, <1>5, <1>6 DEF Accounted

(* A node has left its loop with all sockets to smaller ids; its thread    *)
(* has ended with none left to wait for.                                   *)
LEMMA CompleteWhenReturned == Accounted => ReturnedComplete
  <1> SUFFICES ASSUME Accounted, NEW n \in Node, main[n] = "returned", NEW p \in Node \ {n}
               PROVE tis[n][p] # None
    BY DEF ReturnedComplete
  <1>1. n \in Nat /\ p \in Nat /\ p # n /\ p <= total_ - 1
    BY Ids, TotalAssumption
  <1>2. CASE p < n
    <2>1. n \in Arrived(p)
      BY <1>2 DEF Accounted, Outgoing, Arrived
    <2> QED BY <1>2, <2>1 DEF Accounted, Outgoing
  <1>3. CASE n < p
    <2>1. thread[n] = "done"
      BY <1>1, <1>3, TotalAssumption DEF Accounted, Outgoing
    <2>2. Awaited(n) = {}
      BY <2>1, AwaitedFinite, FS_EmptySet DEF Accounted, Counted
    <2> QED BY <1>3, <2>2 DEF Awaited
  <1> QED BY <1>1, <1>2, <1>3

(* For any number of nodes: a node whose Connect has returned has a socket *)
(* to each of the others, in whatever order they were started, connected   *)
(* and were accepted.                                                      *)
THEOREM SocketsComplete == Spec => []ReturnedComplete
  <1>1. IInv /\ Accounted /\ [Next]_vars => Accounted'
    <2> SUFFICES ASSUME IInv, Accounted, [Next]_vars PROVE Accounted'
      OBVIOUS
    <2>1. ASSUME NEW n \in Node, Main(n) PROVE Accounted'
      BY <2>1, ListenCounts, ConnectCounts, SendCounts, JoinCounts DEF Main
    <2>2. ASSUME NEW n \in Node, ReceiveThread(n) PROVE Accounted'
      BY <2>2, AcceptCounts, ReadCounts DEF ReceiveThread
    <2>3. CASE UNCHANGED vars
      BY <2>3 DEF vars, mainVars, threadVars, Accounted, Outgoing, Incoming, Counted, Arrived, Awaited
    <2> QED BY <2>1, <2>2, <2>3 DEF Next
  <1> QED BY <1>1, Invariance, AccountedInit, CompleteWhenReturned, PTL DEF Spec
=============================================================================
