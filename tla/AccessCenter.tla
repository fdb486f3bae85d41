----------------------------- MODULE AccessCenter -----------------------------
(***************************************************************************)
(* How the nodes get their sockets (AccessCenter::Connect,                 *)
(* src/src/data/access/access_center.cc:18-45).  A node listens, and a     *)
(* thread of its own accepts whoever has a bigger id, while the node       *)
(* connects to everyone with a smaller one and tells them its id.  A socket*)
(* is named by the node at its other end.                                  *)
(***************************************************************************)
EXTENDS Integers, Sequences

CONSTANTS total_,  \* the number of nodes, the master (0) included
          Backlog  \* connections a listening socket holds for accept()

ASSUME TotalAssumption == total_ \in Nat \ {0, 1}
ASSUME BacklogAssumption == Backlog \in Nat \ {0}

Node == 0 .. total_ - 1
None == total_

VARIABLES main,     \* where Connect is
          i,        \* its loop over the smaller ids
          thread,   \* where the receive thread is
          left,     \* connections it has yet to accept
          ds,       \* the one it has accepted last
          acc_,     \* nodes that listen
          queue,    \* connections no one has accepted yet
          wire,     \* wire[c][s]: what c has sent to s and s has not read
          tis       \* tis[n][p]: the socket n uses for p

mainVars == <<main, i>>
threadVars == <<thread, left, ds>>
vars == <<mainVars, threadVars, acc_, queue, wire, tis>>

LoopOrJoin(n, k) == IF k < n THEN "connect" ELSE "join"

Init ==
  /\ main = [n \in Node |-> "listen"]
  /\ i = [n \in Node |-> 0]
  /\ thread = [n \in Node |-> "off"]
  /\ left = [n \in Node |-> 0]
  /\ ds = [n \in Node |-> None]
  /\ acc_ = {}
  /\ queue = [n \in Node |-> <<>>]
  /\ wire = [c \in Node |-> [s \in Node |-> <<>>]]
  /\ tis = [n \in Node |-> [p \in Node |-> None]]

-----------------------------------------------------------------------------
(* The last node has nobody to wait for.                                   *)
Listen(n) ==
  /\ main[n] = "listen"
  /\ main' = [main EXCEPT ![n] = LoopOrJoin(n, 0)]
  /\ IF n = total_ - 1 THEN UNCHANGED <<acc_, threadVars>>
     ELSE /\ acc_' = acc_ \cup {n}
          /\ thread' = [thread EXCEPT ![n] = "accept"]
          /\ left' = [left EXCEPT ![n] = total_ - 1 - n]
          /\ UNCHANGED ds
  /\ UNCHANGED <<i, queue, wire, tis>>

(* ConnectionSolver's loop ends when connect() succeeds.                   *)
Connect(n) ==
  LET s == i[n] IN
  /\ main[n] = "connect"
  /\ s \in acc_ /\ Len(queue[s]) < Backlog
  /\ queue' = [queue EXCEPT ![s] = Append(@, n)]
  /\ tis' = [tis EXCEPT ![n][s] = s]
  /\ main' = [main EXCEPT ![n] = "send"]
  /\ UNCHANGED <<i, threadVars, acc_, wire>>

(* Seeded fault: a node sends the id of its peer. *)
SendPeer(n) ==
  /\ main[n] = "send"
  /\ wire' = [wire EXCEPT ![n][i[n]] = Append(@, i[n])]
  /\ i' = [i EXCEPT ![n] = @ + 1]
  /\ main' = [main EXCEPT ![n] = LoopOrJoin(n, i[n] + 1)]
  /\ UNCHANGED <<threadVars, acc_, queue, tis>>

Send(n) ==
  /\ main[n] = "send"
  /\ wire' = [wire EXCEPT ![n][i[n]] = Append(@, n)]
  /\ i' = [i EXCEPT ![n] = @ + 1]
  /\ main' = [main EXCEPT ![n] = LoopOrJoin(n, i[n] + 1)]
  /\ UNCHANGED <<threadVars, acc_, queue, tis>>

Accept(n) ==
  /\ thread[n] = "accept" /\ queue[n] # <<>>
  /\ ds' = [ds EXCEPT ![n] = Head(queue[n])]
  /\ queue' = [queue EXCEPT ![n] = Tail(@)]
  /\ thread' = [thread EXCEPT ![n] = "read"]
  /\ UNCHANGED <<mainVars, left, acc_, wire, tis>>

(* Seeded fault: the loop of the thread runs once more. *)
ReadOneMore(n) ==
  LET c == ds[n] IN
  /\ thread[n] = "read" /\ wire[c][n] # <<>>
  /\ tis' = [tis EXCEPT ![n][Head(wire[c][n])] = c]
  /\ wire' = [wire EXCEPT ![c][n] = Tail(@)]
  /\ left' = [left EXCEPT ![n] = @ - 1]
  /\ thread' = [thread EXCEPT ![n] = IF left[n] = 0 THEN "done" ELSE "accept"]
  /\ UNCHANGED <<mainVars, ds, acc_, queue>>

Read(n) ==
  LET c == ds[n] IN
  /\ thread[n] = "read" /\ wire[c][n] # <<>>
  /\ tis' = [tis EXCEPT ![n][Head(wire[c][n])] = c]
  /\ wire' = [wire EXCEPT ![c][n] = Tail(@)]
  /\ left' = [left EXCEPT ![n] = @ - 1]
  /\ thread' = [thread EXCEPT ![n] = IF left[n] = 1 THEN "done" ELSE "accept"]
  /\ UNCHANGED <<mainVars, ds, acc_, queue>>

(* Seeded fault: the thread is detached. *)
JoinNobody(n) ==
  /\ main[n] = "join"
  /\ main' = [main EXCEPT ![n] = "returned"]
  /\ UNCHANGED <<i, threadVars, acc_, queue, wire, tis>>

Join(n) ==
  /\ main[n] = "join"
  /\ n = total_ - 1 \/ thread[n] = "done"
  /\ main' = [main EXCEPT ![n] = "returned"]
  /\ UNCHANGED <<i, threadVars, acc_, queue, wire, tis>>

Main(n) == Listen(n) \/ Connect(n) \/ Send(n) \/ Join(n)
ReceiveThread(n) == Accept(n) \/ Read(n)
AllReturned == \A n \in Node : main[n] = "returned"
Next == \E n \in Node : Main(n) \/ ReceiveThread(n)

Spec == Init /\ [][Next]_vars
(* The scheduler runs every thread that can go on.                         *)
FairSpec == Spec /\ \A n \in Node : WF_vars(Main(n)) /\ WF_vars(ReceiveThread(n))

-----------------------------------------------------------------------------
(* Every variable keeps its range; a listening socket holds no more than   *)
(* its backlog.                                                            *)
TypeOK ==
  /\ main \in [Node -> {"listen", "connect", "send", "join", "returned"}]
  /\ i \in [Node -> Node]
  /\ thread \in [Node -> {"off", "accept", "read", "done"}]
  /\ left \in [Node -> Node]
  /\ ds \in [Node -> Node \cup {None}]
  /\ acc_ \subseteq Node
  /\ queue \in [Node -> Seq(Node)] /\ \A n \in Node : Len(queue[n]) <= Backlog
  /\ wire \in [Node -> [Node -> Seq(Node)]]
  /\ tis \in [Node -> [Node -> Node \cup {None}]]

(* What a node has under p is a socket to p, though sockets are accepted in*)
(* any order and named by a message: tis[client_id] of line 32.            *)
RightPeer == \A n, p \in Node : tis[n][p] \in {None, p}

(* Once Connect has returned, a socket to everyone else is there, so that  *)
(* no Send and no Receive meets an empty tis.                              *)
ReturnedComplete == \A n \in Node : main[n] = "returned" =>
  \A p \in Node \ {n} : tis[n][p] # None

(* All calls of Connect return, in whatever order the nodes are started.   *)
AllConnect == <>AllReturned
=============================================================================
