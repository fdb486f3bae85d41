--------------------------------- MODULE PPR ---------------------------------
(***************************************************************************)
(* PPR: a repair in rounds, in each of which pairs of nodes add up what    *)
(* they have (src/src/task/algorithm/ppr.cc, the algorithm 'j').  The best *)
(* k / 2 helpers and the requestor receive in the first round; those who   *)
(* have received are paired in the next rounds until the requestor is left.*)
(* A turn of the while loop is a step.  Nodes are numbered from 0, as in   *)
(* CalculateRoute, and from 1 in FillTask.                                 *)
(***************************************************************************)
EXTENDS Integers, SequencesExt

CONSTANTS n_, k_, \* nodes of a stripe, helpers of a repair
          rid,    \* the requestor, numbered from 1
          Rates,  \* pairs <<upload, download>> a helper may have
          min_bw_,
          kFullBandwidth

ASSUME CodeAssumption == n_ \in Nat /\ k_ \in 1 .. n_ - 1 /\ rid \in 1 .. n_
ASSUME RateAssumption == /\ Rates \subseteq Nat \X Nat /\ min_bw_ \in Nat \ {0}
                         /\ kFullBandwidth \in Nat /\ kFullBandwidth >= min_bw_

Node == 0 .. n_ - 1
Requestor == rid - 1
Helper == Node \ {Requestor}
NoTarget == n_

VARIABLES pc,
          upload, download, \* the row, with the requestor's rates set by SetFull
          remains,      \* nodes with something yet to pass on, and the requestor
          task_groups_, \* for each round the target of each node, or NoTarget
          min_caps      \* what each round carries: capacity_ is 1 / (sum of 1 / min_cap)

bwVars == <<upload, download>>
vars == <<pc, bwVars, remains, task_groups_, min_caps>>

Lower(x, y) == IF x < y THEN x ELSE y
min_uds(x) == Lower(upload[x], download[x])
Usable(x) == x = Requestor \/ min_uds(x) >= min_bw_
Up(x) == IF Usable(x) THEN upload[x] ELSE 0
Down(x) == IF Usable(x) THEN download[x] ELSE 0

Init == /\ pc = "select"
        /\ \E rates \in [Helper -> Rates] :
             /\ upload = [x \in Node |-> IF x = Requestor THEN 0 ELSE rates[x][1]]
             /\ download = [x \in Node |-> IF x = Requestor THEN kFullBandwidth
                                          ELSE rates[x][2]]
        /\ remains = <<>> /\ task_groups_ = <<>> /\ min_caps = <<>>

-----------------------------------------------------------------------------
(* The comparisons of the two sorts.                                       *)
Weaker(x, y) == IF min_uds(x) = min_uds(y) THEN x > y ELSE min_uds(x) < min_uds(y)
StrongerUp(x, y) == IF Up(x) = Up(y) THEN x < y ELSE Up(x) > Up(y)

(* std::sort under an order that tells all nodes apart.                    *)
Ordered(S, Before(_, _)) ==
  [p \in 1 .. Cardinality(S) |-> CHOOSE x \in S : Cardinality({y \in S : Before(y, x)}) = p - 1]

(* Lines 69-80: the best k / 2 helpers, the best first, and the requestor. *)
SelectInter ==
  /\ pc = "select"
  /\ remains' = Append(SubSeq(Reverse(Ordered(Helper, Weaker)), 1, k_ \div 2), Requestor)
  /\ pc' = "first"
  /\ UNCHANGED <<bwVars, task_groups_, min_caps>>

(* A round in which from[p] sends to to[p]; a receiver is its own target.  *)
Layer(from, to) ==
  [x \in Node |-> IF \E p \in DOMAIN from : x \in {from[p], to[p]}
                  THEN to[CHOOSE p \in DOMAIN from : x \in {from[p], to[p]}]
                  ELSE NoTarget]

(* Seeded fault: the downloads of the receivers are not looked at. *)
LowestUp(from, to) ==
  LET caps == {Up(from[p]) : p \in DOMAIN from}
  IN CHOOSE c \in caps : \A d \in caps : c <= d

Lowest(from, to) ==
  LET caps == {Up(from[p]) : p \in DOMAIN from} \cup {Down(to[p]) : p \in DOMAIN to}
  IN CHOOSE c \in caps : \A d \in caps : c <= d

(* A round through which nothing can go ends the calculation with no group.*)
GiveUp == /\ task_groups_' = <<>> /\ min_caps' = <<>>
          /\ pc' = "done"
          /\ UNCHANGED <<bwVars, remains>>
Add(from, to, rest) ==
  /\ task_groups_' = Append(task_groups_, Layer(from, to))
  /\ min_caps' = Append(min_caps, Lowest(from, to))
  /\ remains' = rest
  /\ pc' = IF Len(rest) > 1 THEN "next" ELSE "done"
  /\ UNCHANGED bwVars
AddLayer(from, to, rest) == IF Lowest(from, to) = 0 THEN GiveUp ELSE Add(from, to, rest)

(* Lines 81-104: the (k + 1) / 2 best uploads of the others start.         *)
FirstLayer ==
  LET half == (k_ + 1) \div 2
      others == Ordered(Helper \ ToSet(remains), StrongerUp)
  IN pc = "first" /\ AddLayer(SubSeq(others, 1, half), SubSeq(remains, 1, half), remains)

At(parity) == [p \in 1 .. Len(remains) \div 2 |-> remains[2 * p - parity]]

(* Seeded fault: the odd one is erased with the senders. *)
NextLayerShort == pc = "next" /\ AddLayer(At(1), At(0), At(0))

(* Lines 106-129: the nodes are paired and the senders erased; an odd one, *)
(* the requestor, waits for the next round.                                *)
NextLayer ==
  /\ pc = "next"
  /\ AddLayer(At(1), At(0), IF Len(remains) % 2 = 1 THEN Append(At(0), Last(remains)) ELSE At(0))

Next == SelectInter \/ FirstLayer \/ NextLayer
Spec == Init /\ [][Next]_vars

-----------------------------------------------------------------------------
(* FillTask of group g: the target of node x + 1, and its sources, of      *)
(* which the code looks for the first only.                                *)
Chosen(g) == {x \in Node : task_groups_[g][x] # NoTarget}
tar_id(g, x) == task_groups_[g][x] + 1
src_ids(g, x) ==
  LET senders == {y \in Node \ {x} : task_groups_[g][y] = x}
  IN IF tar_id(g, x) # x + 1 \/ senders = {} THEN {}
     ELSE {CHOOSE y \in senders : \A z \in senders : y <= z}

-----------------------------------------------------------------------------
(* Rounds, nodes and rates keep their ranges, and every round has its rate.*)
TypeOK ==
  /\ pc \in {"select", "first", "next", "done"}
  /\ upload \in [Node -> Nat] /\ download \in [Node -> Nat]
  /\ remains \in Seq(Node) /\ Len(remains) <= k_ \div 2 + 1
  /\ task_groups_ \in Seq([Node -> Node \cup {NoTarget}])
  /\ min_caps \in Seq(Nat) /\ Len(min_caps) = Len(task_groups_)

(* How often the block of each helper is in what a node has: at first its   *)
(* own, and after round r what its source had too.                         *)
Own == [x \in Node |-> [y \in Node |-> IF x = y /\ x # Requestor THEN 1 ELSE 0]]
Passed(held, r) == [x \in Node |-> [y \in Node |->
  held[x][y] + IF src_ids(r, x) = {} THEN 0
               ELSE held[CHOOSE z \in src_ids(r, x) : TRUE][y]]]
Held[r \in 0 .. Len(task_groups_)] == IF r = 0 THEN Own ELSE Passed(Held[r - 1], r)

(* After the last round the requestor has the blocks of k helpers, each    *)
(* once: nobody passes on a sum before it is complete, or twice, and no    *)
(* block is left behind.                                                   *)
EachBlockOnce == pc = "done" /\ task_groups_ # <<>> =>
  LET got == Held[Len(task_groups_)][Requestor]
  IN /\ \A y \in Node : got[y] \in {0, 1}
     /\ Cardinality({y \in Node : got[y] = 1}) = k_

(* A round goes no faster than its nodes, none of which is below min_bw_.  *)
RatesHold == \A g \in DOMAIN task_groups_ : \A x \in Chosen(g) :
  /\ min_caps[g] >= min_bw_
  /\ IF tar_id(g, x) = x + 1 THEN download[x] >= min_caps[g] ELSE upload[x] >= min_caps[g]
=============================================================================
