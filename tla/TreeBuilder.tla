----------------------------- MODULE TreeBuilder -----------------------------
(***************************************************************************)
(* TreeBuilder::build_repairing_tree, the algorithm of PivotRepair         *)
(* (src/src/task/algorithm/old_alg/tree_builder.cc:111-208).               *)
(*                                                                         *)
(* Node 0 stands for the requestor, whose id is fail_node.  The helpers    *)
(* are sorted by the smaller of their rates, the first k are inserted one  *)
(* by one under the node that can best take a child, and at last the leaves*)
(* give their places to the nodes with the best uploads.  Each turn of a   *)
(* loop is a step.  Sorting and the priority queue may put nodes that      *)
(* compare as equal in any order.  Rates are integers that all divisors    *)
(* the algorithm uses divide, in the place of double.                      *)
(***************************************************************************)
EXTENDS Integers, Sequences, FiniteSets

CONSTANTS rs_n_, rs_k_, \* nodes of a stripe, helpers of a repair
          fail_node,
          Rates,
          BW_CEILING    \* rdownload, both rates of node 0

ASSUME CodeAssumption == /\ rs_k_ \in Nat \ {0} /\ rs_n_ \in Nat /\ rs_k_ < rs_n_
                         /\ fail_node \in 1 .. rs_n_
ASSUME RateAssumption == /\ Rates \subseteq Nat /\ BW_CEILING \in Nat
                         /\ \A r \in Rates \cup {BW_CEILING} : r <= BW_CEILING
ASSUME DivisionAssumption ==
  \A r \in Rates \cup {BW_CEILING} : \A c \in 1 .. rs_k_ + 1 : r % c = 0

Helper == (1 .. rs_n_) \ {fail_node}
TreeNode == Helper \cup {0}

VARIABLES pc,
          upload, download,
          candidate,      \* a permutation of the helpers
          i, max_leaf_index,
          father, children, if_insert, avg_downlink,
          nonleaf_queue,  \* what the priority queue holds
          selected,
          min_non_leaf,
          weak_leafnodes, unused_strong_nodes,
          result

bwVars == <<upload, download>>
treeVars == <<father, children, if_insert, avg_downlink>>
vars == <<pc, bwVars, candidate, i, max_leaf_index, treeVars, nonleaf_queue, selected,
          min_non_leaf, weak_leafnodes, unused_strong_nodes, result>>

Lower(x, y) == IF x < y THEN x ELSE y
theoretical_bw(x) == Lower(upload[x], download[x])
Infinite == 100 * BW_CEILING \* 1e8
NoResult == -1

(* The preparation, lines 117-129, with the rates of copy_bandwidth.       *)
Prepared(up, down) ==
  /\ pc = "sort"
  /\ upload = [x \in TreeNode |-> IF x = 0 THEN BW_CEILING ELSE up[x]]
  /\ download = [x \in TreeNode |-> IF x = 0 THEN BW_CEILING ELSE down[x]]
  /\ candidate = <<>> /\ i = 0 /\ max_leaf_index = 0
  /\ father = [x \in TreeNode |-> -1]
  /\ children = [x \in TreeNode |-> {}]
  /\ if_insert = [x \in TreeNode |-> theoretical_bw(x)]
  /\ avg_downlink = [x \in TreeNode |-> 0]
  /\ nonleaf_queue = {0}
  /\ selected = {}
  /\ min_non_leaf = Infinite
  /\ weak_leafnodes = {} /\ unused_strong_nodes = <<>>
  /\ result = NoResult

-----------------------------------------------------------------------------
(* What std::sort may make of S: no later element goes before an earlier.  *)
Sorted(S, Before(_, _)) ==
  {s \in [1 .. Cardinality(S) -> S] :
     /\ \A x \in S : \E a \in DOMAIN s : s[a] = x
     /\ \A a, b \in DOMAIN s : a < b => ~Before(s[b], s[a])}

(* The elements of S as they follow one another in s.                      *)
InOrderOf(s, S) ==
  LET Earlier(x, y) == \E a, b \in DOMAIN s : a < b /\ s[a] = x /\ s[b] = y
  IN Sorted(S, Earlier)

ByTheoreticalBw(x, y) ==
  \/ theoretical_bw(x) > theoretical_bw(y)
  \/ /\ theoretical_bw(x) = theoretical_bw(y)
     /\ \/ download[x] > download[y]
        \/ download[x] = download[y] /\ upload[x] > upload[y]

(* Seeded fault: leaves are compared by what they could do as fathers. *)
ByUploadAndDownload(x, y) == theoretical_bw(x) > theoretical_bw(y)

ByUpload(x, y) == upload[x] > upload[y]

SortCandidates ==
  /\ pc = "sort"
  /\ candidate' \in Sorted(Helper, ByTheoreticalBw)
  /\ pc' = "insert"
  /\ UNCHANGED <<bwVars, i, max_leaf_index, treeVars, nonleaf_queue, selected,
                 min_non_leaf, weak_leafnodes, unused_strong_nodes, result>>

(* if_insert_cmp; the top is a node that is below no other.                *)
Below(x, y) == \/ if_insert[x] < if_insert[y]
               \/ if_insert[x] = if_insert[y] /\ avg_downlink[x] < avg_downlink[y]
Tops == {x \in nonleaf_queue : \A y \in nonleaf_queue : ~Below(x, y)}

(* TreeNode::add_child.                                                    *)
AddChild(f, x) ==
  LET c == Cardinality(children[f]) + 1 IN
  /\ children' = [children EXCEPT ![f] = @ \cup {x}]
  /\ father' = [father EXCEPT ![x] = f]
  /\ avg_downlink' = [avg_downlink EXCEPT ![f] =
                        IF upload[f] > if_insert[f] THEN if_insert[f] ELSE download[f] \div c]
  /\ if_insert' = [if_insert EXCEPT ![f] = Lower(upload[f], download[f] \div (c + 1))]

(* One turn of the loop of lines 157-174.                                  *)
InsertUnder(top, max_leaf, keep) ==
  LET f == IF keep THEN top ELSE max_leaf IN
  /\ max_leaf_index' = IF keep THEN max_leaf_index ELSE max_leaf_index + 1
  /\ min_non_leaf' = Lower(min_non_leaf, if_insert[f])
  /\ AddChild(f, candidate[i + 1])
  /\ nonleaf_queue' = nonleaf_queue \cup {f}
  /\ selected' = selected \cup {candidate[i + 1]}
  /\ i' = i + 1
  /\ pc' = IF i + 1 = rs_k_ THEN "leaves" ELSE "insert"
  /\ UNCHANGED <<bwVars, candidate, weak_leafnodes, unused_strong_nodes, result>>

Insert ==
  /\ pc = "insert"
  /\ \E top \in Tops :
       LET max_leaf == candidate[max_leaf_index + 1]
       IN InsertUnder(top, max_leaf, i = 0 \/ if_insert[top] >= if_insert[max_leaf])

-----------------------------------------------------------------------------
leaf_num == rs_k_ - max_leaf_index
leaf_nodes == SubSeq(candidate, max_leaf_index + 1, Len(candidate))
Elements(s) == {s[a] : a \in DOMAIN s}
FirstLeaves == SubSeq(leaf_nodes, 1, leaf_num)

(* Seeded fault: whatever was left of the helpers may replace a leaf. *)
SortLeavesAllUnused ==
  /\ pc = "leaves"
  /\ \E s \in Sorted(Elements(leaf_nodes), ByUpload) :
       LET best == SubSeq(s, 1, leaf_num)
       IN /\ candidate' = SubSeq(candidate, 1, max_leaf_index) \o s
          /\ weak_leafnodes' = Elements(FirstLeaves) \ Elements(best)
          /\ unused_strong_nodes' \in InOrderOf(s, Elements(s) \ selected)
  /\ pc' = "replace"
  /\ UNCHANGED <<bwVars, i, max_leaf_index, treeVars, nonleaf_queue, selected,
                 min_non_leaf, result>>

(* Lines 179-197: the leaves of the tree, and what is left of the helpers, *)
(* are sorted by upload.                                                   *)
SortLeaves ==
  /\ pc = "leaves"
  /\ \E s \in Sorted(Elements(leaf_nodes), ByUpload) :
       LET best == SubSeq(s, 1, leaf_num)
       IN /\ candidate' = SubSeq(candidate, 1, max_leaf_index) \o s
          /\ weak_leafnodes' = Elements(FirstLeaves) \ Elements(best)
          /\ unused_strong_nodes' \in InOrderOf(s, Elements(best) \ selected)
  /\ pc' = "replace"
  /\ UNCHANGED <<bwVars, i, max_leaf_index, treeVars, nonleaf_queue, selected,
                 min_non_leaf, result>>

(* Seeded fault: the weak leaf stays selected. *)
ReplaceKeep == \E w \in weak_leafnodes :
  LET x == Head(unused_strong_nodes)  f == father[w] IN
  /\ pc = "replace"
  /\ weak_leafnodes' = weak_leafnodes \ {w}
  /\ unused_strong_nodes' = Tail(unused_strong_nodes)
  /\ selected' = selected \cup {x}
  /\ father' = [father EXCEPT ![w] = -1, ![x] = f]
  /\ children' = [children EXCEPT ![f] = (@ \ {w}) \cup {x}]
  /\ UNCHANGED <<pc, bwVars, candidate, i, max_leaf_index, if_insert, avg_downlink,
                 nonleaf_queue, min_non_leaf, result>>

(* One turn of lines 196-206, TreeNode::update_child included; an          *)
(* unordered_set is walked in any order.                                   *)
Replace == \E w \in weak_leafnodes :
  LET x == Head(unused_strong_nodes)  f == father[w] IN
  /\ pc = "replace"
  /\ weak_leafnodes' = weak_leafnodes \ {w}
  /\ unused_strong_nodes' = Tail(unused_strong_nodes)
  /\ selected' = (selected \ {w}) \cup {x}
  /\ father' = [father EXCEPT ![w] = -1, ![x] = f]
  /\ children' = [children EXCEPT ![f] = (@ \ {w}) \cup {x}]
  /\ UNCHANGED <<pc, bwVars, candidate, i, max_leaf_index, if_insert, avg_downlink,
                 nonleaf_queue, min_non_leaf, result>>

(* Seeded fault: the uploads of the leaves are left out. *)
ReturnNonLeaf ==
  /\ pc = "replace" /\ weak_leafnodes = {}
  /\ pc' = "built"
  /\ result' = min_non_leaf
  /\ UNCHANGED <<bwVars, candidate, i, max_leaf_index, treeVars, nonleaf_queue, selected,
                 min_non_leaf, weak_leafnodes, unused_strong_nodes>>

Return ==
  /\ pc = "replace" /\ weak_leafnodes = {}
  /\ pc' = "built"
  /\ result' = Lower(min_non_leaf, upload[leaf_nodes[leaf_num]])
  /\ UNCHANGED <<bwVars, candidate, i, max_leaf_index, treeVars, nonleaf_queue, selected,
                 min_non_leaf, weak_leafnodes, unused_strong_nodes>>

Init == \E up, down \in [Helper -> Rates] : Prepared(up, down)
Next == SortCandidates \/ Insert \/ SortLeaves \/ Replace \/ Return
Spec == Init /\ [][Next]_vars

-----------------------------------------------------------------------------
(* Reference: what any tree over S, given by fathers f, carries.  The      *)
(* fathers lead to node 0 if no nodes have their fathers among themselves. *)
Connected(S, f) == /\ \A x \in S : f[x] \in S \cup {0}
                   /\ \A T \in (SUBSET S) \ {{}} : \E x \in T : f[x] \notin T
Carries(S, f, rate) == \A x \in S :
  /\ rate <= upload[x]
  /\ rate * Cardinality({y \in S : f[y] = f[x]}) <= download[f[x]]

(* The queues, indices and links stay what they are declared to be.        *)
TypeOK ==
  /\ pc \in {"sort", "insert", "leaves", "replace", "built"}
  /\ upload \in [TreeNode -> Nat] /\ download \in [TreeNode -> Nat]
  /\ candidate \in Seq(Helper) /\ Len(candidate) \in {0, rs_n_ - 1}
  /\ i \in 0 .. rs_k_ /\ max_leaf_index \in 0 .. rs_k_ - 1
  /\ father \in [TreeNode -> TreeNode \cup {-1}] /\ children \in [TreeNode -> SUBSET Helper]
  /\ if_insert \in [TreeNode -> Nat] /\ avg_downlink \in [TreeNode -> Nat]
  /\ nonleaf_queue \subseteq TreeNode /\ selected \subseteq Helper
  /\ min_non_leaf \in Nat
  /\ weak_leafnodes \subseteq Helper /\ unused_strong_nodes \in Seq(Helper)
  /\ result \in Nat \cup {NoResult}

(* No tree over any k helpers carries more: the greedy choice of fathers   *)
(* and the replacement of the leaves lose nothing, although the result is  *)
(* put together from rates met before the leaves were replaced.            *)
NoBetterTree ==
  \A S \in {T \in SUBSET Helper : Cardinality(T) = rs_k_} :
    \A f \in [S -> S \cup {0}] : Carries(S, f, result + 1) => ~Connected(S, f)

(* build_repairing_tree returns the best tree there is; that it is this    *)
(* algorithm that has built one is told by i.                              *)
Optimal == pc = "built" /\ i = rs_k_ => NoBetterTree

(* Whatever the algorithm, it leaves a tree of k helpers below the         *)
(* requestor that carries the bandwidth returned with it.                  *)
Sound == pc = "built" /\ result > 0 =>
  /\ Cardinality(selected) = rs_k_
  /\ Connected(selected, father)
  /\ Carries(selected, father, result)

(* There is an unused strong node for every weak leaf: front() and pop()   *)
(* of lines 200-203 are never called on an empty queue, and none is left.  *)
EnoughStrong == Cardinality(weak_leafnodes) = Len(unused_strong_nodes)
=============================================================================
