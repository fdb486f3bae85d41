------------------------------ MODULE TreeSearch ------------------------------
(***************************************************************************)
(* The two searches PivotRepair is compared with: the best pipeline, RP    *)
(* (TreeBuilder::build_repair_pipeline, 'r'), and the best tree of a       *)
(* bisection over limits, PPT (find_best_ppt_tree, 'p'); both in           *)
(* src/src/task/algorithm/old_alg/tree_builder.cc:210-410.                 *)
(*                                                                         *)
(* Node 0 stands for the requestor.  Rates and limits are integers and EPS *)
(* is 1, in the place of double and 1e-5.  A search is a recursive function*)
(* and a turn of the bisection a step.  The backtracking of build_ppt_tree *)
(* stops at the first tree of a fixed order; the model takes any.          *)
(* The module is instantiated by FTPRepair, which starts it with rates.    *)
(***************************************************************************)
EXTENDS Integers, SequencesExt

CONSTANTS rs_n_, rs_k_, fail_node, BW_CEILING \* as in TreeBuilder

Helper == (1 .. rs_n_) \ {fail_node}
TreeNode == Helper \cup {0}
EPS == 1

VARIABLES alg, pc,
          upload, download,
          lower, upper, \* the bounds of the bisection
          selected,     \* the nodes of the route
          father,
          global_min    \* what is returned

bwVars == <<upload, download>>
vars == <<alg, pc, bwVars, lower, upper, selected, father, global_min>>

Lower(x, y) == IF x < y THEN x ELSE y

(* BandwidthInfo::get_bandwith_matrix; the searches take it as bw.         *)
matrix == [x \in TreeNode |-> [y \in TreeNode |->
             IF x = y THEN BW_CEILING ELSE Lower(upload[x], download[y])]]
Links == {l \in Helper \X TreeNode : l[1] # l[2]}

-----------------------------------------------------------------------------
(* The best path met so far, op_p, and what goes through it, global_min.   *)
Path == Seq(TreeNode) \ {<<>>}
Route == [path : Seq(TreeNode), min : Nat]

(* Seeded fault: the first path ends the search. *)
TriedOnce(bw, further, p, cur_min, best) ==
  LET tried[x \in 0 .. rs_n_] ==
        IF x = 0 THEN best
        ELSE LET b == tried[x - 1]
                 new_cur_min == Lower(bw[x][Last(p)], cur_min)
             IN IF x \notin Helper \ ToSet(p) \/ new_cur_min <= b.min \/ b.path # <<>>
                THEN b ELSE further[Append(p, x)][new_cur_min][b]
  IN tried[rs_n_]

(* The loop of lines 388-408: each node that is not in the path p and does *)
(* not make it too slow continues it, and the search goes further.         *)
Tried(bw, further, p, cur_min, best) ==
  LET tried[x \in 0 .. rs_n_] ==
        IF x = 0 THEN best
        ELSE LET b == tried[x - 1]
                 new_cur_min == Lower(bw[x][Last(p)], cur_min)
             IN IF x \notin Helper \ ToSet(p) \/ new_cur_min <= b.min
                THEN b ELSE further[Append(p, x)][new_cur_min][b]
  IN tried[rs_n_]

(* extend_repair_pipeline of a path to which m nodes are to be added, as a *)
(* function of the path, of the least of its links and of the best so far. *)
Extend(bw) ==
  LET extend[m \in 0 .. rs_k_] ==
        [p \in Path |-> [cur_min \in Nat |-> [best \in Route |->
           IF m = 0 THEN [path |-> p, min |-> cur_min]
           ELSE Tried(bw, extend[m - 1], p, cur_min, best)]]]
  IN extend[rs_k_]

BuildPipeline ==
  LET best == Extend(matrix)[<<0>>][BW_CEILING][[path |-> <<>>, min |-> 0]] IN
  /\ pc = "sort" /\ alg = "r"
  /\ global_min' = best.min
  /\ selected' = {best.path[c] : c \in 2 .. Len(best.path)}
  /\ father' = [x \in selected' |-> best.path[CHOOSE c \in 1 .. rs_k_ : best.path[c + 1] = x]]
  /\ pc' = "built"
  /\ UNCHANGED <<alg, bwVars, lower, upper>>

-----------------------------------------------------------------------------
(* The loop of lines 218-226: each link to i moves one bound or the other. *)
ScanTo(bw, i, bounds) ==
  LET Meet(b, r) == [lower |-> Lower(b.lower, r),
                     upper |-> IF r >= b.lower /\ r > b.upper THEN r ELSE b.upper]
      scan[j \in 0 .. rs_n_] == IF j = 0 THEN bounds
                                ELSE IF j \notin Helper \ {i} THEN scan[j - 1]
                                ELSE Meet(scan[j - 1], bw[j][i])
  IN scan[rs_n_]
Scan(bw) ==
  LET scan[i \in 0 .. rs_n_] ==
        IF i = 0 THEN ScanTo(bw, 0, [lower |-> BW_CEILING, upper |-> 0])
        ELSE IF i \notin Helper THEN scan[i - 1] ELSE ScanTo(bw, i, scan[i - 1])
  IN scan[rs_n_]

Bounds ==
  /\ pc = "sort" /\ alg = "p"
  /\ lower' = Scan(matrix).lower /\ upper' = Scan(matrix).upper
  /\ pc' = "bisect"
  /\ UNCHANGED <<alg, bwVars, selected, father, global_min>>

Siblings(x, f) == {y \in DOMAIN f : f[y] = f[x]}
Place(x, f) == Cardinality({y \in Siblings(x, f) : y <= x})

(* The nodes of a new layer are linked in order: the c-th child of a node  *)
(* gets a c-th of its link.                                                *)
Matches(bw, limit, last_ly, new_ly) ==
  {f \in [new_ly -> last_ly] : \A x \in new_ly : bw[x][f[x]] >= limit * Place(x, f)}

(* build_ppt_tree: the trees that continue one by a layer, and the tree    *)
(* itself if it is complete; f gives the fathers.                          *)
Layers(f) == {S \in SUBSET (Helper \ DOMAIN f) :
                S # {} /\ Cardinality(S) + Cardinality(DOMAIN f) <= rs_k_}
Joined(f, g) == [x \in DOMAIN f \cup DOMAIN g |-> IF x \in DOMAIN g THEN g[x] ELSE f[x]]
Continued(bw, limit, t) ==
  IF Cardinality(DOMAIN t.f) = rs_k_ THEN {t}
  ELSE UNION {{[last_ly |-> S, f |-> Joined(t.f, g)] : g \in Matches(bw, limit, t.last_ly, S)} :
                S \in Layers(t.f)}

(* Every layer has a node, so that all trees of rs_k_ layers are complete. *)
Trees(bw, limit) ==
  LET trees[d \in 0 .. rs_k_] ==
        IF d = 0 THEN {[last_ly |-> {0}, f |-> <<>>]}
        ELSE UNION {Continued(bw, limit, t) : t \in trees[d - 1]}
  IN trees[rs_k_]
Found(limit) == {t.f : t \in Trees(matrix, limit)}

mid == (upper + lower) \div 2

(* Seeded fault: a limit that fails is kept as the lower bound. *)
BisectSwapped ==
  /\ pc = "bisect" /\ upper - lower > EPS
  /\ IF Found(mid) = {} THEN lower' = mid /\ UNCHANGED upper ELSE upper' = mid /\ UNCHANGED lower
  /\ UNCHANGED <<alg, pc, bwVars, selected, father, global_min>>

Bisect ==
  /\ pc = "bisect" /\ upper - lower > EPS
  /\ IF Found(mid) # {} THEN lower' = mid /\ UNCHANGED upper ELSE upper' = mid /\ UNCHANGED lower
  /\ UNCHANGED <<alg, pc, bwVars, selected, father, global_min>>

FinalTree ==
  /\ pc = "bisect" /\ upper - lower <= EPS
  /\ father' \in Found(lower) /\ selected' = DOMAIN father'
  /\ global_min' = lower
  /\ pc' = "built"
  /\ UNCHANGED <<alg, bwVars, lower, upper>>

Next == BuildPipeline \/ Bounds \/ Bisect \/ FinalTree

-----------------------------------------------------------------------------
(* Reference: all pipelines, and all limits above what was found.          *)
Pipelines == {p \in [1 .. rs_k_ -> Helper] : \A a, b \in 1 .. rs_k_ : a # b => p[a] # p[b]}
LinkBefore(p, c) == matrix[p[c]][IF c = 1 THEN 0 ELSE p[c - 1]]
NoBetterPipeline == \A p \in Pipelines : \E c \in 1 .. rs_k_ : LinkBefore(p, c) <= global_min

(* Line 215, "getting lower bandwith and upper bandwith", but a link that  *)
(* lowers the one is not compared with the other.                          *)
FastestScanned == LET scanned == Scan(matrix).upper IN \A l \in Links : matrix[l[1]][l[2]] <= scanned
NoBetterLimit == Found(global_min + EPS + 1) = {}
=============================================================================
