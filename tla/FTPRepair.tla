------------------------------ MODULE FTPRepair ------------------------------
(***************************************************************************)
(* The route of a single task: the bandwidths of a row are filtered and    *)
(* given to the algorithm of the master's argument, and FillTask reads     *)
(* each node's target and sources out of the tree that it leaves in the    *)
(* TreeBuilder (src/src/task/algorithm/ftp_repair.cc).  'f' is the         *)
(* algorithm of PivotRepair, 'r' and 'p' are those of TreeSearch.  The     *)
(* tree calls the requestor 0, the nodes call it rid_.                     *)
(***************************************************************************)
EXTENDS TreeBuilder

CONSTANT min_bw_

ASSUME MinBwAssumption == min_bw_ \in Nat \ {0} /\ 0 \in Rates

VARIABLES alg_,
          lower, upper \* of TreeSearch

buildVars == <<candidate, i, max_leaf_index, children, if_insert, avg_downlink,
               nonleaf_queue, min_non_leaf, weak_leafnodes, unused_strong_nodes>>

Search == INSTANCE TreeSearch WITH alg <- alg_, global_min <- result

rid_ == fail_node
num_ == rs_n_

(* CalculateRoute: a helper with a rate below min_bw_ gets none at all.    *)
Usable(up, down, x) == up[x] >= min_bw_ /\ down[x] >= min_bw_
Filtered(rate, up, down) == [x \in Helper |-> IF Usable(up, down, x) THEN rate[x] ELSE 0]

FTPInit ==
  /\ alg_ \in {"f", "r", "p"} /\ lower = 0 /\ upper = 0
  /\ \E up, down \in [Helper -> Rates \ {0}] :
       Prepared(Filtered(up, up, down), Filtered(down, up, down))

FTPNext == \/ alg_ = "f" /\ Next /\ UNCHANGED <<alg_, lower, upper>>
           \/ Search!Next /\ UNCHANGED buildVars

FTPSpec == FTPInit /\ [][FTPNext]_<<vars, alg_, lower, upper>>

GroupNumber == IF result >= min_bw_ THEN 1 ELSE 0

(* FillTask for a node of the stripe: whether it is chosen, its target and *)
(* its sources.                                                            *)
nid(x) == IF x = rid_ THEN 0 ELSE x
Chosen == {x \in 1 .. num_ : nid(x) = 0 \/ nid(x) \in selected}

(* Seeded fault: a child of the tree's root keeps the root's number. *)
tar_idRaw(x) == IF nid(x) = 0 THEN rid_ ELSE father[nid(x)]

tar_id(x) == LET t == IF nid(x) = 0 THEN rid_ ELSE father[nid(x)]
             IN IF t = 0 THEN 1 ELSE t
src_ids(x) == {y \in selected : father[y] = nid(x)}

-----------------------------------------------------------------------------
(* build_repair_pipeline returns the best pipeline there is.               *)
PipelineBest == pc = "built" /\ alg_ = "r" => Search!NoBetterPipeline

(* Whenever its scan did find the fastest link, the bisection ends at the  *)
(* best limit there is a tree for.                                         *)
LimitBestGivenBounds ==
  pc = "built" /\ alg_ = "p" /\ Search!FastestScanned => Search!NoBetterLimit

(* Every node waits for the sums of just those nodes that send it theirs,  *)
(* and one node, the requestor, keeps them: targets and sources are read   *)
(* out of the tree in its two directions, each for a node on its own.      *)
TargetsMeetSources == pc = "built" /\ GroupNumber = 1 =>
  /\ \A x, y \in Chosen : y \in src_ids(x) <=> x # y /\ tar_id(y) = x
  /\ \A x \in Chosen : tar_id(x) = x <=> x = rid_
=============================================================================
