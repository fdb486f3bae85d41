-------------------------- MODULE TreeBuilder_proofs --------------------------
(***************************************************************************)
(* For any number of helpers and any rates, however sort and queue break   *)
(* ties: build_repairing_tree never pops an empty queue, what it leaves is *)
(* a tree that carries the bandwidth it returns, and no tree carries more. *)
(* Then the same of the whole of FTPRepair, whichever of its algorithms is *)
(* asked for: the pipeline search finds the best, the bisection's limit is *)
(* the best if its scan was right, and the tasks meet the tree.            *)
(***************************************************************************)
EXTENDS FTPRepair, TLAPS, SequenceTheorems, FiniteSetTheorems

(* The helpers in the first n places of candidate.                         *)
First(n) == {candidate[a] : a \in 1 .. n}

(* candidate is a permutation, in the order of the sort that was last.     *)
Permuted == pc # "sort" =>
  /\ candidate \in [1 .. rs_n_ - 1 -> Helper]
  /\ \A x \in Helper : \E a \in 1 .. rs_n_ - 1 : candidate[a] = x
  /\ \A a, b \in 1 .. rs_n_ - 1 : candidate[a] = candidate[b] => a = b
BestFirst == pc = "insert" => \A a, b \in 1 .. rs_n_ - 1 :
  a < b => theoretical_bw(candidate[b]) <= theoretical_bw(candidate[a])
LeavesSorted == pc \in {"replace", "built"} => \A a, b \in 1 .. rs_n_ - 1 :
  max_leaf_index < a /\ a < b => upload[candidate[b]] <= upload[candidate[a]]

Turns ==
  /\ pc = "sort" => i = 0
  /\ pc = "insert" => i < rs_k_
  /\ pc \in {"leaves", "replace", "built"} => i = rs_k_
  /\ IF i = 0 THEN max_leaf_index = 0 ELSE max_leaf_index < i

(* The nodes of the tree: the first of candidate, except that while leaves *)
(* are replaced some strong ones are still out, and as many weak ones in.  *)
Inserted ==
  /\ pc \in {"sort", "insert", "leaves"} =>
       selected = First(i) /\ weak_leafnodes = {} /\ unused_strong_nodes = <<>>
  /\ pc \in {"replace", "built"} =>
       /\ selected = (First(rs_k_) \ Elements(unused_strong_nodes)) \cup weak_leafnodes
       /\ weak_leafnodes \cap First(rs_k_) = {}
       /\ Elements(unused_strong_nodes) \subseteq First(rs_k_) \ First(max_leaf_index)
       /\ \A a, b \in DOMAIN unused_strong_nodes :
            unused_strong_nodes[a] = unused_strong_nodes[b] => a = b
  /\ pc = "built" => weak_leafnodes = {}
  /\ nonleaf_queue = {0} \cup First(max_leaf_index)

(* Fathers and children are the two directions of the same links, and just *)
(* the nodes in the queue, but for the requestor, have children.           *)
Linked ==
  /\ \A f \in TreeNode, x \in Helper : x \in children[f] <=> x \in selected /\ father[x] = f
  /\ \A x \in selected : father[x] \in nonleaf_queue
  /\ \A f \in nonleaf_queue \ {0} : children[f] # {}
  /\ Connected(selected, father)

(* What the rates met so far are worth.                                    *)
Rated ==
  /\ upload[0] = BW_CEILING /\ download[0] = BW_CEILING
  /\ \A x \in TreeNode : upload[x] <= BW_CEILING
  /\ \A f \in TreeNode : if_insert[f] = Lower(upload[f], download[f] \div (Cardinality(children[f]) + 1))
  /\ \A f \in TreeNode : children[f] # {} =>
       min_non_leaf <= upload[f] /\ min_non_leaf * Cardinality(children[f]) <= download[f]
  /\ pc = "built" => result = Lower(min_non_leaf, upload[candidate[rs_k_]])

(* The fathers chosen so far are as good as those of any other tree.       *)
Unbeaten == \A r \in Nat : \A S \in SUBSET Helper : \A f \in [S -> S \cup {0}] :
  Cardinality(S) = rs_k_ /\ Carries(S, f, r) => r <= min_non_leaf

IInv == /\ TypeOK /\ Permuted /\ BestFirst /\ LeavesSorted /\ Turns /\ Inserted
        /\ Linked /\ Rated /\ Unbeaten /\ EnoughStrong

-----------------------------------------------------------------------------
(* About numbers. *)
LEMMA Quotients ==
  ASSUME NEW q \in Nat, NEW d \in Nat, NEW e \in Nat \ {0}
  PROVE /\ d \div e \in Nat
        /\ q <= d \div e <=> q * e <= d
  OBVIOUS

LEMMA Products ==
  ASSUME NEW p \in Nat, NEW q \in Nat, NEW e \in Nat, p <= q
  PROVE p * e \in Nat /\ p * e <= q * e
  OBVIOUS

(* About sequences: what is left of one from a place on. *)
LEMMA TailOf ==
  ASSUME NEW S, NEW s \in Seq(S), NEW n \in Nat, Len(s) = n, NEW m \in Nat, m <= n
  PROVE /\ SubSeq(s, m + 1, n) \in [1 .. n - m -> S]
        /\ \A a \in 1 .. n - m : SubSeq(s, m + 1, n)[a] = s[m + a]
  <1>1. PICK j \in Int : j = m + 1
    OBVIOUS
  <1>2. \A a \in j .. n : s[a] \in S
    BY <1>1
  <1>3. /\ SubSeq(s, j, n) \in Seq(S)
        /\ Len(SubSeq(s, j, n)) = IF j <= n THEN n - j + 1 ELSE 0
        /\ \A a \in 1 .. n - j + 1 : SubSeq(s, j, n)[a] = s[j + a - 1]
    BY <1>1, <1>2, SubSeqProperties
  <1>4. n - j + 1 = n - m /\ \A a \in 1 .. n - m : j + a - 1 = m + a
    BY <1>1
  <1>5. Len(SubSeq(s, j, n)) = n - m
    BY <1>1, <1>3, <1>4
  <1>6. PICK q \in Seq(S) : q = SubSeq(s, j, n)
    BY <1>3
  <1>7. Len(q) = n - m /\ \A a \in 1 .. n - m : q[a] = s[m + a]
    BY <1>3, <1>4, <1>5, <1>6
  <1>8. q \in [1 .. n - m -> S]
    BY ONLY <1>7, q \in Seq(S)
  <1> QED BY <1>1, <1>6, <1>7, <1>8

(* About finite sets: a finite set onto which one of its size is mapped is *)
(* mapped to one to one, and what a sequence lists once is as many.        *)
LEMMA OntoIsInjective ==
  ASSUME NEW S, IsFiniteSet(S), NEW n \in Nat, Cardinality(S) = n,
         NEW s \in [1 .. n -> S], \A x \in S : \E a \in 1 .. n : s[a] = x
  PROVE \A a, b \in 1 .. n : s[a] = s[b] => a = b
  <1>1. IsFiniteSet(1 .. n) /\ Cardinality(1 .. n) = n
    BY FS_Interval
  <1>2. s \in Surjection(1 .. n, S)
    BY DEF Surjection
  <1>3. s \in Injection(1 .. n, S)
    BY <1>1, <1>2, FS_SurjSameCardinalityImpliesInj
  <1> QED BY <1>3 DEF Injection, IsInjective

LEMMA ListedOnce ==
  ASSUME NEW n \in Nat, NEW c, \A a, b \in 1 .. n : c[a] = c[b] => a = b,
         NEW T, T = {c[a] : a \in 1 .. n}
  PROVE IsFiniteSet(T) /\ Cardinality(T) = n
  <1> DEFINE d == [a \in 1 .. n |-> c[a]]
  <1>0. n \in Nat
    OBVIOUS
  <1>1. IsFiniteSet(1 .. n) /\ Cardinality(1 .. n) = n
    BY ONLY <1>0, FS_Interval
  <1>2. d \in Bijection(1 .. n, T)
    BY DEF Bijection, Injection, Surjection, IsInjective
  <1>3. ExistsBijection(1 .. n, T)
    BY <1>2 DEF ExistsBijection
  <1> QED BY <1>1, <1>3, FS_Bijection

LEMMA SmallerFits ==
  ASSUME NEW S, NEW T, IsFiniteSet(S), IsFiniteSet(T), Cardinality(S) <= Cardinality(T)
  PROVE \E h \in [S -> T] : \A x, y \in S : h[x] = h[y] => x = y
  <1>1. PICK m \in Nat : m = Cardinality(S) /\ ExistsBijection(1 .. m, S)
    BY FS_CardinalityType
  <1>2. PICK n \in Nat : n = Cardinality(T) /\ ExistsBijection(1 .. n, T)
    BY FS_CardinalityType
  <1>3. PICK a \in [1 .. m -> S] : \A x \in S : \E k \in 1 .. m : a[k] = x
    BY <1>1 DEF ExistsBijection, Bijection, Surjection
  <1>4. PICK b \in [1 .. n -> T] : \A j, k \in 1 .. n : b[j] = b[k] => j = k
    BY <1>2 DEF ExistsBijection, Bijection, Injection, IsInjective
  <1> DEFINE place(x) == CHOOSE k \in 1 .. m : a[k] = x
             h == [x \in S |-> b[place(x)]]
  <1>5. \A x \in S : place(x) \in 1 .. m /\ a[place(x)] = x
    BY <1>3
  <1>6. 1 .. m \subseteq 1 .. n
    BY <1>1, <1>2
  <1> HIDE DEF place
  <1>7. h \in [S -> T]
    BY <1>5, <1>6
  <1>8. \A x, y \in S : h[x] = h[y] => x = y
    BY <1>4, <1>5, <1>6
  <1> QED BY <1>7, <1>8

(* If every node has in S no more children than in T, S is not larger.     *)
LEMMA FewerChildren ==
  ASSUME NEW S, NEW T, NEW P, IsFiniteSet(S), IsFiniteSet(T),
         NEW f \in [S -> P], NEW g \in [T -> P],
         NEW below \in [P -> SUBSET S], \A p \in P, y \in S : y \in below[p] <=> f[y] = p,
         NEW kids \in [P -> SUBSET T], \A p \in P, x \in T : x \in kids[p] <=> g[x] = p,
         \A p \in P : Cardinality(below[p]) <= Cardinality(kids[p])
  PROVE Cardinality(S) <= Cardinality(T)
  <1> DEFINE A(p) == {y \in S : f[y] = p}
             B(p) == {x \in T : g[x] = p}
             OneToOne(p, h) == h \in [A(p) -> B(p)] /\ \A x, y \in A(p) : h[x] = h[y] => x = y
             pick(p) == CHOOSE h : OneToOne(p, h)
             h == [y \in S |-> pick(f[y])[y]]
  <1>1. \A p \in P : OneToOne(p, pick(p))
    <2> SUFFICES ASSUME NEW p \in P PROVE \E e : OneToOne(p, e)
      OBVIOUS
    <2>1. IsFiniteSet(A(p)) /\ IsFiniteSet(B(p)) /\ Cardinality(A(p)) <= Cardinality(B(p))
      <3>1. A(p) = below[p] /\ B(p) = kids[p]
        OBVIOUS
      <3> QED BY <3>1, FS_Subset
    <2>2. \E e \in [A(p) -> B(p)] : \A x, y \in A(p) : e[x] = e[y] => x = y
      <3> HIDE DEF A, B
      <3> QED BY <2>1, SmallerFits
    <2> QED BY <2>2
  <1> HIDE DEF pick
  <1>2. \A y \in S : h[y] \in T /\ g[h[y]] = f[y]
    <2> SUFFICES ASSUME NEW y \in S PROVE h[y] \in T /\ g[h[y]] = f[y]
      OBVIOUS
    <2>1. pick(f[y]) \in [A(f[y]) -> B(f[y])] /\ y \in A(f[y])
      BY <1>1
    <2>2. pick(f[y])[y] \in B(f[y])
      BY ONLY <2>1
    <2> QED BY <2>2
  <1>3. \A x, y \in S : h[x] = h[y] => x = y
    <2> SUFFICES ASSUME NEW x \in S, NEW y \in S, h[x] = h[y] PROVE x = y
      OBVIOUS
    <2>1. f[x] = f[y]
      BY <1>2
    <2>2. x \in A(f[x]) /\ y \in A(f[x]) /\ pick(f[x])[x] = pick(f[x])[y]
      BY <2>1
    <2>3. \A u, v \in A(f[x]) : pick(f[x])[u] = pick(f[x])[v] => u = v
      BY <1>1
    <2> QED BY ONLY <2>2, <2>3
  <1>4. h \in Injection(S, T)
    BY <1>2, <1>3 DEF Injection, IsInjective
  <1> QED BY <1>4, FS_Injection

-----------------------------------------------------------------------------
(* About the parameters and the state. *)
LEMMA Parameters ==
  /\ rs_n_ - 1 \in Nat /\ rs_k_ \in 1 .. rs_n_ - 1 /\ rs_k_ \in Nat
  /\ 0 \notin Helper /\ IsFiniteSet(Helper) /\ Cardinality(Helper) = rs_n_ - 1
  /\ BW_CEILING \in Nat /\ \A r \in Rates : r \in Nat /\ r <= BW_CEILING
  <1>1. rs_n_ \in Nat /\ rs_k_ \in Nat \ {0} /\ rs_k_ < rs_n_ /\ fail_node \in 1 .. rs_n_
    BY CodeAssumption
  <1>2. IsFiniteSet(1 .. rs_n_) /\ Cardinality(1 .. rs_n_) = rs_n_
    BY <1>1, FS_Interval
  <1>3. IsFiniteSet(Helper) /\ Cardinality(Helper) = rs_n_ - 1
    <2>1. fail_node \in 1 .. rs_n_
      BY <1>1
    <2>2. /\ IsFiniteSet((1 .. rs_n_) \ {fail_node})
          /\ Cardinality((1 .. rs_n_) \ {fail_node}) = Cardinality(1 .. rs_n_) - 1
      BY ONLY <1>2, <2>1, FS_RemoveElement
    <2> QED BY ONLY <1>2, <2>2 DEF Helper
  <1> QED BY <1>1, <1>3, RateAssumption DEF Helper

LEMMA LowerFacts ==
  ASSUME NEW x \in Nat, NEW y \in Nat
  PROVE /\ Lower(x, y) \in Nat /\ Lower(x, y) <= x /\ Lower(x, y) <= y
        /\ \A z \in Nat : z <= Lower(x, y) <=> z <= x /\ z <= y
  BY DEF Lower

LEMMA ChildrenFinite ==
  ASSUME TypeOK, NEW f \in TreeNode
  PROVE /\ children[f] \subseteq Helper /\ IsFiniteSet(children[f])
        /\ Cardinality(children[f]) \in Nat
        /\ children[f] = {} <=> Cardinality(children[f]) = 0
  <1>1. children[f] \subseteq Helper
    BY DEF TypeOK
  <1>2. IsFiniteSet(children[f])
    BY <1>1, Parameters, FS_Subset
  <1> QED BY <1>1, <1>2, FS_CardinalityType, FS_EmptySet

LEMMA FirstFacts ==
  ASSUME Permuted, pc # "sort", NEW n \in 0 .. rs_n_ - 1
  PROVE /\ First(n) \subseteq Helper /\ IsFiniteSet(First(n)) /\ Cardinality(First(n)) = n
        /\ \A a \in 1 .. rs_n_ - 1 : candidate[a] \in First(n) <=> a <= n
  <1>1. /\ candidate \in [1 .. rs_n_ - 1 -> Helper]
        /\ \A a, b \in 1 .. rs_n_ - 1 : candidate[a] = candidate[b] => a = b
    BY DEF Permuted
  <1>2. IsFiniteSet(First(n)) /\ Cardinality(First(n)) = n
    <2>1. n \in Nat /\ \A a, b \in 1 .. n : candidate[a] = candidate[b] => a = b
      BY <1>1, Parameters
    <2>2. First(n) = {candidate[a] : a \in 1 .. n}
      BY DEF First
    <2> QED BY <2>1, <2>2, ListedOnce
  <1> QED BY <1>1, <1>2, Parameters DEF First

-----------------------------------------------------------------------------
LEMMA InitIInv == Init => IInv
  <1> SUFFICES ASSUME NEW up \in [Helper -> Rates], NEW down \in [Helper -> Rates],
                      Prepared(up, down)
               PROVE IInv
    BY DEF Init
  <1> USE DEF Prepared
  <1>1. /\ upload \in [TreeNode -> Nat] /\ download \in [TreeNode -> Nat]
        /\ \A x \in TreeNode : upload[x] <= BW_CEILING
        /\ upload[0] = BW_CEILING /\ download[0] = BW_CEILING
    BY Parameters DEF TreeNode
  <1>2. Infinite \in Nat /\ BW_CEILING <= Infinite
    BY Parameters DEF Infinite
  <1>3. /\ if_insert \in [TreeNode -> Nat]
        /\ \A f \in TreeNode : if_insert[f] = Lower(upload[f], download[f] \div 1)
    BY <1>1 DEF theoretical_bw, Lower
  <1>4. TypeOK
    <2>1. candidate \in Seq(Helper) /\ Len(candidate) = 0 /\ unused_strong_nodes \in Seq(Helper)
      OBVIOUS
    <2>2. i \in 0 .. rs_k_ /\ max_leaf_index \in 0 .. rs_k_ - 1
      BY Parameters
    <2> QED BY <1>1, <1>2, <1>3, <2>1, <2>2 DEF TypeOK, TreeNode, NoResult
  <1>5. Permuted /\ BestFirst /\ LeavesSorted
    BY DEF Permuted, BestFirst, LeavesSorted
  <1>6. Turns
    BY DEF Turns
  <1>7. First(0) = {}
    BY DEF First
  <1>8. Inserted
    BY <1>7 DEF Inserted
  <1>9. Linked
    BY DEF Linked, Connected
  <1>10. Rated
    BY <1>1, <1>3, FS_EmptySet DEF Rated
  <1>11. Unbeaten
    <2> SUFFICES ASSUME NEW r \in Nat, NEW S \in SUBSET Helper, NEW f \in [S -> S \cup {0}],
                        Cardinality(S) = rs_k_, Carries(S, f, r)
                 PROVE r <= min_non_leaf
      BY DEF Unbeaten
    <2>0. S # {}
      <3>1. rs_k_ # 0 /\ Cardinality({}) = 0
        BY Parameters, FS_EmptySet
      <3> QED BY <3>1
    <2>1. PICK x : x \in S
      BY <2>0
    <2>2. r <= upload[x] /\ x \in TreeNode
      BY <2>1 DEF Carries, TreeNode
    <2> QED BY <1>1, <1>2, <2>2, Parameters
  <1>12. EnoughStrong
    BY FS_EmptySet DEF EnoughStrong
  <1> QED BY <1>4, <1>5, <1>6, <1>8, <1>9, <1>10, <1>11, <1>12 DEF IInv

LEMMA SortCandidatesStep == IInv /\ SortCandidates => IInv'
  <1> SUFFICES ASSUME IInv, SortCandidates PROVE IInv'
    OBVIOUS
  <1>1. /\ pc = "sort" /\ pc' = "insert" /\ i = 0 /\ max_leaf_index = 0
        /\ UNCHANGED <<bwVars, i, max_leaf_index, treeVars, nonleaf_queue, selected,
                       min_non_leaf, weak_leafnodes, unused_strong_nodes, result>>
        /\ selected = First(0) /\ weak_leafnodes = {} /\ unused_strong_nodes = <<>>
        /\ nonleaf_queue = {0} \cup First(0)
    BY DEF SortCandidates, IInv, Turns, Inserted
  <1>2. PICK n \in Nat : n = rs_n_ - 1 /\ n = Cardinality(Helper)
    BY Parameters
  <1>3. /\ candidate' \in [1 .. n -> Helper]
        /\ \A x \in Helper : \E a \in 1 .. n : candidate'[a] = x
        /\ \A a, b \in 1 .. n : a < b => ~ByTheoreticalBw(candidate'[b], candidate'[a])
    BY <1>2 DEF SortCandidates, Sorted
  <1>4. \A a, b \in 1 .. n : candidate'[a] = candidate'[b] => a = b
    BY <1>2, <1>3, Parameters, OntoIsInjective
  <1>5. candidate' \in Seq(Helper) /\ Len(candidate') = rs_n_ - 1
    BY <1>2, <1>3
  <1>6. TypeOK'
    BY <1>1, <1>5 DEF IInv, TypeOK, bwVars, treeVars
  <1>7. Permuted'
    BY <1>1, <1>2, <1>3, <1>4 DEF Permuted
  <1>8. BestFirst'
    <2>1. \A x \in Helper : theoretical_bw(x) \in Nat
      BY DEF IInv, TypeOK, theoretical_bw, Lower, TreeNode
    <2>2. \A a, b \in 1 .. n : a < b => theoretical_bw(candidate'[b]) <= theoretical_bw(candidate'[a])
      <3> SUFFICES ASSUME NEW a \in 1 .. n, NEW b \in 1 .. n, a < b
                   PROVE theoretical_bw(candidate'[b]) <= theoretical_bw(candidate'[a])
        OBVIOUS
      <3>1. candidate'[a] \in Helper /\ candidate'[b] \in Helper
        BY <1>3
      <3>2. ~(theoretical_bw(candidate'[b]) > theoretical_bw(candidate'[a]))
        BY <1>3 DEF ByTheoreticalBw
      <3>3. theoretical_bw(candidate'[a]) \in Nat /\ theoretical_bw(candidate'[b]) \in Nat
        BY ONLY <2>1, <3>1
      <3> QED BY ONLY <3>2, <3>3
    <2> QED BY <1>1, <1>2, <2>2 DEF BestFirst, theoretical_bw, bwVars
  <1>9. LeavesSorted' /\ Turns'
    BY <1>1, Parameters DEF LeavesSorted, Turns
  <1>10. First(0) = {} /\ First(0)' = {}
    BY DEF First
  <1>11. Inserted'
    BY <1>1, <1>10 DEF Inserted
  <1>12. Linked'
    BY <1>1 DEF IInv, Linked, Connected, treeVars
  <1>13. Rated'
    BY <1>1 DEF IInv, Rated, Lower, treeVars, bwVars
  <1>14. Unbeaten'
    BY <1>1 DEF IInv, Unbeaten, Carries, bwVars
  <1>15. EnoughStrong'
    BY <1>1 DEF IInv, EnoughStrong
  <1> QED BY <1>6, <1>7, <1>8, <1>9, <1>11, <1>12, <1>13, <1>14, <1>15 DEF IInv

(* The part of the invariant that a step leaves alone when it does not     *)
(* change the tree.                                                        *)
LEMMA TreeStays ==
  ASSUME IInv, UNCHANGED <<bwVars, treeVars, nonleaf_queue, selected, min_non_leaf>>
  PROVE Linked' /\ Unbeaten'
  <1>1. Linked'
    BY DEF IInv, Linked, Connected, treeVars
  <1>2. Unbeaten'
    BY DEF IInv, Unbeaten, Carries, bwVars
  <1> QED BY <1>1, <1>2

-----------------------------------------------------------------------------
(* What a node without children can take. *)
LEMMA LeafTakes ==
  ASSUME IInv, NEW f \in TreeNode, children[f] = {}
  PROVE if_insert[f] = theoretical_bw(f)
  <1>1. Cardinality(children[f]) = 0
    BY FS_EmptySet
  <1>2. 0 + 1 = 1
    OBVIOUS
  <1>3. if_insert[f] = Lower(upload[f], download[f] \div (Cardinality(children[f]) + 1))
    BY DEF IInv, Rated
  <1>4. download[f] \div 1 = download[f]
    <2>1. download[f] \in Nat
      BY DEF IInv, TypeOK
    <2> QED BY ONLY <2>1
  <1> QED BY <1>1, <1>2, <1>3, <1>4 DEF theoretical_bw

(* The father that Insert chooses, and what it does to the queue: none of  *)
(* the nodes that are in the tree can take a child better.                 *)
LEMMA Choice ==
  ASSUME IInv, Insert
  PROVE \E f \in {0} \cup First(i) :
    /\ \A p \in {0} \cup First(i) : if_insert[p] <= if_insert[f]
    /\ max_leaf_index' \in 0 .. i
    /\ nonleaf_queue' = nonleaf_queue \cup {f} /\ nonleaf_queue' = {0} \cup First(max_leaf_index')
    /\ min_non_leaf' = Lower(min_non_leaf, if_insert[f])
    /\ AddChild(f, candidate[i + 1])
  <1>1. PICK top \in Tops :
          LET max_leaf == candidate[max_leaf_index + 1]
          IN InsertUnder(top, max_leaf, i = 0 \/ if_insert[top] >= if_insert[max_leaf])
    BY DEF Insert
  <1> DEFINE max_leaf == candidate[max_leaf_index + 1]
             keep == i = 0 \/ if_insert[top] >= if_insert[max_leaf]
             f == IF keep THEN top ELSE max_leaf
  <1>2. /\ pc = "insert" /\ i \in Nat /\ i < rs_k_ /\ max_leaf_index \in Nat
        /\ IF i = 0 THEN max_leaf_index = 0 ELSE max_leaf_index < i
    BY DEF Insert, IInv, Turns, TypeOK
  <1>3. rs_n_ - 1 \in Nat /\ i < rs_n_ - 1 /\ max_leaf_index < rs_n_ - 1
    BY <1>2, Parameters
  <1>4. /\ candidate \in [1 .. rs_n_ - 1 -> Helper]
        /\ \A a, b \in 1 .. rs_n_ - 1 : candidate[a] = candidate[b] => a = b
    BY <1>2 DEF IInv, Permuted
  <1>5. /\ selected = First(i) /\ nonleaf_queue = {0} \cup First(max_leaf_index)
        /\ First(max_leaf_index) \subseteq First(i) /\ First(i) \subseteq Helper
    BY <1>2, <1>3, <1>4 DEF IInv, Inserted, First
  <1>6. \A p \in TreeNode : if_insert[p] \in Nat /\ avg_downlink[p] \in Nat
    BY DEF IInv, TypeOK
  <1>7. top \in nonleaf_queue /\ \A p \in nonleaf_queue : if_insert[p] <= if_insert[top]
    <2>1. top \in nonleaf_queue /\ \A p \in nonleaf_queue : ~Below(top, p)
      BY DEF Tops
    <2> QED BY <1>5, <1>6, <2>1 DEF Below, TreeNode
  <1>8. i # 0 => max_leaf \in First(i)
    BY <1>2, <1>3 DEF First
  <1>9. i # 0 => \A a \in max_leaf_index + 1 .. i : if_insert[candidate[a]] <= if_insert[max_leaf]
    <2> SUFFICES ASSUME i # 0, NEW a \in max_leaf_index + 1 .. i
                 PROVE if_insert[candidate[a]] <= if_insert[max_leaf]
      OBVIOUS
    <2>1. \A b \in max_leaf_index + 1 .. i :
            candidate[b] \in Helper /\ if_insert[candidate[b]] = theoretical_bw(candidate[b])
      <3> SUFFICES ASSUME NEW b \in max_leaf_index + 1 .. i
                   PROVE candidate[b] \in Helper /\ if_insert[candidate[b]] = theoretical_bw(candidate[b])
        OBVIOUS
      <3>1. b \in 1 .. rs_n_ - 1 /\ candidate[b] \in Helper /\ candidate[b] \in TreeNode
        BY <1>2, <1>3, <1>4 DEF TreeNode
      <3>2. candidate[b] \notin nonleaf_queue
        <4>1. candidate[b] # 0
          BY <3>1, Parameters
        <4>2. candidate[b] \notin First(max_leaf_index)
          BY <1>2, <1>3, <3>1, FirstFacts DEF IInv
        <4> QED BY <1>5, <4>1, <4>2
      <3>3. children[candidate[b]] = {}
        <4>1. children[candidate[b]] \subseteq Helper
          BY <3>1 DEF IInv, TypeOK
        <4> QED BY <3>1, <3>2, <4>1 DEF IInv, Linked
      <3> QED BY <3>1, <3>3, LeafTakes
    <2>2. \A b \in 1 .. rs_n_ - 1 : max_leaf_index + 1 < b =>
            theoretical_bw(candidate[b]) <= theoretical_bw(candidate[max_leaf_index + 1])
      BY <1>2, <1>3 DEF IInv, BestFirst
    <2>3. a \in 1 .. rs_n_ - 1 /\ max_leaf_index + 1 \in max_leaf_index + 1 .. i
          /\ (a = max_leaf_index + 1 \/ max_leaf_index + 1 < a)
      BY <1>2, <1>3
    <2>4. candidate[a] \in TreeNode
      BY <1>4, <2>3 DEF TreeNode
    <2>5. if_insert[candidate[a]] = theoretical_bw(candidate[a])
          /\ if_insert[max_leaf] = theoretical_bw(max_leaf)
      BY <2>1, <2>3
    <2>6. CASE a = max_leaf_index + 1
      BY <1>6, <2>4, <2>6
    <2>7. CASE max_leaf_index + 1 < a
      BY <2>2, <2>3, <2>5, <2>7
    <2> QED BY <2>3, <2>6, <2>7
  <1>10. \A p \in {0} \cup First(i) :
           \/ p \in nonleaf_queue
           \/ i # 0 /\ \E a \in max_leaf_index + 1 .. i : p = candidate[a]
    BY <1>2, <1>5 DEF First
  <1>11. f \in {0} \cup First(i)
    BY <1>5, <1>7, <1>8
  <1>12. \A p \in {0} \cup First(i) : if_insert[p] <= if_insert[f]
    <2> SUFFICES ASSUME NEW p \in {0} \cup First(i) PROVE if_insert[p] <= if_insert[f]
      OBVIOUS
    <2>1. if_insert[p] \in Nat /\ if_insert[top] \in Nat
          /\ (i # 0 => if_insert[max_leaf] \in Nat)
      BY <1>5, <1>6, <1>7, <1>8 DEF TreeNode
    <2>2. \/ if_insert[p] <= if_insert[top]
          \/ i # 0 /\ if_insert[p] <= if_insert[max_leaf]
      BY <1>7, <1>9, <1>10
    <2> HIDE DEF max_leaf
    <2> QED BY <1>7, <1>9, <1>10, <2>1, <2>2
  <1>13. /\ max_leaf_index' = (IF keep THEN max_leaf_index ELSE max_leaf_index + 1)
         /\ min_non_leaf' = Lower(min_non_leaf, if_insert[f])
         /\ AddChild(f, candidate[i + 1])
         /\ nonleaf_queue' = nonleaf_queue \cup {f}
         /\ candidate' = candidate
    BY <1>1 DEF InsertUnder
  <1>14. max_leaf_index' \in 0 .. i
    BY <1>2, <1>13
  <1>15. nonleaf_queue' = {0} \cup First(max_leaf_index')
    <2>1. CASE keep
      BY <1>5, <1>7, <1>13, <2>1 DEF First
    <2>2. CASE ~keep
      <3>1. 1 .. max_leaf_index + 1 = (1 .. max_leaf_index) \cup {max_leaf_index + 1}
        BY <1>2
      <3>2. First(max_leaf_index + 1) = First(max_leaf_index) \cup {max_leaf}
        BY <3>1 DEF First
      <3>3. f = max_leaf /\ max_leaf_index' = max_leaf_index + 1
        BY <1>13, <2>2
      <3> QED BY <1>5, <1>13, <3>2, <3>3
    <2> QED BY <2>1, <2>2
  <1> HIDE DEF f
  <1> QED BY <1>11, <1>12, <1>13, <1>14, <1>15

(* Insert chooses no father that is worse than what some other tree makes  *)
(* do with: if none of the nodes in the tree can take a child at rate r,   *)
(* then no node outside can either, and those inside have all the children *)
(* they can have at rate r, which are not enough.                          *)
LEMMA StillUnbeaten ==
  ASSUME IInv, Insert
  PROVE Unbeaten'
  <1> SUFFICES ASSUME NEW r \in Nat, NEW S \in SUBSET Helper, NEW f \in [S -> S \cup {0}],
                      Cardinality(S) = rs_k_, Carries(S, f, r)
               PROVE r <= min_non_leaf'
    <2>1. UNCHANGED bwVars
      BY DEF Insert, InsertUnder
    <2> QED BY <2>1 DEF Unbeaten, Carries, bwVars
  <1>1. PICK g \in {0} \cup First(i) :
          /\ \A p \in {0} \cup First(i) : if_insert[p] <= if_insert[g]
          /\ min_non_leaf' = Lower(min_non_leaf, if_insert[g])
    BY Choice
  <1>2. /\ pc = "insert" /\ i \in Nat /\ i < rs_k_ /\ rs_k_ <= rs_n_ - 1 /\ rs_n_ - 1 \in Nat
        /\ rs_k_ \in Nat /\ candidate \in [1 .. rs_n_ - 1 -> Helper]
        /\ \A y \in Helper : \E a \in 1 .. rs_n_ - 1 : candidate[a] = y
        /\ i # 0 => max_leaf_index < i
        /\ max_leaf_index \in Nat
    BY Parameters DEF Insert, InsertUnder, IInv, Turns, Permuted, TypeOK
  <1>3. First(i) \subseteq Helper /\ selected = First(i) /\ Cardinality(First(i)) = i
        /\ IsFiniteSet(First(i)) /\ nonleaf_queue \subseteq {0} \cup First(i)
    <2>1. i \in 0 .. rs_n_ - 1 /\ max_leaf_index <= i
      BY <1>2 DEF IInv, Turns
    <2>2. First(i) \subseteq Helper /\ Cardinality(First(i)) = i /\ IsFiniteSet(First(i))
      BY <1>2, <2>1, FirstFacts DEF IInv
    <2>3. First(max_leaf_index) \subseteq First(i)
      BY <1>2, <2>1 DEF First
    <2> QED BY <1>2, <2>2, <2>3 DEF IInv, Inserted
  <1>4. /\ upload \in [TreeNode -> Nat] /\ download \in [TreeNode -> Nat]
        /\ if_insert \in [TreeNode -> Nat] /\ min_non_leaf \in Nat
    BY DEF IInv, TypeOK
  <1>5. r <= min_non_leaf
    BY DEF IInv, Unbeaten
  <1>6. {0} \cup First(i) \subseteq TreeNode
    BY <1>3 DEF TreeNode
  <1>7. SUFFICES ASSUME if_insert[g] < r PROVE FALSE
    <2>1. if_insert[g] \in Nat
      BY <1>1, <1>4, <1>6
    <2>2. r <= if_insert[g]
      BY <1>7, <2>1
    <2> QED BY <1>1, <1>4, <1>5, <2>1, <2>2, LowerFacts
  <1>8. \A p \in {0} \cup First(i) : if_insert[p] < r
    BY <1>1, <1>4, <1>6, <1>7
  <1>9. S # {} /\ IsFiniteSet(S) /\ r <= BW_CEILING
    <2>1. S # {}
      <3>1. rs_k_ # 0 /\ Cardinality({}) = 0
        BY Parameters, FS_EmptySet
      <3> QED BY <3>1
    <2>2. PICK y : y \in S
      BY <2>1
    <2>3. r <= upload[y] /\ upload[y] \in Nat /\ upload[y] <= BW_CEILING
      BY <1>4, <2>2 DEF Carries, IInv, Rated, TreeNode
    <2>4. IsFiniteSet(S)
      BY Parameters, FS_Subset
    <2> QED BY <2>1, <2>3, <2>4, Parameters
  <1> DEFINE below(p) == {y \in S : f[y] = p}
  <1>10. \A p \in S \cup {0} : r <= upload[p]
    BY <1>9 DEF Carries, IInv, Rated
  <1>11. \A p \in S \cup {0} : r * Cardinality(below(p)) <= download[p] \/ below(p) = {}
    <2> SUFFICES ASSUME NEW p \in S \cup {0}, NEW y \in below(p)
                 PROVE r * Cardinality(below(p)) <= download[p]
      OBVIOUS
    <2>1. y \in S /\ f[y] = p
      OBVIOUS
    <2>2. r * Cardinality({z \in S : f[z] = f[y]}) <= download[f[y]]
      BY <2>1 DEF Carries
    <2> QED BY <2>1, <2>2
  <1>12. \A p \in S \cup {0} : IsFiniteSet(below(p)) /\ Cardinality(below(p)) \in Nat
    BY <1>9, FS_Subset, FS_CardinalityType
  (* A node outside the tree has no children in f. *)
  <1>13. \A p \in S \ First(i) : below(p) = {}
    <2> SUFFICES ASSUME NEW p \in S \ First(i), below(p) # {} PROVE FALSE
      OBVIOUS
    <2>1. PICK e \in Nat : e = Cardinality(below(p)) /\ e # 0
      BY <1>12, FS_EmptySet
    <2>2. p \in TreeNode /\ upload[p] \in Nat /\ download[p] \in Nat
      BY <1>4 DEF TreeNode
    <2>3. r <= download[p]
      <3>1. r * e <= download[p]
        BY <1>11, <2>1
      <3>2. r <= r * e
        BY ONLY r \in Nat, <2>1
      <3>3. r * e \in Nat
        BY ONLY r \in Nat, <2>1
      <3> QED BY <2>2, <3>1, <3>2, <3>3
    <2>4. r <= theoretical_bw(p) /\ theoretical_bw(p) \in Nat
      BY <1>10, <2>2, <2>3 DEF theoretical_bw, Lower
    <2>5. PICK b \in 1 .. rs_n_ - 1 : candidate[b] = p
      BY <1>2
    <2>6. i < b
      <3>1. b <= i => p \in First(i)
        BY <1>2, <2>5 DEF First
      <3> QED BY <1>2, <3>1
    (* The last one that was inserted is a leaf, and no worse than p. *)
    <2>7. i # 0
      <3>1. if_insert[0] < r
        BY <1>8
      <3>2. i = 0 => children[0] = {}
        <4> SUFFICES ASSUME i = 0 PROVE children[0] = {}
          OBVIOUS
        <4>1. First(i) = {}
          BY DEF First
        <4>2. children[0] \subseteq Helper
          BY DEF IInv, TypeOK, TreeNode
        <4> QED BY <1>3, <4>1, <4>2 DEF IInv, Linked, TreeNode
      <3>3. children[0] = {} => if_insert[0] = BW_CEILING
        BY LeafTakes, Parameters DEF IInv, Rated, theoretical_bw, Lower, TreeNode
      <3> QED BY <1>9, <3>1, <3>2, <3>3, Parameters
    <2>8. candidate[i] \in First(i) /\ candidate[i] \in TreeNode /\ candidate[i] # 0
      <3>1. i \in 1 .. i
        BY ONLY <1>2, <2>7
      <3>2. candidate[i] \in First(i)
        BY ONLY <3>1 DEF First
      <3>3. candidate[i] \in Helper
        BY <1>3, <3>2
      <3> QED BY <3>2, <3>3, Parameters DEF TreeNode
    <2>9. children[candidate[i]] = {}
      <3>1. candidate[i] \notin nonleaf_queue
        <4>1. candidate[i] \notin First(max_leaf_index)
          BY <1>2, <2>7, FirstFacts DEF IInv
        <4> QED BY <2>8, <4>1 DEF IInv, Inserted
      <3>2. children[candidate[i]] \subseteq Helper
        BY <2>8 DEF IInv, TypeOK
      <3> QED BY <2>8, <3>1, <3>2 DEF IInv, Linked
    <2>10. if_insert[candidate[i]] = theoretical_bw(candidate[i])
      BY <2>8, <2>9, LeafTakes
    <2>11. theoretical_bw(p) <= theoretical_bw(candidate[i])
      BY <1>2, <2>5, <2>6, <2>7 DEF IInv, BestFirst
    <2>12. if_insert[candidate[i]] < r /\ if_insert[candidate[i]] \in Nat
      BY <1>4, <1>8, <2>8
    <2> QED BY <2>4, <2>10, <2>11, <2>12
  (* A node in the tree has as many children in it as in f. *)
  <1>14. \A p \in {0} \cup First(i) : Cardinality(below(p)) <= Cardinality(children[p])
    <2> SUFFICES ASSUME NEW p \in {0} \cup First(i)
                 PROVE Cardinality(below(p)) <= Cardinality(children[p])
      OBVIOUS
    <2>1. p \in TreeNode /\ upload[p] \in Nat /\ download[p] \in Nat
      BY <1>4, <1>6
    <2>2. PICK c \in Nat : c = Cardinality(children[p])
      BY <2>1, ChildrenFinite DEF IInv
    <2>3. CASE below(p) = {}
      <3>1. Cardinality(below(p)) = 0
        BY <2>3, FS_EmptySet
      <3> QED BY <2>2, <3>1
    <2>4. CASE below(p) # {}
      <3>1. p \in S \cup {0}
        BY <2>4
      <3>2. PICK e \in Nat : e = Cardinality(below(p))
        BY <1>12, <3>1
      <3>3. r * e <= download[p] /\ r <= upload[p]
        BY <1>10, <1>11, <2>4, <3>1, <3>2
      <3>4. PICK q \in Nat : q = download[p] \div (c + 1)
        BY <2>1, <2>2, Quotients
      <3>5. Lower(upload[p], q) < r
        BY <1>8, <2>1, <2>2, <3>4 DEF IInv, Rated
      <3>6. q < r
        BY <2>1, <3>3, <3>5 DEF Lower
      <3>7. ~(r * (c + 1) <= download[p])
        <4>1. c + 1 \in Nat \ {0} /\ ~(r <= q)
          BY <2>2, <3>4, <3>6
        <4> QED BY <2>1, <3>4, <4>1, Quotients
      <3>8. ~(c + 1 <= e)
        <4>1. c + 1 <= e => (c + 1) * r <= e * r
          BY <2>2, <3>2, Products
        <4>0. c \in Nat /\ e \in Nat /\ r \in Nat
          BY <2>2, <3>2
        <4>2. (c + 1) * r = r * (c + 1) /\ e * r = r * e
          BY ONLY <4>0
        <4>3. PICK u \in Nat : u = r * (c + 1)
          BY ONLY <4>0
        <4>4. PICK v \in Nat : v = r * e
          BY ONLY <4>0
        <4> QED BY <2>1, <3>3, <3>7, <4>1, <4>2, <4>3, <4>4
      <3> QED BY <2>2, <3>2, <3>8
    <2> QED BY <2>3, <2>4
  <1>15. \A y \in S : f[y] \in {0} \cup First(i)
    <2> SUFFICES ASSUME NEW y \in S, f[y] \in S \ First(i) PROVE FALSE
      OBVIOUS
    <2>1. y \in below(f[y])
      OBVIOUS
    <2> QED BY <1>13, <2>1
  <1>16. \A p \in {0} \cup First(i) :
           Cardinality({y \in S : f[y] = p}) <= Cardinality({y \in First(i) : father[y] = p})
    <2> SUFFICES ASSUME NEW p \in {0} \cup First(i)
                 PROVE children[p] = {y \in First(i) : father[y] = p}
      BY <1>14
    <2>1. children[p] \subseteq Helper
      BY <1>6 DEF IInv, TypeOK
    <2> QED BY <1>3, <1>6, <2>1 DEF IInv, Linked
  <1>17. Cardinality(S) <= Cardinality(First(i))
    <2> HIDE DEF below
    <2>1. PICK P : P = {0} \cup First(i)
      OBVIOUS
    <2>2. PICK T : T = First(i)
      OBVIOUS
    <2>3. PICK fathers : fathers = [y \in T |-> father[y]]
      OBVIOUS
    <2>4. PICK A : A = [p \in P |-> {y \in S : f[y] = p}]
      OBVIOUS
    <2>5. PICK B : B = [p \in P |-> {y \in T : fathers[y] = p}]
      OBVIOUS
    <2>6. /\ f \in [S -> P] /\ fathers \in [T -> P]
          /\ A \in [P -> SUBSET S] /\ B \in [P -> SUBSET T]
      BY <1>3, <1>15, <2>1, <2>2, <2>3, <2>4, <2>5 DEF IInv, Linked
    <2>8. /\ \A p \in P : A[p] = {y \in S : f[y] = p}
          /\ \A p \in P : B[p] = {y \in T : fathers[y] = p}
      BY <2>4, <2>5
    <2>9. \A p \in P : Cardinality(A[p]) <= Cardinality(B[p])
      <3>1. \A p \in P : {y \in T : fathers[y] = p} = {y \in T : father[y] = p}
        BY <2>3
      <3> QED BY <1>16, <2>1, <2>2, <2>8, <3>1
    <2>10. /\ \A p \in P, y \in S : y \in A[p] <=> f[y] = p
           /\ \A p \in P, x \in T : x \in B[p] <=> fathers[x] = p
      BY <2>6, <2>8
    <2>11. IsFiniteSet(S) /\ IsFiniteSet(T)
      BY <1>3, <1>9, <2>2
    <2>7. Cardinality(S) <= Cardinality(T)
      BY ONLY <2>6, <2>9, <2>10, <2>11, FewerChildren
    <2> QED BY <2>2, <2>7
  <1> QED BY <1>2, <1>3, <1>17

LEMMA InsertStep == IInv /\ Insert => IInv'
  <1> SUFFICES ASSUME IInv, Insert PROVE IInv'
    OBVIOUS
  <1> DEFINE x == candidate[i + 1]
  <1>1. /\ pc = "insert" /\ pc' = (IF i + 1 = rs_k_ THEN "leaves" ELSE "insert")
        /\ i' = i + 1 /\ selected' = selected \cup {x}
        /\ UNCHANGED <<bwVars, candidate, weak_leafnodes, unused_strong_nodes, result>>
    BY DEF Insert, InsertUnder
  <1>2. PICK f \in {0} \cup First(i) :
          /\ \A p \in {0} \cup First(i) : if_insert[p] <= if_insert[f]
          /\ max_leaf_index' \in 0 .. i
          /\ nonleaf_queue' = nonleaf_queue \cup {f} /\ nonleaf_queue' = {0} \cup First(max_leaf_index')
          /\ min_non_leaf' = Lower(min_non_leaf, if_insert[f])
          /\ AddChild(f, x)
    BY Choice
  <1>3. /\ i \in Nat /\ i < rs_k_ /\ i < rs_n_ - 1 /\ rs_n_ - 1 \in Nat
        /\ candidate \in [1 .. rs_n_ - 1 -> Helper]
        /\ max_leaf_index \in Nat /\ max_leaf_index <= i
    BY <1>1, Parameters DEF IInv, Turns, Permuted, TypeOK
  <1>4. /\ x \in Helper /\ x \notin First(i) /\ First(i + 1) = First(i) \cup {x}
        /\ selected = First(i) /\ First(i) \subseteq Helper
    <2>1. x \in Helper /\ x \notin First(i) /\ First(i) \subseteq Helper
      BY <1>1, <1>3, FirstFacts DEF IInv
    <2>2. 1 .. i + 1 = (1 .. i) \cup {i + 1}
      BY <1>3
    <2>3. First(i + 1) = First(i) \cup {x}
      BY <2>2 DEF First
    <2> QED BY <1>1, <2>1, <2>3 DEF IInv, Inserted
  <1> HIDE DEF x
  <1>5. f \in TreeNode /\ x \in TreeNode /\ x # 0 /\ x # f /\ 0 \in TreeNode
    BY <1>4, Parameters DEF TreeNode
  <1>6. PICK c \in Nat : c = Cardinality(children[f])
    BY <1>5, ChildrenFinite DEF IInv
  <1>7. /\ children' = [children EXCEPT ![f] = @ \cup {x}]
        /\ father' = [father EXCEPT ![x] = f]
        /\ avg_downlink' = [avg_downlink EXCEPT ![f] =
             IF upload[f] > if_insert[f] THEN if_insert[f] ELSE download[f] \div (c + 1)]
        /\ if_insert' = [if_insert EXCEPT ![f] = Lower(upload[f], download[f] \div (c + 2))]
    <2>1. (c + 1) + 1 = c + 2
      OBVIOUS
    <2>2. if_insert' = [if_insert EXCEPT ![f] = Lower(upload[f], download[f] \div ((c + 1) + 1))]
      BY <1>2, <1>6 DEF AddChild
    <2> QED BY <1>2, <1>6, <2>1, <2>2 DEF AddChild
  <1>8. /\ children \in [TreeNode -> SUBSET Helper] /\ father \in [TreeNode -> TreeNode \cup {-1}]
        /\ avg_downlink \in [TreeNode -> Nat] /\ if_insert \in [TreeNode -> Nat]
        /\ upload \in [TreeNode -> Nat] /\ download \in [TreeNode -> Nat] /\ min_non_leaf \in Nat
    BY DEF IInv, TypeOK
  <1>9. /\ if_insert[f] = Lower(upload[f], download[f] \div (c + 1))
        /\ download[f] \div (c + 1) \in Nat /\ download[f] \div (c + 2) \in Nat
    <2>1. c + 1 \in Nat \ {0} /\ c + 2 \in Nat \ {0} /\ download[f] \in Nat
      BY <1>5, <1>8
    <2> QED BY <1>5, <1>6, <2>1, Quotients DEF IInv, Rated
  <1>10. /\ x \notin children[f] /\ IsFiniteSet(children[f] \cup {x})
         /\ Cardinality(children[f] \cup {x}) = c + 1
    <2>1. x \notin children[f]
      BY <1>4, <1>5 DEF IInv, Linked
    <2>2. IsFiniteSet(children[f])
      BY <1>5, ChildrenFinite DEF IInv
    <2> QED BY <1>6, <2>1, <2>2, FS_AddElement
  <1>11. min_non_leaf' \in Nat /\ min_non_leaf' <= min_non_leaf /\ min_non_leaf' <= if_insert[f]
    BY <1>2, <1>5, <1>8, LowerFacts
  <1>12. TypeOK'
    <2>1. /\ children' \in [TreeNode -> SUBSET Helper] /\ father' \in [TreeNode -> TreeNode \cup {-1}]
          /\ avg_downlink' \in [TreeNode -> Nat] /\ if_insert' \in [TreeNode -> Nat]
      BY <1>4, <1>5, <1>7, <1>8, <1>9, LowerFacts
    <2>2. i' \in 0 .. rs_k_ /\ max_leaf_index' \in 0 .. rs_k_ - 1
      BY <1>1, <1>2, <1>3, Parameters
    <2>3. nonleaf_queue' \subseteq TreeNode /\ selected' \subseteq Helper
      BY <1>1, <1>2, <1>4, <1>5 DEF IInv, TypeOK
    <2> QED BY <1>1, <1>11, <2>1, <2>2, <2>3 DEF IInv, TypeOK, bwVars
  <1>13. Permuted' /\ BestFirst' /\ LeavesSorted'
    BY <1>1 DEF IInv, Permuted, BestFirst, LeavesSorted, theoretical_bw, bwVars
  <1>14. Turns'
    BY <1>1, <1>2, <1>3, Parameters DEF Turns
  <1>15. Inserted'
    <2>1. First(i)' = selected'
      BY <1>1, <1>4 DEF First
    <2>2. First(max_leaf_index)' = First(max_leaf_index')
      BY <1>1 DEF First
    <2> QED BY <1>1, <1>2, <2>1, <2>2 DEF IInv, Inserted
  <1>16. Linked'
    <2>1. \A g \in TreeNode, y \in Helper : y \in children'[g] <=> y \in selected' /\ father'[y] = g
      <3> SUFFICES ASSUME NEW g \in TreeNode, NEW y \in Helper
                   PROVE y \in children'[g] <=> y \in selected' /\ father'[y] = g
        OBVIOUS
      <3>1. y \in children[g] <=> y \in selected /\ father[y] = g
        BY DEF IInv, Linked
      <3>2. children'[g] = IF g = f THEN children[f] \cup {x} ELSE children[g]
        BY <1>5, <1>7, <1>8
      <3>3. father'[y] = IF y = x THEN f ELSE father[y]
        BY <1>5, <1>7, <1>8 DEF TreeNode
      <3> QED BY <1>1, <1>4, <3>1, <3>2, <3>3
    <2>2. \A y \in selected' : father'[y] = IF y = x THEN f ELSE father[y]
      BY <1>1, <1>4, <1>5, <1>7, <1>8 DEF TreeNode
    <2>3. \A y \in selected' : father'[y] \in nonleaf_queue'
      BY <1>1, <1>2, <2>2 DEF IInv, Linked
    <2>4. \A g \in nonleaf_queue' \ {0} : children'[g] # {}
      <3>1. \A g \in TreeNode : children[g] \subseteq children'[g] /\ x \in children'[f]
        BY <1>5, <1>7, <1>8
      <3>2. SUFFICES ASSUME NEW g \in nonleaf_queue' \ {0} PROVE children'[g] # {}
        OBVIOUS
      <3>3. CASE g = f
        BY <1>5, <3>1, <3>3
      <3>4. CASE g \in nonleaf_queue
        <4>1. g \in TreeNode /\ children[g] # {}
          BY <3>4 DEF IInv, Linked, TypeOK
        <4> QED BY <3>1, <4>1
      <3>5. g = f \/ g \in nonleaf_queue
        BY ONLY <1>2, <3>2
      <3> QED BY <3>3, <3>4, <3>5
    <2>5. Connected(selected, father)'
      <3>1. \A y \in selected' : father'[y] \in selected' \cup {0}
        BY <1>1, <1>2, <1>4, <2>2 DEF IInv, Linked, Connected
      <3>2. \A T \in (SUBSET selected') \ {{}} : \E y \in T : father'[y] \notin T
        <4> SUFFICES ASSUME NEW T \in SUBSET selected', T # {} PROVE \E y \in T : father'[y] \notin T
          OBVIOUS
        <4>1. CASE T = {x}
          BY <1>5, <2>2, <4>1
        <4>2. CASE T # {x}
          <5>1. T \ {x} \in (SUBSET selected) \ {{}}
            BY <1>1, <4>2
          <5>2. PICK y \in T \ {x} : father[y] \notin T \ {x}
            BY <5>1 DEF IInv, Linked, Connected
          <5>3. father[y] \in selected \cup {0} /\ x \notin selected \cup {0}
            BY <1>4, <1>5, <5>1, <5>2 DEF IInv, Linked, Connected
          <5> QED BY <2>2, <5>2, <5>3
        <4> QED BY <4>1, <4>2
      <3> QED BY <3>1, <3>2 DEF Connected
    <2> QED BY <2>1, <2>3, <2>4, <2>5 DEF Linked
  <1>17. Rated'
    <2>1. \A g \in TreeNode : if_insert'[g]
            = Lower(upload[g], download[g] \div (Cardinality(children'[g]) + 1))
      <3> SUFFICES ASSUME NEW g \in TreeNode
                   PROVE if_insert'[g] = Lower(upload[g], download[g] \div (Cardinality(children'[g]) + 1))
        OBVIOUS
      <3>1. CASE g = f
        <4>1. children'[g] = children[f] \cup {x} /\ if_insert'[g] = Lower(upload[f], download[f] \div (c + 2))
          BY <1>5, <1>7, <1>8, <3>1
        <4>2. (c + 1) + 1 = c + 2
          OBVIOUS
        <4> QED BY <1>10, <3>1, <4>1, <4>2
      <3>2. CASE g # f
        BY <1>7, <1>8, <3>2 DEF IInv, Rated
      <3> QED BY <3>1, <3>2
    <2>2. \A g \in TreeNode : children'[g] # {} =>
            min_non_leaf' <= upload[g] /\ min_non_leaf' * Cardinality(children'[g]) <= download[g]
      <3> SUFFICES ASSUME NEW g \in TreeNode, children'[g] # {}
                   PROVE min_non_leaf' <= upload[g]
                         /\ min_non_leaf' * Cardinality(children'[g]) <= download[g]
        OBVIOUS
      <3>0. upload[g] \in Nat /\ download[g] \in Nat
        BY <1>8
      <3>1. CASE g = f
        <4>1. Cardinality(children'[g]) = c + 1
          BY <1>5, <1>7, <1>8, <1>10, <3>1
        <4>2. /\ min_non_leaf' <= upload[g] /\ min_non_leaf' <= download[g] \div (c + 1)
              /\ download[g] \div (c + 1) \in Nat
          BY <1>9, <1>11, <3>0, <3>1, LowerFacts
        <4>3. min_non_leaf' * (c + 1) <= download[g]
          <5>1. c + 1 \in Nat \ {0} /\ min_non_leaf' \in Nat /\ download[g] \in Nat
            BY <1>11, <3>0
          <5> QED BY <4>2, <5>1, Quotients
        <4> QED BY <4>1, <4>2, <4>3
      <3>2. CASE g # f
        <4>1. children'[g] = children[g]
          BY <1>7, <1>8, <3>2
        <4>2. PICK d \in Nat : d = Cardinality(children[g])
          BY ChildrenFinite DEF IInv
        <4>3. min_non_leaf <= upload[g] /\ min_non_leaf * d <= download[g]
          BY <4>1, <4>2 DEF IInv, Rated
        <4>4. min_non_leaf' * d <= min_non_leaf * d /\ min_non_leaf' * d \in Nat
          BY <1>8, <1>11, Products
        <4>5. min_non_leaf * d \in Nat
          BY <1>8, Products
        <4> QED BY <1>8, <1>11, <3>0, <4>1, <4>2, <4>3, <4>4, <4>5
      <3> QED BY <3>1, <3>2
    <2> QED BY <1>1, <2>1, <2>2 DEF IInv, Rated, bwVars, Lower
  <1>18. EnoughStrong'
    BY <1>1 DEF IInv, EnoughStrong
  <1>19. Unbeaten'
    BY StillUnbeaten
  <1> QED BY <1>12, <1>13, <1>14, <1>15, <1>16, <1>17, <1>18, <1>19 DEF IInv

-----------------------------------------------------------------------------
(* The leaves of the tree and the helpers that are left, before the sort.  *)
LEMMA LeafFacts ==
  ASSUME IInv, pc # "sort", NEW n \in Nat, n = rs_n_ - 1, max_leaf_index \in 0 .. n
  PROVE /\ leaf_nodes \in [1 .. n - max_leaf_index -> Helper]
        /\ \A a \in 1 .. n - max_leaf_index : leaf_nodes[a] = candidate[max_leaf_index + a]
        /\ Elements(leaf_nodes) = Helper \ First(max_leaf_index)
        /\ IsFiniteSet(Elements(leaf_nodes))
        /\ Cardinality(Elements(leaf_nodes)) = n - max_leaf_index
  <1>1. /\ candidate \in [1 .. n -> Helper] /\ candidate \in Seq(Helper)
        /\ \A x \in Helper : \E a \in 1 .. n : candidate[a] = x
    BY DEF IInv, Permuted, TypeOK
  <1>2. Len(candidate) = n
    BY <1>1
  <1> DEFINE m == max_leaf_index
  <1>3. m \in Nat /\ m <= n
    OBVIOUS
  <1> HIDE DEF m
  <1>4. leaf_nodes = SubSeq(candidate, m + 1, n)
    BY <1>2 DEF leaf_nodes, m
  <1>5. /\ leaf_nodes \in [1 .. n - m -> Helper]
        /\ \A a \in 1 .. n - m : leaf_nodes[a] = candidate[m + a]
    <2>1. /\ SubSeq(candidate, m + 1, n) \in [1 .. n - m -> Helper]
          /\ \A a \in 1 .. n - m : SubSeq(candidate, m + 1, n)[a] = candidate[m + a]
      BY ONLY <1>1, <1>2, <1>3, n \in Nat, TailOf
    <2> QED BY <1>4, <2>1
  <1>6. \A x \in Helper : x \in Elements(leaf_nodes) <=> x \notin First(m)
    <2> SUFFICES ASSUME NEW x \in Helper PROVE x \in Elements(leaf_nodes) <=> x \notin First(m)
      OBVIOUS
    <2>1. PICK b \in 1 .. n : candidate[b] = x
      BY <1>1
    <2>2. x \in First(m) <=> b <= m
      BY <1>3, <2>1, FirstFacts DEF IInv
    <2>3. b > m => x \in Elements(leaf_nodes)
      <3> SUFFICES ASSUME b > m PROVE x \in Elements(leaf_nodes)
        OBVIOUS
      <3>1. b - m \in 1 .. n - m /\ m + (b - m) = b
        BY <1>3, <2>1
      <3> QED BY <1>5, <2>1, <3>1 DEF Elements
    <2>4. x \in Elements(leaf_nodes) => b > m
      <3> SUFFICES ASSUME NEW a \in 1 .. n - m, leaf_nodes[a] = x PROVE b > m
        BY <1>5 DEF Elements
      <3>1. candidate[m + a] = x /\ m + a \in 1 .. n /\ m + a > m
        BY <1>3, <1>5
      <3>2. m + a = b
        BY <2>1, <3>1 DEF IInv, Permuted
      <3> QED BY <3>1, <3>2
    <2> QED BY <1>3, <2>1, <2>2, <2>3, <2>4
  <1>7. Elements(leaf_nodes) \subseteq Helper
    BY <1>5 DEF Elements
  <1>8. Elements(leaf_nodes) = Helper \ First(m)
    BY <1>6, <1>7
  <1>9. /\ IsFiniteSet(Helper \ First(m))
        /\ Cardinality(Helper \ First(m)) = Cardinality(Helper) - Cardinality(Helper \cap First(m))
    BY Parameters, FS_Difference
  <1>10. First(m) \subseteq Helper /\ Cardinality(First(m)) = m
    BY <1>3, FirstFacts DEF IInv
  <1>11. Helper \cap First(m) = First(m)
    BY <1>10
  <1> QED BY <1>5, <1>8, <1>9, <1>10, <1>11, Parameters DEF m

(* As many strong nodes are outside the tree as there are weak ones in it: *)
(* A and B stand for the leaves before and after the sort.                 *)
LEMMA AsManyOut ==
  ASSUME NEW A, NEW B, IsFiniteSet(A), IsFiniteSet(B), Cardinality(A) = Cardinality(B)
  PROVE /\ IsFiniteSet(A \ B) /\ IsFiniteSet(B \ A)
        /\ Cardinality(A \ B) = Cardinality(B \ A)
  <1>1. /\ Cardinality(A \ B) = Cardinality(A) - Cardinality(A \cap B)
        /\ Cardinality(B \ A) = Cardinality(B) - Cardinality(B \cap A)
        /\ IsFiniteSet(A \ B) /\ IsFiniteSet(B \ A)
    BY FS_Difference
  <1>2. A \cap B = B \cap A
    OBVIOUS
  <1> QED BY <1>1, <1>2

LEMMA SortLeavesStep == IInv /\ SortLeaves => IInv'
  <1> SUFFICES ASSUME IInv, SortLeaves PROVE IInv'
    OBVIOUS
  <1>1. /\ pc = "leaves" /\ pc' = "replace"
        /\ UNCHANGED <<bwVars, i, max_leaf_index, treeVars, nonleaf_queue, selected,
                       min_non_leaf, result>>
    BY DEF SortLeaves
  <1>2. PICK s \in Sorted(Elements(leaf_nodes), ByUpload) :
          LET best == SubSeq(s, 1, leaf_num) IN
          /\ candidate' = SubSeq(candidate, 1, max_leaf_index) \o s
          /\ weak_leafnodes' = Elements(FirstLeaves) \ Elements(best)
          /\ unused_strong_nodes' \in InOrderOf(s, Elements(best) \ selected)
    BY DEF SortLeaves
  <1>3. PICK n \in Nat, m \in Nat, k \in Nat :
          n = rs_n_ - 1 /\ m = max_leaf_index /\ k = rs_k_
    BY Parameters DEF IInv, TypeOK
  <1>4. m < k /\ k <= n /\ i = k /\ leaf_num = k - m
    BY <1>1, <1>3, Parameters DEF IInv, Turns, leaf_num
  <1> DEFINE L == Elements(leaf_nodes)
             FL == Elements(FirstLeaves)
             best == SubSeq(s, 1, k - m)
             EB == Elements(best)
  <1>5. /\ leaf_nodes \in [1 .. n - m -> Helper]
        /\ \A a \in 1 .. n - m : leaf_nodes[a] = candidate[m + a]
        /\ L = Helper \ First(m) /\ IsFiniteSet(L) /\ Cardinality(L) = n - m
    BY <1>1, <1>3, <1>4, LeafFacts
  <1>6. /\ candidate \in [1 .. n -> Helper] /\ candidate \in Seq(Helper) /\ Len(candidate) = n
        /\ \A x \in Helper : \E a \in 1 .. n : candidate[a] = x
        /\ \A a, b \in 1 .. n : candidate[a] = candidate[b] => a = b
    BY <1>1, <1>3 DEF IInv, Permuted, TypeOK
  <1>7. First(m) \subseteq Helper /\ First(k) \subseteq Helper /\ First(m) \subseteq First(k)
    BY <1>4, <1>6 DEF First
  <1>8. /\ s \in [1 .. n - m -> L] /\ \A x \in L : \E a \in 1 .. n - m : s[a] = x
        /\ \A a, b \in 1 .. n - m : a < b => ~ByUpload(s[b], s[a])
    BY <1>2, <1>5 DEF Sorted
  <1>9. \A a, b \in 1 .. n - m : s[a] = s[b] => a = b
    <2>1. PICK l \in Nat : l = n - m
      BY <1>4
    <2>2. s \in [1 .. l -> L] /\ \A x \in L : \E a \in 1 .. l : s[a] = x
      BY <1>8, <2>1
    <2>3. IsFiniteSet(L) /\ Cardinality(L) = l
      BY <1>5, <2>1
    <2> HIDE DEF L
    <2>4. \A a, b \in 1 .. l : s[a] = s[b] => a = b
      BY ONLY <2>2, <2>3, l \in Nat, OntoIsInjective
    <2> QED BY <2>1, <2>4
  <1> HIDE DEF L
  <1>10. L \subseteq Helper
    BY <1>5
  <1>11. s \in Seq(Helper) /\ Len(s) = n - m
    BY <1>4, <1>8, <1>10
  <1>12. /\ candidate' \in Seq(Helper) /\ Len(candidate') = n
         /\ candidate' \in [1 .. n -> Helper]
         /\ \A a \in 1 .. m : candidate'[a] = candidate[a]
         /\ \A a \in m + 1 .. n : candidate'[a] = s[a - m]
    <2>1. candidate' = SubSeq(candidate, 1, m) \o s
      BY <1>2, <1>3
    <2>2. /\ SubSeq(candidate, 1, m) \in Seq(Helper) /\ Len(SubSeq(candidate, 1, m)) = m
          /\ \A a \in 1 .. m : SubSeq(candidate, 1, m)[a] = candidate[a]
      BY <1>4, <1>6
    <2> HIDE DEF best
    <2>3. PICK p \in Seq(Helper) : p = SubSeq(candidate, 1, m)
      BY <2>2
    <2>4. Len(p) = m /\ m + (n - m) = n
      BY <1>4, <2>2, <2>3
    <2>5. /\ p \o s \in Seq(Helper) /\ Len(p \o s) = n
          /\ \A a \in 1 .. n : (p \o s)[a] = IF a <= m THEN p[a] ELSE s[a - m]
      <3>1. /\ p \o s \in Seq(Helper) /\ Len(p \o s) = Len(p) + Len(s)
            /\ \A a \in 1 .. Len(p) + Len(s) :
                 (p \o s)[a] = IF a <= Len(p) THEN p[a] ELSE s[a - Len(p)]
        BY <1>11, ConcatProperties
      <3>2. Len(p) = m /\ Len(p) + Len(s) = n
        BY <1>11, <2>4
      <3> QED BY <3>1, <3>2
    <2>6. PICK c \in Seq(Helper) : c = candidate' /\ Len(c) = n
            /\ \A a \in 1 .. n : c[a] = IF a <= m THEN p[a] ELSE s[a - m]
      BY <2>1, <2>3, <2>5
    <2>7. \A a \in 1 .. m : a \in 1 .. n /\ p[a] = candidate[a]
      BY <1>4, <2>2, <2>3
    <2>8. \A a \in m + 1 .. n : a \in 1 .. n /\ ~(a <= m)
      OBVIOUS
    <2>9. c \in [1 .. n -> Helper]
      BY ONLY <2>6, c \in Seq(Helper)
    <2>10. \A a \in 1 .. m : c[a] = candidate[a]
      BY ONLY <2>6, <2>7
    <2>11. \A a \in m + 1 .. n : c[a] = s[a - m]
      BY ONLY <2>6, <2>8
    <2> QED BY ONLY <2>6, <2>9, <2>10, <2>11
  <1>13. First(m)' = First(m)
    BY <1>12, <1>4 DEF First
  <1>14. \A x \in Helper : \E a \in 1 .. n : candidate'[a] = x
    <2> SUFFICES ASSUME NEW x \in Helper PROVE \E a \in 1 .. n : candidate'[a] = x
      OBVIOUS
    <2>1. CASE x \in First(m)
      <3>1. PICK a \in 1 .. m : x = candidate[a]
        BY <2>1 DEF First
      <3> QED BY <1>4, <1>12, <3>1
    <2>2. CASE x \notin First(m)
      <3>1. PICK a \in 1 .. n - m : s[a] = x
        BY <1>5, <1>8, <2>2
      <3>2. m + a \in m + 1 .. n /\ (m + a) - m = a
        BY <1>4
      <3> QED BY <1>12, <3>1, <3>2
    <2> QED BY <2>1, <2>2
  <1>15. \A a, b \in 1 .. n : candidate'[a] = candidate'[b] => a = b
    <2>1. Cardinality(Helper) = n /\ IsFiniteSet(Helper)
      BY <1>3, Parameters
    <2>2. PICK c \in [1 .. n -> Helper] : c = candidate'
      BY <1>12
    <2>3. \A x \in Helper : \E a \in 1 .. n : c[a] = x
      BY <1>14, <2>2
    <2>4. \A a, b \in 1 .. n : c[a] = c[b] => a = b
      BY ONLY <2>1, <2>3, n \in Nat, c \in [1 .. n -> Helper], OntoIsInjective
    <2> QED BY <2>2, <2>4
  <1>16. Permuted' /\ BestFirst'
    BY <1>1, <1>3, <1>12, <1>14, <1>15 DEF Permuted, BestFirst
  <1>17. LeavesSorted'
    <2>1. \A a, b \in 1 .. n - m : a < b => upload[s[b]] <= upload[s[a]]
      <3>1. \A a \in 1 .. n - m : upload[s[a]] \in Nat
        BY <1>8, <1>10 DEF IInv, TypeOK, TreeNode
      <3>2. \A a, b \in 1 .. n - m : a < b => ~(upload[s[b]] > upload[s[a]])
        BY <1>8 DEF ByUpload
      <3> QED BY <3>1, <3>2
    <2> SUFFICES ASSUME NEW a \in 1 .. n, NEW b \in 1 .. n, m < a, a < b
                 PROVE upload[candidate'[b]] <= upload[candidate'[a]]
      BY <1>1, <1>3 DEF LeavesSorted, bwVars
    <2>2. a - m \in 1 .. n - m /\ b - m \in 1 .. n - m /\ a - m < b - m
          /\ a \in m + 1 .. n /\ b \in m + 1 .. n
      OBVIOUS
    <2> HIDE DEF best
    <2> QED BY <1>12, <2>1, <2>2
  <1>18. /\ EB = {s[a] : a \in 1 .. k - m} /\ EB \subseteq L
         /\ IsFiniteSet(EB) /\ Cardinality(EB) = k - m
    <2>1. best \in Seq(Helper) /\ Len(best) = k - m /\ \A a \in 1 .. k - m : best[a] = s[a]
      BY <1>4, <1>11
    <2> HIDE DEF best
    <2>2. EB = {s[a] : a \in 1 .. k - m} /\ EB \subseteq L
      <3>1. EB = {best[a] : a \in 1 .. k - m}
        BY <1>4, <2>1 DEF Elements
      <3>2. 1 .. k - m \subseteq 1 .. n - m
        BY <1>4
      <3> HIDE DEF EB
      <3> QED BY <1>8, <2>1, <3>1, <3>2
    <2>3. k - m \in Nat /\ \A a, b \in 1 .. k - m : s[a] = s[b] => a = b
      BY <1>4, <1>9
    <2> HIDE DEF EB
    <2>4. IsFiniteSet(EB) /\ Cardinality(EB) = k - m
      <3>1. PICK j \in Nat : j = k - m
        BY <2>3
      <3>2. EB = {s[a] : a \in 1 .. j} /\ \A a, b \in 1 .. j : s[a] = s[b] => a = b
        BY ONLY <2>2, <2>3, <3>1
      <3>3. IsFiniteSet(EB) /\ Cardinality(EB) = j
        BY ONLY <3>2, j \in Nat, ListedOnce
      <3> QED BY ONLY <3>1, <3>3
    <2> QED BY <2>2, <2>4
  <1>19. FL = First(k) \ First(m) /\ IsFiniteSet(FL) /\ Cardinality(FL) = k - m
    <2>1. leaf_nodes \in Seq(Helper) /\ Len(leaf_nodes) = n - m
      BY <1>4, <1>5
    <2>2. FirstLeaves = SubSeq(leaf_nodes, 1, k - m)
      BY <1>4 DEF FirstLeaves
    <2>3. /\ FirstLeaves \in Seq(Helper) /\ Len(FirstLeaves) = k - m
          /\ \A a \in 1 .. k - m : FirstLeaves[a] = candidate[m + a]
      <3>1. /\ FirstLeaves \in Seq(Helper) /\ Len(FirstLeaves) = k - m
            /\ \A a \in 1 .. k - m : FirstLeaves[a] = leaf_nodes[a]
        BY <1>4, <2>1, <2>2
      <3> QED BY <1>4, <1>5, <3>1
    <2>4. FL = {FirstLeaves[a] : a \in 1 .. k - m}
      BY <1>4, <2>3 DEF Elements
    <2>5. FL = First(k) \ First(m)
      <3>1. \A a \in 1 .. k - m : m + a \in 1 .. n /\ m + a <= k /\ ~(m + a <= m)
        BY <1>4
      <3>2. FL \subseteq First(k) \ First(m)
        <4> SUFFICES ASSUME NEW a \in 1 .. k - m
                     PROVE candidate[m + a] \in First(k) \ First(m)
          BY <2>3, <2>4
        <4>1. k \in 0 .. rs_n_ - 1 /\ m \in 0 .. rs_n_ - 1 /\ m + a \in 1 .. rs_n_ - 1
          BY <1>3, <1>4, <3>1
        <4>2. \A b \in 1 .. rs_n_ - 1 :
                (candidate[b] \in First(k) <=> b <= k) /\ (candidate[b] \in First(m) <=> b <= m)
          BY <1>1, <4>1, FirstFacts DEF IInv
        <4> QED BY <3>1, <4>1, <4>2
      <3>3. First(k) \ First(m) \subseteq FL
        <4> SUFFICES ASSUME NEW b \in 1 .. k, candidate[b] \notin First(m)
                     PROVE candidate[b] \in FL
          BY DEF First
        <4>1. b \in m + 1 .. k
          BY DEF First
        <4>2. b - m \in 1 .. k - m /\ m + (b - m) = b
          BY <4>1
        <4>3. FirstLeaves[b - m] = candidate[b]
          BY <2>3, <4>2
        <4> QED BY <2>4, <4>2, <4>3
      <3> QED BY <3>2, <3>3
    <2>6. k - m \in Nat /\ \A a, b \in 1 .. k - m : FirstLeaves[a] = FirstLeaves[b] => a = b
      <3> SUFFICES ASSUME NEW a \in 1 .. k - m, NEW b \in 1 .. k - m, FirstLeaves[a] = FirstLeaves[b]
                   PROVE a = b
        BY <1>4
      <3>1. m + a \in 1 .. n /\ m + b \in 1 .. n
        BY <1>4
      <3>2. m + a = m + b
        BY <1>6, <2>3, <3>1
      <3> QED BY ONLY <3>2, m \in Nat, a \in 1 .. k - m, b \in 1 .. k - m, <1>3
    <2> HIDE DEF FL
    <2> QED BY <2>4, <2>5, <2>6, ListedOnce
  <1> DEFINE U == EB \ selected
  <1>20. selected = First(k) /\ nonleaf_queue = {0} \cup First(m)
    BY <1>1, <1>3, <1>4 DEF IInv, Inserted
  <1>21. /\ weak_leafnodes' = FL \ EB
         /\ unused_strong_nodes' \in [1 .. Cardinality(U) -> U]
         /\ \A x \in U : \E a \in DOMAIN unused_strong_nodes' : unused_strong_nodes'[a] = x
    BY <1>2, <1>4 DEF InOrderOf, Sorted
  <1> HIDE DEF EB, FL, best
  <1>22. U = EB \ FL /\ EB \cap First(m) = {}
    BY <1>5, <1>18, <1>19, <1>20
  <1>23. IsFiniteSet(FL \ EB) /\ IsFiniteSet(U) /\ Cardinality(FL \ EB) = Cardinality(U)
    BY <1>18, <1>19, <1>22, AsManyOut
  <1> HIDE DEF U
  <1>24. PICK u \in Nat : u = Cardinality(U)
    BY <1>23, FS_CardinalityType
  <1>25. /\ unused_strong_nodes' \in [1 .. u -> U] /\ Len(unused_strong_nodes') = u
         /\ \A x \in U : \E a \in 1 .. u : unused_strong_nodes'[a] = x
    BY <1>21, <1>24
  <1>26. \A a, b \in 1 .. u : unused_strong_nodes'[a] = unused_strong_nodes'[b] => a = b
    BY <1>23, <1>24, <1>25, OntoIsInjective
  <1>27. U \subseteq Helper /\ FL \subseteq Helper
    BY <1>7, <1>10, <1>18, <1>19, <1>22
  <1>28. TypeOK'
    <2>1. unused_strong_nodes' \in Seq(Helper)
      BY <1>25, <1>27
    <2>2. weak_leafnodes' \subseteq Helper
      BY <1>21, <1>27
    <2> QED BY <1>1, <1>3, <1>12, <2>1, <2>2 DEF IInv, TypeOK, bwVars, treeVars
  <1>29. Elements(unused_strong_nodes)' = U
    BY <1>25 DEF Elements
  <1>30. First(k)' = First(m) \cup EB
    <2>1. First(k)' = {candidate'[a] : a \in 1 .. k}
      BY DEF First
    <2>2. 1 .. k = (1 .. m) \cup (m + 1 .. k) /\ m + 1 .. k \subseteq m + 1 .. n
      BY <1>4
    <2>3. {candidate'[a] : a \in 1 .. m} = First(m)
      BY <1>12 DEF First
    <2>4. {candidate'[a] : a \in m + 1 .. k} = EB
      <3>1. \A a \in m + 1 .. k : candidate'[a] = s[a - m] /\ a - m \in 1 .. k - m
        BY <1>12, <2>2
      <3>2. \A a \in 1 .. k - m : a + m \in m + 1 .. k /\ (a + m) - m = a
        BY <1>4
      <3> QED BY <1>18, <3>1, <3>2
    <2> QED BY <2>1, <2>2, <2>3, <2>4
  <1>31. Inserted'
    <2>1. First(max_leaf_index)' = First(m) /\ First(rs_k_)' = First(m) \cup EB
      BY <1>1, <1>3, <1>13, <1>30 DEF First
    <2>2. First(k) = First(m) \cup FL /\ FL \cap First(m) = {}
      BY <1>7, <1>19
    <2>3. First(k) = ((First(m) \cup EB) \ U) \cup (FL \ EB)
      BY <1>22, <2>2
    <2>4. (FL \ EB) \cap (First(m) \cup EB) = {}
      BY <2>2
    <2>5. U \subseteq (First(m) \cup EB) \ First(m)
      BY <1>22
    <2>6. \A a, b \in DOMAIN unused_strong_nodes' :
            unused_strong_nodes'[a] = unused_strong_nodes'[b] => a = b
      BY <1>25, <1>26
    <2> QED BY <1>1, <1>3, <1>20, <1>21, <1>29, <2>1, <2>3, <2>4, <2>5, <2>6 DEF Inserted
  <1>32. Turns'
    BY <1>1 DEF IInv, Turns
  <1>33. Linked' /\ Unbeaten'
    BY <1>1, TreeStays
  <1>34. Rated'
    BY <1>1 DEF IInv, Rated, Lower, bwVars, treeVars
  <1>35. EnoughStrong'
    BY <1>21, <1>23, <1>24, <1>25 DEF EnoughStrong
  <1> QED BY <1>16, <1>17, <1>28, <1>31, <1>32, <1>33, <1>34, <1>35 DEF IInv

-----------------------------------------------------------------------------
LEMMA ReplaceStep == IInv /\ Replace => IInv'
  <1> SUFFICES ASSUME IInv, Replace PROVE IInv'
    OBVIOUS
  <1> DEFINE x == Head(unused_strong_nodes)
  <1>1. PICK w \in weak_leafnodes :
          /\ pc = "replace"
          /\ weak_leafnodes' = weak_leafnodes \ {w}
          /\ unused_strong_nodes' = Tail(unused_strong_nodes)
          /\ selected' = (selected \ {w}) \cup {x}
          /\ father' = [father EXCEPT ![w] = -1, ![x] = father[w]]
          /\ children' = [children EXCEPT ![father[w]] = (@ \ {w}) \cup {x}]
          /\ UNCHANGED <<pc, bwVars, candidate, i, max_leaf_index, if_insert, avg_downlink,
                         nonleaf_queue, min_non_leaf, result>>
    BY DEF Replace
  <1> DEFINE EU == Elements(unused_strong_nodes)
             C == First(rs_k_)
  <1>2. /\ selected = (C \ EU) \cup weak_leafnodes /\ weak_leafnodes \cap C = {}
        /\ EU \subseteq C \ First(max_leaf_index)
        /\ \A a, b \in DOMAIN unused_strong_nodes : unused_strong_nodes[a] = unused_strong_nodes[b] => a = b
        /\ nonleaf_queue = {0} \cup First(max_leaf_index)
    BY <1>1 DEF IInv, Inserted
  <1>3. First(max_leaf_index) \subseteq C /\ C \subseteq Helper
    <2>1. max_leaf_index \in Nat /\ max_leaf_index <= rs_k_ /\ rs_k_ \in 0 .. rs_n_ - 1 /\ rs_k_ \in Nat
      BY <1>1, Parameters DEF IInv, Turns, TypeOK
    <2>2. First(max_leaf_index) \subseteq C
      BY <2>1 DEF First
    <2> QED BY <1>1, <2>1, <2>2, FirstFacts DEF IInv
  <1>4. weak_leafnodes \subseteq Helper /\ unused_strong_nodes \in Seq(Helper)
    BY DEF IInv, TypeOK
  <1>5. IsFiniteSet(weak_leafnodes) /\ Cardinality(weak_leafnodes) = Len(unused_strong_nodes)
    BY <1>4, Parameters, FS_Subset DEF IInv, EnoughStrong
  <1>6. PICK l \in Nat : l = Len(unused_strong_nodes)
    BY <1>4
  <1>7. l # 0 /\ unused_strong_nodes # <<>>
    <2>1. Cardinality(weak_leafnodes) # 0
      BY <1>1, <1>5, FS_EmptySet
    <2> QED BY <1>5, <1>6, <2>1
  <1>8. /\ x = unused_strong_nodes[1] /\ x \in EU /\ x \in Helper
        /\ Tail(unused_strong_nodes) \in Seq(Helper) /\ Len(Tail(unused_strong_nodes)) = l - 1
        /\ \A a \in 1 .. l - 1 : Tail(unused_strong_nodes)[a] = unused_strong_nodes[a + 1]
    <2>1. /\ Tail(unused_strong_nodes) \in Seq(Helper)
          /\ Len(Tail(unused_strong_nodes)) = l - 1
          /\ \A a \in 1 .. l - 1 : Tail(unused_strong_nodes)[a] = unused_strong_nodes[a + 1]
      BY <1>4, <1>6, <1>7, HeadTailProperties
    <2>2. 1 \in DOMAIN unused_strong_nodes
      BY <1>4, <1>6, <1>7
    <2> QED BY <1>4, <2>1, <2>2 DEF Elements
  <1>9. EU = {unused_strong_nodes[a] : a \in 1 .. l}
    BY <1>4, <1>6 DEF Elements
  <1>10. Elements(Tail(unused_strong_nodes)) = EU \ {x}
    <2>1. PICK t \in Seq(Helper) : t = Tail(unused_strong_nodes) /\ Len(t) = l - 1
            /\ \A a \in 1 .. l - 1 : t[a] = unused_strong_nodes[a + 1]
      BY <1>8
    <2>2. \A a \in 1 .. l - 1 : a + 1 \in 1 .. l /\ a + 1 # 1
      OBVIOUS
    <2>3. \A a \in 1 .. l : a # 1 => a - 1 \in 1 .. l - 1 /\ (a - 1) + 1 = a
      OBVIOUS
    <2>4. \A a, b \in 1 .. l : unused_strong_nodes[a] = unused_strong_nodes[b] => a = b
      BY <1>2, <1>4, <1>6
    <2>5. Elements(t) = {t[a] : a \in 1 .. l - 1}
      BY <2>1 DEF Elements
    <2>6. 1 \in 1 .. l
      BY <1>7
    <2> HIDE DEF x, EU
    <2>7. Elements(t) \subseteq EU \ {x}
      <3> SUFFICES ASSUME NEW a \in 1 .. l - 1 PROVE t[a] \in EU /\ t[a] # x
        BY <2>5
      <3>1. t[a] = unused_strong_nodes[a + 1] /\ a + 1 \in 1 .. l /\ a + 1 # 1
        BY ONLY <2>1, <2>2, a \in 1 .. l - 1
      <3>2. t[a] \in EU
        BY ONLY <1>9, <3>1
      <3>3. x = unused_strong_nodes[1]
        BY ONLY <1>8
      <3>4. t[a] # x
        BY ONLY <2>4, <2>6, <3>1, <3>3
      <3> QED BY ONLY <3>2, <3>4
    <2>8. EU \ {x} \subseteq Elements(t)
      <3> SUFFICES ASSUME NEW y \in EU, y # x PROVE y \in Elements(t)
        OBVIOUS
      <3>1. PICK a \in 1 .. l : y = unused_strong_nodes[a]
        BY ONLY <1>9, y \in EU
      <3>2. a # 1
        BY ONLY <1>8, <3>1, y # x
      <3>3. a - 1 \in 1 .. l - 1 /\ (a - 1) + 1 = a
        BY ONLY <2>3, <3>2, a \in 1 .. l
      <3>4. t[a - 1] = y
        BY ONLY <2>1, <3>1, <3>3
      <3> QED BY ONLY <2>5, <3>3, <3>4
    <2> QED BY <2>1, <2>7, <2>8
  <1> HIDE DEF x, EU, C
  <1> DEFINE f == father[w]
  <1>11. /\ w \in selected /\ w \in Helper /\ w \notin C /\ w \notin nonleaf_queue /\ w # 0
         /\ x \in C /\ x \notin selected /\ x # w /\ x # 0 /\ x \notin nonleaf_queue
    BY <1>1, <1>2, <1>3, <1>4, <1>8, Parameters
  <1>12. /\ f \in nonleaf_queue /\ f \in TreeNode /\ f # w /\ f # x
         /\ w \in TreeNode /\ x \in TreeNode /\ w \in children[f] /\ x \notin children[f]
    <2>1. f \in nonleaf_queue /\ f \in TreeNode
      BY <1>11 DEF IInv, Linked, TypeOK
    <2> QED BY <1>8, <1>11, <2>1 DEF IInv, Linked, TreeNode
  <1> HIDE DEF f
  <1>13. /\ children \in [TreeNode -> SUBSET Helper] /\ father \in [TreeNode -> TreeNode \cup {-1}]
         /\ father' = [father EXCEPT ![w] = -1, ![x] = f]
         /\ children' = [children EXCEPT ![f] = (@ \ {w}) \cup {x}]
    BY <1>1 DEF IInv, TypeOK, f
  <1>14. TypeOK'
    <2>1. children' \in [TreeNode -> SUBSET Helper] /\ father' \in [TreeNode -> TreeNode \cup {-1}]
      BY <1>8, <1>12, <1>13
    <2>2. /\ selected' \subseteq Helper /\ weak_leafnodes' \subseteq Helper
          /\ unused_strong_nodes' \in Seq(Helper)
      BY <1>1, <1>8 DEF IInv, TypeOK
    <2> QED BY <1>1, <2>1, <2>2 DEF IInv, TypeOK, bwVars
  <1>15. Permuted' /\ BestFirst' /\ LeavesSorted' /\ Turns'
    BY <1>1 DEF IInv, Permuted, BestFirst, LeavesSorted, theoretical_bw, Turns, bwVars
  <1>16. Inserted'
    <2>1. First(rs_k_)' = C /\ First(max_leaf_index)' = First(max_leaf_index)
      BY <1>1 DEF First, C
    <2>2. Elements(unused_strong_nodes)' = EU \ {x}
      BY <1>1, <1>10 DEF Elements
    <2>3. selected' = (C \ (EU \ {x})) \cup (weak_leafnodes \ {w})
      BY <1>1, <1>2, <1>8, <1>11
    <2>4. \A a, b \in DOMAIN unused_strong_nodes' :
            unused_strong_nodes'[a] = unused_strong_nodes'[b] => a = b
      <3>1. PICK t \in Seq(Helper) : t = unused_strong_nodes' /\ Len(t) = l - 1
              /\ \A a \in 1 .. l - 1 : t[a] = unused_strong_nodes[a + 1]
        BY <1>1, <1>8
      <3>2. \A a, b \in 1 .. l : unused_strong_nodes[a] = unused_strong_nodes[b] => a = b
        BY <1>2, <1>4, <1>6
      <3>3. DOMAIN t = 1 .. l - 1
        BY <1>7, <3>1
      <3>4. \A a \in 1 .. l - 1 : a + 1 \in 1 .. l
        OBVIOUS
      <3>5. \A a, b \in 1 .. l - 1 : t[a] = t[b] => a = b
        <4> SUFFICES ASSUME NEW a \in 1 .. l - 1, NEW b \in 1 .. l - 1, t[a] = t[b] PROVE a = b
          OBVIOUS
        <4>1. a + 1 = b + 1
          BY <3>1, <3>2, <3>4
        <4> QED BY ONLY <4>1, a \in 1 .. l - 1, b \in 1 .. l - 1, l \in Nat
      <3> QED BY <3>1, <3>3, <3>5
    <2>5. pc' = "replace"
      BY <1>1
    <2> QED BY <1>1, <1>2, <2>1, <2>2, <2>3, <2>4, <2>5 DEF Inserted
  <1>17. \A g \in TreeNode : children'[g] = IF g = f THEN (children[f] \ {w}) \cup {x} ELSE children[g]
    BY <1>12, <1>13
  <1>18. \A y \in selected' : father'[y] = IF y = x THEN f ELSE father[y]
    BY <1>1, <1>11, <1>12, <1>13 DEF IInv, TypeOK, TreeNode
  <1>19. Linked'
    <2>0. /\ selected' = (selected \ {w}) \cup {x} /\ nonleaf_queue' = nonleaf_queue
          /\ \A y \in selected : father[y] \in nonleaf_queue
          /\ \A y \in selected : father[y] \in selected \cup {0} /\ father[y] # w
      BY <1>1, <1>11 DEF IInv, Linked, Connected
    <2>1. \A g \in TreeNode, y \in Helper : y \in children'[g] <=> y \in selected' /\ father'[y] = g
      <3> SUFFICES ASSUME NEW g \in TreeNode, NEW y \in Helper
                   PROVE y \in children'[g] <=> y \in selected' /\ father'[y] = g
        OBVIOUS
      <3>1. y \in children[g] <=> y \in selected /\ father[y] = g
        BY DEF IInv, Linked
      <3>2. y \in children'[g] <=> IF y = x THEN g = f ELSE y # w /\ y \in children[g]
        <4>1. w \in children[g] => g = f
          BY <1>11 DEF IInv, Linked, f
        <4>2. x \notin children[g]
          BY <1>11, <1>13, Parameters DEF IInv, Linked
        <4> QED BY ONLY <4>1, <4>2, <1>11, <1>17, g \in TreeNode
      <3>3. y \in selected' /\ father'[y] = g <=> IF y = x THEN g = f ELSE y # w /\ y \in selected /\ father[y] = g
        <4>1. y \in selected' <=> y = x \/ (y \in selected /\ y # w)
          BY ONLY <2>0, <1>11
        <4> QED BY ONLY <4>1, <1>18
      <3> QED BY ONLY <3>1, <3>2, <3>3
    <2>2. \A y \in selected' : father'[y] \in nonleaf_queue'
      BY ONLY <1>12, <1>18, <2>0
    <2>3. \A g \in nonleaf_queue' \ {0} : children'[g] # {}
      <3>1. \A g \in nonleaf_queue \ {0} : g \in TreeNode /\ children[g] # {}
        BY DEF IInv, Linked, TypeOK
      <3> QED BY <1>1, <1>17, <3>1
    <2>4. Connected(selected, father)'
      <3>1. \A y \in selected : father[y] \in selected \cup {0} /\ father[y] # w
        BY <1>11 DEF IInv, Linked, Connected
      <3>2. f # w /\ f # x /\ f \in selected \cup {0}
        BY <1>11, <1>12, <3>1 DEF f
      <3>3. \A y \in selected' : father'[y] \in selected' \cup {0}
        BY ONLY <1>18, <2>0, <3>2
      <3>4. \A T \in (SUBSET selected') \ {{}} : \E y \in T : father'[y] \notin T
        <4> SUFFICES ASSUME NEW T \in SUBSET selected', T # {} PROVE \E y \in T : father'[y] \notin T
          OBVIOUS
        <4>1. CASE x \in T
          <5>1. (T \ {x}) \cup {w} \in (SUBSET selected) \ {{}}
            BY <1>1, <1>11
          <5>2. PICK y \in (T \ {x}) \cup {w} : father[y] \notin (T \ {x}) \cup {w}
            BY <5>1 DEF IInv, Linked, Connected
          <5>3. father[y] # x
            BY <1>11, <3>1, <5>1, <5>2
          <5>4. CASE y = w
            <6>1. f \notin T
              BY <3>2, <5>2, <5>4 DEF f
            <6> QED BY <1>18, <4>1, <6>1
          <5>5. CASE y # w
            <6>1. y \in T /\ y # x
              BY <5>2, <5>5
            <6>2. father'[y] = father[y]
              BY <1>18, <6>1
            <6> QED BY <5>2, <5>3, <6>1, <6>2
          <5> QED BY <5>4, <5>5
        <4>2. CASE x \notin T
          <5>1. T \in (SUBSET selected) \ {{}}
            BY <1>1, <4>2
          <5>2. PICK y \in T : father[y] \notin T
            BY <5>1 DEF IInv, Linked, Connected
          <5> QED BY <1>18, <4>2, <5>2
        <4> QED BY <4>1, <4>2
      <3> QED BY <3>3, <3>4 DEF Connected
    <2> QED BY <2>1, <2>2, <2>3, <2>4 DEF Linked
  <1>20. \A g \in TreeNode : /\ Cardinality(children'[g]) = Cardinality(children[g])
                             /\ children'[g] # {} => children[g] # {}
    <2>1. IsFiniteSet(children[f]) /\ Cardinality(children[f]) \in Nat
      BY <1>12, ChildrenFinite DEF IInv
    <2>2. /\ IsFiniteSet(children[f] \ {w})
          /\ Cardinality(children[f] \ {w}) = Cardinality(children[f]) - 1
      BY <1>12, <2>1, FS_RemoveElement
    <2>3. x \notin children[f] \ {w}
      BY <1>12
    <2>4. Cardinality((children[f] \ {w}) \cup {x}) = (Cardinality(children[f]) - 1) + 1
      BY <2>2, <2>3, FS_AddElement
    <2>5. Cardinality((children[f] \ {w}) \cup {x}) = Cardinality(children[f])
      BY <2>1, <2>4
    <2> QED BY <1>12, <1>17, <2>5
  <1>21. Rated'
    BY <1>1, <1>20 DEF IInv, Rated, Lower, bwVars
  <1>22. Unbeaten'
    BY <1>1 DEF IInv, Unbeaten, Carries, bwVars
  <1>23. EnoughStrong'
    <2>1. Cardinality(weak_leafnodes \ {w}) = l - 1
      BY <1>1, <1>5, <1>6, FS_RemoveElement
    <2> QED BY <1>1, <1>8, <2>1 DEF EnoughStrong
  <1> QED BY <1>14, <1>15, <1>16, <1>19, <1>21, <1>22, <1>23 DEF IInv

LEMMA ReturnStep == IInv /\ Return => IInv'
  <1> SUFFICES ASSUME IInv, Return PROVE IInv'
    OBVIOUS
  <1>1. /\ pc = "replace" /\ weak_leafnodes = {} /\ pc' = "built"
        /\ result' = Lower(min_non_leaf, upload[leaf_nodes[leaf_num]])
        /\ UNCHANGED <<bwVars, candidate, i, max_leaf_index, treeVars, nonleaf_queue, selected,
                       min_non_leaf, weak_leafnodes, unused_strong_nodes>>
    BY DEF Return
  <1>2. PICK n \in Nat, m \in Nat, k \in Nat :
          n = rs_n_ - 1 /\ m = max_leaf_index /\ k = rs_k_
    BY Parameters DEF IInv, TypeOK
  <1>3. m < k /\ k <= n /\ leaf_num = k - m
    BY <1>1, <1>2, Parameters DEF IInv, Turns, leaf_num
  <1>4. leaf_nodes[leaf_num] = candidate[k] /\ candidate[k] \in Helper
    <2>1. k - m \in 1 .. n - m /\ m + (k - m) = k /\ m \in 0 .. n /\ k \in 1 .. n
      BY <1>3
    <2>2. \A a \in 1 .. n - m : leaf_nodes[a] = candidate[m + a]
      BY <1>1, <1>2, <2>1, LeafFacts
    <2>3. candidate \in [1 .. n -> Helper]
      BY <1>1, <1>2 DEF IInv, Permuted
    <2> QED BY <1>3, <2>1, <2>2, <2>3
  <1>5. result' = Lower(min_non_leaf, upload[candidate[rs_k_]]) /\ result' \in Nat
    <2>1. min_non_leaf \in Nat /\ upload[candidate[k]] \in Nat
      BY <1>4 DEF IInv, TypeOK, TreeNode
    <2> QED BY <1>1, <1>2, <1>4, <2>1, LowerFacts
  <1>6. TypeOK'
    BY <1>1, <1>5 DEF IInv, TypeOK, bwVars, treeVars
  <1>7. Permuted' /\ BestFirst' /\ LeavesSorted' /\ Turns'
    BY <1>1 DEF IInv, Permuted, BestFirst, LeavesSorted, Turns, bwVars
  <1>8. Inserted'
    BY <1>1 DEF IInv, Inserted, First, Elements
  <1>9. Linked' /\ Unbeaten'
    BY <1>1, TreeStays
  <1>10. Rated'
    BY <1>1, <1>5 DEF IInv, Rated, Lower, bwVars, treeVars
  <1>11. EnoughStrong'
    BY <1>1 DEF IInv, EnoughStrong
  <1> QED BY <1>6, <1>7, <1>8, <1>9, <1>10, <1>11 DEF IInv

LEMMA StutterStep == IInv /\ UNCHANGED vars => IInv'
  <1> SUFFICES ASSUME IInv, UNCHANGED vars PROVE IInv'
    OBVIOUS
  <1> USE DEF IInv, vars
  <1>1. TypeOK'
    BY DEF TypeOK, treeVars, bwVars
  <1>2. Permuted' /\ BestFirst' /\ LeavesSorted' /\ Turns'
    BY DEF Permuted, BestFirst, LeavesSorted, Turns, theoretical_bw, bwVars
  <1>3. Inserted'
    BY DEF Inserted, First, Elements
  <1>4. Linked' /\ Unbeaten'
    BY TreeStays
  <1>5. Rated'
    BY DEF Rated, Lower, treeVars, bwVars
  <1>6. EnoughStrong'
    BY DEF EnoughStrong
  <1> QED BY <1>1, <1>2, <1>3, <1>4, <1>5, <1>6

(* The strengthened invariant holds in every reachable state.              *)
THEOREM Invariance == Spec => []IInv
  <1>1. IInv /\ [Next]_vars => IInv'
    BY SortCandidatesStep, InsertStep, SortLeavesStep, ReplaceStep, ReturnStep, StutterStep DEF Next
  <1> QED BY <1>1, InitIInv, PTL DEF Spec

-----------------------------------------------------------------------------
(* What the state is when the tree is built. *)
LEMMA AtTheEnd ==
  ASSUME IInv, pc = "built"
  PROVE /\ selected = First(rs_k_) /\ candidate[rs_k_] \in Helper
        /\ max_leaf_index \in Nat /\ max_leaf_index < rs_k_
        /\ min_non_leaf \in Nat /\ result \in Nat
        /\ result = Lower(min_non_leaf, upload[candidate[rs_k_]])
        /\ result <= min_non_leaf /\ result <= upload[candidate[rs_k_]]
  <1>1. weak_leafnodes = {} /\ unused_strong_nodes \in Seq(Helper)
    BY DEF IInv, Inserted, TypeOK
  <1>2. Len(unused_strong_nodes) = 0
    BY <1>1, FS_EmptySet DEF IInv, EnoughStrong
  <1>3. Elements(unused_strong_nodes) = {}
    BY <1>1, <1>2 DEF Elements
  <1>4. selected = First(rs_k_)
    BY <1>1, <1>3 DEF IInv, Inserted
  <1>5. candidate[rs_k_] \in Helper
    BY Parameters DEF IInv, Permuted
  <1>6. max_leaf_index \in Nat /\ max_leaf_index < rs_k_
    BY Parameters DEF IInv, Turns, TypeOK
  <1>7. min_non_leaf \in Nat /\ upload[candidate[rs_k_]] \in Nat
    BY <1>5 DEF IInv, TypeOK, TreeNode
  <1>8. result = Lower(min_non_leaf, upload[candidate[rs_k_]])
    BY DEF IInv, Rated
  <1> QED BY <1>4, <1>5, <1>6, <1>7, <1>8, LowerFacts

LEMMA BuiltSound == IInv => Sound
  <1> SUFFICES ASSUME IInv, pc = "built"
               PROVE /\ Cardinality(selected) = rs_k_
                     /\ Connected(selected, father)
                     /\ Carries(selected, father, result)
    BY DEF Sound
  <1>1. PICK n \in Nat, m \in Nat, k \in Nat :
          n = rs_n_ - 1 /\ m = max_leaf_index /\ k = rs_k_
    BY Parameters, AtTheEnd
  <1>2. selected = First(k) /\ k \in 1 .. n /\ m < k
    BY <1>1, AtTheEnd, Parameters
  <1>3. Cardinality(selected) = k
    <2>1. k \in 0 .. n
      BY <1>2
    <2> QED BY <1>1, <1>2, <2>1, FirstFacts DEF IInv
  <1>4. Connected(selected, father)
    BY DEF IInv, Linked
  <1>5. ASSUME NEW x \in selected PROVE result <= upload[x]
    <2>1. PICK a \in 1 .. k : x = candidate[a]
      BY <1>2, <1>5 DEF First
    <2>2. x \in Helper /\ upload[x] \in Nat
      BY <1>5 DEF IInv, TypeOK, TreeNode
    <2>3. CASE a <= m
      <3>1. x \in nonleaf_queue \ {0}
        <4>1. x \in First(max_leaf_index)
          BY <1>1, <2>1, <2>3 DEF First
        <4> QED BY <2>2, <4>1, Parameters DEF IInv, Inserted
      <3>2. min_non_leaf <= upload[x]
        BY <2>2, <3>1 DEF IInv, Linked, Rated, TreeNode
      <3> QED BY <2>2, <3>2, AtTheEnd
    <2>4. CASE a > m
      <3>1. a = k \/ (a < k /\ a \in 1 .. n /\ k \in 1 .. n)
        BY <1>2
      <3>2. upload[candidate[k]] <= upload[x]
        <4>1. CASE a = k
          BY <2>1, <2>2, <4>1
        <4>2. CASE a < k
          BY <1>1, <2>1, <2>4, <3>1, <4>2 DEF IInv, LeavesSorted
        <4> QED BY <3>1, <4>1, <4>2
      <3>3. result <= upload[candidate[k]] /\ result \in Nat /\ upload[candidate[k]] \in Nat
        BY <1>1, AtTheEnd DEF IInv, TypeOK, TreeNode
      <3> QED BY <2>2, <3>2, <3>3
    <2> QED BY <1>1, <2>3, <2>4
  <1>6. ASSUME NEW x \in selected
        PROVE result * Cardinality({y \in selected : father[y] = father[x]}) <= download[father[x]]
    <2> DEFINE g == father[x]
    <2>1. g \in TreeNode /\ x \in Helper /\ selected \subseteq Helper
      BY <1>6 DEF IInv, Linked, TypeOK
    <2> HIDE DEF g
    <2>2. {y \in selected : father[y] = g} = children[g]
      <3>1. \A y \in Helper : y \in children[g] <=> y \in selected /\ father[y] = g
        BY <2>1 DEF IInv, Linked
      <3>2. children[g] \subseteq Helper
        BY <2>1, ChildrenFinite DEF IInv
      <3> QED BY <2>1, <3>1, <3>2
    <2>3. children[g] # {}
      BY <1>6, <2>2 DEF g
    <2>4. PICK c \in Nat : c = Cardinality(children[g])
      BY <2>1, ChildrenFinite DEF IInv
    <2>5. min_non_leaf * c <= download[g] /\ download[g] \in Nat
      BY <2>1, <2>3, <2>4 DEF IInv, Rated, TypeOK
    <2>6. PICK p \in Nat, q \in Nat : p = result /\ q = min_non_leaf /\ p <= q
      BY AtTheEnd
    <2>7. p * c \in Nat /\ q * c \in Nat /\ p * c <= q * c
      BY ONLY <2>6, c \in Nat, Products
    <2>8. result * c <= download[g]
      BY <2>5, <2>6, <2>7
    <2> QED BY <2>2, <2>4, <2>8 DEF g
  <1> QED BY <1>1, <1>3, <1>4, <1>5, <1>6 DEF Carries

(* Not even fathers that lead round in a circle carry more.                *)
LEMMA BuiltOptimal == IInv => Optimal
  <1> SUFFICES ASSUME IInv, pc = "built",
                      NEW S \in SUBSET Helper, Cardinality(S) = rs_k_,
                      NEW f \in [S -> S \cup {0}], Carries(S, f, result + 1)
               PROVE FALSE
    BY DEF Optimal, NoBetterTree
  <1>1. PICK n \in Nat, m \in Nat, k \in Nat :
          n = rs_n_ - 1 /\ m = max_leaf_index /\ k = rs_k_
    BY Parameters, AtTheEnd
  <1>2. k \in 1 .. n /\ m < k
    BY <1>1, AtTheEnd, Parameters
  <1>3. PICK u \in Nat : u = upload[candidate[k]]
    BY <1>1, AtTheEnd DEF IInv, TypeOK, TreeNode
  <1>4. result = u
    <2>1. PICK r \in Nat : r = result + 1
      BY AtTheEnd
    <2>2. r <= min_non_leaf
      BY <2>1 DEF IInv, Unbeaten
    <2>3. result \in Nat /\ min_non_leaf \in Nat /\ result = Lower(min_non_leaf, u)
      BY <1>1, <1>3, AtTheEnd
    <2> QED BY ONLY <2>1, <2>2, <2>3, u \in Nat DEF Lower
  <1>5. k - 1 \in 0 .. n /\ k - 1 \in Nat
    BY <1>2
  <1>6. S \subseteq First(k - 1)
    <2> SUFFICES ASSUME NEW y \in S PROVE y \in First(k - 1)
      OBVIOUS
    <2>1. PICK b \in 1 .. n : candidate[b] = y
      BY <1>1 DEF IInv, Permuted
    <2>2. u + 1 <= upload[y] /\ upload[y] \in Nat
      BY <1>4 DEF Carries, IInv, TypeOK, TreeNode
    <2>3. b > k => upload[y] <= u
      BY <1>1, <1>2, <1>3, <2>1 DEF IInv, LeavesSorted
    <2>4. b = k => upload[y] = u
      BY <1>3, <2>1
    <2>5. b \in 1 .. k - 1
      BY ONLY <1>2, <2>2, <2>3, <2>4, k \in Nat, u \in Nat, n \in Nat, b \in 1 .. n
    <2> QED BY <2>1, <2>5 DEF First
  <1>7. IsFiniteSet(First(k - 1)) /\ Cardinality(First(k - 1)) = k - 1
    BY <1>1, <1>5, FirstFacts DEF IInv
  <1>8. Cardinality(S) <= k - 1
    BY <1>6, <1>7, FS_Subset
  <1> QED BY <1>1, <1>8

(* candidate is read within its bounds, and queues, links and rates keep   *)
(* their types, through all of tree_builder.cc:111-208.                    *)
THEOREM TypeCorrect == Spec => []TypeOK
  BY Invariance, PTL DEF IInv

(* front() and pop() of lines 200-203 find an unused strong node for every *)
(* weak leaf, and none is left over, whatever the ties and the rates.      *)
THEOREM StrongForWeak == Spec => []EnoughStrong
  BY Invariance, PTL DEF IInv

(* What line 207 returns is carried by what lines 157-206 left behind:     *)
(* k helpers, each led to the requestor by its fathers, each with the      *)
(* upload and each father with the download that the rate takes.           *)
THEOREM SoundTree == Spec => []Sound
  BY Invariance, BuiltSound, PTL

(* No k helpers with any choice of fathers carry more than what line 207   *)
(* returns: for any number of helpers and whatever the rates, PivotRepair's*)
(* greedy turns with the exchange of the leaves lose nothing.              *)
THEOREM BestTree == Spec => []Optimal
  BY Invariance, BuiltOptimal, PTL

-----------------------------------------------------------------------------
(* What holds of 0, and of a next number if of the one before, holds of    *)
(* all: there is no least number it does not hold of.                      *)
LEMMA Induct ==
  ASSUME NEW S, 0 \in S, \A n \in Nat : n \in S => n + 1 \in S
  PROVE  \A n \in Nat : n \in S
  <1> DEFINE T == {n \in Nat : n \notin S}
             B == {0 .. n : n \in T}
  <1>1. SUFFICES ASSUME T # {} PROVE FALSE
    OBVIOUS
  <1>2. \A n \in T : 0 .. n \in FiniteSubsetsOf(Nat)
    <2> TAKE n \in T
    <2>1. 0 \in Int /\ n \in Int /\ 0 .. n \in SUBSET Nat
      OBVIOUS
    <2> QED BY <2>1, FS_Interval DEF FiniteSubsetsOf
  <1>3. B \subseteq FiniteSubsetsOf(Nat) /\ B # {}
    BY <1>1, <1>2
  <1>4. PICK b \in B : \A c \in B : <<c, b>> \notin StrictSubsetOrdering(Nat)
    <2> HIDE DEF B
    <2> QED BY <1>3, FS_StrictSubsetOrderingWellFounded, WFMin
  <1>5. PICK x \in T : b = 0 .. x
    BY <1>4
  <1>6. x \in Nat /\ x # 0 /\ x - 1 \in Nat
    OBVIOUS
  <1>7. x - 1 \in S
    <2>1. SUFFICES ASSUME x - 1 \in T PROVE FALSE
      BY <1>6
    <2>2. 0 .. x - 1 \in B
      BY <2>1
    <2>3. 0 .. x - 1 \subseteq 0 .. x /\ x \in 0 .. x /\ x \notin 0 .. x - 1 /\ 0 .. x \subseteq Nat
      BY <1>6
    <2>4. <<0 .. x - 1, 0 .. x>> \in StrictSubsetOrdering(Nat)
      BY ONLY <2>3 DEF StrictSubsetOrdering
    <2> QED BY ONLY <1>4, <1>5, <2>2, <2>4
  <1>8. (x - 1) + 1 \in S
    BY <1>6, <1>7
  <1> QED BY <1>6, <1>8

(* A function that is defined by what it was one step before exists.       *)
StepByStep(h, n, X, base, F) ==
  h \in [0 .. n -> X] /\ h[0] = base /\ \A d \in 1 .. n : h[d] = F[d][h[d - 1]]

LEMMA Recursion ==
  ASSUME NEW X, NEW base \in X, NEW n \in Nat, NEW F \in [1 .. n -> [X -> X]]
  PROVE  \E h : StepByStep(h, n, X, base, F)
  <1> DEFINE Upto(m, h) == h[0] = base /\ \A d \in 1 .. m : h[d] = F[d][h[d - 1]]
             S == {m \in Nat : m <= n => \E h \in [0 .. m -> X] : Upto(m, h)}
  <1>1. 0 \in S
    <2>1. Upto(0, [d \in 0 .. 0 |-> base]) /\ [d \in 0 .. 0 |-> base] \in [0 .. 0 -> X]
      OBVIOUS
    <2> QED BY <2>1
  <1>2. ASSUME NEW m \in Nat, m \in S PROVE m + 1 \in S
    <2>1. SUFFICES ASSUME m + 1 <= n
                   PROVE  \E h \in [0 .. m + 1 -> X] : Upto(m + 1, h)
      OBVIOUS
    <2>2. PICK h \in [0 .. m -> X] : Upto(m, h)
      BY <1>2, <2>1
    <2> DEFINE g == [d \in 0 .. m + 1 |-> IF d <= m THEN h[d] ELSE F[d][h[m]]]
    <2>3. h[m] \in X /\ m + 1 \in 1 .. n
      BY <2>1
    <2>4. g \in [0 .. m + 1 -> X]
      BY <2>3
    <2>5. g[0] = base
      BY <2>2
    <2>6. ASSUME NEW d \in 1 .. m + 1 PROVE g[d] = F[d][g[d - 1]]
      <3>1. d - 1 \in 0 .. m /\ g[d - 1] = h[d - 1]
        OBVIOUS
      <3>2. CASE d <= m
        BY <2>2, <3>1, <3>2
      <3>3. CASE d = m + 1
        BY <3>1, <3>3
      <3> QED BY <3>2, <3>3
    <2> QED BY <2>4, <2>5, <2>6
  <1>3. \A m \in Nat : m \in S
    <2> HIDE DEF S
    <2> QED BY <1>1, <1>2, Induct
  <1>4. PICK h \in [0 .. n -> X] : Upto(n, h)
    BY <1>3
  <1>5. StepByStep(h, n, X, base, F)
    BY <1>4 DEF StepByStep
  <1> QED BY <1>5

-----------------------------------------------------------------------------
LEMMA SameNodes ==
  /\ Search!Helper = Helper /\ Search!TreeNode = TreeNode
  /\ Search!EPS = 1
  BY DEF Search!Helper, Helper, Search!TreeNode, TreeNode, Search!EPS

LEMMA SameCardinality == ASSUME NEW S PROVE Search!Cardinality(S) = Cardinality(S)
  BY DEF Search!Cardinality, Cardinality

LEMMA Nodes ==
  /\ IsFiniteSet(Helper) /\ Helper \subseteq Nat /\ 0 \notin Helper
  /\ TreeNode = Helper \cup {0}
  /\ \A S \in SUBSET Helper : IsFiniteSet(S) /\ Cardinality(S) \in Nat
  <1>1. rs_n_ \in Nat /\ fail_node \in 1 .. rs_n_ /\ 1 \in Int /\ rs_n_ \in Int
    BY CodeAssumption
  <1>2. IsFiniteSet(1 .. rs_n_)
    BY ONLY <1>1, FS_Interval
  <1>3. Helper \subseteq 1 .. rs_n_
    BY DEF Helper
  <1>4. IsFiniteSet(Helper)
    BY ONLY <1>2, <1>3, FS_Subset
  <1>5. \A S \in SUBSET Helper : IsFiniteSet(S) /\ Cardinality(S) \in Nat
    <2> TAKE S \in SUBSET Helper
    <2>1. IsFiniteSet(S)
      BY ONLY <1>4, FS_Subset
    <2> QED BY ONLY <2>1, FS_CardinalityType
  <1> QED BY <1>1, <1>3, <1>4, <1>5 DEF TreeNode

(* The greatest number of a finite set is below itself and all others.     *)
LEMMA Greatest ==
  ASSUME NEW S \in SUBSET Helper, S # {}
  PROVE  \E z \in S : \A y \in S : y <= z
  <1> DEFINE T == {n \in Nat : \E y \in S : n = rs_n_ - y}
             W == {n \in Nat : n \notin T}
  <1>1. \A y \in S : y \in 1 .. rs_n_ /\ rs_n_ - y \in Nat
    BY CodeAssumption DEF Helper
  <1>2. PICK y \in S : TRUE
    OBVIOUS
  <1>3. SUFFICES ASSUME \A z \in S : \E v \in S : ~(v <= z) PROVE FALSE
    OBVIOUS
  <1> DEFINE N == {n \in Nat : \A m \in 0 .. n : m \notin T}
  <1>4. 0 \in N
    <2>1. 0 \notin T
      <3>1. SUFFICES ASSUME NEW v \in S, 0 = rs_n_ - v PROVE FALSE
        OBVIOUS
      <3>2. PICK u \in S : ~(u <= v)
        BY <1>3
      <3> QED BY <1>1, <3>1, <3>2, CodeAssumption
    <2> QED BY <2>1
  <1>5. ASSUME NEW n \in Nat, n \in N PROVE n + 1 \in N
    <2>1. n + 1 \notin T
      <3>1. SUFFICES ASSUME NEW v \in S, n + 1 = rs_n_ - v PROVE FALSE
        OBVIOUS
      <3>2. PICK u \in S : ~(u <= v)
        BY <1>3
      <3>3. rs_n_ - u \in 0 .. n /\ rs_n_ - u \in Nat
        BY <1>1, <3>1, <3>2, CodeAssumption
      <3>4. rs_n_ - u \in T
        BY <3>3
      <3> QED BY <1>5, <3>3, <3>4
    <2>2. \A m \in 0 .. n + 1 : m \in 0 .. n \/ m = n + 1
      OBVIOUS
    <2> QED BY <1>5, <2>1, <2>2
  <1>6. \A n \in Nat : n \in N
    <2> HIDE DEF N
    <2> QED BY <1>4, <1>5, Induct
  <1>7. rs_n_ - y \in T /\ rs_n_ - y \in N /\ rs_n_ - y \in 0 .. rs_n_ - y
    BY <1>1, <1>2, <1>6
  <1> QED BY <1>7

(* Each link carries the limit, and one of the links to a father as much   *)
(* as all its children need of it.                                         *)
Carried(bw, limit, D, f) ==
  /\ \A x \in D : limit <= bw[x][f[x]]
  /\ \A x \in D : \E z \in D :
       f[z] = f[x] /\ limit * Cardinality({y \in D : f[y] = f[x]}) <= bw[z][f[z]]

(* The last of the children of a node that are linked in a layer gets a    *)
(* part of its link as small as that of any other.                         *)
LEMMA LinksCarried ==
  ASSUME NEW bw \in [TreeNode -> [TreeNode -> Nat]], NEW limit \in Nat,
         NEW L \in SUBSET TreeNode, NEW S \in SUBSET Helper,
         NEW g \in Search!Matches(bw, limit, L, S)
  PROVE  g \in [S -> L] /\ Carried(bw, limit, S, g)
  <1>1. /\ g \in [S -> L]
        /\ \A x \in S : bw[x][g[x]] >= limit * Search!Place(x, g)
    BY DEF Search!Matches
  <1>2. \A x \in S : Search!Siblings(x, g) = {y \in S : g[y] = g[x]}
    BY <1>1 DEF Search!Siblings
  <1>3. \A x \in S : bw[x][g[x]] \in Nat
    BY <1>1, Nodes
  <1>4. ASSUME NEW x \in S PROVE limit <= bw[x][g[x]]
    <2> DEFINE T == {y \in Search!Siblings(x, g) : y <= x}
    <2>1. x \in T /\ T \in SUBSET Helper
      <3>1. x \in Nat /\ x <= x
        BY Nodes
      <3> QED BY <1>2, <3>1
    <2>2. IsFiniteSet(T) /\ Cardinality(T) \in Nat /\ Cardinality(T) # 0
      <3> HIDE DEF T
      <3> QED BY <2>1, Nodes, FS_EmptySet
    <2>3. PICK c \in Nat : c = Cardinality(T) /\ c # 0
      <3> HIDE DEF T
      <3> QED BY <2>2
    <2>4. bw[x][g[x]] >= limit * c
      <3>1. Search!Place(x, g) = Cardinality(T)
        BY SameCardinality DEF Search!Place
      <3> QED BY ONLY <1>1, <2>3, <3>1, x \in S
    <2>5. limit <= limit * c /\ limit * c \in Nat
      BY ONLY limit \in Nat, c \in Nat, <2>3
    <2>6. PICK b \in Nat : b = bw[x][g[x]]
      BY <1>3
    <2>7. PICK e \in Nat : e = limit * c
      BY <2>5
    <2>8. limit <= e /\ e <= b
      BY ONLY <2>4, <2>5, <2>6, <2>7
    <2> QED BY ONLY <2>6, <2>8, limit \in Nat, e \in Nat, b \in Nat
  <1>5. ASSUME NEW x \in S
        PROVE  \E z \in S : /\ g[z] = g[x]
                            /\ limit * Cardinality({y \in S : g[y] = g[x]}) <= bw[z][g[z]]
    <2> DEFINE T == {y \in S : g[y] = g[x]}
    <2>1. T \in SUBSET Helper /\ T # {}
      OBVIOUS
    <2>2. PICK z \in T : \A y \in T : y <= z
      <3> HIDE DEF T
      <3> QED BY <2>1, Greatest
    <2>3. z \in S /\ g[z] = g[x]
      BY <2>2
    <2>4. {y \in Search!Siblings(z, g) : y <= z} = T
      BY <1>2, <2>2, <2>3
    <2>5. limit * Cardinality(T) <= bw[z][g[z]]
      <3>1. PICK c \in Nat : c = Cardinality(T)
        <4> HIDE DEF T
        <4> QED BY <2>1, Nodes
      <3>2. bw[z][g[z]] >= limit * c
        <4>1. Search!Place(z, g) = Cardinality(T)
          BY SameCardinality, <2>4 DEF Search!Place
        <4> QED BY ONLY <1>1, <2>3, <3>1, <4>1
      <3>3. PICK b \in Nat : b = bw[z][g[z]]
        BY <1>3, <2>3
      <3>4. limit * c \in Nat
        BY ONLY limit \in Nat, c \in Nat
      <3> QED BY ONLY <3>1, <3>2, <3>3, <3>4
    <2> QED BY <2>3, <2>5
  <1> QED BY <1>1, <1>4, <1>5 DEF Carried

(* What build_ppt_tree has linked so far: a tree that carries the limit,   *)
(* and whose last layer has no children.                                   *)
Fathers == UNION {[S -> TreeNode] : S \in SUBSET Helper}
Partly(bw, limit, L, f) ==
  /\ L \subseteq DOMAIN f \cup {0}
  /\ \A x \in DOMAIN f : f[x] \notin L
  /\ Connected(DOMAIN f, f) /\ Carried(bw, limit, DOMAIN f, f)
  /\ Cardinality(DOMAIN f) <= rs_k_
Grown(bw, limit) == {t \in [last_ly : SUBSET TreeNode, f : Fathers] : Partly(bw, limit, t.last_ly, t.f)}

Added(bw, limit, D, f, S, g) ==
  /\ S \in SUBSET (Helper \ D)
  /\ Search!Joined(f, g) \in [D \cup S -> TreeNode]
  /\ Partly(bw, limit, S, Search!Joined(f, g))
  /\ Cardinality(D \cup S) > Cardinality(D)

LEMMA LayerAdded ==
  ASSUME NEW bw \in [TreeNode -> [TreeNode -> Nat]], NEW limit \in Nat,
         NEW D \in SUBSET Helper, NEW f \in [D -> TreeNode], NEW L \in SUBSET TreeNode,
         Partly(bw, limit, L, f),
         NEW S \in Search!Layers(f), NEW g \in Search!Matches(bw, limit, L, S)
  PROVE  Added(bw, limit, D, f, S, g)
  <1>1. /\ S \in SUBSET (Helper \ D) /\ S # {} /\ DOMAIN f = D
        /\ Cardinality(S) + Cardinality(D) <= rs_k_
    BY SameNodes, SameCardinality DEF Search!Layers
  <1>2. g \in [S -> L] /\ Carried(bw, limit, S, g)
    <2>1. S \in SUBSET Helper
      BY <1>1
    <2> QED BY <2>1, LinksCarried
  <1>3. g \in [S -> TreeNode]
    BY <1>2
  <1>4. PICK h : h = Search!Joined(f, g)
    OBVIOUS
  <1>5. /\ h \in [D \cup S -> TreeNode]
        /\ \A x \in D : h[x] = f[x]
        /\ \A x \in S : h[x] = g[x]
    BY <1>1, <1>3, <1>4 DEF Search!Joined
  <1>6. /\ L \subseteq D \cup {0} /\ \A x \in D : f[x] \notin L
        /\ Connected(D, f) /\ Carried(bw, limit, D, f)
    BY <1>1 DEF Partly
  <1>7. /\ \A x \in D : f[x] \in D \cup {0}
        /\ \A T \in (SUBSET D) \ {{}} : \E x \in T : f[x] \notin T
    BY <1>6 DEF Connected
  <1>8. \A x \in S : g[x] \in L /\ g[x] \in D \cup {0}
    BY <1>2, <1>6
  <1>9. 0 \notin Helper
    BY Nodes
  <1>10. \A x \in D \cup S : h[x] \notin S /\ limit <= bw[x][h[x]]
    BY <1>1, <1>2, <1>5, <1>6, <1>7, <1>8, <1>9 DEF Carried
  <1>11. Connected(D \cup S, h)
    <2>1. \A x \in D \cup S : h[x] \in (D \cup S) \cup {0}
      BY <1>5, <1>7, <1>8
    <2>2. ASSUME NEW T \in (SUBSET (D \cup S)) \ {{}} PROVE \E x \in T : h[x] \notin T
      <3>1. CASE T \cap D = {}
        <4>1. PICK x \in T : x \in S
          BY <3>1
        <4> QED BY <1>1, <1>5, <1>8, <1>9, <3>1, <4>1
      <3>2. CASE T \cap D # {}
        <4>1. PICK x \in T \cap D : f[x] \notin T \cap D
          BY <1>7, <3>2
        <4> QED BY <1>1, <1>5, <1>7, <1>9, <4>1
      <3> QED BY <3>1, <3>2
    <2> QED BY <2>1, <2>2 DEF Connected
  <1>12. ASSUME NEW x \in D \cup S
         PROVE  \E z \in D \cup S :
                  /\ h[z] = h[x]
                  /\ limit * Cardinality({y \in D \cup S : h[y] = h[x]}) <= bw[z][h[z]]
    <2>1. CASE x \in D
      <3>1. {y \in D \cup S : h[y] = h[x]} = {y \in D : f[y] = f[x]}
        BY <1>1, <1>5, <1>6, <1>8, <2>1
      <3>2. PICK z \in D : /\ f[z] = f[x]
                           /\ limit * Cardinality({y \in D : f[y] = f[x]}) <= bw[z][f[z]]
        BY <1>6, <2>1 DEF Carried
      <3>3. h[z] = f[z] /\ h[x] = f[x]
        BY <1>5, <2>1
      <3> QED BY ONLY <3>1, <3>2, <3>3
    <2>2. CASE x \in S
      <3>1. {y \in D \cup S : h[y] = h[x]} = {y \in S : g[y] = g[x]}
        BY <1>1, <1>5, <1>6, <1>8, <2>2
      <3>2. PICK z \in S : /\ g[z] = g[x]
                           /\ limit * Cardinality({y \in S : g[y] = g[x]}) <= bw[z][g[z]]
        BY <1>2, <2>2 DEF Carried
      <3>3. h[z] = g[z] /\ h[x] = g[x]
        BY <1>5, <2>2
      <3> QED BY ONLY <3>1, <3>2, <3>3
    <2> QED BY <2>1, <2>2
  <1>13. Cardinality(D \cup S) = Cardinality(D) + Cardinality(S) /\ Cardinality(S) # 0
    <2>1. IsFiniteSet(D) /\ IsFiniteSet(S) /\ D \cap S = {}
      BY <1>1, Nodes
    <2>2. Cardinality(D) \in Nat /\ Cardinality(S) \in Nat /\ Cardinality({}) = 0
      BY <2>1, FS_CardinalityType, FS_EmptySet
    <2>3. Cardinality(D \cup S) = Cardinality(D) + Cardinality(S) - Cardinality(D \cap S)
      BY <2>1, FS_Union
    <2>4. Cardinality(S) # 0
      BY <1>1, <2>1, FS_EmptySet
    <2>5. Cardinality(D \cap S) = 0
      BY ONLY <2>1, <2>2
    <2> QED BY ONLY <2>2, <2>3, <2>4, <2>5
  <1>14. Cardinality(D) \in Nat /\ Cardinality(S) \in Nat /\ rs_k_ \in Nat
    BY <1>1, Nodes, CodeAssumption
  <1>15. Partly(bw, limit, S, h)
    <2>1. DOMAIN h = D \cup S /\ S \subseteq (D \cup S) \cup {0}
      BY <1>5
    <2>2. Cardinality(D \cup S) <= rs_k_
      BY <1>1, <1>13, <1>14
    <2>3. Carried(bw, limit, D \cup S, h)
      BY ONLY <1>10, <1>12 DEF Carried
    <2> QED BY ONLY <1>10, <1>11, <2>1, <2>2, <2>3 DEF Partly
  <1> QED BY <1>1, <1>4, <1>5, <1>13, <1>14, <1>15 DEF Added

NodesOf(t) == Cardinality(DOMAIN t.f)

LEMMA ContinuedGrown ==
  ASSUME NEW bw \in [TreeNode -> [TreeNode -> Nat]], NEW limit \in Nat,
         NEW t \in Grown(bw, limit), NEW u \in Search!Continued(bw, limit, t)
  PROVE  /\ u \in Grown(bw, limit)
         /\ NodesOf(t) \in Nat /\ NodesOf(u) \in Nat /\ NodesOf(u) <= rs_k_
         /\ NodesOf(u) > NodesOf(t) \/ NodesOf(u) = rs_k_
  <1>1. PICK D \in SUBSET Helper : t.f \in [D -> TreeNode] /\ DOMAIN t.f = D
    BY DEF Grown, Fathers
  <1>2. /\ t.last_ly \in SUBSET TreeNode /\ Partly(bw, limit, t.last_ly, t.f)
    BY DEF Grown
  <1>3. Cardinality(D) \in Nat
    BY Nodes
  <1>4. CASE Cardinality(D) = rs_k_
    <2>1. u = t
      BY <1>1, <1>4, SameCardinality DEF Search!Continued
    <2> QED BY <1>1, <1>3, <1>4, <2>1 DEF NodesOf
  <1>5. CASE Cardinality(D) # rs_k_
    <2>1. PICK S \in Search!Layers(t.f) : \E g \in Search!Matches(bw, limit, t.last_ly, S) :
            u = [last_ly |-> S, f |-> Search!Joined(t.f, g)]
      BY <1>1, <1>5, SameCardinality DEF Search!Continued
    <2>2. PICK g \in Search!Matches(bw, limit, t.last_ly, S) :
            u = [last_ly |-> S, f |-> Search!Joined(t.f, g)]
      BY <2>1
    <2>3. /\ S \in SUBSET (Helper \ D)
          /\ Search!Joined(t.f, g) \in [D \cup S -> TreeNode]
          /\ Partly(bw, limit, S, Search!Joined(t.f, g))
          /\ Cardinality(D \cup S) > Cardinality(D)
      <3>1. PICK f, L : f = t.f /\ L = t.last_ly
        OBVIOUS
      <3>2. f \in [D -> TreeNode] /\ L \in SUBSET TreeNode /\ Partly(bw, limit, L, f)
        BY <1>1, <1>2, <3>1
      <3>3. S \in Search!Layers(f) /\ g \in Search!Matches(bw, limit, L, S)
        BY <3>1
      <3>4. bw \in [TreeNode -> [TreeNode -> Nat]] /\ limit \in Nat /\ D \in SUBSET Helper
        OBVIOUS
      <3>5. Added(bw, limit, D, f, S, g)
        BY ONLY <3>2, <3>3, <3>4, LayerAdded
      <3> QED BY <3>1, <3>5 DEF Added
    <2>4. u.last_ly = S /\ u.f = Search!Joined(t.f, g)
      BY <2>2
    <2>5. D \cup S \in SUBSET Helper /\ S \in SUBSET TreeNode /\ u.f \in Fathers
      <3>1. S \in SUBSET Helper /\ D \cup S \in SUBSET Helper
        BY <2>3
      <3>2. u.f \in [D \cup S -> TreeNode]
        BY <2>3, <2>4
      <3> QED BY <3>1, <3>2, Nodes DEF Fathers
    <2>6. u \in Grown(bw, limit)
      <3>1. u \in [last_ly : SUBSET TreeNode, f : Fathers]
        BY <2>2, <2>4, <2>5
      <3>2. Partly(bw, limit, u.last_ly, u.f)
        BY <2>3, <2>4
      <3> QED BY <3>1, <3>2 DEF Grown
    <2>7. DOMAIN u.f = D \cup S /\ Cardinality(D \cup S) \in Nat
      BY <2>3, <2>4, <2>5, Nodes
    <2>8. Cardinality(D \cup S) <= rs_k_
      BY <2>3, <2>4, <2>7 DEF Partly
    <2> QED BY <1>1, <1>3, <2>3, <2>6, <2>7, <2>8 DEF NodesOf
  <1> QED BY <1>4, <1>5

(* A function that gives the trees of each number of layers.               *)
Layered(bw, limit, h) ==
  /\ h \in [0 .. rs_k_ -> SUBSET Grown(bw, limit)]
  /\ h[0] = {[last_ly |-> {0}, f |-> <<>>]}
  /\ \A d \in 1 .. rs_k_ : h[d] = UNION {Search!Continued(bw, limit, t) : t \in h[d - 1]}

LEMMA TreesLayered ==
  ASSUME NEW bw \in [TreeNode -> [TreeNode -> Nat]], NEW limit \in Nat
  PROVE  \E h : Layered(bw, limit, h) /\ Search!Trees(bw, limit) = h[rs_k_]
  <1> DEFINE root == [last_ly |-> {0}, f |-> <<>>]
             X == SUBSET Grown(bw, limit)
             Deeper(T) == UNION {Search!Continued(bw, limit, t) : t \in T}
             F == [d \in 1 .. rs_k_ |-> [T \in X |-> Deeper(T)]]
             Body(h) == [d \in 0 .. rs_k_ |-> IF d = 0 THEN {root} ELSE Deeper(h[d - 1])]
  <1>1. {root} \in X
    <2>1. <<>> \in [{} -> TreeNode] /\ {} \in SUBSET Helper /\ DOMAIN <<>> = {}
      OBVIOUS
    <2>2. <<>> \in Fathers
      BY <2>1 DEF Fathers
    <2>3. Cardinality({}) = 0
      BY FS_EmptySet
    <2>4. Connected({}, <<>>) /\ Carried(bw, limit, {}, <<>>)
      BY DEF Connected, Carried
    <2>5. Partly(bw, limit, {0}, <<>>)
      BY <2>1, <2>3, <2>4, CodeAssumption DEF Partly
    <2>6. {0} \in SUBSET TreeNode
      BY Nodes
    <2>7. root \in [last_ly : SUBSET TreeNode, f : Fathers] /\ root.last_ly = {0} /\ root.f = <<>>
      BY <2>2, <2>6
    <2> QED BY <2>5, <2>7 DEF Grown
  <1>2. \A T \in X : Deeper(T) \in X
    BY ContinuedGrown
  <1>3. F \in [1 .. rs_k_ -> [X -> X]]
    <2> HIDE DEF X, Deeper
    <2> QED BY <1>2
  <1>4. PICK h \in [0 .. rs_k_ -> X] : h[0] = {root} /\ \A d \in 1 .. rs_k_ : h[d] = F[d][h[d - 1]]
    <2> HIDE DEF X, F, root
    <2>1. rs_k_ \in Nat
      BY CodeAssumption
    <2>2. PICK h : StepByStep(h, rs_k_, X, {root}, F)
      BY ONLY <1>1, <1>3, <2>1, Recursion
    <2> QED BY <2>2 DEF StepByStep
  <1>5. h = Body(h)
    <2>1. \A d \in 1 .. rs_k_ : d - 1 \in 0 .. rs_k_ /\ d # 0
      BY CodeAssumption
    <2>2. \A d \in 1 .. rs_k_ : h[d - 1] \in X /\ F[d][h[d - 1]] = Deeper(h[d - 1])
      <3> HIDE DEF X, Deeper
      <3> QED BY <2>1
    <2>3. \A d \in 0 .. rs_k_ : h[d] = Body(h)[d]
      <3> HIDE DEF X, Deeper, root, F
      <3>1. \A d \in 0 .. rs_k_ : d = 0 \/ d \in 1 .. rs_k_
        BY CodeAssumption
      <3> QED BY <1>4, <2>1, <2>2, <3>1
    <2> HIDE DEF X, Deeper, root
    <2> QED BY <2>3
  <1>6. \E e : e = Body(e) /\ Search!Trees(bw, limit) = e[rs_k_]
    <2>1. PICK e : e = (CHOOSE c : c = Body(c))
      OBVIOUS
    <2>2. e = Body(e)
      <3> HIDE DEF Body
      <3> QED BY <1>5, <2>1
    <2>3. Search!Trees(bw, limit) = e[rs_k_]
      BY <2>1 DEF Search!Trees
    <2> QED BY <2>2, <2>3
  <1>7. PICK e : e = Body(e) /\ Search!Trees(bw, limit) = e[rs_k_]
    BY <1>6
  <1>8. /\ e = [d \in 0 .. rs_k_ |-> IF d = 0 THEN {root} ELSE Deeper(e[d - 1])]
        /\ Search!Trees(bw, limit) = e[rs_k_]
    BY <1>7
  <1> HIDE DEF X, Deeper, root, F, Body
  <1>9. e[0] = {root} /\ \A d \in 1 .. rs_k_ : e[d] = Deeper(e[d - 1])
    <2>1. 0 \in 0 .. rs_k_ /\ \A d \in 1 .. rs_k_ : d \in 0 .. rs_k_ /\ d # 0
      BY CodeAssumption
    <2> QED BY ONLY <1>8, <2>1
  <1>10. \A d \in 0 .. rs_k_ : e[d] \in X
    <2> DEFINE N == {d \in Nat : d <= rs_k_ => e[d] \in X}
    <2>1. 0 \in N
      BY <1>1, <1>9
    <2>2. \A d \in Nat : d \in N => d + 1 \in N
      <3>1. ASSUME NEW d \in Nat, d \in N, d + 1 <= rs_k_ PROVE e[d + 1] \in X
        <4>1. d + 1 \in 1 .. rs_k_ /\ (d + 1) - 1 = d /\ d <= rs_k_
          BY <3>1, CodeAssumption
        <4>2. e[d] \in X /\ e[d + 1] = Deeper(e[d])
          BY <1>9, <3>1, <4>1
        <4> QED BY <1>2, <4>2
      <3> QED BY <3>1
    <2>3. \A d \in Nat : d \in N
      <3> HIDE DEF N
      <3> QED BY <2>1, <2>2, Induct
    <2> QED BY <2>3
  <1>11. e \in [0 .. rs_k_ -> X]
    BY <1>8, <1>10
  <1>12. Layered(bw, limit, e)
    BY <1>9, <1>11 DEF Layered, X, Deeper, root
  <1> QED BY <1>8, <1>12

(* After as many layers as the tree is to have nodes it has them all.      *)
LEMMA TreesComplete ==
  ASSUME NEW bw \in [TreeNode -> [TreeNode -> Nat]], NEW limit \in Nat,
         NEW t \in Search!Trees(bw, limit)
  PROVE  t \in Grown(bw, limit) /\ NodesOf(t) = rs_k_
  <1>1. PICK h : Layered(bw, limit, h) /\ Search!Trees(bw, limit) = h[rs_k_]
    BY TreesLayered
  <1>2. /\ \A d \in 0 .. rs_k_ : h[d] \subseteq Grown(bw, limit)
        /\ \A d \in 1 .. rs_k_ : h[d] = UNION {Search!Continued(bw, limit, u) : u \in h[d - 1]}
    BY <1>1 DEF Layered
  <1> DEFINE N == {d \in Nat : d <= rs_k_ =>
                     \A u \in h[d] : NodesOf(u) \in Nat /\ (NodesOf(u) >= d \/ NodesOf(u) = rs_k_)}
  <1>3. \A u \in Grown(bw, limit) : NodesOf(u) \in Nat /\ NodesOf(u) <= rs_k_
    <2> TAKE u \in Grown(bw, limit)
    <2>1. DOMAIN u.f \in SUBSET Helper /\ Partly(bw, limit, u.last_ly, u.f)
      BY DEF Grown, Fathers
    <2> QED BY <2>1, Nodes DEF NodesOf, Partly
  <1>4. 0 \in N
    BY <1>2, <1>3, CodeAssumption
  <1>5. ASSUME NEW d \in Nat, d \in N PROVE d + 1 \in N
    <2>1. SUFFICES ASSUME d + 1 <= rs_k_, NEW u \in h[d + 1]
                   PROVE  NodesOf(u) \in Nat /\ (NodesOf(u) >= d + 1 \/ NodesOf(u) = rs_k_)
      OBVIOUS
    <2>2. d + 1 \in 1 .. rs_k_ /\ (d + 1) - 1 = d /\ d \in 0 .. rs_k_ /\ d <= rs_k_
      BY <2>1, CodeAssumption
    <2>3. PICK v \in h[d] : u \in Search!Continued(bw, limit, v)
      BY <1>2, <2>2
    <2>4. v \in Grown(bw, limit)
      BY <1>2, <2>2
    <2>5. /\ NodesOf(v) \in Nat /\ NodesOf(u) \in Nat /\ NodesOf(u) <= rs_k_
          /\ NodesOf(u) > NodesOf(v) \/ NodesOf(u) = rs_k_
      BY <2>3, <2>4, ContinuedGrown
    <2>6. NodesOf(v) >= d \/ NodesOf(v) = rs_k_
      BY <1>5, <2>2, <2>3
    <2> QED BY <2>5, <2>6, CodeAssumption
  <1>6. \A d \in Nat : d \in N
    <2> HIDE DEF N
    <2> QED BY <1>4, <1>5, Induct
  <1>7. rs_k_ \in Nat /\ rs_k_ \in 0 .. rs_k_ /\ t \in h[rs_k_]
    BY <1>1, CodeAssumption
  <1> QED BY <1>2, <1>3, <1>6, <1>7

(* A tree that carries a limit carries each lower one.                     *)
LEMMA LowerLimit ==
  ASSUME NEW bw \in [TreeNode -> [TreeNode -> Nat]], NEW a \in Nat, NEW b \in Nat, a <= b
  PROVE  Search!Trees(bw, b) \subseteq Search!Trees(bw, a)
  <1>1. ASSUME NEW L \in SUBSET TreeNode, NEW S \in SUBSET Helper, NEW g \in Search!Matches(bw, b, L, S)
        PROVE  g \in Search!Matches(bw, a, L, S)
    <2>1. g \in [S -> L] /\ \A x \in S : bw[x][g[x]] >= b * Search!Place(x, g)
      BY DEF Search!Matches
    <2>2. ASSUME NEW x \in S PROVE bw[x][g[x]] >= a * Search!Place(x, g)
      <3>1. {y \in Search!Siblings(x, g) : y <= x} \in SUBSET Helper
        BY <2>1 DEF Search!Siblings
      <3>2. Search!Place(x, g) \in Nat
        BY <3>1, Nodes, SameCardinality DEF Search!Place
      <3>3. PICK c \in Nat : c = Search!Place(x, g)
        BY <3>2
      <3>4. a * c <= b * c /\ a * c \in Nat /\ b * c \in Nat
        BY ONLY a \in Nat, b \in Nat, c \in Nat, a <= b
      <3>5. PICK r \in Nat : r = bw[x][g[x]]
        <4>1. x \in TreeNode /\ g[x] \in TreeNode
          BY <2>1, Nodes
        <4> QED BY ONLY <4>1, bw \in [TreeNode -> [TreeNode -> Nat]]
      <3>6. r >= b * c
        BY <2>1, <3>3, <3>5
      <3>7. r >= a * c
        BY ONLY <3>4, <3>6, r \in Nat
      <3> QED BY <3>3, <3>5, <3>7
    <2> QED BY <2>1, <2>2 DEF Search!Matches
  <1>2. ASSUME NEW t \in Grown(bw, b)
        PROVE  Search!Continued(bw, b, t) \subseteq Search!Continued(bw, a, t)
    <2>1. PICK D \in SUBSET Helper : DOMAIN t.f = D
      BY DEF Grown, Fathers
    <2>2. CASE Search!Cardinality(DOMAIN t.f) = rs_k_
      BY <2>2 DEF Search!Continued
    <2>3. CASE Search!Cardinality(DOMAIN t.f) # rs_k_
      <3>1. SUFFICES ASSUME NEW u \in Search!Continued(bw, b, t) PROVE u \in Search!Continued(bw, a, t)
        OBVIOUS
      <3>2. PICK S \in Search!Layers(t.f) : \E g \in Search!Matches(bw, b, t.last_ly, S) :
              u = [last_ly |-> S, f |-> Search!Joined(t.f, g)]
        BY <2>3 DEF Search!Continued
      <3>3. PICK g \in Search!Matches(bw, b, t.last_ly, S) :
              u = [last_ly |-> S, f |-> Search!Joined(t.f, g)]
        BY <3>2
      <3>4. S \in SUBSET Helper /\ t.last_ly \in SUBSET TreeNode
        BY SameNodes DEF Search!Layers, Grown
      <3>5. g \in Search!Matches(bw, a, t.last_ly, S)
        BY <1>1, <3>4
      <3> QED BY <2>3, <3>3, <3>5 DEF Search!Continued
    <2> QED BY <2>2, <2>3
  <1>3. PICK h : Layered(bw, a, h) /\ Search!Trees(bw, a) = h[rs_k_]
    BY TreesLayered
  <1>4. PICK e : Layered(bw, b, e) /\ Search!Trees(bw, b) = e[rs_k_]
    BY TreesLayered
  <1> DEFINE N == {d \in Nat : d <= rs_k_ => e[d] \subseteq h[d]}
  <1>5. 0 \in N
    BY <1>3, <1>4 DEF Layered
  <1>6. ASSUME NEW d \in Nat, d \in N PROVE d + 1 \in N
    <2>1. SUFFICES ASSUME d + 1 <= rs_k_ PROVE e[d + 1] \subseteq h[d + 1]
      OBVIOUS
    <2>2. d + 1 \in 1 .. rs_k_ /\ (d + 1) - 1 = d /\ d \in 0 .. rs_k_ /\ d <= rs_k_
      BY <2>1, CodeAssumption
    <2>3. e[d] \subseteq h[d] /\ e[d] \subseteq Grown(bw, b)
      BY <1>4, <1>6, <2>2 DEF Layered
    <2>4. /\ e[d + 1] = UNION {Search!Continued(bw, b, t) : t \in e[d]}
          /\ h[d + 1] = UNION {Search!Continued(bw, a, t) : t \in h[d]}
      BY <1>3, <1>4, <2>2 DEF Layered
    <2> QED BY <1>2, <2>3, <2>4
  <1>7. \A d \in Nat : d \in N
    <2> HIDE DEF N
    <2> QED BY <1>5, <1>6, Induct
  <1>8. rs_k_ \in Nat /\ rs_k_ <= rs_k_
    BY CodeAssumption
  <1> QED BY <1>3, <1>4, <1>7, <1>8

-----------------------------------------------------------------------------
(* The pipelines.                                                          *)
LEMMA PathFacts ==
  /\ Search!Path = Seq(TreeNode) \ {<<>>}
  /\ Search!Route = [path : Seq(TreeNode), min : Nat]
  /\ \A p \in Search!Path :
       /\ Len(p) \in Nat \ {0} /\ p \in [1 .. Len(p) -> TreeNode]
       /\ Search!Last(p) = p[Len(p)] /\ Search!Last(p) \in TreeNode
       /\ Search!ToSet(p) = {p[j] : j \in 1 .. Len(p)}
  /\ \A p \in Search!Path, x \in TreeNode :
       /\ Append(p, x) \in Search!Path /\ Len(Append(p, x)) = Len(p) + 1
       /\ Append(p, x)[Len(p) + 1] = x
       /\ \A j \in 1 .. Len(p) : Append(p, x)[j] = p[j]
  <1>1. Search!Path = Seq(TreeNode) \ {<<>>} /\ Search!Route = [path : Seq(TreeNode), min : Nat]
    BY SameNodes DEF Search!Path, Search!Route
  <1>2. ASSUME NEW p \in Seq(TreeNode), p # <<>>
        PROVE  /\ Len(p) \in Nat \ {0} /\ p \in [1 .. Len(p) -> TreeNode]
               /\ Search!Last(p) = p[Len(p)] /\ Search!Last(p) \in TreeNode
               /\ Search!ToSet(p) = {p[j] : j \in 1 .. Len(p)}
    BY <1>2 DEF Search!Last, Search!ToSet
  <1>3. ASSUME NEW p \in Seq(TreeNode), NEW x \in TreeNode
        PROVE  /\ Append(p, x) \in Seq(TreeNode) /\ Append(p, x) # <<>> /\ Len(Append(p, x)) = Len(p) + 1
               /\ Append(p, x)[Len(p) + 1] = x
               /\ \A j \in 1 .. Len(p) : Append(p, x)[j] = p[j]
    OBVIOUS
  <1> QED BY <1>1, <1>2, <1>3

LEMMA PathAppended ==
  ASSUME NEW p \in Search!Path, NEW x \in TreeNode
  PROVE  /\ Append(p, x) \in Search!Path /\ Len(Append(p, x)) = Len(p) + 1
         /\ Append(p, x)[Len(p) + 1] = x
         /\ \A j \in 1 .. Len(p) : Append(p, x)[j] = p[j]
  BY ONLY p \in Search!Path, x \in TreeNode, PathFacts

(* A path from the requestor, what its links carry, and what no pipeline   *)
(* that begins with it exceeds.                                            *)
IsPath(p) ==
  /\ p \in Search!Path /\ p[1] = 0
  /\ \A a \in 2 .. Len(p) : p[a] \in Helper
  /\ \A a, b \in 1 .. Len(p) : p[a] = p[b] => a = b
Through(bw, p, rate) == \A j \in 1 .. Len(p) - 1 : rate <= bw[p[j + 1]][p[j]]
Begins(q, p) == \A j \in 1 .. Len(p) : q[j] = p[j]
Bounded(bw, p, cur_min, rate) ==
  \A q : IsPath(q) /\ Len(q) = rs_k_ + 1 /\ Begins(q, p) =>
    cur_min <= rate \/ \E j \in Len(p) .. rs_k_ : bw[q[j + 1]][q[j]] <= rate
Met(bw, r) ==
  \/ r.path = <<>> /\ r.min = 0
  \/ IsPath(r.path) /\ Len(r.path) = rs_k_ + 1 /\ Through(bw, r.path, r.min)

(* What is asked of the search from paths to which m nodes are to be added.*)
Searches == [Search!Path -> [Nat -> [Search!Route -> Search!Route]]]
Asked(bw, m, p, cur_min, best) ==
  /\ IsPath(p) /\ Len(p) + m = rs_k_ + 1 /\ Through(bw, p, cur_min)
  /\ Met(bw, best) /\ best.min < cur_min
Answered(bw, p, cur_min, best, r) ==
  Met(bw, r) /\ best.min <= r.min /\ Bounded(bw, p, cur_min, r.min)
Right(bw, m, G) ==
  \A p \in Search!Path, cur_min \in Nat, best \in Search!Route :
    Asked(bw, m, p, cur_min, best) => Answered(bw, p, cur_min, best, G[p][cur_min][best])

(* A turn of the loop over the next node. *)
Turn(bw, G, p, cur_min, b, x) ==
  LET new_cur_min == Search!Lower(bw[x][Search!Last(p)], cur_min)
  IN IF x \notin Search!Helper \ Search!ToSet(p) \/ new_cur_min <= b.min
     THEN b ELSE G[Append(p, x)][new_cur_min][b]
LoopTurns(bw, G, p, cur_min, best, h) ==
  /\ h \in [0 .. rs_n_ -> Search!Route] /\ h[0] = best
  /\ \A x \in 1 .. rs_n_ : h[x] = Turn(bw, G, p, cur_min, h[x - 1], x)

LEMMA TurnTyped ==
  ASSUME NEW bw \in [TreeNode -> [TreeNode -> Nat]], NEW G \in Searches,
         NEW p \in Search!Path, NEW cur_min \in Nat, NEW b \in Search!Route, NEW x
  PROVE  Turn(bw, G, p, cur_min, b, x) \in Search!Route
  <1>1. CASE x \notin Search!Helper \ Search!ToSet(p)
    BY <1>1 DEF Turn
  <1>2. CASE x \in Search!Helper
    <2>1. x \in TreeNode /\ Search!Last(p) \in TreeNode /\ Append(p, x) \in Search!Path
      BY <1>2, SameNodes, Nodes, PathFacts
    <2>2. Search!Lower(bw[x][Search!Last(p)], cur_min) \in Nat
      BY <2>1 DEF Search!Lower
    <2>3. G[Append(p, x)][Search!Lower(bw[x][Search!Last(p)], cur_min)][b] \in Search!Route
      BY <2>1, <2>2 DEF Searches
    <2> QED BY <2>3 DEF Turn
  <1> QED BY <1>1, <1>2

LEMMA TriedTurns ==
  ASSUME NEW bw \in [TreeNode -> [TreeNode -> Nat]], NEW G \in Searches,
         NEW p \in Search!Path, NEW cur_min \in Nat, NEW best \in Search!Route
  PROVE  \E h : /\ LoopTurns(bw, G, p, cur_min, best, h)
                /\ Search!Tried(bw, G, p, cur_min, best) = h[rs_n_]
  <1> DEFINE X == Search!Route
             T(b, x) == Turn(bw, G, p, cur_min, b, x)
             F == [x \in 1 .. rs_n_ |-> [b \in X |-> T(b, x)]]
             Body(h) == [x \in 0 .. rs_n_ |-> IF x = 0 THEN best ELSE T(h[x - 1], x)]
  <1>1. \A b \in X : \A x : T(b, x) \in X
    BY TurnTyped
  <1>2. F \in [1 .. rs_n_ -> [X -> X]]
    <2> HIDE DEF X, T
    <2> QED BY <1>1
  <1>3. PICK h : StepByStep(h, rs_n_, X, best, F)
    <2>1. rs_n_ \in Nat /\ best \in X
      BY CodeAssumption
    <2> HIDE DEF F, X
    <2> QED BY ONLY <1>2, <2>1, Recursion
  <1>4. h = Body(h)
    <2> HIDE DEF X, T
    <2>1. \A x \in 1 .. rs_n_ : x - 1 \in 0 .. rs_n_ /\ x # 0
      BY CodeAssumption
    <2>2. h \in [0 .. rs_n_ -> X] /\ h[0] = best /\ \A x \in 1 .. rs_n_ : h[x] = F[x][h[x - 1]]
      BY <1>3 DEF StepByStep
    <2>3. \A x \in 1 .. rs_n_ : h[x - 1] \in X /\ F[x][h[x - 1]] = T(h[x - 1], x)
      BY <2>1, <2>2
    <2>4. \A x \in 0 .. rs_n_ : x = 0 \/ x \in 1 .. rs_n_
      BY CodeAssumption
    <2> HIDE DEF F
    <2>5. \A x \in 0 .. rs_n_ : h[x] = Body(h)[x]
      BY <2>1, <2>2, <2>3, <2>4
    <2> QED BY <2>2, <2>5
  <1>5. \E e : e = Body(e) /\ Search!Tried(bw, G, p, cur_min, best) = e[rs_n_]
    <2>1. PICK e : e = (CHOOSE c : c = Body(c))
      OBVIOUS
    <2>2. e = Body(e)
      <3> HIDE DEF Body
      <3> QED BY <1>4, <2>1
    <2>3. Search!Tried(bw, G, p, cur_min, best) = e[rs_n_]
      BY <2>1 DEF Search!Tried, Turn
    <2> QED BY <2>2, <2>3
  <1>6. PICK e : e = Body(e) /\ Search!Tried(bw, G, p, cur_min, best) = e[rs_n_]
    BY <1>5
  <1>7. e = [x \in 0 .. rs_n_ |-> IF x = 0 THEN best ELSE T(e[x - 1], x)]
    BY <1>6
  <1> HIDE DEF T, X, F, Body
  <1>8. e[0] = best /\ \A x \in 1 .. rs_n_ : e[x] = T(e[x - 1], x)
    <2>1. 0 \in 0 .. rs_n_ /\ \A x \in 1 .. rs_n_ : x \in 0 .. rs_n_ /\ x # 0
      BY CodeAssumption
    <2> QED BY ONLY <1>7, <2>1
  <1>9. \A x \in 0 .. rs_n_ : e[x] \in X
    <2> DEFINE N == {x \in Nat : x <= rs_n_ => e[x] \in X}
    <2>1. 0 \in N
      BY <1>8 DEF X
    <2>2. \A x \in Nat : x \in N => x + 1 \in N
      <3>1. ASSUME NEW x \in Nat, x \in N, x + 1 <= rs_n_ PROVE e[x + 1] \in X
        <4>1. x + 1 \in 1 .. rs_n_ /\ (x + 1) - 1 = x /\ x <= rs_n_
          BY <3>1, CodeAssumption
        <4>2. e[x] \in X /\ e[x + 1] = T(e[x], x + 1)
          BY <1>8, <3>1, <4>1
        <4> QED BY <1>1, <4>2
      <3> QED BY <3>1
    <2>3. \A x \in Nat : x \in N
      <3> HIDE DEF N
      <3> QED BY <2>1, <2>2, Induct
    <2> QED BY <2>3
  <1>10. e \in [0 .. rs_n_ -> X]
    BY <1>7, <1>9
  <1>11. LoopTurns(bw, G, p, cur_min, best, e)
    BY <1>8, <1>10 DEF LoopTurns, X, T
  <1> QED BY <1>6, <1>11

LEMMA Extends ==
  ASSUME NEW bw \in [TreeNode -> [TreeNode -> Nat]], NEW p, IsPath(p), NEW x \in Helper,
         x \notin Search!ToSet(p), NEW cur_min \in Nat, Through(bw, p, cur_min)
  PROVE  /\ IsPath(Append(p, x)) /\ Len(Append(p, x)) = Len(p) + 1 /\ Len(p) \in Nat \ {0}
         /\ bw[x][p[Len(p)]] \in Nat /\ Search!Last(p) = p[Len(p)]
         /\ Through(bw, Append(p, x), Search!Lower(bw[x][p[Len(p)]], cur_min))
  <1>1. p \in Search!Path /\ x \in TreeNode
    BY Nodes DEF IsPath
  <1>2. PICK n \in Nat \ {0} : n = Len(p)
    BY <1>1, PathFacts
  <1>3. /\ p \in [1 .. n -> TreeNode] /\ Search!Last(p) = p[n]
        /\ \A j \in 1 .. n : p[j] # x
    <2>1. /\ p \in [1 .. Len(p) -> TreeNode] /\ Search!Last(p) = p[Len(p)]
          /\ Search!ToSet(p) = {p[j] : j \in 1 .. Len(p)}
      BY ONLY <1>1, PathFacts
    <2>2. \A j \in 1 .. Len(p) : p[j] # x
      BY ONLY <2>1, x \notin Search!ToSet(p)
    <2> QED BY ONLY <1>2, <2>1, <2>2
  <1>4. PICK q : q = Append(p, x)
    OBVIOUS
  <1>5. q \in Search!Path /\ Len(q) = n + 1 /\ q[n + 1] = x /\ \A j \in 1 .. n : q[j] = p[j]
    <2>1. p \in Search!Path /\ x \in TreeNode
      BY <1>1
    <2>2. /\ Append(p, x) \in Search!Path /\ Len(Append(p, x)) = Len(p) + 1
          /\ Append(p, x)[Len(p) + 1] = x
          /\ \A j \in 1 .. Len(p) : Append(p, x)[j] = p[j]
      BY ONLY <2>1, PathAppended
    <2> QED BY ONLY <1>2, <1>4, <2>2
  <1>6. /\ p[1] = 0 /\ \A a \in 2 .. n : p[a] \in Helper
        /\ \A a, b \in 1 .. n : p[a] = p[b] => a = b
    BY <1>2 DEF IsPath
  <1>7. \A a \in 1 .. n + 1 : a \in 1 .. n \/ a = n + 1
    OBVIOUS
  <1>8. IsPath(q)
    <2>1. q[1] = 0
      BY <1>5, <1>6
    <2>2. \A a \in 2 .. n + 1 : q[a] \in Helper
      BY <1>5, <1>6
    <2>3. ASSUME NEW a \in 1 .. n + 1, NEW b \in 1 .. n + 1, q[a] = q[b] PROVE a = b
      <3>1. CASE a \in 1 .. n /\ b \in 1 .. n
        BY ONLY <1>5, <1>6, <2>3, <3>1
      <3>2. CASE a = n + 1 /\ b = n + 1
        BY <3>2
      <3>3. CASE a \in 1 .. n /\ b = n + 1
        BY ONLY <1>3, <1>5, <2>3, <3>3
      <3>4. CASE a = n + 1 /\ b \in 1 .. n
        BY ONLY <1>3, <1>5, <2>3, <3>4
      <3> QED BY ONLY <1>7, <3>1, <3>2, <3>3, <3>4
    <2> QED BY <1>5, <2>1, <2>2, <2>3 DEF IsPath
  <1>9. p[n] \in TreeNode
    BY <1>3
  <1>10. PICK r \in Nat : r = bw[x][p[n]]
    BY <1>1, <1>9
  <1>11. PICK s : s = Search!Lower(r, cur_min)
    OBVIOUS
  <1>12. s \in Nat /\ s <= r /\ s <= cur_min
    BY <1>11 DEF Search!Lower
  <1>13. Through(bw, q, s)
    <2>1. SUFFICES ASSUME NEW j \in 1 .. n PROVE s <= bw[q[j + 1]][q[j]]
      BY <1>5 DEF Through
    <2>2. CASE j = n
      BY <1>5, <1>10, <1>12, <2>2
    <2>3. CASE j \in 1 .. n - 1
      <3>1. cur_min <= bw[p[j + 1]][p[j]]
        BY <1>2, <2>3 DEF Through
      <3>2. j + 1 \in 1 .. n /\ j \in 1 .. n
        BY <2>3
      <3>3. q[j + 1] = p[j + 1] /\ q[j] = p[j] /\ p[j] \in TreeNode /\ p[j + 1] \in TreeNode
        BY <1>3, <1>5, <3>2
      <3>4. PICK v \in Nat : v = bw[p[j + 1]][p[j]]
        BY <3>3
      <3> QED BY <1>12, <3>1, <3>3, <3>4
    <2> QED BY <2>2, <2>3
  <1> QED BY <1>2, <1>3, <1>4, <1>5, <1>8, <1>10, <1>11, <1>13

LEMMA TurnRight ==
  ASSUME NEW bw \in [TreeNode -> [TreeNode -> Nat]], NEW m \in Nat, NEW G \in Searches,
         Right(bw, m, G), NEW p \in Search!Path, NEW cur_min \in Nat, NEW best \in Search!Route,
         Asked(bw, m + 1, p, cur_min, best),
         NEW b \in Search!Route, Met(bw, b), best.min <= b.min,
         NEW x, NEW r, r = Turn(bw, G, p, cur_min, b, x)
  PROVE  /\ Met(bw, r) /\ b.min <= r.min
         /\ x \in Helper \ Search!ToSet(p) =>
              Bounded(bw, Append(p, x), Search!Lower(bw[x][Search!Last(p)], cur_min), r.min)
  <1>1. b.min \in Nat
    BY PathFacts
  <1>2. CASE x \notin Search!Helper \ Search!ToSet(p)
    BY <1>1, <1>2, SameNodes DEF Turn
  <1>3. CASE x \in Search!Helper \ Search!ToSet(p)
    <2>1. x \in Helper /\ x \notin Search!ToSet(p) /\ IsPath(p) /\ Through(bw, p, cur_min)
      BY <1>3, SameNodes DEF Asked
    <2>2. PICK c : c = Search!Lower(bw[x][Search!Last(p)], cur_min)
      OBVIOUS
    <2>3. PICK q : q = Append(p, x)
      OBVIOUS
    <2>4. /\ IsPath(q) /\ Len(q) = Len(p) + 1 /\ Len(p) \in Nat \ {0}
          /\ bw[x][p[Len(p)]] \in Nat /\ Search!Last(p) = p[Len(p)]
          /\ Through(bw, q, c)
      BY <2>1, <2>2, <2>3, Extends
    <2>5. c \in Nat
      BY <2>2, <2>4 DEF Search!Lower
    <2>6. CASE c <= b.min
      <3>1. r = b
        BY <1>3, <2>2, <2>6 DEF Turn
      <3>2. Bounded(bw, q, c, r.min)
        BY <2>6, <3>1 DEF Bounded
      <3> QED BY <1>1, <2>2, <2>3, <3>1, <3>2
    <2>7. CASE ~(c <= b.min)
      <3>1. r = G[q][c][b]
        BY <1>3, <2>2, <2>3, <2>7 DEF Turn
      <3>2. q \in Search!Path /\ Len(q) + m = rs_k_ + 1
        <4>1. Len(p) + (m + 1) = rs_k_ + 1
          BY DEF Asked
        <4> QED BY <2>4, <4>1, CodeAssumption DEF IsPath
      <3>3. b.min < c
        BY <1>1, <2>5, <2>7
      <3>4. Asked(bw, m, q, c, b)
        BY <2>4, <3>2, <3>3 DEF Asked
      <3>5. Answered(bw, q, c, b, r)
        BY <2>5, <3>1, <3>2, <3>4 DEF Right
      <3> QED BY <2>2, <2>3, <3>5 DEF Answered
    <2> QED BY <2>6, <2>7
  <1> QED BY <1>2, <1>3

(* The loop leaves no node untried.                                        *)
LEMMA TriedRight ==
  ASSUME NEW bw \in [TreeNode -> [TreeNode -> Nat]], NEW m \in Nat, NEW G \in Searches,
         Right(bw, m, G), NEW p \in Search!Path, NEW cur_min \in Nat, NEW best \in Search!Route,
         Asked(bw, m + 1, p, cur_min, best)
  PROVE  Answered(bw, p, cur_min, best, Search!Tried(bw, G, p, cur_min, best))
  <1>1. PICK h : /\ LoopTurns(bw, G, p, cur_min, best, h)
                 /\ Search!Tried(bw, G, p, cur_min, best) = h[rs_n_]
    BY TriedTurns
  <1>2. /\ \A x \in 0 .. rs_n_ : h[x] \in Search!Route
        /\ h[0] = best
        /\ \A x \in 1 .. rs_n_ : h[x] = Turn(bw, G, p, cur_min, h[x - 1], x)
    BY <1>1 DEF LoopTurns
  <1>3. \A x \in 0 .. rs_n_ : h[x].min \in Nat
    BY <1>2, PathFacts
  <1> DEFINE Over(y, rate) ==
               y \in Helper \ Search!ToSet(p) =>
                 Bounded(bw, Append(p, y), Search!Lower(bw[y][Search!Last(p)], cur_min), rate)
             N == {x \in Nat : x <= rs_n_ =>
                     /\ Met(bw, h[x]) /\ best.min <= h[x].min
                     /\ \A y \in 1 .. x : Over(y, h[x].min)}
  <1>4. ASSUME NEW y \in 1 .. rs_n_, NEW v \in Nat, NEW w \in Nat, Over(y, v), v <= w
        PROVE  Over(y, w)
    <2>1. SUFFICES ASSUME y \in Helper \ Search!ToSet(p)
                   PROVE  Bounded(bw, Append(p, y), Search!Lower(bw[y][Search!Last(p)], cur_min), w)
      OBVIOUS
    <2>2. PICK c, q : c = Search!Lower(bw[y][Search!Last(p)], cur_min) /\ q = Append(p, y)
      OBVIOUS
    <2>3. /\ Len(q) \in Nat \ {0} /\ c \in Nat
      <3>1. IsPath(p) /\ Through(bw, p, cur_min)
        BY DEF Asked
      <3>2. Len(q) = Len(p) + 1 /\ Len(p) \in Nat \ {0} /\ bw[y][Search!Last(p)] \in Nat
        BY <2>1, <2>2, <3>1, Extends
      <3> QED BY <2>2, <3>2 DEF Search!Lower
    <2>4. Bounded(bw, q, c, v)
      BY <1>4, <2>1, <2>2
    <2>5. ASSUME NEW z, IsPath(z), Len(z) = rs_k_ + 1, Begins(z, q)
          PROVE  c <= w \/ \E j \in Len(q) .. rs_k_ : bw[z[j + 1]][z[j]] <= w
      <3>1. c <= v \/ \E j \in Len(q) .. rs_k_ : bw[z[j + 1]][z[j]] <= v
        BY <2>4, <2>5 DEF Bounded
      <3>2. CASE c <= v
        BY <1>4, <2>3, <3>2
      <3>3. CASE \E j \in Len(q) .. rs_k_ : bw[z[j + 1]][z[j]] <= v
        <4>1. PICK j \in Len(q) .. rs_k_ : bw[z[j + 1]][z[j]] <= v
          BY <3>3
        <4>2. z \in [1 .. rs_k_ + 1 -> TreeNode]
          <5>1. z \in Search!Path
            BY <2>5 DEF IsPath
          <5> QED BY <2>5, <5>1, PathFacts
        <4>3. j \in 1 .. rs_k_ + 1 /\ j + 1 \in 1 .. rs_k_ + 1
          BY <2>3, <4>1, CodeAssumption
        <4>4. PICK s \in Nat : s = bw[z[j + 1]][z[j]]
          BY <4>2, <4>3
        <4>5. s <= w
          <5>1. v <= w /\ s <= v
            BY ONLY <1>4, <4>1, <4>4
          <5> QED BY ONLY <5>1, s \in Nat, v \in Nat, w \in Nat
        <4> QED BY <4>1, <4>4, <4>5
      <3> QED BY <3>1, <3>2, <3>3
    <2>6. Bounded(bw, q, c, w)
      BY <2>5 DEF Bounded
    <2> QED BY <2>2, <2>6
  <1>5. 0 \in N
    <2>1. best.min \in Nat /\ Met(bw, best)
      BY PathFacts DEF Asked
    <2> QED BY <1>2, <2>1
  <1>6. ASSUME NEW x \in Nat, x \in N PROVE x + 1 \in N
    <2>1. SUFFICES ASSUME x + 1 <= rs_n_
                   PROVE  /\ Met(bw, h[x + 1]) /\ best.min <= h[x + 1].min
                          /\ \A y \in 1 .. x + 1 : Over(y, h[x + 1].min)
      OBVIOUS
    <2>2. x + 1 \in 1 .. rs_n_ /\ (x + 1) - 1 = x /\ x \in 0 .. rs_n_ /\ x + 1 \in 0 .. rs_n_
      BY <2>1, CodeAssumption
    <2>3. Met(bw, h[x]) /\ best.min <= h[x].min /\ \A y \in 1 .. x : Over(y, h[x].min)
      BY <1>6, <2>2
    <2> HIDE DEF N, Over
    <2>4. PICK b, r : b = h[x] /\ r = h[x + 1]
      OBVIOUS
    <2>5. b \in Search!Route /\ Met(bw, b) /\ best.min <= b.min /\ r = Turn(bw, G, p, cur_min, b, x + 1)
      BY <1>2, <2>2, <2>3, <2>4
    <2>6. /\ Met(bw, r) /\ b.min <= r.min
          /\ Over(x + 1, r.min)
      BY <2>5, TurnRight DEF Over
    <2>7. b.min \in Nat /\ r.min \in Nat /\ best.min \in Nat
      BY <1>3, <2>2, <2>4, PathFacts
    <2>8. ASSUME NEW y \in 1 .. x + 1 PROVE Over(y, r.min)
      <3>1. CASE y = x + 1
        BY <2>6, <3>1
      <3>2. CASE y \in 1 .. x
        <4>1. Over(y, b.min) /\ y \in 1 .. rs_n_
          BY <2>2, <2>3, <2>4, <3>2, CodeAssumption
        <4> QED BY <1>4, <2>6, <2>7, <4>1
      <3> QED BY <3>1, <3>2
    <2>9. best.min <= r.min
      BY <2>5, <2>6, <2>7
    <2> QED BY <2>4, <2>6, <2>8, <2>9
  <1>7. \A x \in Nat : x \in N
    <2> HIDE DEF N
    <2> QED BY <1>5, <1>6, Induct
  <1>8. PICK r : r = h[rs_n_]
    OBVIOUS
  <1>9. Met(bw, r) /\ best.min <= r.min /\ r.min \in Nat /\ \A y \in 1 .. rs_n_ : Over(y, r.min)
    BY <1>3, <1>7, <1>8, CodeAssumption
  <1>10. ASSUME NEW q, IsPath(q), Len(q) = rs_k_ + 1, Begins(q, p)
         PROVE  cur_min <= r.min \/ \E j \in Len(p) .. rs_k_ : bw[q[j + 1]][q[j]] <= r.min
    <2>1. PICK n \in Nat \ {0} : n = Len(p)
      BY PathFacts
    <2>2. n + (m + 1) = rs_k_ + 1 /\ n <= rs_k_ /\ IsPath(p) /\ Through(bw, p, cur_min) /\ rs_k_ \in Nat
      BY <2>1, CodeAssumption DEF Asked
    <2>3. /\ n \in 1 .. rs_k_ + 1 /\ n + 1 \in 2 .. rs_k_ + 1 /\ n + 1 \in 1 .. rs_k_ + 1
          /\ \A j \in 1 .. n : j \in 1 .. rs_k_ + 1 /\ j # n + 1
      BY <2>2
    <2> DEFINE y == q[n + 1]
    <2>4. y \in Helper
      BY <1>10, <2>3 DEF IsPath
    <2>5. \A j \in 1 .. n : q[j] = p[j] /\ q[j] # y
      BY <1>10, <2>1, <2>3 DEF IsPath, Begins
    <2>6. y \notin Search!ToSet(p)
      <3>1. Search!ToSet(p) = {p[j] : j \in 1 .. n}
        BY <2>1, PathFacts
      <3> QED BY <2>5, <3>1
    <2> HIDE DEF y
    <2>7. y \in 1 .. rs_n_
      BY <2>4 DEF Helper
    <2>8. PICK z : z = Append(p, y)
      OBVIOUS
    <2>9. /\ Len(z) = n + 1 /\ bw[y][p[n]] \in Nat /\ Search!Last(p) = p[n]
      BY <2>1, <2>2, <2>4, <2>6, <2>8, Extends
    <2>10. Begins(q, z)
      <3>1. p \in Search!Path /\ y \in TreeNode
        BY <2>4, Nodes
      <3>2. z[n + 1] = y /\ \A j \in 1 .. n : z[j] = p[j]
        BY <2>1, <2>8, <3>1, PathFacts
      <3>3. \A j \in 1 .. n + 1 : j \in 1 .. n \/ j = n + 1
        OBVIOUS
      <3> QED BY <2>5, <2>9, <3>2, <3>3 DEF Begins, y
    <2>11. Bounded(bw, z, Search!Lower(bw[y][p[n]], cur_min), r.min)
      BY <1>9, <2>4, <2>6, <2>7, <2>8, <2>9
    <2>12. \/ Search!Lower(bw[y][p[n]], cur_min) <= r.min
           \/ \E j \in n + 1 .. rs_k_ : bw[q[j + 1]][q[j]] <= r.min
      BY <1>10, <2>9, <2>10, <2>11 DEF Bounded
    <2>13. CASE Search!Lower(bw[y][p[n]], cur_min) <= r.min
      <3>1. bw[y][p[n]] <= r.min \/ cur_min <= r.min
        BY <2>13 DEF Search!Lower
      <3>2. q[n] = p[n] /\ q[n + 1] = y /\ n \in n .. rs_k_
        BY <2>2, <2>5 DEF y
      <3> QED BY <2>1, <3>1, <3>2
    <2>14. CASE \E j \in n + 1 .. rs_k_ : bw[q[j + 1]][q[j]] <= r.min
      <3>1. PICK j \in n + 1 .. rs_k_ : bw[q[j + 1]][q[j]] <= r.min
        BY <2>14
      <3>2. j \in n .. rs_k_
        BY <2>2
      <3> QED BY <2>1, <3>1, <3>2
    <2> QED BY <2>12, <2>13, <2>14
  <1>11. Bounded(bw, p, cur_min, r.min)
    BY <1>10 DEF Bounded
  <1> QED BY <1>1, <1>8, <1>9, <1>11 DEF Answered

(* A call with m nodes to be added, which calls G for m - 1.               *)
Call(bw, m, G, p, cur_min, best) ==
  IF m = 0 THEN [path |-> p, min |-> cur_min] ELSE Search!Tried(bw, G, p, cur_min, best)
Calls(bw, m, G) ==
  [p \in Search!Path |-> [cur_min \in Nat |-> [best \in Search!Route |->
     Call(bw, m, G, p, cur_min, best)]]]
Depths(bw, h) ==
  /\ h \in [0 .. rs_k_ -> Searches]
  /\ \A m \in 0 .. rs_k_ : h[m] = Calls(bw, m, h[m - 1])

LEMMA CallTyped ==
  ASSUME NEW bw \in [TreeNode -> [TreeNode -> Nat]], NEW m, NEW G, m = 0 \/ G \in Searches
  PROVE  Calls(bw, m, G) \in Searches
  <1>1. ASSUME NEW p \in Search!Path, NEW cur_min \in Nat, NEW best \in Search!Route
        PROVE  Call(bw, m, G, p, cur_min, best) \in Search!Route
    <2>1. CASE m = 0
      BY <2>1, PathFacts DEF Call
    <2>2. CASE m # 0
      <3>1. PICK h : /\ LoopTurns(bw, G, p, cur_min, best, h)
                     /\ Search!Tried(bw, G, p, cur_min, best) = h[rs_n_]
        BY <2>2, TriedTurns
      <3>2. h[rs_n_] \in Search!Route
        BY <3>1, CodeAssumption DEF LoopTurns
      <3> QED BY <2>2, <3>1, <3>2 DEF Call
    <2> QED BY <2>1, <2>2
  <1> QED BY <1>1 DEF Calls, Searches

LEMMA CallsEnd ==
  ASSUME NEW bw, NEW G, NEW H
  PROVE  Calls(bw, 0, G) = Calls(bw, 0, H)
  <1>1. \A p, cur_min, best : Call(bw, 0, G, p, cur_min, best) = Call(bw, 0, H, p, cur_min, best)
    BY DEF Call
  <1> QED BY <1>1 DEF Calls

LEMMA ExtendDepths ==
  ASSUME NEW bw \in [TreeNode -> [TreeNode -> Nat]]
  PROVE  \E h : Depths(bw, h) /\ Search!Extend(bw) = h[rs_k_]
  <1> DEFINE X == Searches
             C(m, G) == Calls(bw, m, G)
             F == [m \in 1 .. rs_k_ |-> [G \in X |-> C(m, G)]]
             Body(h) == [m \in 0 .. rs_k_ |-> C(m, h[m - 1])]
  <1>1. \A G \in X : \A m : C(m, G) \in X
    BY CallTyped
  <1>2. \A G, H : C(0, G) \in X /\ C(0, G) = C(0, H)
    BY CallTyped, CallsEnd
  <1>3. PICK base : base = C(0, 0)
    OBVIOUS
  <1>4. F \in [1 .. rs_k_ -> [X -> X]]
    <2> HIDE DEF X, C
    <2> QED BY <1>1
  <1>5. PICK h : StepByStep(h, rs_k_, X, base, F)
    <2>1. rs_k_ \in Nat /\ base \in X
      BY <1>2, <1>3, CodeAssumption
    <2> HIDE DEF F, X
    <2> QED BY ONLY <1>4, <2>1, Recursion
  <1> HIDE DEF X, C
  <1>6. h = Body(h)
    <2>1. \A m \in 1 .. rs_k_ : m - 1 \in 0 .. rs_k_ /\ m # 0
      BY CodeAssumption
    <2>2. h \in [0 .. rs_k_ -> X] /\ h[0] = base /\ \A m \in 1 .. rs_k_ : h[m] = F[m][h[m - 1]]
      BY <1>5 DEF StepByStep
    <2>3. \A m \in 1 .. rs_k_ : h[m - 1] \in X /\ F[m][h[m - 1]] = C(m, h[m - 1])
      BY <2>1, <2>2
    <2>4. \A m \in 0 .. rs_k_ : m = 0 \/ m \in 1 .. rs_k_
      BY CodeAssumption
    <2> HIDE DEF F
    <2>5. \A m \in 0 .. rs_k_ : h[m] = C(m, h[m - 1])
      BY <1>2, <1>3, <2>1, <2>2, <2>3, <2>4
    <2> QED BY <2>2, <2>5
  <1>7. PICK e : e = Body(e) /\ Search!Extend(bw) = e[rs_k_]
    <2>1. PICK e : e = (CHOOSE c : c = Body(c))
      OBVIOUS
    <2>2. e = Body(e)
      <3> HIDE DEF Body
      <3> QED BY <1>6, <2>1
    <2>3. Search!Extend(bw) = e[rs_k_]
      BY <2>1 DEF Search!Extend, C, Calls, Call
    <2> QED BY <2>2, <2>3
  <1>8. e = [m \in 0 .. rs_k_ |-> C(m, e[m - 1])]
    BY <1>7
  <1> HIDE DEF F, Body
  <1>9. \A m \in 0 .. rs_k_ : e[m] = C(m, e[m - 1])
    BY ONLY <1>8
  <1>10. \A m \in 0 .. rs_k_ : e[m] \in X
    <2> DEFINE N == {m \in Nat : m <= rs_k_ => e[m] \in X}
    <2>1. 0 \in N
      <3>1. 0 \in 0 .. rs_k_
        BY CodeAssumption
      <3>2. e[0] = C(0, e[0 - 1])
        BY ONLY <1>9, <3>1
      <3> QED BY <1>2, <3>2
    <2>2. \A m \in Nat : m \in N => m + 1 \in N
      <3>1. ASSUME NEW m \in Nat, m \in N, m + 1 <= rs_k_ PROVE e[m + 1] \in X
        <4>1. m + 1 \in 0 .. rs_k_ /\ (m + 1) - 1 = m /\ m <= rs_k_
          BY <3>1, CodeAssumption
        <4>2. e[m] \in X /\ e[m + 1] = C(m + 1, e[m])
          BY <1>9, <3>1, <4>1
        <4> QED BY <1>1, <4>2
      <3> QED BY <3>1
    <2>3. \A m \in Nat : m \in N
      <3> HIDE DEF N
      <3> QED BY <2>1, <2>2, Induct
    <2> QED BY <2>3
  <1>11. e \in [0 .. rs_k_ -> X]
    BY <1>8, <1>10
  <1>12. Depths(bw, e)
    BY <1>9, <1>11 DEF Depths, X, C
  <1> QED BY <1>7, <1>12

(* Each depth of the recursion does what is asked of it.                   *)
LEMMA ExtendRight ==
  ASSUME NEW bw \in [TreeNode -> [TreeNode -> Nat]]
  PROVE  Search!Extend(bw) \in Searches /\ Right(bw, rs_k_, Search!Extend(bw))
  <1>1. PICK h : Depths(bw, h) /\ Search!Extend(bw) = h[rs_k_]
    BY ExtendDepths
  <1>2. /\ \A m \in 0 .. rs_k_ : h[m] \in Searches
        /\ \A m \in 0 .. rs_k_ : h[m] = Calls(bw, m, h[m - 1])
    BY <1>1 DEF Depths
  <1>3. ASSUME NEW m, NEW G, NEW p \in Search!Path, NEW cur_min \in Nat, NEW best \in Search!Route
        PROVE  Calls(bw, m, G)[p][cur_min][best] = Call(bw, m, G, p, cur_min, best)
    BY DEF Calls
  <1> DEFINE N == {m \in Nat : m <= rs_k_ => Right(bw, m, h[m])}
  <1>4. 0 \in N
    <2>1. h[0] = Calls(bw, 0, h[0 - 1])
      BY <1>2, CodeAssumption
    <2>2. ASSUME NEW p \in Search!Path, NEW cur_min \in Nat, NEW best \in Search!Route,
                 Asked(bw, 0, p, cur_min, best)
          PROVE  Answered(bw, p, cur_min, best, h[0][p][cur_min][best])
      <3>1. PICK r : r = h[0][p][cur_min][best]
        OBVIOUS
      <3>2. r = [path |-> p, min |-> cur_min]
        BY <1>3, <2>1, <3>1 DEF Call
      <3>3. r.path = p /\ r.min = cur_min
        BY <3>2
      <3>4. /\ IsPath(p) /\ Len(p) + 0 = rs_k_ + 1 /\ Through(bw, p, cur_min)
            /\ best.min < cur_min /\ best.min \in Nat /\ Len(p) \in Nat
        BY <2>2, PathFacts DEF Asked
      <3>5. Met(bw, r)
        BY <3>3, <3>4, CodeAssumption DEF Met
      <3>6. Bounded(bw, p, cur_min, r.min)
        BY <3>3 DEF Bounded
      <3> QED BY <3>1, <3>3, <3>4, <3>5, <3>6 DEF Answered
    <2> QED BY <2>2 DEF Right
  <1>5. ASSUME NEW m \in Nat, m \in N PROVE m + 1 \in N
    <2>1. SUFFICES ASSUME m + 1 <= rs_k_ PROVE Right(bw, m + 1, h[m + 1])
      OBVIOUS
    <2>2. m + 1 \in 0 .. rs_k_ /\ (m + 1) - 1 = m /\ m <= rs_k_ /\ m \in 0 .. rs_k_ /\ m + 1 # 0
      BY <2>1, CodeAssumption
    <2>3. PICK G : G = h[m]
      OBVIOUS
    <2>4. G \in Searches /\ Right(bw, m, G) /\ h[m + 1] = Calls(bw, m + 1, G)
      BY <1>2, <1>5, <2>2, <2>3
    <2>5. ASSUME NEW p \in Search!Path, NEW cur_min \in Nat, NEW best \in Search!Route,
                 Asked(bw, m + 1, p, cur_min, best)
          PROVE  Answered(bw, p, cur_min, best, h[m + 1][p][cur_min][best])
      <3>1. h[m + 1][p][cur_min][best] = Search!Tried(bw, G, p, cur_min, best)
        <4>1. Calls(bw, m + 1, G)[p][cur_min][best] = Call(bw, m + 1, G, p, cur_min, best)
          BY <1>3
        <4>2. Call(bw, m + 1, G, p, cur_min, best) = Search!Tried(bw, G, p, cur_min, best)
          BY <2>2 DEF Call
        <4> QED BY ONLY <2>4, <4>1, <4>2
      <3>2. Answered(bw, p, cur_min, best, Search!Tried(bw, G, p, cur_min, best))
        BY <2>4, <2>5, TriedRight
      <3> QED BY <3>1, <3>2
    <2> QED BY <2>5 DEF Right
  <1>6. \A m \in Nat : m \in N
    <2> HIDE DEF N
    <2> QED BY <1>4, <1>5, Induct
  <1>7. rs_k_ \in Nat /\ rs_k_ <= rs_k_ /\ rs_k_ \in 0 .. rs_k_
    BY CodeAssumption
  <1> QED BY <1>1, <1>2, <1>6, <1>7

LEMMA BestPipeline ==
  ASSUME NEW bw \in [TreeNode -> [TreeNode -> Nat]],
         \A x, y \in TreeNode : bw[x][y] <= BW_CEILING, BW_CEILING \in Nat \ {0},
         NEW r, r = Search!Extend(bw)[<< 0 >>][BW_CEILING][[path |-> <<>>, min |-> 0]]
  PROVE  /\ r \in Search!Route /\ Met(bw, r)
         /\ \A q : IsPath(q) /\ Len(q) = rs_k_ + 1 => \E j \in 1 .. rs_k_ : bw[q[j + 1]][q[j]] <= r.min
  <1>1. PICK G : G = Search!Extend(bw) /\ G \in Searches /\ Right(bw, rs_k_, G)
    BY ExtendRight
  <1>2. PICK p, b : p = <<0>> /\ b = [path |-> <<>>, min |-> 0]
    OBVIOUS
  <1>3. p \in Search!Path /\ Len(p) = 1 /\ p[1] = 0
    BY <1>2, PathFacts, Nodes
  <1>4. b \in Search!Route /\ b.path = <<>> /\ b.min = 0
    BY <1>2, PathFacts
  <1>5. r = G[p][BW_CEILING][b]
    BY <1>1, <1>2
  <1>6. r \in Search!Route
    BY <1>1, <1>3, <1>4, <1>5 DEF Searches
  <1>7. Asked(bw, rs_k_, p, BW_CEILING, b)
    <2>1. IsPath(p)
      BY <1>3 DEF IsPath
    <2>2. Len(p) + rs_k_ = rs_k_ + 1
      BY <1>3, CodeAssumption
    <2>3. Through(bw, p, BW_CEILING)
      BY <1>3 DEF Through
    <2>4. Met(bw, b) /\ b.min < BW_CEILING
      BY <1>4 DEF Met
    <2> QED BY <2>1, <2>2, <2>3, <2>4 DEF Asked
  <1>8. Answered(bw, p, BW_CEILING, b, r)
    BY <1>1, <1>3, <1>4, <1>5, <1>7 DEF Right
  <1>9. ASSUME NEW q, IsPath(q), Len(q) = rs_k_ + 1
        PROVE  \E j \in 1 .. rs_k_ : bw[q[j + 1]][q[j]] <= r.min
    <2>1. Begins(q, p)
      BY <1>3, <1>9 DEF Begins, IsPath
    <2>2. BW_CEILING <= r.min \/ \E j \in 1 .. rs_k_ : bw[q[j + 1]][q[j]] <= r.min
      BY <1>3, <1>8, <1>9, <2>1 DEF Answered, Bounded
    <2>3. CASE BW_CEILING <= r.min
      <3>1. 1 \in 1 .. rs_k_ /\ 1 \in 1 .. rs_k_ + 1 /\ 2 \in 1 .. rs_k_ + 1
        BY CodeAssumption
      <3>2. q \in [1 .. rs_k_ + 1 -> TreeNode]
        <4>1. q \in Search!Path
          BY <1>9 DEF IsPath
        <4> QED BY <1>9, <4>1, PathFacts
      <3>3. q[1] \in TreeNode /\ q[2] \in TreeNode
        BY <3>1, <3>2
      <3>4. bw[q[2]][q[1]] <= BW_CEILING /\ bw[q[2]][q[1]] \in Nat
        BY <3>3
      <3>5. r.min \in Nat
        BY <1>6, PathFacts
      <3>6. bw[q[2]][q[1]] <= r.min
        BY <2>3, <3>4, <3>5
      <3>7. 1 + 1 = 2
        OBVIOUS
      <3> QED BY <3>1, <3>6, <3>7
    <2> QED BY <2>2, <2>3
  <1> QED BY <1>6, <1>8, <1>9 DEF Answered

-----------------------------------------------------------------------------
(* The bisection.  Its bounds are numbers, whatever the order of the links,*)
(* and the lower one is no faster than any link.                           *)
Ends == [lower : Nat, upper : Nat]
Slowest(bw, x, rate) == \A y \in Helper \ {x} : rate <= bw[y][x]

LEMMA ScanToTyped ==
  ASSUME NEW bw \in [TreeNode -> [TreeNode -> Nat]], NEW x \in TreeNode, NEW bounds \in Ends
  PROVE  /\ Search!ScanTo(bw, x, bounds) \in Ends
         /\ Search!ScanTo(bw, x, bounds).lower <= bounds.lower
         /\ Slowest(bw, x, Search!ScanTo(bw, x, bounds).lower)
  <1> DEFINE X == Ends
             Meet(b, r) == [lower |-> Search!Lower(b.lower, r),
                            upper |-> IF r >= b.lower /\ r > b.upper THEN r ELSE b.upper]
             T(b, j) == IF j \notin Search!Helper \ {x} THEN b ELSE Meet(b, bw[j][x])
             F == [j \in 1 .. rs_n_ |-> [b \in X |-> T(b, j)]]
             Body(h) == [j \in 0 .. rs_n_ |-> IF j = 0 THEN bounds ELSE T(h[j - 1], j)]
  <1>1. \A b \in X : \A j :
          /\ T(b, j) \in X /\ T(b, j).lower <= b.lower
          /\ j \in Helper \ {x} => T(b, j).lower <= bw[j][x]
    <2>1. ASSUME NEW b \in X, NEW r \in Nat
          PROVE  Meet(b, r) \in X /\ Meet(b, r).lower <= b.lower /\ Meet(b, r).lower <= r
      BY DEF Ends, Search!Lower
    <2>2. Search!Helper = Helper /\ \A j \in Helper : bw[j][x] \in Nat
      BY SameNodes, Nodes
    <2>3. \A b \in X : b.lower <= b.lower
      BY DEF Ends
    <2> HIDE DEF Meet, X
    <2> QED BY <2>1, <2>2, <2>3
  <1>2. F \in [1 .. rs_n_ -> [X -> X]]
    <2> HIDE DEF X, T
    <2> QED BY <1>1
  <1>3. PICK h : StepByStep(h, rs_n_, X, bounds, F)
    <2>1. rs_n_ \in Nat /\ bounds \in X
      BY CodeAssumption
    <2> HIDE DEF F, X
    <2> QED BY ONLY <1>2, <2>1, Recursion
  <1>4. h = Body(h)
    <2> HIDE DEF X, T
    <2>1. \A j \in 1 .. rs_n_ : j - 1 \in 0 .. rs_n_ /\ j # 0
      BY CodeAssumption
    <2>2. h \in [0 .. rs_n_ -> X] /\ h[0] = bounds /\ \A j \in 1 .. rs_n_ : h[j] = F[j][h[j - 1]]
      BY <1>3 DEF StepByStep
    <2>3. \A j \in 1 .. rs_n_ : h[j - 1] \in X /\ F[j][h[j - 1]] = T(h[j - 1], j)
      BY <2>1, <2>2
    <2>4. \A j \in 0 .. rs_n_ : j = 0 \/ j \in 1 .. rs_n_
      BY CodeAssumption
    <2> HIDE DEF F
    <2>5. \A j \in 0 .. rs_n_ : h[j] = Body(h)[j]
      BY <2>1, <2>2, <2>3, <2>4
    <2> QED BY <2>2, <2>5
  <1>5. PICK e : e = Body(e) /\ Search!ScanTo(bw, x, bounds) = e[rs_n_]
    <2>1. PICK e : e = (CHOOSE c : c = Body(c))
      OBVIOUS
    <2>2. e = Body(e)
      <3> HIDE DEF Body
      <3> QED BY <1>4, <2>1
    <2>3. Search!ScanTo(bw, x, bounds) = e[rs_n_]
      BY <2>1 DEF Search!ScanTo
    <2> QED BY <2>2, <2>3
  <1>6. e = [j \in 0 .. rs_n_ |-> IF j = 0 THEN bounds ELSE T(e[j - 1], j)]
    BY <1>5
  <1> HIDE DEF T, X, F, Body
  <1>7. e[0] = bounds /\ \A j \in 1 .. rs_n_ : e[j] = T(e[j - 1], j)
    <2>1. 0 \in 0 .. rs_n_ /\ \A j \in 1 .. rs_n_ : j \in 0 .. rs_n_ /\ j # 0
      BY CodeAssumption
    <2> QED BY ONLY <1>6, <2>1
  <1> DEFINE Low(r, j) == r <= bounds.lower /\ \A y \in Helper \ {x} : y <= j => r <= bw[y][x]
             N == {j \in Nat : j <= rs_n_ => e[j] \in X /\ Low(e[j].lower, j)}
  <1>8. 0 \in N
    <2>1. e[0] \in X /\ e[0].lower <= bounds.lower
      BY <1>7 DEF X, Ends
    <2>2. \A y \in Helper : ~(y <= 0)
      BY DEF Helper
    <2> QED BY <2>1, <2>2
  <1>9. ASSUME NEW j \in Nat, j \in N PROVE j + 1 \in N
    <2>1. SUFFICES ASSUME j + 1 <= rs_n_ PROVE e[j + 1] \in X /\ Low(e[j + 1].lower, j + 1)
      OBVIOUS
    <2>2. j + 1 \in 1 .. rs_n_ /\ (j + 1) - 1 = j /\ j <= rs_n_
      BY <2>1, CodeAssumption
    <2>3. e[j] \in X /\ Low(e[j].lower, j) /\ e[j + 1] = T(e[j], j + 1)
      BY <1>7, <1>9, <2>2
    <2>4. /\ e[j + 1] \in X /\ e[j + 1].lower <= e[j].lower
          /\ j + 1 \in Helper \ {x} => e[j + 1].lower <= bw[j + 1][x]
      BY <1>1, <2>3
    <2>5. PICK a \in Nat, b \in Nat : a = e[j].lower /\ b = e[j + 1].lower
      BY <2>3, <2>4 DEF X, Ends
    <2>6. PICK c \in Nat : c = bounds.lower
      BY DEF Ends
    <2>7. ASSUME NEW y \in Helper \ {x}, y <= j + 1 PROVE b <= bw[y][x]
      <3>1. CASE y = j + 1
        BY <2>4, <2>5, <2>7, <3>1
      <3>2. CASE y # j + 1
        <4>1. y <= j
          BY <2>7, <3>2, Nodes
        <4>2. a <= bw[y][x]
          BY <2>3, <2>5, <4>1
        <4>3. PICK w \in Nat : w = bw[y][x]
          BY Nodes
        <4>4. b <= a
          BY <2>4, <2>5
        <4> QED BY <4>2, <4>3, <4>4
      <3> QED BY <3>1, <3>2
    <2>8. b <= c
      BY <2>3, <2>4, <2>5, <2>6
    <2> QED BY <2>4, <2>5, <2>6, <2>7, <2>8
  <1>10. \A j \in Nat : j \in N
    <2> HIDE DEF N
    <2> QED BY <1>8, <1>9, Induct
  <1>11. rs_n_ \in Nat /\ rs_n_ <= rs_n_
    BY CodeAssumption
  <1>12. e[rs_n_] \in X /\ Low(e[rs_n_].lower, rs_n_)
    BY <1>10, <1>11
  <1>13. \A y \in Helper : y <= rs_n_
    BY CodeAssumption DEF Helper
  <1> QED BY <1>5, <1>12, <1>13 DEF X, Slowest

LEMMA ScanTyped ==
  ASSUME NEW bw \in [TreeNode -> [TreeNode -> Nat]]
  PROVE  /\ Search!Scan(bw) \in Ends
         /\ \A x \in TreeNode : Slowest(bw, x, Search!Scan(bw).lower)
  <1> DEFINE X == Ends
             base == Search!ScanTo(bw, 0, [lower |-> BW_CEILING, upper |-> 0])
             T(b, x) == IF x \notin Search!Helper THEN b ELSE Search!ScanTo(bw, x, b)
             F == [x \in 1 .. rs_n_ |-> [b \in X |-> T(b, x)]]
             Body(h) == [x \in 0 .. rs_n_ |-> IF x = 0 THEN base ELSE T(h[x - 1], x)]
  <1>1. \A b \in X : \A x :
          /\ T(b, x) \in X /\ T(b, x).lower <= b.lower
          /\ x \in Helper => Slowest(bw, x, T(b, x).lower)
    <2>1. \A b \in X : b.lower <= b.lower
      BY DEF Ends
    <2>2. Search!Helper = Helper /\ \A x \in Helper : x \in TreeNode
      BY SameNodes, Nodes
    <2>3. ASSUME NEW b \in X, NEW x \in Helper
          PROVE  /\ Search!ScanTo(bw, x, b) \in X /\ Search!ScanTo(bw, x, b).lower <= b.lower
                 /\ Slowest(bw, x, Search!ScanTo(bw, x, b).lower)
      BY <2>2, ScanToTyped
    <2> HIDE DEF X
    <2> QED BY <2>1, <2>2, <2>3
  <1>2. base \in X /\ Slowest(bw, 0, base.lower)
    <2>1. [lower |-> BW_CEILING, upper |-> 0] \in X
      BY RateAssumption DEF Ends
    <2> QED BY <2>1, ScanToTyped, Nodes
  <1>3. F \in [1 .. rs_n_ -> [X -> X]]
    <2> HIDE DEF X, T
    <2> QED BY <1>1
  <1> HIDE DEF base
  <1>4. PICK h : StepByStep(h, rs_n_, X, base, F)
    <2>1. rs_n_ \in Nat
      BY CodeAssumption
    <2> HIDE DEF F, X
    <2> QED BY ONLY <1>2, <1>3, <2>1, Recursion
  <1>5. h = Body(h)
    <2> HIDE DEF X, T
    <2>1. \A x \in 1 .. rs_n_ : x - 1 \in 0 .. rs_n_ /\ x # 0
      BY CodeAssumption
    <2>2. h \in [0 .. rs_n_ -> X] /\ h[0] = base /\ \A x \in 1 .. rs_n_ : h[x] = F[x][h[x - 1]]
      BY <1>4 DEF StepByStep
    <2>3. \A x \in 1 .. rs_n_ : h[x - 1] \in X /\ F[x][h[x - 1]] = T(h[x - 1], x)
      BY <2>1, <2>2
    <2>4. \A x \in 0 .. rs_n_ : x = 0 \/ x \in 1 .. rs_n_
      BY CodeAssumption
    <2> HIDE DEF F
    <2>5. \A x \in 0 .. rs_n_ : h[x] = Body(h)[x]
      BY <2>1, <2>2, <2>3, <2>4
    <2> QED BY <2>2, <2>5
  <1>6. PICK e : e = Body(e) /\ Search!Scan(bw) = e[rs_n_]
    <2>1. PICK e : e = (CHOOSE c : c = Body(c))
      OBVIOUS
    <2>2. e = Body(e)
      <3> HIDE DEF Body
      <3> QED BY <1>5, <2>1
    <2>3. Search!Scan(bw) = e[rs_n_]
      BY <2>1 DEF Search!Scan, base
    <2> QED BY <2>2, <2>3
  <1>7. e = [x \in 0 .. rs_n_ |-> IF x = 0 THEN base ELSE T(e[x - 1], x)]
    BY <1>6
  <1> HIDE DEF T, X, F, Body
  <1>8. e[0] = base /\ \A x \in 1 .. rs_n_ : e[x] = T(e[x - 1], x)
    <2>1. 0 \in 0 .. rs_n_ /\ \A x \in 1 .. rs_n_ : x \in 0 .. rs_n_ /\ x # 0
      BY CodeAssumption
    <2> QED BY ONLY <1>7, <2>1
  <1> DEFINE Low(r, x) == \A y \in TreeNode : y <= x => Slowest(bw, y, r)
             N == {x \in Nat : x <= rs_n_ => e[x] \in X /\ Low(e[x].lower, x)}
  <1>9. 0 \in N
    <2>1. \A y \in TreeNode : y <= 0 => y = 0
      BY DEF TreeNode, Helper
    <2> QED BY <1>2, <1>8, <2>1
  <1>10. ASSUME NEW x \in Nat, x \in N PROVE x + 1 \in N
    <2>1. SUFFICES ASSUME x + 1 <= rs_n_ PROVE e[x + 1] \in X /\ Low(e[x + 1].lower, x + 1)
      OBVIOUS
    <2>2. x + 1 \in 1 .. rs_n_ /\ (x + 1) - 1 = x /\ x <= rs_n_
      BY <2>1, CodeAssumption
    <2>3. e[x] \in X /\ Low(e[x].lower, x) /\ e[x + 1] = T(e[x], x + 1)
      BY <1>8, <1>10, <2>2
    <2>4. /\ e[x + 1] \in X /\ e[x + 1].lower <= e[x].lower
          /\ x + 1 \in Helper => Slowest(bw, x + 1, e[x + 1].lower)
      BY <1>1, <2>3
    <2>5. PICK a \in Nat, b \in Nat : a = e[x].lower /\ b = e[x + 1].lower
      BY <2>3, <2>4 DEF X, Ends
    <2>6. ASSUME NEW y \in TreeNode, y <= x + 1 PROVE Slowest(bw, y, b)
      <3>1. CASE y = x + 1
        <4>1. y \in Helper
          BY <3>1, Nodes
        <4> QED BY <2>4, <2>5, <3>1, <4>1
      <3>2. CASE y # x + 1
        <4>1. y <= x
          BY <2>6, <3>2, Nodes
        <4>2. Slowest(bw, y, a)
          BY <2>3, <2>5, <4>1
        <4>3. b <= a /\ \A z \in Helper : bw[z][y] \in Nat
          BY <2>4, <2>5, Nodes
        <4> QED BY <4>2, <4>3 DEF Slowest
      <3> QED BY <3>1, <3>2
    <2> QED BY <2>4, <2>5, <2>6
  <1>11. \A x \in Nat : x \in N
    <2> HIDE DEF N
    <2> QED BY <1>9, <1>10, Induct
  <1>12. rs_n_ \in Nat /\ rs_n_ <= rs_n_
    BY CodeAssumption
  <1>13. e[rs_n_] \in X /\ Low(e[rs_n_].lower, rs_n_)
    BY <1>11, <1>12
  <1>14. \A y \in TreeNode : y <= rs_n_
    BY CodeAssumption DEF TreeNode, Helper
  <1> QED BY <1>6, <1>13, <1>14 DEF X

(* If no link is slower than a limit, there is a tree for it: the layers of*)
(* one node each, for which build_ppt_tree never has to turn back.         *)
Single(t, d) == NodesOf(t) = d /\ \E y \in TreeNode : t.last_ly = {y}

LEMMA ChainGoesOn ==
  ASSUME NEW bw \in [TreeNode -> [TreeNode -> Nat]], NEW limit \in Nat,
         \A y \in TreeNode : Slowest(bw, y, limit),
         NEW d \in Nat, d < rs_k_, NEW t \in Grown(bw, limit), Single(t, d)
  PROVE  \E u \in Search!Continued(bw, limit, t) : Single(u, d + 1)
  <1>1. PICK D \in SUBSET Helper : t.f \in [D -> TreeNode] /\ DOMAIN t.f = D
    BY DEF Grown, Fathers
  <1>2. PICK y \in TreeNode : t.last_ly = {y}
    BY DEF Single
  <1>3. y \in D \cup {0} /\ Cardinality(D) = d
    BY <1>1, <1>2 DEF Grown, Partly, Single, NodesOf
  <1>4. PICK x \in Helper : x \notin D
    <2>1. Cardinality(Helper) = rs_n_ - 1 /\ rs_k_ <= rs_n_ - 1 /\ rs_n_ - 1 \in Nat /\ rs_k_ \in Nat
      BY Parameters
    <2>2. D # Helper
      BY <1>3, <2>1
    <2> QED BY <2>2
  <1>5. x # y /\ x # 0 /\ x \in TreeNode
    BY <1>3, <1>4, Nodes
  <1>6. PICK g : g = [z \in {x} |-> y]
    OBVIOUS
  <1>7. Search!Place(x, g) = 1
    <2>1. {z \in Search!Siblings(x, g) : z <= x} = {x}
      BY <1>4, <1>6, Nodes DEF Search!Siblings
    <2>2. Cardinality({x}) = 1
      BY FS_Singleton
    <2> QED BY <2>1, <2>2, SameCardinality DEF Search!Place
  <1>8. g \in Search!Matches(bw, limit, t.last_ly, {x})
    <2>1. g \in [{x} -> t.last_ly] /\ g[x] = y
      BY <1>2, <1>6
    <2>2. PICK r \in Nat : r = bw[x][y]
      BY <1>5
    <2>3. limit <= r
      BY <1>4, <1>5, <2>2 DEF Slowest
    <2>4. r >= limit * 1
      BY ONLY limit \in Nat, r \in Nat, <2>3
    <2>5. bw[x][g[x]] >= limit * Search!Place(x, g)
      BY ONLY <1>7, <2>1, <2>2, <2>4
    <2> QED BY <2>1, <2>5 DEF Search!Matches
  <1>9. {x} \in Search!Layers(t.f)
    <2>1. {x} \in SUBSET (Search!Helper \ DOMAIN t.f) /\ {x} # {}
      BY <1>1, <1>4, SameNodes
    <2>2. Search!Cardinality({x}) = 1 /\ Search!Cardinality(DOMAIN t.f) = d
      BY <1>1, <1>3, FS_Singleton, SameCardinality
    <2>3. 1 + d <= rs_k_
      BY CodeAssumption
    <2> QED BY <2>1, <2>2, <2>3 DEF Search!Layers
  <1>10. PICK u : u = [last_ly |-> {x}, f |-> Search!Joined(t.f, g)]
    OBVIOUS
  <1>11. u \in Search!Continued(bw, limit, t)
    <2>1. Search!Cardinality(DOMAIN t.f) # rs_k_
      BY <1>1, <1>3, SameCardinality, CodeAssumption
    <2> DEFINE Over(S) == {[last_ly |-> S, f |-> Search!Joined(t.f, h)] :
                             h \in Search!Matches(bw, limit, t.last_ly, S)}
    <2>2. u \in Over({x})
      BY <1>8, <1>10
    <2>3. Search!Continued(bw, limit, t) = UNION {Over(S) : S \in Search!Layers(t.f)}
      BY ONLY <2>1 DEF Search!Continued
    <2> HIDE DEF Over
    <2> QED BY ONLY <1>9, <2>2, <2>3
  <1>12. DOMAIN u.f = D \cup {x}
    BY <1>1, <1>6, <1>10 DEF Search!Joined
  <1>13. Cardinality(D \cup {x}) = d + 1
    BY <1>3, <1>4, Nodes, FS_AddElement
  <1>14. Single(u, d + 1)
    BY <1>5, <1>10, <1>12, <1>13 DEF Single, NodesOf
  <1> QED BY <1>11, <1>14

LEMMA LowestFound ==
  ASSUME NEW bw \in [TreeNode -> [TreeNode -> Nat]], NEW limit \in Nat,
         \A y \in TreeNode : Slowest(bw, y, limit)
  PROVE  Search!Trees(bw, limit) # {}
  <1>1. PICK h : Layered(bw, limit, h) /\ Search!Trees(bw, limit) = h[rs_k_]
    BY TreesLayered
  <1>2. /\ \A d \in 0 .. rs_k_ : h[d] \subseteq Grown(bw, limit)
        /\ h[0] = {[last_ly |-> {0}, f |-> <<>>]}
        /\ \A d \in 1 .. rs_k_ : h[d] = UNION {Search!Continued(bw, limit, t) : t \in h[d - 1]}
    BY <1>1 DEF Layered
  <1> DEFINE N == {d \in Nat : d <= rs_k_ => \E t \in h[d] : Single(t, d)}
  <1>3. 0 \in N
    <2>1. PICK root : root = [last_ly |-> {0}, f |-> <<>>]
      OBVIOUS
    <2>2. DOMAIN root.f = {} /\ root.last_ly = {0}
      BY <2>1
    <2>3. Single(root, 0)
      BY <2>2, FS_EmptySet, Nodes DEF Single, NodesOf
    <2> QED BY <1>2, <2>1, <2>3
  <1>4. ASSUME NEW d \in Nat, d \in N PROVE d + 1 \in N
    <2>1. SUFFICES ASSUME d + 1 <= rs_k_ PROVE \E t \in h[d + 1] : Single(t, d + 1)
      OBVIOUS
    <2>2. d + 1 \in 1 .. rs_k_ /\ (d + 1) - 1 = d /\ d \in 0 .. rs_k_ /\ d <= rs_k_ /\ d < rs_k_
      BY <2>1, CodeAssumption
    <2>3. PICK t \in h[d] : Single(t, d)
      BY <1>4, <2>2
    <2>4. t \in Grown(bw, limit)
      BY <1>2, <2>2
    <2>5. PICK u \in Search!Continued(bw, limit, t) : Single(u, d + 1)
      BY <2>2, <2>3, <2>4, ChainGoesOn
    <2>6. h[d + 1] = UNION {Search!Continued(bw, limit, v) : v \in h[d]}
      BY <1>2, <2>2
    <2> QED BY <2>3, <2>5, <2>6
  <1>5. \A d \in Nat : d \in N
    <2> HIDE DEF N
    <2> QED BY <1>3, <1>4, Induct
  <1>6. rs_k_ \in Nat /\ rs_k_ <= rs_k_
    BY CodeAssumption
  <1> QED BY <1>1, <1>5, <1>6

-----------------------------------------------------------------------------
(* FTPRepair: the three algorithms on the rates that the filter leaves.    *)
LEMMA MatrixTyped ==
  ASSUME upload \in [TreeNode -> Nat], download \in [TreeNode -> Nat],
         BW_CEILING \in Nat, \A x \in TreeNode : upload[x] <= BW_CEILING
  PROVE  /\ Search!matrix \in [TreeNode -> [TreeNode -> Nat]]
         /\ \A x, y \in TreeNode : Search!matrix[x][y] <= BW_CEILING
         /\ \A x, y \in TreeNode : x # y =>
              Search!matrix[x][y] <= upload[x] /\ Search!matrix[x][y] <= download[y]
  <1> DEFINE link(x, y) == IF x = y THEN BW_CEILING ELSE Search!Lower(upload[x], download[y])
  <1>1. Search!matrix = [x \in TreeNode |-> [y \in TreeNode |-> link(x, y)]]
    BY SameNodes DEF Search!matrix
  <1>2. ASSUME NEW x \in TreeNode, NEW y \in TreeNode
        PROVE  /\ link(x, y) \in Nat /\ link(x, y) <= BW_CEILING
               /\ x # y => link(x, y) <= upload[x] /\ link(x, y) <= download[y]
    <2>1. upload[x] \in Nat /\ download[y] \in Nat /\ upload[x] <= BW_CEILING
      OBVIOUS
    <2> QED BY <2>1 DEF Search!Lower
  <1> HIDE DEF link
  <1> QED BY <1>1, <1>2

(* What links carry their nodes can send, and their fathers receive.       *)
LEMMA CarriedCarries ==
  ASSUME upload \in [TreeNode -> Nat], download \in [TreeNode -> Nat],
         BW_CEILING \in Nat, \A x \in TreeNode : upload[x] <= BW_CEILING,
         NEW S \in SUBSET Helper, NEW f, NEW rate \in Nat,
         Connected(S, f), Carried(Search!matrix, rate, S, f)
  PROVE  Carries(S, f, rate)
  <1>1. \A x \in S : f[x] \in TreeNode /\ f[x] # x /\ x \in TreeNode
    <2> TAKE x \in S
    <2>1. {x} \in (SUBSET S) \ {{}}
      OBVIOUS
    <2>2. \E y \in {x} : f[y] \notin {x}
      BY <2>1 DEF Connected
    <2> QED BY <2>2, Nodes DEF Connected
  <1>2. ASSUME NEW x \in S PROVE rate <= upload[x]
    <2>1. rate <= Search!matrix[x][f[x]]
      BY DEF Carried
    <2>2. PICK m \in Nat, u \in Nat : m = Search!matrix[x][f[x]] /\ u = upload[x] /\ m <= u
      BY <1>1, MatrixTyped
    <2> QED BY <2>1, <2>2
  <1>3. ASSUME NEW x \in S PROVE rate * Cardinality({y \in S : f[y] = f[x]}) <= download[f[x]]
    <2>1. PICK z \in S :
            f[z] = f[x] /\ rate * Cardinality({y \in S : f[y] = f[x]}) <= Search!matrix[z][f[z]]
      BY DEF Carried
    <2>2. PICK c \in Nat : c = Cardinality({y \in S : f[y] = f[x]})
      <3>1. {y \in S : f[y] = f[x]} \in SUBSET Helper
        OBVIOUS
      <3> QED BY <3>1, Nodes
    <2>3. PICK m \in Nat, d \in Nat : m = Search!matrix[z][f[z]] /\ d = download[f[z]] /\ m <= d
      BY <1>1, MatrixTyped
    <2>4. PICK e \in Nat : e = rate * c
      BY ONLY rate \in Nat, c \in Nat
    <2>5. e <= m
      BY <2>1, <2>2, <2>3, <2>4
    <2>6. e <= d
      BY <2>3, <2>5
    <2> QED BY <2>1, <2>2, <2>3, <2>4, <2>6
  <1> QED BY <1>2, <1>3 DEF Carries

(* The fathers that build_repair_pipeline reads out of op_p.               *)
FatherOn(q, S) == [x \in S |-> q[CHOOSE c \in 1 .. rs_k_ : q[c + 1] = x]]

LEMMA PipelineTree ==
  ASSUME NEW bw \in [TreeNode -> [TreeNode -> Nat]], NEW q, IsPath(q), Len(q) = rs_k_ + 1,
         NEW rate \in Nat, Through(bw, q, rate),
         NEW S, S = {q[c] : c \in 2 .. Len(q)}, NEW f, f = FatherOn(q, S)
  PROVE  /\ S \in SUBSET Helper /\ Cardinality(S) = rs_k_
         /\ Connected(S, f) /\ Carried(bw, rate, S, f)
  <1>1. PICK k \in Nat \ {0} : k = rs_k_
    BY CodeAssumption
  <1>2. /\ q[1] = 0 /\ \A c \in 1 .. k : q[c + 1] \in Helper
        /\ \A a, b \in 1 .. k + 1 : q[a] = q[b] => a = b
    <2>1. \A c \in 1 .. k : c + 1 \in 2 .. k + 1
      OBVIOUS
    <2> QED BY <1>1, <2>1 DEF IsPath
  <1>3. S = {q[c + 1] : c \in 1 .. k}
    <2>1. \A c \in 1 .. k : c + 1 \in 2 .. k + 1
      OBVIOUS
    <2>2. \A c \in 2 .. k + 1 : c - 1 \in 1 .. k /\ (c - 1) + 1 = c
      OBVIOUS
    <2>3. S \subseteq {q[c + 1] : c \in 1 .. k}
      BY <1>1, <2>2
    <2>4. {q[c + 1] : c \in 1 .. k} \subseteq S
      BY <1>1, <2>1
    <2> QED BY <2>3, <2>4
  <1>4. S \in SUBSET Helper
    BY <1>2, <1>3
  <1>5. ASSUME NEW c \in 1 .. k PROVE f[q[c + 1]] = q[c]
    <2>1. q[c + 1] \in S
      BY <1>3
    <2>2. \A d \in 1 .. k : q[d + 1] = q[c + 1] => d = c
      <3>1. \A d \in 1 .. k : d + 1 \in 1 .. k + 1
        OBVIOUS
      <3> QED BY <1>2, <3>1
    <2>3. (CHOOSE d \in 1 .. k : q[d + 1] = q[c + 1]) = c
      BY <2>2
    <2> QED BY <1>1, <2>1, <2>3 DEF FatherOn
  <1>6. Cardinality(S) = k
    <2> DEFINE g == [c \in 1 .. k |-> q[c + 1]]
    <2>1. \A a, b \in 1 .. k : g[a] = g[b] => a = b
      <3>1. \A d \in 1 .. k : d + 1 \in 1 .. k + 1
        OBVIOUS
      <3>2. ASSUME NEW a \in 1 .. k, NEW b \in 1 .. k, g[a] = g[b] PROVE a = b
        <4>1. a + 1 = b + 1
          BY <1>2, <3>1, <3>2
        <4> QED BY <4>1
      <3> QED BY <3>2
    <2>2. S = {g[a] : a \in 1 .. k}
      BY <1>3
    <2>3. PICK h : h = g
      OBVIOUS
    <2>4. (\A a, b \in 1 .. k : h[a] = h[b] => a = b) /\ S = {h[a] : a \in 1 .. k}
      BY ONLY <2>1, <2>2, <2>3
    <2>5. k \in Nat
      OBVIOUS
    <2> QED BY ONLY <2>4, <2>5, ListedOnce
  <1>7. Connected(S, f)
    <2>1. ASSUME NEW x \in S PROVE f[x] \in S \cup {0}
      <3>1. PICK c \in 1 .. k : x = q[c + 1]
        BY <1>3
      <3>2. f[x] = q[c]
        BY <1>5, <3>1
      <3>3. CASE c = 1
        BY <1>2, <3>2, <3>3
      <3>4. CASE c # 1
        <4>1. c - 1 \in 1 .. k /\ (c - 1) + 1 = c
          BY <3>4
        <4> QED BY <1>3, <3>2, <4>1
      <3> QED BY <3>3, <3>4
    <2>2. ASSUME NEW T \in (SUBSET S) \ {{}} PROVE \E x \in T : f[x] \notin T
      <3> DEFINE N == {c \in Nat : \A d \in 1 .. c : d <= k => q[d + 1] \notin T}
      <3>1. SUFFICES ASSUME \A x \in T : f[x] \in T PROVE FALSE
        OBVIOUS
      <3>2. 0 \in N
        OBVIOUS
      <3>3. ASSUME NEW c \in Nat, c \in N PROVE c + 1 \in N
        <4>1. ASSUME c + 1 <= k, q[(c + 1) + 1] \in T PROVE FALSE
          <5>1. c + 1 \in 1 .. k
            BY <4>1
          <5>2. f[q[(c + 1) + 1]] = q[c + 1]
            BY <1>5, <5>1
          <5>3. q[c + 1] \in T
            BY <3>1, <4>1, <5>2
          <5>4. CASE c = 0
            <6>1. q[c + 1] = 0 /\ 0 \notin Helper
              BY <1>2, <5>4, Nodes
            <6> QED BY <1>4, <5>3, <6>1
          <5>5. CASE c # 0
            <6>1. c \in 1 .. c /\ c <= k
              BY <4>1, <5>5
            <6> QED BY <3>3, <5>3, <6>1
          <5> QED BY <5>4, <5>5
        <4>2. \A d \in 1 .. c + 1 : d \in 1 .. c \/ d = c + 1
          OBVIOUS
        <4> QED BY <3>3, <4>1, <4>2
      <3>4. \A c \in Nat : c \in N
        <4> HIDE DEF N
        <4> QED BY <3>2, <3>3, Induct
      <3>5. PICK x \in T : x \in S
        OBVIOUS
      <3>6. PICK c \in 1 .. k : x = q[c + 1]
        BY <1>3, <3>5
      <3>7. c \in N /\ c \in 1 .. c /\ c <= k
        BY <3>4
      <3> QED BY <3>6, <3>7
    <2> QED BY <2>1, <2>2 DEF Connected
  <1>8. ASSUME NEW x \in S
        PROVE  rate <= bw[x][f[x]] /\ rate * Cardinality({y \in S : f[y] = f[x]}) <= bw[x][f[x]]
    <2>1. PICK c \in 1 .. k : x = q[c + 1]
      BY <1>3
    <2>2. f[x] = q[c] /\ rate <= bw[q[c + 1]][q[c]]
      BY <1>1, <1>5, <2>1 DEF Through
    <2>3. {y \in S : f[y] = f[x]} = {x}
      <3>1. ASSUME NEW y \in S, f[y] = f[x] PROVE y = x
        <4>1. PICK d \in 1 .. k : y = q[d + 1]
          BY <1>3
        <4>2. q[d] = q[c] /\ d \in 1 .. k + 1 /\ c \in 1 .. k + 1
          <5>1. f[y] = q[d]
            BY <1>5, <4>1
          <5> QED BY <2>2, <3>1, <5>1
        <4> QED BY <1>2, <2>1, <4>1, <4>2
      <3> QED BY <3>1
    <2>4. Cardinality({x}) = 1
      BY FS_Singleton
    <2>5. rate * 1 = rate
      OBVIOUS
    <2> QED BY <2>1, <2>2, <2>3, <2>4, <2>5
  <1>9. Carried(bw, rate, S, f)
    BY <1>8 DEF Carried
  <1> QED BY <1>1, <1>4, <1>6, <1>7, <1>9

(* There is a tree for the lower bound of the bisection. *)
LimitHeld == pc = "bisect" => Search!Found(lower) # {}

(* Of the searches: the rates stay, the bounds of the bisection enclose    *)
(* the best limit if they did at first, and what is found is as Sound,     *)
(* PipelineBest and LimitBestGivenBounds say.                              *)
Searched ==
  /\ pc \in {"sort", "bisect", "built"} /\ (alg_ = "r" => pc # "bisect")
  /\ upload \in [TreeNode -> Nat] /\ download \in [TreeNode -> Nat]
  /\ \A x \in TreeNode : upload[x] <= BW_CEILING
  /\ i = 0 /\ weak_leafnodes = {} /\ unused_strong_nodes = <<>>
  /\ lower \in Nat /\ upper \in Nat
  /\ pc = "bisect" /\ Search!FastestScanned => Search!Found(upper + 1) = {}
  /\ pc = "built" => result \in Nat /\ (result > 0 => selected \subseteq Helper)
  /\ Sound /\ PipelineBest /\ LimitBestGivenBounds /\ LimitHeld

FTPInv == /\ alg_ \in {"f", "r", "p"} /\ BW_CEILING \in Nat \ {0}
          /\ alg_ = "f" => IInv
          /\ alg_ # "f" => Searched

LEMMA FTPInitInv == FTPInit => FTPInv
  <1> SUFFICES ASSUME FTPInit PROVE FTPInv
    OBVIOUS
  <1>1. PICK up \in [Helper -> Rates \ {0}], down \in [Helper -> Rates \ {0}] :
          Prepared(Filtered(up, up, down), Filtered(down, up, down))
    BY DEF FTPInit
  <1>2. PICK u, d : u = Filtered(up, up, down) /\ d = Filtered(down, up, down)
    OBVIOUS
  <1>3. u \in [Helper -> Rates] /\ d \in [Helper -> Rates]
    BY <1>1, <1>2, MinBwAssumption DEF Filtered
  <1>4. BW_CEILING \in Nat \ {0}
    <2>1. Cardinality(Helper) # 0
      BY Parameters
    <2>2. PICK x \in Helper : TRUE
      BY <2>1, FS_EmptySet
    <2>3. PICK c \in Rates : c # 0
      <3>1. up[x] \in Rates \ {0}
        BY <1>1
      <3> QED BY <3>1
    <2>4. c \in Nat /\ c <= BW_CEILING /\ BW_CEILING \in Nat
      BY RateAssumption
    <2> QED BY ONLY <2>3, <2>4
  <1>5. Prepared(u, d)
    BY <1>1, <1>2
  <1>6. IInv
    BY <1>3, <1>5, InitIInv DEF Init
  <1>7. alg_ \in {"f", "r", "p"} /\ lower = 0 /\ upper = 0 /\ pc = "sort"
    BY <1>5 DEF FTPInit, Prepared
  <1>8. Searched
    <2>1. /\ i = 0 /\ weak_leafnodes = {} /\ unused_strong_nodes = <<>>
      BY <1>5 DEF Prepared
    <2>2. /\ upload \in [TreeNode -> Nat] /\ download \in [TreeNode -> Nat]
          /\ \A x \in TreeNode : upload[x] <= BW_CEILING
      BY <1>6 DEF IInv, TypeOK, Rated
    <2> QED BY <1>7, <2>1, <2>2 DEF Searched, Sound, PipelineBest, LimitBestGivenBounds, LimitHeld
  <1> QED BY <1>4, <1>6, <1>7, <1>8 DEF FTPInv

LEMMA BuildingStep ==
  FTPInv /\ alg_ = "f" /\ Next /\ UNCHANGED <<alg_, lower, upper>> => FTPInv'
  <1> SUFFICES ASSUME FTPInv, alg_ = "f", Next, UNCHANGED <<alg_, lower, upper>>
               PROVE  FTPInv'
    OBVIOUS
  <1>1. IInv'
    BY SortCandidatesStep, InsertStep, SortLeavesStep, ReplaceStep, ReturnStep DEF Next, FTPInv
  <1> QED BY <1>1 DEF FTPInv

LEMMA FTPStutter == FTPInv /\ UNCHANGED <<vars, alg_, lower, upper>> => FTPInv'
  <1> SUFFICES ASSUME FTPInv, UNCHANGED <<vars, alg_, lower, upper>> PROVE FTPInv'
    OBVIOUS
  <1>1. alg_ = "f" => IInv'
    BY StutterStep DEF FTPInv
  <1>2. alg_ # "f" => Searched'
    <2> SUFFICES ASSUME alg_ # "f" PROVE Searched'
      OBVIOUS
    <2>1. Searched
      BY DEF FTPInv
    <2>2. Search!matrix' = Search!matrix
      BY DEF Search!matrix, vars, bwVars
    <2>3. Sound'
      BY <2>1 DEF Searched, Sound, vars, treeVars, bwVars, Carries, Connected
    <2>4. /\ Search!FastestScanned' = Search!FastestScanned
          /\ Search!Found(upper + 1)' = Search!Found(upper + 1)
          /\ Search!Found(lower)' = Search!Found(lower)
          /\ (Search!NoBetterLimit)' = Search!NoBetterLimit
          /\ (Search!NoBetterPipeline)' = Search!NoBetterPipeline
      BY <2>2 DEF Search!FastestScanned, Search!Found, Search!NoBetterLimit,
                  Search!NoBetterPipeline, Search!LinkBefore, vars
    <2>5. PipelineBest' /\ LimitBestGivenBounds' /\ LimitHeld'
      BY <2>1, <2>4 DEF Searched, PipelineBest, LimitBestGivenBounds, LimitHeld, vars
    <2> QED BY <2>1, <2>3, <2>4, <2>5 DEF Searched, vars, bwVars, treeVars
  <1> QED BY <1>1, <1>2 DEF FTPInv

LEMMA PipelineStep == FTPInv /\ Search!BuildPipeline /\ UNCHANGED buildVars => FTPInv'
  <1> SUFFICES ASSUME FTPInv, Search!BuildPipeline, UNCHANGED buildVars PROVE FTPInv'
    OBVIOUS
  <1>1. PICK r : r = Search!Extend(Search!matrix)[<<0>>][BW_CEILING][[path |-> <<>>, min |-> 0]]
    OBVIOUS
  <1>2. /\ pc = "sort" /\ alg_ = "r" /\ pc' = "built" /\ result' = r.min
        /\ selected' = {r.path[c] : c \in 2 .. Len(r.path)}
        /\ father' = FatherOn(r.path, selected')
        /\ alg_' = alg_ /\ upload' = upload /\ download' = download /\ lower' = lower /\ upper' = upper
    <2> DEFINE best == Search!Extend(Search!matrix)[<<0>>][BW_CEILING][[path |-> <<>>, min |-> 0]]
    <2>1. pc = "sort" /\ alg_ = "r" /\ pc' = "built" /\ result' = best.min
      BY DEF Search!BuildPipeline
    <2>2. selected' = {best.path[c] : c \in 2 .. Len(best.path)}
      BY DEF Search!BuildPipeline
    <2>3. father' = [x \in selected' |->
                      best.path[CHOOSE c \in 1 .. rs_k_ : best.path[c + 1] = x]]
      BY ONLY Search!BuildPipeline, Zenon DEF Search!BuildPipeline
    <2>4. alg_' = alg_ /\ upload' = upload /\ download' = download /\ lower' = lower /\ upper' = upper
      BY ONLY Search!BuildPipeline DEF Search!BuildPipeline, Search!bwVars
    <2>5. best = r
      BY <1>1
    <2> HIDE DEF best
    <2> QED BY ONLY <2>1, <2>2, <2>3, <2>4, <2>5 DEF FatherOn
  <1>3. Searched /\ BW_CEILING \in Nat \ {0}
    BY <1>2 DEF FTPInv
  <1>4. /\ upload \in [TreeNode -> Nat] /\ download \in [TreeNode -> Nat]
        /\ \A x \in TreeNode : upload[x] <= BW_CEILING
    BY <1>3 DEF Searched
  <1>5. PICK bw \in [TreeNode -> [TreeNode -> Nat]] : bw = Search!matrix
    BY <1>3, <1>4, MatrixTyped
  <1>6. \A x, y \in TreeNode : bw[x][y] <= BW_CEILING
    BY <1>3, <1>4, <1>5, MatrixTyped
  <1>7. /\ r \in Search!Route /\ Met(bw, r)
        /\ \A q : IsPath(q) /\ Len(q) = rs_k_ + 1 => \E j \in 1 .. rs_k_ : bw[q[j + 1]][q[j]] <= r.min
    BY <1>1, <1>3, <1>5, <1>6, BestPipeline
  <1>8. r.min \in Nat
    BY <1>7, PathFacts
  <1>9. (result > 0 => selected \subseteq Helper)' /\ Sound'
    <2>1. CASE r.path = <<>> /\ r.min = 0
      BY <1>2, <2>1 DEF Sound
    <2>2. CASE IsPath(r.path) /\ Len(r.path) = rs_k_ + 1 /\ Through(bw, r.path, r.min)
      <3>1. PICK q, S, f : q = r.path /\ S = selected' /\ f = father'
        OBVIOUS
      <3>2. /\ S \in SUBSET Helper /\ Cardinality(S) = rs_k_
            /\ Connected(S, f) /\ Carried(bw, r.min, S, f)
        <4>1. IsPath(q) /\ Len(q) = rs_k_ + 1 /\ Through(bw, q, r.min)
          BY <2>2, <3>1
        <4>2. S = {q[c] : c \in 2 .. Len(q)} /\ f = FatherOn(q, S)
          BY <1>2, <3>1
        <4> QED BY ONLY <1>8, <4>1, <4>2, bw \in [TreeNode -> [TreeNode -> Nat]], PipelineTree
      <3>3. Carries(S, f, r.min)
        BY <1>3, <1>4, <1>5, <1>8, <3>2, CarriedCarries
      <3>4. Carries(selected, father, result)'
        BY <1>2, <3>1, <3>3 DEF Carries
      <3>5. Connected(selected, father)'
        BY <3>1, <3>2 DEF Connected
      <3> QED BY <3>1, <3>2, <3>4, <3>5 DEF Sound
    <2> QED BY <1>7, <2>1, <2>2 DEF Met
  <1>10. Search!NoBetterPipeline'
    <2>1. SUFFICES ASSUME NEW p \in Search!Pipelines
                   PROVE  \E c \in 1 .. rs_k_ : bw[p[c]][IF c = 1 THEN 0 ELSE p[c - 1]] <= r.min
      <3>1. Search!matrix' = bw
        BY <1>2, <1>5 DEF Search!matrix
      <3> QED BY <1>2, <2>1, <3>1 DEF Search!NoBetterPipeline, Search!LinkBefore
    <2>2. PICK k \in Nat \ {0} : k = rs_k_
      BY CodeAssumption
    <2>3. p \in [1 .. k -> Helper] /\ \A a, b \in 1 .. k : a # b => p[a] # p[b]
      BY <2>2, SameNodes DEF Search!Pipelines
    <2>4. PICK q : q = [j \in 1 .. k + 1 |-> IF j = 1 THEN 0 ELSE p[j - 1]]
      OBVIOUS
    <2>5. \A j \in 1 .. k + 1 : j # 1 => j - 1 \in 1 .. k /\ p[j - 1] \in Helper
      BY <2>3
    <2>6. /\ \A j \in 1 .. k + 1 : q[j] \in TreeNode
          /\ q[1] = 0 /\ \A j \in 2 .. k + 1 : q[j] = p[j - 1] /\ q[j] \in Helper
      BY <2>4, <2>5, Nodes
    <2>7. q \in [1 .. k + 1 -> TreeNode]
      BY <2>4, <2>6
    <2>8. q \in Seq(TreeNode) /\ Len(q) = k + 1 /\ q # <<>>
      BY <2>7
    <2>9. \A a, b \in 1 .. k + 1 : q[a] = q[b] => a = b
      <3>1. ASSUME NEW a \in 1 .. k + 1, NEW b \in 1 .. k + 1, q[a] = q[b], a # b PROVE FALSE
        <4>1. CASE a = 1 \/ b = 1
          BY <2>6, <3>1, <4>1, Nodes
        <4>2. CASE a # 1 /\ b # 1
          <5>1. a - 1 \in 1 .. k /\ b - 1 \in 1 .. k /\ a - 1 # b - 1
            BY <3>1, <4>2
          <5>2. p[a - 1] = p[b - 1]
            BY <2>6, <3>1, <4>2
          <5> QED BY <2>3, <5>1, <5>2
        <4> QED BY <4>1, <4>2
      <3> QED BY <3>1
    <2>10. IsPath(q)
      BY <2>6, <2>8, <2>9, PathFacts DEF IsPath
    <2>11. PICK j \in 1 .. k : bw[q[j + 1]][q[j]] <= r.min
      BY <1>7, <2>2, <2>8, <2>10
    <2>12. q[j + 1] = p[j] /\ q[j] = IF j = 1 THEN 0 ELSE p[j - 1]
      BY <2>6
    <2> QED BY <2>2, <2>11, <2>12
  <1>11. PipelineBest' /\ LimitBestGivenBounds' /\ LimitHeld'
    BY <1>2, <1>10 DEF PipelineBest, LimitBestGivenBounds, LimitHeld
  <1>12. Searched'
    BY <1>2, <1>3, <1>8, <1>9, <1>11 DEF Searched, buildVars
  <1> QED BY <1>2, <1>12 DEF FTPInv

LEMMA BoundsStep == FTPInv /\ Search!Bounds /\ UNCHANGED buildVars => FTPInv'
  <1> SUFFICES ASSUME FTPInv, Search!Bounds, UNCHANGED buildVars PROVE FTPInv'
    OBVIOUS
  <1>1. /\ pc = "sort" /\ alg_ = "p" /\ pc' = "bisect"
        /\ lower' = Search!Scan(Search!matrix).lower /\ upper' = Search!Scan(Search!matrix).upper
        /\ UNCHANGED <<alg_, upload, download, selected, father, result>>
    BY DEF Search!Bounds, Search!bwVars
  <1>2. Searched /\ BW_CEILING \in Nat \ {0}
    BY <1>1 DEF FTPInv
  <1>3. /\ upload \in [TreeNode -> Nat] /\ download \in [TreeNode -> Nat]
        /\ \A x \in TreeNode : upload[x] <= BW_CEILING
    BY <1>2 DEF Searched
  <1>4. PICK bw \in [TreeNode -> [TreeNode -> Nat]] : bw = Search!matrix
    BY <1>2, <1>3, MatrixTyped
  <1>5. Search!matrix' = bw
    BY <1>1, <1>4 DEF Search!matrix
  <1>6. lower' \in Nat /\ upper' \in Nat
    BY <1>1, <1>4, ScanTyped DEF Ends
  <1>7. ASSUME Search!FastestScanned' PROVE Search!Found(upper + 1)' = {}
    <2>1. \A l \in Search!Links : bw[l[1]][l[2]] <= upper'
      BY <1>1, <1>4, <1>5, <1>7 DEF Search!FastestScanned
    <2>2. PICK u \in Nat : u = upper'
      BY <1>6
    <2>3. SUFFICES ASSUME NEW t \in Search!Trees(bw, u + 1) PROVE FALSE
      BY <1>5, <2>2 DEF Search!Found
    <2>4. t \in Grown(bw, u + 1) /\ NodesOf(t) = rs_k_
      BY TreesComplete
    <2>5. PICK D \in SUBSET Helper : t.f \in [D -> TreeNode] /\ DOMAIN t.f = D
      BY <2>4 DEF Grown, Fathers
    <2>6. D # {}
      BY <2>4, <2>5, FS_EmptySet, CodeAssumption DEF NodesOf
    <2>7. PICK x \in D : TRUE
      BY <2>6
    <2>8. u + 1 <= bw[x][t.f[x]] /\ t.f[x] # x
      <3>1. Connected(D, t.f) /\ Carried(bw, u + 1, D, t.f)
        BY <2>4, <2>5 DEF Grown, Partly
      <3>2. {x} \in (SUBSET D) \ {{}}
        OBVIOUS
      <3>3. \E y \in {x} : t.f[y] \notin {x}
        BY <3>1, <3>2 DEF Connected
      <3> QED BY <3>1, <3>3 DEF Carried
    <2>9. t.f[x] \in TreeNode /\ x \in Helper /\ x \in TreeNode
      BY <2>5, Nodes
    <2>10. <<x, t.f[x]>> \in Search!Links
      BY <2>8, <2>9, SameNodes DEF Search!Links
    <2>11. PICK b \in Nat : b = bw[x][t.f[x]]
      BY <2>9
    <2>12. b <= u
      BY <2>1, <2>2, <2>10, <2>11
    <2> QED BY <2>8, <2>11, <2>12
  <1>8. Sound' /\ PipelineBest' /\ LimitBestGivenBounds'
    BY <1>1 DEF Sound, PipelineBest, LimitBestGivenBounds
  <1>9. Search!Found(lower)' # {}
    <2>1. PICK l \in Nat : l = lower'
      BY <1>6
    <2>2. \A y \in TreeNode : Slowest(bw, y, l)
      BY <1>1, <1>4, <2>1, ScanTyped
    <2>3. Search!Trees(bw, l) # {}
      BY <2>2, LowestFound
    <2> QED BY <1>5, <2>1, <2>3 DEF Search!Found
  <1>10. Searched'
    BY <1>1, <1>2, <1>6, <1>7, <1>8, <1>9 DEF Searched, LimitHeld, buildVars
  <1> QED BY <1>1, <1>10 DEF FTPInv

(* Half way is between the bounds.                                         *)
LEMMA Middle ==
  ASSUME lower \in Nat, upper \in Nat
  PROVE  Search!mid \in Nat
  <1>1. PICK s \in Nat : s = upper + lower
    OBVIOUS
  <1>2. s \div 2 \in Nat
    BY ONLY s \in Nat
  <1> QED BY <1>1, <1>2 DEF Search!mid

LEMMA BisectStep == FTPInv /\ Search!Bisect /\ UNCHANGED buildVars => FTPInv'
  <1> SUFFICES ASSUME FTPInv, Search!Bisect, UNCHANGED buildVars PROVE FTPInv'
    OBVIOUS
  <1>1. /\ pc = "bisect" /\ upper - lower > 1
        /\ IF Search!Found(Search!mid) # {} THEN lower' = Search!mid /\ upper' = upper
           ELSE upper' = Search!mid /\ lower' = lower
        /\ UNCHANGED <<alg_, pc, upload, download, selected, father, result>>
    BY SameNodes DEF Search!Bisect, Search!bwVars
  <1>2. alg_ = "p" /\ Searched /\ BW_CEILING \in Nat \ {0}
    BY <1>1 DEF FTPInv, Searched, IInv, TypeOK
  <1>3. lower \in Nat /\ upper \in Nat
    BY <1>2 DEF Searched
  <1>4. lower' \in Nat /\ upper' \in Nat
    BY <1>1, <1>3, Middle
  <1>5. /\ upload \in [TreeNode -> Nat] /\ download \in [TreeNode -> Nat]
        /\ \A x \in TreeNode : upload[x] <= BW_CEILING
    BY <1>2 DEF Searched
  <1>6. PICK bw \in [TreeNode -> [TreeNode -> Nat]] : bw = Search!matrix
    BY <1>2, <1>5, MatrixTyped
  <1>7. Search!matrix' = Search!matrix
    BY <1>1 DEF Search!matrix
  <1>8. ASSUME Search!FastestScanned' PROVE Search!Found(upper + 1)' = {}
    <2>1. Search!FastestScanned
      BY <1>7, <1>8 DEF Search!FastestScanned
    <2>2. CASE Search!Found(Search!mid) # {}
      <3>1. upper' = upper
        BY <1>1, <2>2
      <3>2. Search!Found(upper + 1) = {}
        BY <1>1, <1>2, <2>1 DEF Searched
      <3> QED BY <1>7, <3>1, <3>2 DEF Search!Found
    <2>3. CASE Search!Found(Search!mid) = {}
      <3>1. PICK m \in Nat : m = Search!mid /\ upper' = m
        BY <1>1, <1>3, <2>3, Middle
      <3>2. Search!Trees(bw, m) = {}
        BY <1>6, <2>3, <3>1 DEF Search!Found
      <3>3. m + 1 \in Nat /\ m <= m + 1
        OBVIOUS
      <3>4. Search!Trees(bw, m + 1) \subseteq Search!Trees(bw, m)
        BY <3>3, LowerLimit
      <3>5. Search!Trees(bw, m + 1) = {}
        BY <3>2, <3>4
      <3> QED BY <1>6, <1>7, <3>1, <3>5 DEF Search!Found
    <2> QED BY <2>2, <2>3
  <1>9. Sound' /\ PipelineBest' /\ LimitBestGivenBounds'
    BY <1>1 DEF Sound, PipelineBest, LimitBestGivenBounds
  <1>10. Search!Found(lower)' # {}
    <2>1. CASE Search!Found(Search!mid) # {}
      <3>1. lower' = Search!mid
        BY <1>1, <2>1
      <3> QED BY <1>7, <2>1, <3>1 DEF Search!Found
    <2>2. CASE Search!Found(Search!mid) = {}
      <3>1. lower' = lower /\ Search!Found(lower) # {}
        BY <1>1, <1>2, <2>2 DEF Searched, LimitHeld
      <3> QED BY <1>7, <3>1 DEF Search!Found
    <2> QED BY <2>1, <2>2
  <1>11. Searched'
    BY <1>1, <1>2, <1>4, <1>8, <1>9, <1>10 DEF Searched, LimitHeld, buildVars
  <1> QED BY <1>1, <1>2, <1>11 DEF FTPInv

LEMMA FinalTreeStep == FTPInv /\ Search!FinalTree /\ UNCHANGED buildVars => FTPInv'
  <1> SUFFICES ASSUME FTPInv, Search!FinalTree, UNCHANGED buildVars PROVE FTPInv'
    OBVIOUS
  <1>1. /\ pc = "bisect" /\ upper - lower <= 1
        /\ father' \in Search!Found(lower) /\ selected' = DOMAIN father'
        /\ result' = lower /\ pc' = "built"
        /\ UNCHANGED <<alg_, upload, download, lower, upper>>
    <2>1. upper - lower <= Search!EPS
      BY DEF Search!FinalTree
    <2>2. /\ pc = "bisect" /\ father' \in Search!Found(lower) /\ selected' = DOMAIN father'
          /\ result' = lower /\ pc' = "built"
          /\ UNCHANGED <<alg_, upload, download, lower, upper>>
      BY DEF Search!FinalTree, Search!bwVars
    <2> QED BY <2>1, <2>2, SameNodes
  <1>2. alg_ = "p" /\ Searched /\ BW_CEILING \in Nat \ {0}
    BY <1>1 DEF FTPInv, Searched, IInv, TypeOK
  <1>3. lower \in Nat /\ upper \in Nat
    BY <1>2 DEF Searched
  <1>4. /\ upload \in [TreeNode -> Nat] /\ download \in [TreeNode -> Nat]
        /\ \A x \in TreeNode : upload[x] <= BW_CEILING
    BY <1>2 DEF Searched
  <1>5. PICK bw \in [TreeNode -> [TreeNode -> Nat]] : bw = Search!matrix
    BY <1>2, <1>4, MatrixTyped
  <1>6. Search!matrix' = Search!matrix
    BY <1>1 DEF Search!matrix
  <1>7. PICK t \in Search!Trees(bw, lower) : father' = t.f
    BY <1>1, <1>5 DEF Search!Found
  <1>8. t \in Grown(bw, lower) /\ NodesOf(t) = rs_k_
    BY <1>3, <1>7, TreesComplete
  <1>9. PICK D \in SUBSET Helper : D = DOMAIN t.f /\ D = selected'
    BY <1>1, <1>7, <1>8 DEF Grown, Fathers
  <1>10. Connected(D, t.f) /\ Carried(bw, lower, D, t.f) /\ Cardinality(D) = rs_k_
    BY <1>8, <1>9 DEF Grown, Partly, NodesOf
  <1>11. Carries(D, t.f, lower)
    <2>1. PICK f : f = t.f
      OBVIOUS
    <2>2. Connected(D, f) /\ Carried(Search!matrix, lower, D, f)
      BY <1>5, <1>10, <2>1
    <2>3. Carries(D, f, lower)
      BY <1>2, <1>3, <1>4, <2>2, CarriedCarries
    <2> QED BY <2>1, <2>3
  <1>12. (result > 0 => selected \subseteq Helper)' /\ Sound'
    <2>1. Connected(selected, father)' /\ Cardinality(selected') = rs_k_
      BY <1>7, <1>9, <1>10 DEF Connected
    <2>2. Carries(selected, father, result)'
      BY <1>1, <1>7, <1>9, <1>11 DEF Carries
    <2> QED BY <1>9, <2>1, <2>2 DEF Sound
  <1>13. ASSUME Search!FastestScanned' PROVE Search!NoBetterLimit'
    <2>1. Search!FastestScanned
      BY <1>6, <1>13 DEF Search!FastestScanned
    <2>2. Search!Trees(bw, upper + 1) = {}
      <3>1. Search!Found(upper + 1) = {}
        BY <1>1, <1>2, <2>1 DEF Searched
      <3> QED BY <1>5, <3>1 DEF Search!Found
    <2>3. upper + 1 \in Nat /\ (lower + 1) + 1 \in Nat /\ upper + 1 <= (lower + 1) + 1
      BY <1>1, <1>3
    <2>4. Search!Trees(bw, (lower + 1) + 1) = {}
      BY <2>2, <2>3, LowerLimit
    <2>5. result' + Search!EPS + 1 = (lower + 1) + 1
      BY <1>1, SameNodes
    <2> QED BY <1>5, <1>6, <2>4, <2>5 DEF Search!NoBetterLimit, Search!Found, Search!EPS
  <1>14. PipelineBest' /\ LimitBestGivenBounds'
    BY <1>1, <1>2, <1>13 DEF PipelineBest, LimitBestGivenBounds
  <1>15. Searched'
    BY <1>1, <1>2, <1>3, <1>12, <1>14 DEF Searched, LimitHeld, buildVars
  <1> QED BY <1>1, <1>2, <1>15 DEF FTPInv

-----------------------------------------------------------------------------
(* Whichever of the three algorithms the master asks for.                  *)
THEOREM FTPInvariance == FTPSpec => []FTPInv
  <1>1. FTPInv /\ FTPNext => FTPInv'
    <2> SUFFICES ASSUME FTPInv, FTPNext PROVE FTPInv'
      OBVIOUS
    <2>1. CASE alg_ = "f" /\ Next /\ UNCHANGED <<alg_, lower, upper>>
      BY <2>1, BuildingStep
    <2>2. CASE Search!Next /\ UNCHANGED buildVars
      BY <2>2, PipelineStep, BoundsStep, BisectStep, FinalTreeStep DEF Search!Next
    <2> QED BY <2>1, <2>2 DEF FTPNext
  <1>2. FTPInv /\ [FTPNext]_<<vars, alg_, lower, upper>> => FTPInv'
    BY <1>1, FTPStutter
  <1> QED BY <1>2, FTPInitInv, PTL DEF FTPSpec

LEMMA InvSound == FTPInv => Sound
  BY BuiltSound DEF FTPInv, Searched

(* Every route CalculateRoute fills the tasks from is carried by the       *)
(* filtered rates: what build_repairing_tree, build_repair_pipeline and    *)
(* find_best_ppt_tree leave is a tree of k helpers with the bandwidth that *)
(* is returned with it, although the bisection keeps only its limit and    *)
(* builds the tree once more.                                              *)
THEOREM FTPSoundTree == FTPSpec => []Sound
  BY FTPInvariance, InvSound, PTL

(* No tree carries more than PivotRepair's, in the single task too, where  *)
(* the rates it is built from have been filtered by min_bw_.               *)
THEOREM FTPBestTree == FTPSpec => []Optimal
  <1>1. FTPInv => Optimal
    <2>1. CASE alg_ = "f"
      BY <2>1, BuiltOptimal DEF FTPInv
    <2>2. CASE alg_ # "f"
      BY <2>2, CodeAssumption DEF FTPInv, Searched, Optimal
    <2> QED BY <2>1, <2>2
  <1> QED BY <1>1, FTPInvariance, PTL

(* Filtered rates do not empty the queue of the unused strong nodes early. *)
THEOREM FTPStrongForWeak == FTPSpec => []EnoughStrong
  <1>1. FTPInv => EnoughStrong
    <2>1. CASE alg_ = "f"
      BY <2>1 DEF FTPInv, IInv
    <2>2. CASE alg_ # "f"
      BY <2>2, FS_EmptySet DEF FTPInv, Searched, EnoughStrong
    <2> QED BY <2>1, <2>2
  <1> QED BY <1>1, FTPInvariance, PTL

(* build_repair_pipeline, which leaves out every path that goes through no *)
(* more than the best so far, leaves out no better one: every pipeline of  *)
(* k helpers has a link no faster than what line 408 ends with.            *)
THEOREM BestPipelineFound == FTPSpec => []PipelineBest
  <1>1. FTPInv => PipelineBest
    <2>1. CASE alg_ = "f"
      BY <2>1 DEF PipelineBest
    <2>2. CASE alg_ # "f"
      BY <2>2 DEF FTPInv, Searched
    <2> QED BY <2>1, <2>2
  <1> QED BY <1>1, FTPInvariance, PTL

(* The bisection of lines 228-243 ends within EPS of the best limit that   *)
(* there is a tree for, if the upper bound it starts from is no lower than *)
(* the fastest link; the scan of lines 218-226 may miss that link.         *)
THEOREM BestLimitFound == FTPSpec => []LimitBestGivenBounds
  <1>1. FTPInv => LimitBestGivenBounds
    <2>1. CASE alg_ = "f"
      BY <2>1 DEF LimitBestGivenBounds
    <2>2. CASE alg_ # "f"
      BY <2>2 DEF FTPInv, Searched
    <2> QED BY <2>1, <2>2
  <1> QED BY <1>1, FTPInvariance, PTL

(* find_best_ppt_tree does not look at what build_ppt_tree returns for the *)
(* final tree (line 261), and need not: in every turn of the bisection     *)
(* there is a tree for its lower bound, which is a limit that was tried or *)
(* the slowest of all links.                                               *)
THEOREM LowerHasTree == FTPSpec => []LimitHeld
  <1>1. FTPInv => LimitHeld
    <2>1. CASE alg_ = "f"
      BY <2>1 DEF FTPInv, IInv, TypeOK, LimitHeld
    <2>2. CASE alg_ # "f"
      BY <2>2 DEF FTPInv, Searched
    <2> QED BY <2>1, <2>2
  <1> QED BY <1>1, FTPInvariance, PTL

(* The number FillTask puts in the place of the tree's 0, in tar_id, is 1: *)
(* if the requestor is node 1, each node's sources are the nodes whose     *)
(* target it is, and only the requestor's target is itself.                *)
THEOREM TasksMeet == ASSUME fail_node = 1
                     PROVE  FTPSpec => []TargetsMeetSources
  <1>1. FTPInv => TargetsMeetSources
    <2> SUFFICES ASSUME FTPInv, pc = "built", GroupNumber = 1
                 PROVE  /\ \A x, y \in Chosen : y \in src_ids(x) <=> x # y /\ tar_id(y) = x
                        /\ \A x \in Chosen : tar_id(x) = x <=> x = rid_
      BY DEF TargetsMeetSources
    <2>1. result \in Nat /\ result > 0 /\ selected \subseteq Helper
      <3>1. result >= min_bw_
        BY DEF GroupNumber
      <3>2. CASE alg_ = "f"
        <4>1. result \in Nat \cup {NoResult} /\ selected \subseteq Helper
          BY <3>2 DEF FTPInv, IInv, TypeOK
        <4> QED BY <3>1, <4>1, MinBwAssumption DEF NoResult
      <3>3. CASE alg_ # "f"
        BY <3>1, <3>3, MinBwAssumption DEF FTPInv, Searched
      <3> QED BY <3>2, <3>3
    <2>2. Connected(selected, father)
      BY <2>1, InvSound DEF Sound
    <2>3. ASSUME NEW x \in selected
          PROVE  father[x] \in selected \cup {0} /\ father[x] # x
      <3>1. {x} \in (SUBSET selected) \ {{}}
        OBVIOUS
      <3>2. \E y \in {x} : father[y] \notin {x}
        BY <2>2, <3>1 DEF Connected
      <3> QED BY <2>2, <3>2 DEF Connected
    <2>4. \A x \in selected : x # 0 /\ x # 1
      BY <2>1 DEF Helper
    <2>5. \A x \in Chosen : x = 1 \/ (x # 1 /\ x \in selected /\ nid(x) = x /\ tar_id(x) = IF father[x] = 0 THEN 1 ELSE father[x])
      <3> SUFFICES ASSUME NEW x \in Chosen, x # 1
                   PROVE  x \in selected /\ nid(x) = x
                          /\ tar_id(x) = IF father[x] = 0 THEN 1 ELSE father[x]
        OBVIOUS
      <3>1. nid(x) = x
        BY DEF nid, rid_
      <3>2. x # 0
        BY CodeAssumption DEF Chosen, num_
      <3> QED BY <3>1, <3>2 DEF Chosen, tar_id
    <2>6. nid(1) = 0 /\ tar_id(1) = 1
      BY DEF nid, tar_id, rid_
    <2>7. ASSUME NEW x \in Chosen, NEW y \in Chosen
          PROVE  y \in src_ids(x) <=> x # y /\ tar_id(y) = x
      <3>1. CASE y = 1
        BY <2>4, <2>6, <3>1 DEF src_ids
      <3>2. CASE y # 1 /\ x = 1
        BY <2>3, <2>4, <2>5, <2>6, <3>2 DEF src_ids
      <3>3. CASE y # 1 /\ x # 1
        <4>1. y \in selected /\ x \in selected /\ nid(x) = x
          BY <2>5, <3>3
        <4>2. tar_id(y) = IF father[y] = 0 THEN 1 ELSE father[y]
          BY <2>5, <3>3
        <4> QED BY <2>3, <2>4, <4>1, <4>2 DEF src_ids
      <3> QED BY <3>1, <3>2, <3>3
    <2>8. ASSUME NEW x \in Chosen PROVE tar_id(x) = x <=> x = rid_
      <3>1. CASE x = 1
        BY <2>6, <3>1 DEF rid_
      <3>2. CASE x # 1
        BY <2>3, <2>4, <2>5, <3>2 DEF rid_
      <3> QED BY <3>1, <3>2
    <2> QED BY <2>7, <2>8
  <1> QED BY <1>1, FTPInvariance, PTL
=============================================================================
