----------------------------- MODULE PPR_proofs -----------------------------
(***************************************************************************)
(* For any number of nodes and helpers and any rates: the rounds that      *)
(* CalculateRoute plans bring the requestor the blocks of k helpers, each  *)
(* of them once, and none of them is faster than its nodes.                *)
(***************************************************************************)
EXTENDS PPR, TLAPS, SequenceTheorems, FiniteSetTheorems

(* What SetFull made of the requestor's rates stays.                       *)
FullRates == upload[Requestor] = 0 /\ download[Requestor] = kFullBandwidth

(* remains holds no node twice, the requestor last; it is alone at the end.*)
Remaining ==
  /\ pc # "select" => /\ remains # <<>> /\ IsInjective(remains)
                      /\ remains[Len(remains)] = Requestor
  /\ pc \in {"select", "first"} => task_groups_ = <<>>
  /\ pc = "first" => Len(remains) = k_ \div 2 + 1
  /\ pc = "next" => task_groups_ # <<>> /\ Len(remains) > 1
  /\ pc = "done" /\ task_groups_ # <<>> => Len(remains) = 1

(* A function that counts the blocks of each node after each round.        *)
Counts(H) == H = [r \in 0 .. Len(task_groups_) |-> IF r = 0 THEN Own ELSE Passed(H[r - 1], r)]

(* The nodes of W have the blocks of k helpers, each of them once.         *)
Shared(held, W) ==
  /\ \A x \in W, y \in Node : held[x][y] \in {0, 1}
  /\ \A x, z \in W, y \in Node : held[x][y] = 1 /\ held[z][y] = 1 => x = z
  /\ Cardinality({y \in Node : \E x \in W : held[x][y] = 1}) = k_

(* Nothing is lost or doubled between two rounds: who has sent is out of   *)
(* remains, and who is in has a part of the sum that nobody else has.      *)
NothingLost ==
  /\ \E H : Counts(H)
  /\ \A H : Counts(H) /\ task_groups_ # <<>> =>
       Shared(H[Len(task_groups_)], ToSet(remains))

IInv == TypeOK /\ FullRates /\ Remaining /\ RatesHold /\ NothingLost

-----------------------------------------------------------------------------
(* The sorts.  An order that tells the elements of a finite set apart puts *)
(* one of them, and only one, at each place.                               *)
LEMMA PlacesTaken ==
  ASSUME NEW S, IsFiniteSet(S), NEW R,
         \A x, y \in S : x # y => <<x, y>> \in R \/ <<y, x>> \in R,
         \A x \in S : <<x, x>> \notin R,
         \A x, y, z \in S : <<x, y>> \in R /\ <<y, z>> \in R => <<x, z>> \in R
  PROVE  \A p \in 1 .. Cardinality(S) :
           \E x \in S : Cardinality({y \in S : <<y, x>> \in R}) = p - 1
  <1> DEFINE Before(x) == {y \in S : <<y, x>> \in R}
             f == [x \in S |-> Cardinality(Before(x))]
  <1>1. PICK n \in Nat : n = Cardinality(S)
    BY FS_CardinalityType
  <1>2. \A x \in S : /\ IsFiniteSet(Before(x)) /\ Cardinality(Before(x)) \in Nat
                     /\ Cardinality(Before(x)) < n
    <2> TAKE x \in S
    <2>1. IsFiniteSet(S \ {x}) /\ Cardinality(S \ {x}) = n - 1
      BY <1>1, FS_RemoveElement
    <2>2. Before(x) \subseteq S \ {x}
      OBVIOUS
    <2>3. IsFiniteSet(Before(x)) /\ Cardinality(Before(x)) <= n - 1
      <3> HIDE DEF Before
      <3> QED BY <2>1, <2>2, FS_Subset
    <2> QED BY <2>3, FS_CardinalityType
  <1>3. \A x, y \in S : <<x, y>> \in R => Cardinality(Before(x)) < Cardinality(Before(y))
    <2> TAKE x, y \in S
    <2> HAVE <<x, y>> \in R
    <2>1. Before(x) \subseteq Before(y) /\ x \in Before(y) /\ x \notin Before(x)
      OBVIOUS
    <2> HIDE DEF Before
    <2>2. Cardinality(Before(x)) <= Cardinality(Before(y)) /\ Cardinality(Before(x)) # Cardinality(Before(y))
      BY <1>2, <2>1, FS_Subset
    <2> QED BY <1>2, <2>2
  <1>4. f \in [S -> 0 .. n - 1]
    <2>1. \A x \in S : Cardinality(Before(x)) \in 0 .. n - 1
      <3> HIDE DEF Before
      <3> QED BY <1>1, <1>2
    <2> HIDE DEF Before
    <2> QED BY <2>1
  <1>5. \A x, y \in S : f[x] = f[y] => x = y
    <2> HIDE DEF Before
    <2>1. SUFFICES ASSUME NEW x \in S, NEW y \in S, f[x] = f[y], x # y PROVE FALSE
      OBVIOUS
    <2>2. Cardinality(Before(x)) = Cardinality(Before(y))
      BY <2>1
    <2>3. <<x, y>> \in R \/ <<y, x>> \in R
      BY <2>1
    <2> QED BY <1>2, <1>3, <2>2, <2>3
  <1>6. f \in Injection(S, 0 .. n - 1)
    <2> HIDE DEF f
    <2> QED BY <1>4, <1>5 DEF Injection, IsInjective
  <1>7. IsFiniteSet(0 .. n - 1) /\ Cardinality(0 .. n - 1) = n
    <2>1. 0 \in Int /\ n - 1 \in Int /\ n \in Nat
      BY <1>1
    <2> QED BY ONLY <2>1, FS_Interval
  <1>8. f \in Surjection(S, 0 .. n - 1)
    <2> HIDE DEF f
    <2> QED BY <1>1, <1>6, <1>7, FS_Injection
  <1>9. \A m \in 0 .. n - 1 : \E x \in S : f[x] = m
    <2> HIDE DEF f
    <2> QED BY <1>8 DEF Surjection
  <1>10. SUFFICES ASSUME NEW p \in 1 .. n PROVE \E x \in S : Cardinality(Before(x)) = p - 1
    BY <1>1
  <1>11. p - 1 \in 0 .. n - 1
    BY <1>1
  <1>12. PICK x \in S : f[x] = p - 1
    BY <1>9, <1>11
  <1> QED
    <2> HIDE DEF Before
    <2> QED BY <1>12

(* What std::sort leaves: every node of S once, at a place of its own.     *)
LEMMA OrderedWeaker ==
  ASSUME CodeAssumption, upload \in [Node -> Nat], download \in [Node -> Nat],
         NEW S, S \subseteq Node
  PROVE  /\ IsFiniteSet(S) /\ Cardinality(S) \in Nat
         /\ Ordered(S, Weaker) \in [1 .. Cardinality(S) -> S]
         /\ IsInjective(Ordered(S, Weaker))
  <1> DEFINE R == {e \in S \X S : Weaker(e[1], e[2])}
             o == Ordered(S, Weaker)
  <1>1. IsFiniteSet(S) /\ Cardinality(S) \in Nat
    <2>1. IsFiniteSet(Node)
      BY FS_Interval DEF Node, CodeAssumption
    <2> QED BY <2>1, FS_Subset, FS_CardinalityType
  <1>2. \A x \in Node : min_uds(x) \in Nat
    BY DEF min_uds, Lower
  <1>3. \A x \in Node : x \in Int
    BY DEF Node, CodeAssumption
  <1>4. \A x, y \in S : <<x, y>> \in R <=> Weaker(x, y)
    OBVIOUS
  <1>5. /\ \A x, y \in S : x # y => Weaker(x, y) \/ Weaker(y, x)
        /\ \A x \in S : ~ Weaker(x, x)
        /\ \A x, y, z \in S : Weaker(x, y) /\ Weaker(y, z) => Weaker(x, z)
    BY <1>2, <1>3 DEF Weaker
  <1>6. \A p \in 1 .. Cardinality(S) :
          \E x \in S : Cardinality({y \in S : <<y, x>> \in R}) = p - 1
    <2> HIDE DEF R
    <2> QED BY <1>1, <1>4, <1>5, PlacesTaken
  <1>7. \A x \in S : {y \in S : <<y, x>> \in R} = {y \in S : Weaker(y, x)}
    OBVIOUS
  <1>8. \A p \in 1 .. Cardinality(S) : \E x \in S : Cardinality({y \in S : Weaker(y, x)}) = p - 1
    BY <1>6, <1>7
  <1>9. o = [p \in 1 .. Cardinality(S) |->
               CHOOSE x \in S : Cardinality({y \in S : Weaker(y, x)}) = p - 1]
    BY DEF Ordered
  <1>10. \A p \in 1 .. Cardinality(S) :
           o[p] \in S /\ Cardinality({y \in S : Weaker(y, o[p])}) = p - 1
    <2> HIDE DEF o
    <2> QED BY <1>8, <1>9
  <1>11. IsInjective(o)
    <2>1. DOMAIN o = 1 .. Cardinality(S)
      BY <1>9
    <2> HIDE DEF o
    <2>2. SUFFICES ASSUME NEW p \in 1 .. Cardinality(S), NEW q \in 1 .. Cardinality(S), o[p] = o[q]
                   PROVE  p = q
      BY <2>1 DEF IsInjective
    <2>3. p - 1 = q - 1
      BY <1>10, <2>2
    <2> QED BY <1>1, <2>3
  <1> QED BY <1>1, <1>9, <1>10, <1>11

LEMMA OrderedStrongerUp ==
  ASSUME CodeAssumption, upload \in [Node -> Nat], download \in [Node -> Nat],
         NEW S, S \subseteq Node
  PROVE  /\ IsFiniteSet(S) /\ Cardinality(S) \in Nat
         /\ Ordered(S, StrongerUp) \in [1 .. Cardinality(S) -> S]
         /\ IsInjective(Ordered(S, StrongerUp))
  <1> DEFINE R == {e \in S \X S : StrongerUp(e[1], e[2])}
             o == Ordered(S, StrongerUp)
  <1>1. IsFiniteSet(S) /\ Cardinality(S) \in Nat
    <2>1. IsFiniteSet(Node)
      BY FS_Interval DEF Node, CodeAssumption
    <2> QED BY <2>1, FS_Subset, FS_CardinalityType
  <1>2. \A x \in Node : Up(x) \in Nat
    BY DEF Up
  <1>3. \A x \in Node : x \in Int
    BY DEF Node, CodeAssumption
  <1>4. \A x, y \in S : <<x, y>> \in R <=> StrongerUp(x, y)
    OBVIOUS
  <1>5. /\ \A x, y \in S : x # y => StrongerUp(x, y) \/ StrongerUp(y, x)
        /\ \A x \in S : ~ StrongerUp(x, x)
        /\ \A x, y, z \in S : StrongerUp(x, y) /\ StrongerUp(y, z) => StrongerUp(x, z)
    BY <1>2, <1>3 DEF StrongerUp
  <1>6. \A p \in 1 .. Cardinality(S) :
          \E x \in S : Cardinality({y \in S : <<y, x>> \in R}) = p - 1
    <2> HIDE DEF R
    <2> QED BY <1>1, <1>4, <1>5, PlacesTaken
  <1>7. \A x \in S : {y \in S : <<y, x>> \in R} = {y \in S : StrongerUp(y, x)}
    OBVIOUS
  <1>8. \A p \in 1 .. Cardinality(S) : \E x \in S : Cardinality({y \in S : StrongerUp(y, x)}) = p - 1
    BY <1>6, <1>7
  <1>9. o = [p \in 1 .. Cardinality(S) |->
               CHOOSE x \in S : Cardinality({y \in S : StrongerUp(y, x)}) = p - 1]
    BY DEF Ordered
  <1>10. \A p \in 1 .. Cardinality(S) :
           o[p] \in S /\ Cardinality({y \in S : StrongerUp(y, o[p])}) = p - 1
    <2> HIDE DEF o
    <2> QED BY <1>8, <1>9
  <1>11. IsInjective(o)
    <2>1. DOMAIN o = 1 .. Cardinality(S)
      BY <1>9
    <2> HIDE DEF o
    <2>2. SUFFICES ASSUME NEW p \in 1 .. Cardinality(S), NEW q \in 1 .. Cardinality(S), o[p] = o[q]
                   PROVE  p = q
      BY <2>1 DEF IsInjective
    <2>3. p - 1 = q - 1
      BY <1>10, <2>2
    <2> QED BY <1>1, <2>3
  <1> QED BY <1>1, <1>9, <1>10, <1>11

-----------------------------------------------------------------------------
(* A round: its rate, its targets and its sources.                         *)

(* A set of numbers that is not empty has a least one.                     *)
LEMMA LeastNumber ==
  ASSUME NEW S \in SUBSET Nat, S # {}
  PROVE  \E c \in S : \A d \in S : c <= d
  <1> DEFINE B == {0 .. n : n \in S}
  <1>1. \A n \in S : 0 .. n \in FiniteSubsetsOf(Nat)
    <2> TAKE n \in S
    <2>1. 0 \in Int /\ n \in Int /\ 0 .. n \in SUBSET Nat
      OBVIOUS
    <2> QED BY <2>1, FS_Interval DEF FiniteSubsetsOf
  <1>2. B \subseteq FiniteSubsetsOf(Nat) /\ B # {}
    BY <1>1
  <1>3. PICK b \in B : \A c \in B : <<c, b>> \notin StrictSubsetOrdering(Nat)
    <2> HIDE DEF B
    <2> QED BY <1>2, FS_StrictSubsetOrderingWellFounded, WFMin
  <1>4. PICK x \in S : b = 0 .. x
    BY <1>3
  <1>5. ASSUME NEW d \in S, d < x PROVE FALSE
    <2>1. 0 .. d \in B /\ d \in Nat /\ x \in Nat
      OBVIOUS
    <2>2. 0 .. d \subseteq 0 .. x /\ x \in 0 .. x /\ x \notin 0 .. d /\ 0 .. x \subseteq Nat
      BY ONLY <1>5, <2>1
    <2>3. <<0 .. d, 0 .. x>> \in StrictSubsetOrdering(Nat)
      BY ONLY <2>2 DEF StrictSubsetOrdering
    <2> QED BY ONLY <1>3, <1>4, <2>1, <2>3
  <1> QED BY <1>5

(* m pairs of a sender and a receiver, all of them different nodes.        *)
Pairs(from, to, m) ==
  /\ from \in [1 .. m -> Node] /\ to \in [1 .. m -> Node]
  /\ \A p, q \in 1 .. m : (from[p] = from[q] => p = q) /\ (to[p] = to[q] => p = q)
  /\ \A p, q \in 1 .. m : from[p] # to[q]

LEMMA LowestIsLowest ==
  ASSUME upload \in [Node -> Nat], download \in [Node -> Nat],
         NEW m \in Nat \ {0}, NEW from, NEW to, Pairs(from, to, m)
  PROVE  /\ Lowest(from, to) \in Nat
         /\ \A p \in 1 .. m : Lowest(from, to) <= Up(from[p]) /\ Lowest(from, to) <= Down(to[p])
         /\ \E x \in Node : Lowest(from, to) \in {Up(x), Down(x)}
  <1> DEFINE caps == {Up(from[p]) : p \in DOMAIN from} \cup {Down(to[p]) : p \in DOMAIN to}
  <1>1. DOMAIN from = 1 .. m /\ DOMAIN to = 1 .. m /\ 1 \in 1 .. m
    BY DEF Pairs
  <1>2. \A x \in Node : Up(x) \in Nat /\ Down(x) \in Nat
    BY DEF Up, Down
  <1>3. \A p \in 1 .. m : from[p] \in Node /\ to[p] \in Node
    BY DEF Pairs
  <1>4. caps \in SUBSET Nat /\ Up(from[1]) \in caps
    BY <1>1, <1>2, <1>3
  <1>5. \A p \in 1 .. m : Up(from[p]) \in caps /\ Down(to[p]) \in caps
    BY <1>1
  <1>6. Lowest(from, to) = CHOOSE c \in caps : \A d \in caps : c <= d
    BY DEF Lowest
  <1>7. Lowest(from, to) \in caps /\ \A d \in caps : Lowest(from, to) <= d
    <2> HIDE DEF caps
    <2> QED BY <1>4, <1>6, LeastNumber
  <1>8. \A c \in caps : \E x \in Node : c \in {Up(x), Down(x)}
    BY <1>1, <1>3
  <1> QED
    <2> HIDE DEF caps
    <2> QED BY <1>4, <1>5, <1>7, <1>8

LEMMA LayerTargets ==
  ASSUME NEW m \in Nat, NEW from, NEW to, Pairs(from, to, m)
  PROVE  /\ Layer(from, to) \in [Node -> Node \cup {NoTarget}]
         /\ \A p \in 1 .. m : Layer(from, to)[from[p]] = to[p] /\ Layer(from, to)[to[p]] = to[p]
         /\ \A x \in Node : Layer(from, to)[x] # NoTarget =>
              \E p \in 1 .. m : x \in {from[p], to[p]}
  <1> DEFINE Has(x, p) == x \in {from[p], to[p]}
  <1>1. DOMAIN from = 1 .. m /\ \A p \in 1 .. m : from[p] \in Node /\ to[p] \in Node
    BY DEF Pairs
  <1>2. Layer(from, to) = [x \in Node |->
           IF \E p \in 1 .. m : Has(x, p) THEN to[CHOOSE p \in 1 .. m : Has(x, p)] ELSE NoTarget]
    BY <1>1 DEF Layer
  <1>3. \A x \in Node : (\E p \in 1 .. m : Has(x, p)) =>
          (CHOOSE p \in 1 .. m : Has(x, p)) \in 1 .. m /\ Has(x, CHOOSE p \in 1 .. m : Has(x, p))
    OBVIOUS
  <1>4. \A p \in 1 .. m : \A q \in 1 .. m : Has(from[p], q) \/ Has(to[p], q) => p = q
    BY DEF Pairs
  <1>5. \A p \in 1 .. m : Has(from[p], p) /\ Has(to[p], p)
    OBVIOUS
  <1> HIDE DEF Has
  <1>6. Layer(from, to) \in [Node -> Node \cup {NoTarget}]
    BY <1>1, <1>2, <1>3
  <1>7. ASSUME NEW p \in 1 .. m, NEW x \in {from[p], to[p]} PROVE Layer(from, to)[x] = to[p]
    <2>1. x \in Node /\ Has(x, p)
      BY <1>1, <1>5, <1>7
    <2>2. (CHOOSE q \in 1 .. m : Has(x, q)) = p
      BY <1>3, <1>4, <1>7, <2>1
    <2> QED BY <1>2, <2>1, <2>2
  <1>8. \A x \in Node : Layer(from, to)[x] # NoTarget => \E p \in 1 .. m : Has(x, p)
    BY <1>2
  <1> QED BY <1>6, <1>7, <1>8 DEF Has

(* Group g is, after the step, a round of m pairs.                         *)
Planned(g, from, to, m) == Pairs(from, to, m) /\ task_groups_'[g] = Layer(from, to)

(* FillTask gives the receivers of a round the one source it has for them, *)
(* and nobody else one.                                                    *)
LEMMA OneSource ==
  ASSUME CodeAssumption, NEW m \in Nat, NEW from, NEW to, NEW g, Planned(g, from, to, m)
  PROVE  /\ \A p \in 1 .. m : src_ids(g, to[p])' = {from[p]}
         /\ \A x \in Node : (\A p \in 1 .. m : x # to[p]) => src_ids(g, x)' = {}
  <1> DEFINE L == task_groups_'[g]
  <1>1. /\ L \in [Node -> Node \cup {NoTarget}]
        /\ \A p \in 1 .. m : L[from[p]] = to[p] /\ L[to[p]] = to[p]
        /\ \A x \in Node : L[x] # NoTarget => \E p \in 1 .. m : x \in {from[p], to[p]}
    BY LayerTargets DEF Planned
  <1>2. Node \subseteq Nat /\ NoTarget \in Nat /\ NoTarget \notin Node
    BY DEF Node, NoTarget, CodeAssumption
  <1>3. /\ \A p \in 1 .. m : from[p] \in Node /\ to[p] \in Node
        /\ \A p, q \in 1 .. m : (to[p] = to[q] => p = q) /\ from[p] # to[q]
    BY DEF Planned, Pairs
  <1>4. \A x \in Node : tar_id(g, x)' # x + 1 <=> L[x] # x
    <2> TAKE x \in Node
    <2>1. tar_id(g, x)' = L[x] + 1
      BY DEF tar_id
    <2> HIDE DEF L
    <2>2. L[x] \in Nat /\ x \in Nat
      BY <1>1, <1>2
    <2> QED BY <2>1, <2>2
  <1>5. ASSUME NEW p \in 1 .. m PROVE src_ids(g, to[p])' = {from[p]}
    <2> DEFINE senders == {y \in Node \ {to[p]} : L[y] = to[p]}
    <2>1. senders = {from[p]}
      <3> HIDE DEF L
      <3>1. from[p] \in senders
        BY <1>1, <1>3
      <3>2. ASSUME NEW y \in senders PROVE y = from[p]
        <4>1. PICK q \in 1 .. m : y \in {from[q], to[q]}
          BY <1>1, <1>2, <1>3
        <4>2. L[y] = to[q]
          BY <1>1, <4>1
        <4>3. q = p
          BY <1>3, <4>2
        <4> QED BY <4>1, <4>3
      <3> QED BY <3>1, <3>2
    <2>2. L[to[p]] = to[p] /\ from[p] <= from[p]
      <3> HIDE DEF L
      <3>1. from[p] \in Nat
        BY <1>2, <1>3
      <3> QED BY <1>1, <3>1
    <2>3. (CHOOSE y \in {from[p]} : \A z \in {from[p]} : y <= z) = from[p]
      BY <2>2
    <2>4. src_ids(g, to[p])' = IF tar_id(g, to[p])' # to[p] + 1 \/ senders = {} THEN {}
                               ELSE {CHOOSE y \in senders : \A z \in senders : y <= z}
      BY DEF src_ids
    <2> HIDE DEF senders, L
    <2> QED BY <1>3, <1>4, <2>1, <2>2, <2>3, <2>4
  <1>6. ASSUME NEW x \in Node, \A p \in 1 .. m : x # to[p] PROVE src_ids(g, x)' = {}
    <2>1. L[x] # x
      BY <1>1, <1>2, <1>3, <1>6
    <2> QED BY <1>4, <2>1 DEF src_ids
  <1> QED BY <1>5, <1>6

(* So what a receiver has after the round is what both had before.         *)
LEMMA RoundSums ==
  ASSUME CodeAssumption, NEW m \in Nat, NEW from, NEW to, NEW g, Planned(g, from, to, m),
         NEW held
  PROVE  /\ \A p \in 1 .. m, y \in Node :
              Passed(held, g)'[to[p]][y] = held[to[p]][y] + held[from[p]][y]
         /\ \A x, y \in Node : (\A p \in 1 .. m : x # to[p]) =>
              Passed(held, g)'[x][y] = held[x][y] + 0
  <1>1. /\ \A p \in 1 .. m : src_ids(g, to[p])' = {from[p]}
        /\ \A x \in Node : (\A p \in 1 .. m : x # to[p]) => src_ids(g, x)' = {}
    BY OneSource
  <1>2. \A x, y \in Node :
          Passed(held, g)'[x][y] = held[x][y] + IF src_ids(g, x)' = {} THEN 0
                                                ELSE held[CHOOSE z \in src_ids(g, x)' : TRUE][y]
    BY DEF Passed
  <1>3. \A p \in 1 .. m : to[p] \in Node /\ (CHOOSE z \in {from[p]} : TRUE) = from[p]
    BY DEF Planned, Pairs
  <1>4. ASSUME NEW p \in 1 .. m, NEW y \in Node
        PROVE  Passed(held, g)'[to[p]][y] = held[to[p]][y] + held[from[p]][y]
    <2>1. src_ids(g, to[p])' = {from[p]} /\ {from[p]} # {} /\ to[p] \in Node
      BY <1>1, <1>3
    <2> QED BY <1>2, <1>3, <2>1
  <1> QED BY <1>1, <1>2, <1>4

LEMMA RoundShares ==
  ASSUME NEW m \in Nat, NEW from, NEW to, Pairs(from, to, m),
         NEW U \in SUBSET Node, \A p \in 1 .. m : from[p] \in U /\ to[p] \in U,
         NEW held, Shared(held, U), NEW sum,
         \A p \in 1 .. m, y \in Node : sum[to[p]][y] = held[to[p]][y] + held[from[p]][y],
         \A x, y \in Node : (\A p \in 1 .. m : x # to[p]) => sum[x][y] = held[x][y] + 0
  PROVE  Shared(sum, U \ {from[p] : p \in 1 .. m})
  <1> DEFINE W == U \ {from[p] : p \in 1 .. m}
             Gives(u, x) == u = x \/ \E p \in 1 .. m : from[p] = u /\ to[p] = x
  <1>1. /\ \A p \in 1 .. m : from[p] \in Node /\ to[p] \in Node
        /\ \A p, q \in 1 .. m : (from[p] = from[q] => p = q) /\ (to[p] = to[q] => p = q)
        /\ \A p, q \in 1 .. m : from[p] # to[q]
    BY DEF Pairs
  <1>2. /\ \A x \in U, y \in Node : held[x][y] \in {0, 1}
        /\ \A x, z \in U, y \in Node : held[x][y] = 1 /\ held[z][y] = 1 => x = z
        /\ Cardinality({y \in Node : \E x \in U : held[x][y] = 1}) = k_
    BY DEF Shared
  <1>3. ASSUME NEW x \in W, NEW y \in Node
        PROVE  /\ sum[x][y] \in {0, 1}
               /\ sum[x][y] = 1 <=> \E u \in U : Gives(u, x) /\ held[u][y] = 1
    <2>1. CASE \E p \in 1 .. m : x = to[p]
      <3>1. PICK p \in 1 .. m : x = to[p]
        BY <2>1
      <3>2. \A u \in U : Gives(u, x) <=> u = from[p] \/ u = to[p]
        BY <1>1, <3>1
      <3>3. sum[x][y] = held[to[p]][y] + held[from[p]][y]
        BY <3>1
      <3>4. held[to[p]][y] \in {0, 1} /\ held[from[p]][y] \in {0, 1} /\ from[p] \in U /\ to[p] \in U
        BY <1>2
      <3>5. ~ (held[to[p]][y] = 1 /\ held[from[p]][y] = 1)
        BY <1>1, <1>2, <3>4
      <3> HIDE DEF Gives
      <3> QED BY <3>2, <3>3, <3>4, <3>5
    <2>2. CASE \A p \in 1 .. m : x # to[p]
      <3>1. \A u \in U : Gives(u, x) <=> u = x
        BY <2>2
      <3>2. sum[x][y] = held[x][y] + 0 /\ held[x][y] \in {0, 1} /\ x \in U
        BY <1>2, <2>2
      <3> HIDE DEF Gives
      <3> QED BY <3>1, <3>2
    <2> QED BY <2>1, <2>2
  <1>4. \A u \in U : \E x \in W : Gives(u, x)
    BY <1>1
  <1>5. \A u \in U, x, z \in W : Gives(u, x) /\ Gives(u, z) => x = z
    BY <1>1
  <1> HIDE DEF Gives
  <1>6. \A x, z \in W, y \in Node : sum[x][y] = 1 /\ sum[z][y] = 1 => x = z
    <2> HIDE DEF W
    <2> QED BY <1>2, <1>3, <1>5
  <1>7. {y \in Node : \E x \in W : sum[x][y] = 1} = {y \in Node : \E x \in U : held[x][y] = 1}
    <2>1. \A y \in Node : (\E x \in W : sum[x][y] = 1) <=> (\E x \in U : held[x][y] = 1)
      <3> HIDE DEF W
      <3> QED BY <1>3, <1>4
    <2> QED BY <2>1
  <1> QED BY <1>2, <1>3, <1>6, <1>7 DEF Shared

(* A round after those already planned leaves their sums as they were.     *)
LEMMA RoundAdded ==
  ASSUME CodeAssumption, task_groups_ \in Seq([Node -> Node \cup {NoTarget}]),
         NEW m \in Nat, NEW from, NEW to, Pairs(from, to, m),
         NEW U \in SUBSET Node, \A p \in 1 .. m : from[p] \in U /\ to[p] \in U,
         NEW rest, ToSet(rest) = U \ {from[p] : p \in 1 .. m},
         \E H : Counts(H), \A H : Counts(H) => Shared(H[Len(task_groups_)], U),
         Add(from, to, rest)
  PROVE  NothingLost'
  <1>1. PICK n \in Nat : n = Len(task_groups_)
    OBVIOUS
  <1>2. /\ task_groups_' = Append(task_groups_, Layer(from, to))
        /\ remains' = rest
    BY DEF Add
  <1>3. /\ Len(task_groups_') = n + 1
        /\ task_groups_'[n + 1] = Layer(from, to)
        /\ \A g \in 1 .. n : task_groups_'[g] = task_groups_[g]
    BY <1>1, <1>2
  <1>4. \A g \in 1 .. n : \A held : Passed(held, g)' = Passed(held, g)
    <2>1. ASSUME NEW g \in 1 .. n, NEW x \in Node PROVE src_ids(g, x)' = src_ids(g, x)
      <3>1. task_groups_'[g] = task_groups_[g]
        BY <1>3
      <3> QED BY ONLY <3>1 DEF src_ids, tar_id
    <2> TAKE g \in 1 .. n
    <2>2. \A x \in Node : src_ids(g, x)' = src_ids(g, x)
      BY <2>1
    <2> QED BY ONLY <2>2 DEF Passed
  <1>5. \A H : Counts(H)' <=>
          H = [r \in 0 .. n + 1 |-> IF r = 0 THEN Own ELSE Passed(H[r - 1], r)']
    BY <1>3 DEF Counts, Own, Requestor, Node
  <1>6. \A H : Counts(H) <=>
          H = [r \in 0 .. n |-> IF r = 0 THEN Own ELSE Passed(H[r - 1], r)]
    BY <1>1 DEF Counts
  <1>7. \A r \in 1 .. n : r - 1 \in 0 .. n /\ r \in 0 .. n /\ r # 0
    BY <1>1
  <1>8. \E H : Counts(H)'
    <2>1. PICK H : Counts(H)
      OBVIOUS
    <2>2. PICK last : last = Passed(H[n], n + 1)'
      OBVIOUS
    <2>3. PICK J : J = [r \in 0 .. n + 1 |-> IF r = n + 1 THEN last ELSE H[r]]
      OBVIOUS
    <2>4. \A r \in 0 .. n : J[r] = H[r]
      BY <1>1, <2>3
    <2>5. ASSUME NEW r \in 0 .. n + 1
          PROVE  J[r] = IF r = 0 THEN Own ELSE Passed(J[r - 1], r)'

      <3>1. CASE r = 0
        <4>1. 0 \in 0 .. n
          BY <1>1
        <4>2. H[0] = Own
          BY <1>6, <2>1, <4>1
        <4>3. J[0] = H[0]
          BY <2>4, <4>1
        <4> QED BY <3>1, <4>2, <4>3
      <3>2. CASE r \in 1 .. n
        <4>1. H[r] = Passed(H[r - 1], r)
          BY <1>6, <1>7, <2>1, <3>2
        <4>2. J[r - 1] = H[r - 1] /\ J[r] = H[r] /\ r # 0
          BY <1>7, <2>4, <3>2
        <4>3. Passed(H[r - 1], r)' = Passed(H[r - 1], r)
          BY <1>4, <3>2
        <4> QED BY <4>1, <4>2, <4>3
      <3>3. CASE r = n + 1
        <4>1. J[n] = H[n] /\ n + 1 # 0 /\ (n + 1) - 1 = n
          BY <1>1, <2>4
        <4>2. J[n + 1] = Passed(H[n], n + 1)'
          BY <1>1, <2>2, <2>3
        <4> QED BY <3>3, <4>1, <4>2
      <3>4. r = 0 \/ r \in 1 .. n \/ r = n + 1
        BY <1>1
      <3> QED BY <3>1, <3>2, <3>3, <3>4
    <2>6. J = [r \in 0 .. n + 1 |-> J[r]]
      BY <2>3
    <2>7. J = [r \in 0 .. n + 1 |-> IF r = 0 THEN Own ELSE Passed(J[r - 1], r)']
      BY <2>5, <2>6
    <2>8. Counts(J)'
      BY <1>5, <2>7
    <2> QED BY <2>8
  <1>9. ASSUME NEW H, Counts(H)' PROVE Shared(H[n + 1], U \ {from[p] : p \in 1 .. m})
    <2> DEFINE J == [r \in 0 .. n |-> H[r]]
               E(r) == IF r = 0 THEN Own ELSE Passed(J[r - 1], r)
    <2>1. H = [r \in 0 .. n + 1 |-> IF r = 0 THEN Own ELSE Passed(H[r - 1], r)']
      BY <1>5, <1>9
    <2>2. ASSUME NEW r \in 0 .. n PROVE H[r] = E(r)
      <3>1. H[r] = IF r = 0 THEN Own ELSE Passed(H[r - 1], r)'
        BY <1>1, <2>1
      <3>2. CASE r = 0
        BY <3>1, <3>2
      <3>3. CASE r # 0
        <4>1. r \in 1 .. n
          BY <1>1, <3>3
        <4>2. J[r - 1] = H[r - 1]
          BY <1>7, <4>1
        <4> HIDE DEF J
        <4> QED BY <1>4, <3>1, <3>3, <4>1, <4>2
      <3> QED BY <3>2, <3>3
    <2>3. J = [r \in 0 .. n |-> E(r)]
      <3> HIDE DEF E
      <3> QED BY <2>2
    <2>4. Counts(J)
      <3> HIDE DEF J
      <3> QED BY <1>6, <2>3
    <2>5. J[n] = H[n]
      BY <1>1
    <2>6. Shared(H[n], U)
      <3> HIDE DEF J
      <3> QED BY <1>1, <2>4, <2>5
    <2>7. H[n + 1] = Passed(H[n], n + 1)'
      <3>1. n + 1 \in 0 .. n + 1 /\ n + 1 # 0 /\ (n + 1) - 1 = n
        BY <1>1
      <3> QED BY <2>1, <3>1
    <2>8. /\ \A p \in 1 .. m, y \in Node :
               H[n + 1][to[p]][y] = H[n][to[p]][y] + H[n][from[p]][y]
          /\ \A x, y \in Node : (\A p \in 1 .. m : x # to[p]) =>
               H[n + 1][x][y] = H[n][x][y] + 0
      <3>1. Planned(n + 1, from, to, m)
        BY <1>3 DEF Planned
      <3> QED BY <2>7, <3>1, RoundSums
    <2>9. PICK held, sum : held = H[n] /\ sum = H[n + 1]
      OBVIOUS
    <2>10. Shared(held, U)
      BY <2>6, <2>9
    <2>11. /\ \A p \in 1 .. m, y \in Node : sum[to[p]][y] = held[to[p]][y] + held[from[p]][y]
           /\ \A x, y \in Node : (\A p \in 1 .. m : x # to[p]) => sum[x][y] = held[x][y] + 0
      BY <2>8, <2>9
    <2>12. Shared(sum, U \ {from[p] : p \in 1 .. m})
      BY ONLY <2>10, <2>11, m \in Nat, Pairs(from, to, m), U \in SUBSET Node,
              \A p \in 1 .. m : from[p] \in U /\ to[p] \in U, RoundShares
    <2> QED BY <2>9, <2>12
  <1>10. ASSUME NEW H, Counts(H)' PROVE Shared(H[Len(task_groups_)], ToSet(remains))'
    <2>1. Shared(H[n + 1], ToSet(rest))
      BY <1>9, <1>10
    <2> QED BY <1>2, <1>3, <2>1
  <1> QED BY <1>8, <1>10 DEF NothingLost

(* What a node is said to send or receive, it can: 0 stands for a node     *)
(* below min_bw_, and for the requestor as a sender.                       *)
LEMMA NotZero ==
  ASSUME RateAssumption, upload \in [Node -> Nat], download \in [Node -> Nat], FullRates,
         NEW x \in Node
  PROVE  /\ Up(x) # 0 => Up(x) = upload[x] /\ Up(x) >= min_bw_
         /\ Down(x) # 0 => Down(x) = download[x] /\ Down(x) >= min_bw_
  <1>1. upload[x] \in Nat /\ download[x] \in Nat /\ min_bw_ \in Nat /\ kFullBandwidth \in Nat
        /\ kFullBandwidth >= min_bw_
    BY DEF RateAssumption
  <1>2. CASE x = Requestor
    BY <1>1, <1>2 DEF Up, Down, Usable, FullRates
  <1>3. CASE x # Requestor
    BY <1>1, <1>3 DEF Up, Down, Usable, min_uds, Lower
  <1> QED BY <1>2, <1>3

LEMMA RoundRated ==
  ASSUME CodeAssumption, RateAssumption, TypeOK, FullRates, RatesHold,
         NEW m \in Nat \ {0}, NEW from, NEW to, Pairs(from, to, m),
         NEW rest \in Seq(Node), Len(rest) <= k_ \div 2 + 1, AddLayer(from, to, rest)
  PROVE  TypeOK' /\ FullRates' /\ RatesHold'
  <1>1. CASE GiveUp
    <2>1. task_groups_' = <<>> /\ DOMAIN task_groups_' = {}
      BY <1>1 DEF GiveUp
    <2>2. /\ pc' = "done" /\ min_caps' = <<>> /\ remains' = remains
          /\ upload' = upload /\ download' = download
      BY <1>1 DEF GiveUp, bwVars
    <2>3. TypeOK'
      BY <2>1, <2>2 DEF TypeOK, Node, NoTarget
    <2>4. FullRates'
      BY <2>2 DEF FullRates, Requestor
    <2> QED BY <2>1, <2>3, <2>4 DEF RatesHold
  <1>2. CASE Lowest(from, to) # 0 /\ Add(from, to, rest)
    <2>1. PICK n \in Nat : n = Len(task_groups_)
      BY DEF TypeOK
    <2>2. PICK c : c = Lowest(from, to)
      OBVIOUS
    <2>3. /\ task_groups_ \in Seq([Node -> Node \cup {NoTarget}]) /\ min_caps \in Seq(Nat)
          /\ Len(min_caps) = n /\ upload \in [Node -> Nat] /\ download \in [Node -> Nat]
      BY <2>1 DEF TypeOK
    <2>4. PICK layer : layer = Layer(from, to)
      OBVIOUS
    <2>5. /\ task_groups_' = Append(task_groups_, layer) /\ min_caps' = Append(min_caps, c)
          /\ remains' = rest /\ pc' \in {"next", "done"}
          /\ upload' = upload /\ download' = download
      BY <1>2, <2>2, <2>4 DEF Add, bwVars
    <2>6. /\ c \in Nat
          /\ \A p \in 1 .. m : c <= Up(from[p]) /\ c <= Down(to[p])
          /\ \E x \in Node : c \in {Up(x), Down(x)}
      BY <2>2, <2>3, LowestIsLowest
    <2>7. /\ layer \in [Node -> Node \cup {NoTarget}]
          /\ \A p \in 1 .. m : layer[from[p]] = to[p] /\ layer[to[p]] = to[p]
          /\ \A x \in Node : layer[x] # NoTarget => \E p \in 1 .. m : x \in {from[p], to[p]}
      BY <2>4, LayerTargets
    <2>8. TypeOK'
      <3>1. Append(task_groups_, layer) \in Seq([Node -> Node \cup {NoTarget}])
            /\ Append(min_caps, c) \in Seq(Nat)
            /\ Len(Append(task_groups_, layer)) = Len(Append(min_caps, c))
        BY <2>1, <2>3, <2>6, <2>7
      <3> QED BY <2>3, <2>5, <3>1 DEF TypeOK, Node, NoTarget
    <2>9. FullRates'
      BY <2>5 DEF FullRates, Requestor
    <2>10. /\ DOMAIN task_groups_' = 1 .. n + 1 /\ DOMAIN task_groups_ = 1 .. n
           /\ \A g \in 1 .. n : task_groups_'[g] = task_groups_[g] /\ min_caps'[g] = min_caps[g]
           /\ task_groups_'[n + 1] = layer /\ min_caps'[n + 1] = c
      BY <2>1, <2>3, <2>5
    <2>11. /\ c >= min_bw_
           /\ \A p \in 1 .. m : upload[from[p]] >= c /\ download[to[p]] >= c
      <3>1. c # 0
        BY <1>2, <2>2
      <3>2. \A x \in Node : /\ Up(x) # 0 => Up(x) = upload[x] /\ Up(x) >= min_bw_
                            /\ Down(x) # 0 => Down(x) = download[x] /\ Down(x) >= min_bw_
        BY <2>3, NotZero
      <3>3. c >= min_bw_
        BY <2>6, <3>1, <3>2
      <3>4. \A x \in Node : Up(x) \in Nat /\ Down(x) \in Nat
        BY <2>3 DEF Up, Down
      <3>5. ASSUME NEW p \in 1 .. m PROVE upload[from[p]] >= c /\ download[to[p]] >= c
        <4>1. from[p] \in Node /\ to[p] \in Node
          BY DEF Pairs
        <4>2. Up(from[p]) # 0 /\ Down(to[p]) # 0
          BY <2>6, <3>1, <3>4, <4>1
        <4>3. Up(from[p]) = upload[from[p]] /\ Down(to[p]) = download[to[p]]
          BY <3>2, <4>1, <4>2
        <4> QED BY <2>3, <2>6, <4>1, <4>3
      <3> QED BY <3>3, <3>5
    <2>12. ASSUME NEW g \in 1 .. n, NEW x \in Chosen(g)'
           PROVE  /\ min_caps'[g] >= min_bw_
                  /\ IF tar_id(g, x)' = x + 1 THEN download'[x] >= min_caps'[g]
                                              ELSE upload'[x] >= min_caps'[g]
      <3>1. x \in Chosen(g) /\ tar_id(g, x)' = tar_id(g, x)
        BY <2>10 DEF Chosen, tar_id
      <3>2. /\ min_caps[g] >= min_bw_
            /\ IF tar_id(g, x) = x + 1 THEN download[x] >= min_caps[g] ELSE upload[x] >= min_caps[g]
        BY <2>10, <3>1 DEF RatesHold
      <3> QED BY <2>5, <2>10, <3>1, <3>2
    <2>13. ASSUME NEW x \in Chosen(n + 1)'
           PROVE  /\ min_caps'[n + 1] >= min_bw_
                  /\ IF tar_id(n + 1, x)' = x + 1 THEN download'[x] >= min_caps'[n + 1]
                                                  ELSE upload'[x] >= min_caps'[n + 1]
      <3>1. x \in Node /\ layer[x] # NoTarget /\ tar_id(n + 1, x)' = layer[x] + 1
        BY <2>10 DEF Chosen, tar_id, Node, NoTarget
      <3>2. PICK p \in 1 .. m : x \in {from[p], to[p]}
        BY <2>7, <3>1
      <3>3. layer[x] = to[p]
        BY <2>7, <3>2
      <3>4. x = to[p] \/ (x = from[p] /\ to[p] # x)
        BY <3>2
      <3>5. x \in Int /\ to[p] \in Int
        <4>1. x \in Node /\ to[p] \in Node /\ Node \subseteq Int
          BY <3>1 DEF Pairs, Node, CodeAssumption
        <4> QED BY <4>1
      <3>6. tar_id(n + 1, x)' = x + 1 <=> to[p] = x
        BY <3>1, <3>3, <3>5
      <3> QED BY <2>5, <2>10, <2>11, <3>4, <3>6
    <2>14. RatesHold'
      <3>1. \A g \in 1 .. n + 1 : g \in 1 .. n \/ g = n + 1
        BY <2>1
      <3> QED BY <2>10, <2>12, <2>13, <3>1 DEF RatesHold
    <2> QED BY <2>8, <2>9, <2>14
  <1> QED BY <1>1, <1>2 DEF AddLayer

-----------------------------------------------------------------------------
(* The sequences of the three steps.                                       *)

LEMMA SetOfSequence ==
  ASSUME NEW m \in Nat, NEW s, s \in [1 .. m -> Node], IsInjective(s), CodeAssumption
  PROVE  /\ IsFiniteSet({s[p] : p \in 1 .. m}) /\ Cardinality({s[p] : p \in 1 .. m}) = m
  <1> DEFINE T == {s[p] : p \in 1 .. m}
  <1>1. s \in Surjection(1 .. m, T) /\ s \in Injection(1 .. m, T)
    BY DEF Surjection, Injection
  <1>2. IsFiniteSet(1 .. m) /\ Cardinality(1 .. m) = m
    <2>1. 1 \in Int /\ m \in Int /\ m \in Nat
      OBVIOUS
    <2> QED BY ONLY <2>1, FS_Interval
  <1> HIDE DEF T
  <1>3. IsFiniteSet(T) /\ Cardinality(T) = m
    BY <1>1, <1>2, FS_Surjection
  <1> QED BY <1>3 DEF T

LEMMA BestThenLast ==
  ASSUME NEW S, NEW z, z \notin S, NEW c \in Nat, NEW o \in [1 .. c -> S], IsInjective(o),
         NEW h \in 0 .. c
  PROVE  LET s == Append(SubSeq(Reverse(o), 1, h), z)
         IN  /\ s \in Seq(S \cup {z}) /\ Len(s) = h + 1
             /\ IsInjective(s) /\ s[h + 1] = z
  <1> DEFINE s == Append(SubSeq(Reverse(o), 1, h), z)
             e(p) == IF p = h + 1 THEN z ELSE o[(c - p) + 1]
  <1>1. o \in Seq(S) /\ Len(o) = c
    OBVIOUS
  <1>2. Reverse(o) = [p \in 1 .. c |-> o[(c - p) + 1]]
    BY <1>1 DEF Reverse
  <1>3. \A p \in 1 .. c : (c - p) + 1 \in 1 .. c
    OBVIOUS
  <1>4. Reverse(o) \in Seq(S) /\ Len(Reverse(o)) = c
    <2>1. Reverse(o) \in [1 .. c -> S]
      BY <1>2, <1>3
    <2> QED BY <2>1
  <1>5. /\ SubSeq(Reverse(o), 1, h) \in Seq(S) /\ Len(SubSeq(Reverse(o), 1, h)) = h
        /\ \A p \in 1 .. h : SubSeq(Reverse(o), 1, h)[p] = o[(c - p) + 1]
    <2>1. \A p \in 1 .. h : p \in 1 .. c
      OBVIOUS
    <2>2. SubSeq(Reverse(o), 1, h) = [p \in 1 .. h |-> Reverse(o)[p]]
      BY <1>4
    <2>3. SubSeq(Reverse(o), 1, h) \in [1 .. h -> S]
      BY <1>2, <1>3, <2>1, <2>2
    <2>4. h \in Nat
      OBVIOUS
    <2> QED BY <1>2, <2>1, <2>2, <2>3, <2>4
  <1>6. s \in Seq(S \cup {z}) /\ Len(s) = h + 1 /\ DOMAIN s = 1 .. h + 1
    BY <1>5
  <1>7. \A p \in 1 .. h + 1 : s[p] = e(p)
    <2> TAKE p \in 1 .. h + 1
    <2>1. CASE p = h + 1
      BY <1>5, <2>1
    <2>2. CASE p \in 1 .. h
      BY <1>5, <2>2
    <2> QED BY <2>1, <2>2
  <1>8. ASSUME NEW p \in 1 .. h + 1, NEW q \in 1 .. h + 1, s[p] = s[q] PROVE p = q
    <2>1. e(p) = e(q)
      BY <1>7, <1>8
    <2>2. \A r \in 1 .. h : (c - r) + 1 \in 1 .. c
      OBVIOUS
    <2>3. \A a, b \in 1 .. c : o[a] = o[b] => a = b
      BY DEF IsInjective
    <2>4. \A a \in 1 .. c : o[a] # z
      OBVIOUS
    <2>5. CASE p = h + 1
      <3>1. q \in 1 .. h \/ q = h + 1
        OBVIOUS
      <3> QED BY <2>1, <2>2, <2>4, <2>5, <3>1
    <2>6. CASE p \in 1 .. h /\ q \in 1 .. h
      <3>1. o[(c - p) + 1] = o[(c - q) + 1]
        BY <2>1, <2>6
      <3>2. (c - p) + 1 = (c - q) + 1
        BY <2>2, <2>3, <2>6, <3>1
      <3> QED BY <3>2
    <2>7. CASE p \in 1 .. h /\ q = h + 1
      BY <2>1, <2>2, <2>4, <2>7
    <2> QED BY <2>5, <2>6, <2>7
  <1>9. s[h + 1] = z
    BY <1>7
  <1> HIDE DEF s
  <1>10. IsInjective(s)
    BY <1>6, <1>8 DEF IsInjective
  <1>11. s \in Seq(S \cup {z}) /\ Len(s) = h + 1 /\ IsInjective(s) /\ s[h + 1] = z
    BY <1>6, <1>9, <1>10
  <1> QED BY <1>11 DEF s

(* Lines 106-129 on s: the senders stand before the receivers, and an odd  *)
(* one is the last.                                                        *)
Halves(s, m, from, to, rest) ==
  /\ s \in Seq(Node) /\ IsInjective(s) /\ Len(s) > 1 /\ m = Len(s) \div 2
  /\ from \in [1 .. m -> Node] /\ \A p \in 1 .. m : from[p] = s[2 * p - 1]
  /\ to \in [1 .. m -> Node] /\ \A p \in 1 .. m : to[p] = s[2 * p]
  /\ rest = IF Len(s) % 2 = 1 THEN Append(to, Last(s)) ELSE to

LEMMA Halved ==
  ASSUME NEW s, NEW m, NEW from, NEW to, NEW rest, Halves(s, m, from, to, rest)
  PROVE  /\ m \in Nat \ {0} /\ Pairs(from, to, m)
         /\ \A p \in 1 .. m : from[p] \in ToSet(s) /\ to[p] \in ToSet(s)
         /\ rest \in Seq(Node) /\ rest # <<>> /\ Len(rest) <= Len(s)
         /\ IsInjective(rest) /\ rest[Len(rest)] = s[Len(s)]
         /\ ToSet(rest) = ToSet(s) \ {from[p] : p \in 1 .. m}
  <1>1. /\ s \in Seq(Node) /\ IsInjective(s) /\ Len(s) > 1 /\ m = Len(s) \div 2
        /\ from \in [1 .. m -> Node] /\ to \in [1 .. m -> Node]
        /\ \A p \in 1 .. m : from[p] = s[2 * p - 1] /\ to[p] = s[2 * p]
        /\ rest = IF Len(s) % 2 = 1 THEN Append(to, Last(s)) ELSE to
    BY DEF Halves
  <1>2. PICK n \in Nat : n = Len(s)
    BY <1>1
  <1>3. m = n \div 2
    BY <1>2, <1>1
  <1>4. m \in Nat
    BY ONLY <1>3, n \in Nat
  <1>5. m # 0 /\ (n = 2 * m \/ n = 2 * m + 1) /\ (n % 2 = 1 <=> n = 2 * m + 1)
    <2>1. n > 1
      BY <1>2, <1>1
    <2> QED BY ONLY <1>3, <2>1, n \in Nat
  <1>6. DOMAIN s = 1 .. n
    BY ONLY <1>2, <1>1
  <1>7. /\ \A p \in 1 .. n : s[p] \in Node
        /\ \A p, q \in 1 .. n : s[p] = s[q] => p = q
    <2>1. \A p \in 1 .. n : s[p] \in Node
      BY ONLY <1>2, <1>1
    <2>2. IsInjective(s)
      BY <1>1
    <2> QED BY ONLY <2>1, <1>6, <2>2 DEF IsInjective
  <1>8. \A p \in 1 .. m : 2 * p \in 1 .. n /\ 2 * p - 1 \in 1 .. n
    BY ONLY <1>4, <1>5, n \in Nat
  <1>9. \A p \in 1 .. m : from[p] = s[2 * p - 1] /\ to[p] = s[2 * p]
    BY <1>1
  <1>10. Pairs(from, to, m)
    <2>1. from \in [1 .. m -> Node] /\ to \in [1 .. m -> Node]
      BY <1>1
    <2>2. ASSUME NEW p \in 1 .. m, NEW q \in 1 .. m
          PROVE  /\ from[p] = from[q] => p = q
                 /\ to[p] = to[q] => p = q
                 /\ from[p] # to[q]
      <3>1. 2 * p - 1 = 2 * q - 1 => p = q
        OBVIOUS
      <3>2. 2 * p = 2 * q => p = q
        OBVIOUS
      <3>3. 2 * p - 1 # 2 * q
        OBVIOUS
      <3>4. from[p] = s[2 * p - 1] /\ from[q] = s[2 * q - 1] /\ to[p] = s[2 * p] /\ to[q] = s[2 * q]
        BY <1>9
      <3> QED BY <1>7, <1>8, <3>1, <3>2, <3>3, <3>4
    <2> QED BY <2>1, <2>2 DEF Pairs
  <1>11. ToSet(s) = {s[p] : p \in 1 .. n}
    BY ONLY <1>6 DEF ToSet
  <1>12. \A p \in 1 .. m : from[p] \in ToSet(s) /\ to[p] \in ToSet(s)
    BY <1>8, <1>9, <1>11
  <1>13. \A p \in 1 .. n : (\E q \in 1 .. m : p = 2 * q) \/ (\E q \in 1 .. m : p = 2 * q - 1)
                            \/ (p = n /\ n = 2 * m + 1)
    <2> TAKE p \in 1 .. n
    <2>1. p = 2 * (p \div 2) \/ p = 2 * (p \div 2) + 1
      BY ONLY n \in Nat, p \in 1 .. n
    <2>2. PICK d \in Nat : d = p \div 2
      BY ONLY n \in Nat, p \in 1 .. n
    <2>3. CASE p = 2 * d
      <3>1. d \in 1 .. m
        BY ONLY <1>4, <1>5, <2>3, n \in Nat, d \in Nat, p \in 1 .. n
      <3> QED BY <2>3, <3>1
    <2>4. CASE p = 2 * d + 1
      <3>1. d + 1 \in 1 .. m \/ d = m
        BY ONLY <1>4, <1>5, <2>4, n \in Nat, d \in Nat, p \in 1 .. n
      <3>2. p = 2 * (d + 1) - 1
        BY <2>4
      <3>3. d = m => p = n /\ n = 2 * m + 1
        BY ONLY <1>4, <1>5, <2>4, n \in Nat, d \in Nat, p \in 1 .. n
      <3> QED BY <3>1, <3>2, <3>3
    <2> QED BY <2>1, <2>2, <2>3, <2>4
  <1>14. \A x \in {from[p] : p \in 1 .. m} : \E p \in 1 .. m : x = s[2 * p - 1]
    BY <1>9
  <1>15. /\ to \in [1 .. m -> Node] /\ DOMAIN to = 1 .. m /\ to \in Seq(Node) /\ Len(to) = m
         /\ \A p, q \in 1 .. m : (to[p] = to[q] => p = q) /\ from[p] # to[q]
    <2>1. to \in [1 .. m -> Node]
      BY <1>10 DEF Pairs
    <2>2. \A p, q \in 1 .. m : (to[p] = to[q] => p = q) /\ from[p] # to[q]
      BY <1>10 DEF Pairs
    <2>3. DOMAIN to = 1 .. m /\ to \in Seq(Node) /\ Len(to) = m
      BY ONLY <2>1, <1>4
    <2> QED BY <2>1, <2>2, <2>3
  <1>16. PICK F : F = {from[p] : p \in 1 .. m}
    OBVIOUS
  <1>17. F \subseteq ToSet(s)
    BY ONLY <1>12, <1>16
  <1>18. SUFFICES /\ rest \in Seq(Node) /\ rest # <<>> /\ Len(rest) <= n
                  /\ IsInjective(rest) /\ rest[Len(rest)] = s[n]
                  /\ ToSet(rest) = ToSet(s) \ F
    <2>1. Len(s) = n
      BY <1>2
    <2>2. m \in Nat \ {0}
      BY ONLY <1>4, <1>5
    <2> QED BY ONLY <1>10, <1>12, <1>16, <1>18, <2>1, <2>2
  <1>19. CASE n = 2 * m
    <2>1. rest = to
      <3>1. ~ (n % 2 = 1)
        BY ONLY <1>4, <1>5, <1>19, n \in Nat
      <3>2. ~ (Len(s) % 2 = 1)
        BY ONLY <1>2, <3>1
      <3> QED BY ONLY <1>1, <3>2
    <2>2. IsInjective(to)
      BY ONLY <1>15 DEF IsInjective
    <2>3. m \in 1 .. m /\ to[m] = s[n]
      <3>1. m \in 1 .. m
        BY ONLY <1>4, <1>5
      <3> QED BY ONLY <1>9, <1>19, <3>1
    <2>4. ToSet(to) = {to[p] : p \in 1 .. m}
      BY ONLY <1>15 DEF ToSet
    <2>5. ASSUME NEW x \in ToSet(s) PROVE x \in ToSet(to) \/ x \in F
      <3>1. PICK p \in 1 .. n : x = s[p]
        BY ONLY <1>11, <2>5
      <3>2. (\E q \in 1 .. m : p = 2 * q) \/ (\E q \in 1 .. m : p = 2 * q - 1)
        <4>1. n # 2 * m + 1
          BY ONLY <1>19, n \in Nat, <1>4
        <4> QED BY ONLY <1>13, <4>1, p \in 1 .. n
      <3> QED BY ONLY <1>9, <1>16, <2>4, <3>1, <3>2
    <2>6. \A x \in ToSet(to) : x \in ToSet(s) /\ x \notin F
      BY ONLY <1>12, <1>15, <1>16, <2>4
    <2>7. ToSet(to) = ToSet(s) \ F
      BY ONLY <2>5, <2>6
    <2>8. to # <<>> /\ m <= n
      BY ONLY <1>5, <1>15, <1>19, n \in Nat, <1>4
    <2> QED BY ONLY <1>15, <2>1, <2>2, <2>3, <2>7, <2>8
  <1>20. CASE n = 2 * m + 1
    <2>1. rest = Append(to, s[n])
      BY ONLY <1>2, <1>4, <1>5, <1>20, <1>1, n \in Nat DEF Last
    <2>2. s[n] \in Node
      BY ONLY <1>5, <1>7, n \in Nat, <1>4
    <2>3. /\ rest \in Seq(Node) /\ Len(rest) = m + 1 /\ DOMAIN rest = 1 .. m + 1
          /\ rest[m + 1] = s[n] /\ \A p \in 1 .. m : rest[p] = to[p]
      BY ONLY <1>15, <2>1, <2>2, <1>4
    <2>4. n \in 1 .. n /\ (\A p \in 1 .. m : 2 * p # n /\ 2 * p - 1 # n)
      BY ONLY <1>5, <1>20, n \in Nat, <1>4
    <2>5. \A p \in 1 .. m : to[p] # s[n] /\ from[p] # s[n]
      BY ONLY <1>7, <1>8, <1>9, <2>4
    <2>6. /\ \A p \in 1 .. m + 1 : p \in 1 .. m \/ p = m + 1
          /\ \A p \in 1 .. m : p \in 1 .. m + 1
          /\ m + 1 \in 1 .. m + 1
      BY ONLY <1>4
    <2>7. IsInjective(rest)
      <3>1. DOMAIN rest = 1 .. m + 1
        BY ONLY <2>3
      <3>2. SUFFICES \A p, q \in 1 .. m + 1 : rest[p] = rest[q] => p = q
        BY ONLY <3>1, <3>2 DEF IsInjective
      <3>3. SUFFICES ASSUME NEW p \in 1 .. m + 1, NEW q \in 1 .. m + 1, rest[p] = rest[q]
                     PROVE  p = q
        OBVIOUS
      <3>4. CASE p \in 1 .. m /\ q \in 1 .. m
        BY ONLY <1>15, <2>3, <3>3, <3>4
      <3>5. CASE p \in 1 .. m /\ q = m + 1
        BY ONLY <2>3, <2>5, <3>3, <3>5
      <3>6. CASE p = m + 1 /\ q \in 1 .. m
        BY ONLY <2>3, <2>5, <3>3, <3>6
      <3> QED BY ONLY <2>6, <3>4, <3>5, <3>6, p \in 1 .. m + 1, q \in 1 .. m + 1
    <2>8. ToSet(rest) = {rest[p] : p \in 1 .. m + 1}
      BY ONLY <2>3 DEF ToSet
    <2>9. ToSet(rest) = {to[p] : p \in 1 .. m} \cup {s[n]}
      BY ONLY <2>3, <2>6, <2>8
    <2>10. ASSUME NEW x \in ToSet(s) PROVE x \in ToSet(rest) \/ x \in F
      <3>1. PICK p \in 1 .. n : x = s[p]
        BY ONLY <1>11, <2>10
      <3>2. (\E q \in 1 .. m : p = 2 * q) \/ (\E q \in 1 .. m : p = 2 * q - 1) \/ p = n
        BY ONLY <1>13, p \in 1 .. n
      <3> QED BY ONLY <1>9, <1>16, <2>9, <3>1, <3>2, <1>20
    <2>11. \A x \in ToSet(rest) : x \in ToSet(s) /\ x \notin F
      BY ONLY <1>11, <1>12, <1>15, <1>16, <2>4, <2>5, <2>9
    <2>12. ToSet(rest) = ToSet(s) \ F
      BY ONLY <2>10, <2>11
    <2>13. m + 1 <= n /\ rest # <<>>
      BY ONLY <1>5, <1>20, <2>3, n \in Nat, <1>4
    <2> QED BY ONLY <2>3, <2>7, <2>12, <2>13
  <1> QED BY <1>5, <1>19, <1>20

-----------------------------------------------------------------------------
(* The steps.                                                              *)

LEMMA NoRoundYet == ASSUME task_groups_ = <<>> PROVE NothingLost
  <1>1. Len(task_groups_) = 0 /\ \A r \in 0 .. 0 : r = 0
    OBVIOUS
  <1>2. PICK H : H = [r \in 0 .. 0 |-> Own]
    OBVIOUS
  <1>3. H = [r \in 0 .. 0 |-> IF r = 0 THEN Own ELSE Passed(H[r - 1], r)]
    BY <1>1, <1>2
  <1>4. Counts(H)
    BY <1>1, <1>3 DEF Counts
  <1> QED BY <1>4 DEF NothingLost

LEMMA NoRoundLeft == ASSUME task_groups_' = <<>> PROVE NothingLost'
  <1>1. Len(task_groups_)' = 0 /\ \A r \in 0 .. 0 : r = 0
    OBVIOUS
  <1>2. PICK H : H = [r \in 0 .. 0 |-> Own]
    OBVIOUS
  <1>3. H = [r \in 0 .. 0 |-> IF r = 0 THEN Own ELSE Passed(H[r - 1], r)']
    BY <1>1, <1>2
  <1>4. Counts(H)'
    BY <1>1, <1>3 DEF Counts, Own, Node, Requestor
  <1> QED BY <1>4 DEF NothingLost

LEMMA Constants ==
  ASSUME CodeAssumption
  PROVE  /\ Node \subseteq Nat /\ Requestor \in Node /\ Helper = Node \ {Requestor}
         /\ n_ \in Nat /\ k_ \in Nat \ {0} /\ k_ < n_
         /\ k_ \div 2 \in Nat /\ (k_ + 1) \div 2 \in Nat \ {0}
         /\ (k_ + 1) \div 2 + k_ \div 2 = k_
         /\ (k_ + 1) \div 2 <= k_ \div 2 + 1
         /\ IsFiniteSet(Node) /\ Cardinality(Node) = n_
         /\ IsFiniteSet(Helper) /\ Cardinality(Helper) = n_ - 1
  <1>1. n_ \in Nat /\ k_ \in Nat \ {0} /\ k_ < n_ /\ rid \in 1 .. n_
    BY DEF CodeAssumption
  <1>2. /\ k_ \div 2 \in Nat /\ (k_ + 1) \div 2 \in Nat \ {0}
        /\ (k_ + 1) \div 2 + k_ \div 2 = k_
        /\ (k_ + 1) \div 2 <= k_ \div 2 + 1
    BY <1>1
  <1>3. Node \subseteq Nat /\ Requestor \in Node /\ Helper = Node \ {Requestor}
    BY <1>1 DEF Node, Requestor, Helper
  <1>4. IsFiniteSet(Node) /\ Cardinality(Node) = n_
    <2>1. 0 \in Int /\ n_ - 1 \in Int /\ n_ \in Nat /\ n_ > 0
      BY <1>1
    <2> QED BY ONLY <2>1, FS_Interval DEF Node
  <1>5. IsFiniteSet(Helper) /\ Cardinality(Helper) = n_ - 1
    BY <1>3, <1>4, FS_RemoveElement
  <1> QED BY <1>1, <1>2, <1>3, <1>4, <1>5

LEMMA InitInv == ASSUME CodeAssumption, RateAssumption, Init PROVE IInv
  <1>1. PICK rates \in [Helper -> Rates] :
          /\ upload = [x \in Node |-> IF x = Requestor THEN 0 ELSE rates[x][1]]
          /\ download = [x \in Node |-> IF x = Requestor THEN kFullBandwidth ELSE rates[x][2]]
    BY DEF Init
  <1>2. pc = "select" /\ remains = <<>> /\ task_groups_ = <<>> /\ min_caps = <<>>
    BY DEF Init
  <1>3. Requestor \in Node /\ Helper = Node \ {Requestor} /\ k_ \div 2 \in Nat
    BY Constants
  <1>4. \A x \in Helper : rates[x][1] \in Nat /\ rates[x][2] \in Nat
    BY DEF RateAssumption
  <1>5. kFullBandwidth \in Nat
    BY DEF RateAssumption
  <1>6. upload \in [Node -> Nat] /\ download \in [Node -> Nat]
    BY <1>1, <1>3, <1>4, <1>5
  <1>7. FullRates
    BY <1>1, <1>3 DEF FullRates
  <1>8. TypeOK
    BY <1>2, <1>3, <1>6 DEF TypeOK
  <1>9. Remaining
    BY <1>2 DEF Remaining
  <1>10. RatesHold
    <2>1. DOMAIN task_groups_ = {}
      BY <1>2
    <2> QED BY <2>1 DEF RatesHold
  <1> QED BY <1>2, <1>7, <1>8, <1>9, <1>10, NoRoundYet DEF IInv

LEMMA SelectStep == ASSUME CodeAssumption, RateAssumption, IInv, SelectInter PROVE IInv'
  <1>1. /\ TypeOK /\ FullRates /\ RatesHold /\ Remaining
        /\ upload \in [Node -> Nat] /\ download \in [Node -> Nat]
    BY DEF IInv, TypeOK
  <1>2. /\ pc = "select" /\ pc' = "first" /\ upload' = upload /\ download' = download
        /\ task_groups_' = task_groups_ /\ min_caps' = min_caps
        /\ remains' = Append(SubSeq(Reverse(Ordered(Helper, Weaker)), 1, k_ \div 2), Requestor)
    BY DEF SelectInter, bwVars
  <1>3. PICK h : h = k_ \div 2
    OBVIOUS
  <1>4. PICK c : c = n_ - 1
    OBVIOUS
  <1>5. /\ Helper \subseteq Node /\ Requestor \notin Helper /\ Helper \cup {Requestor} = Node
        /\ Cardinality(Helper) = c /\ c \in Nat /\ h \in 0 .. c
    <2>1. k_ \div 2 <= k_
      BY Constants
    <2> QED BY <1>3, <1>4, <2>1, Constants
  <1>6. PICK o : o = Ordered(Helper, Weaker)
    OBVIOUS
  <1>7. o \in [1 .. c -> Helper] /\ IsInjective(o)
    BY <1>1, <1>5, <1>6, OrderedWeaker
  <1>8. remains' = Append(SubSeq(Reverse(o), 1, h), Requestor)
    BY <1>2, <1>3, <1>6
  <1>9. /\ remains' \in Seq(Node) /\ Len(remains') = h + 1
        /\ IsInjective(remains') /\ remains'[h + 1] = Requestor
    BY <1>5, <1>7, <1>8, BestThenLast
  <1>10. TypeOK'
    <2>1. Len(remains') <= k_ \div 2 + 1
      BY ONLY <1>3, <1>5, <1>9
    <2>2. /\ task_groups_' \in Seq([Node -> Node \cup {NoTarget}])
          /\ min_caps' \in Seq(Nat) /\ Len(min_caps') = Len(task_groups_')
      BY <1>1, <1>2 DEF TypeOK
    <2> QED BY <1>1, <1>2, <1>9, <2>1, <2>2 DEF TypeOK, Node, NoTarget
  <1>11. FullRates'
    BY <1>1, <1>2 DEF FullRates, Requestor
  <1>12. task_groups_ = <<>>
    BY <1>1, <1>2 DEF Remaining
  <1>13. RatesHold'
    <2>1. DOMAIN task_groups_' = {}
      BY <1>2, <1>12
    <2> QED BY <2>1 DEF RatesHold
  <1>14. Remaining'
    <2>1. remains' # <<>> /\ remains'[Len(remains')] = Requestor
      BY <1>5, <1>9
    <2> QED BY <1>2, <1>3, <1>9, <1>12, <2>1 DEF Remaining, Requestor
  <1>15. NothingLost'
    BY <1>2, <1>12, NoRoundLeft
  <1> QED BY <1>10, <1>11, <1>13, <1>14, <1>15 DEF IInv

(* A round is followed by the next, or is the last: GiveUp leaves nothing. *)
LEMMA RoundRemaining ==
  ASSUME Remaining, pc # "select", NEW from, NEW to, NEW rest \in Seq(Node), rest # <<>>,
         IsInjective(rest), rest[Len(rest)] = Requestor, AddLayer(from, to, rest),
         task_groups_ \in Seq([Node -> Node \cup {NoTarget}])
  PROVE  Remaining'
  <1>1. CASE GiveUp
    BY <1>1 DEF GiveUp, Remaining, Requestor
  <1>2. CASE Add(from, to, rest)
    <2>1. /\ remains' = rest /\ pc' = IF Len(rest) > 1 THEN "next" ELSE "done"
          /\ task_groups_' = Append(task_groups_, Layer(from, to))
      BY <1>2 DEF Add
    <2>2. task_groups_' # <<>> /\ Len(rest) \in Nat /\ Len(rest) # 0
      BY <2>1
    <2>3. /\ pc' # "select" /\ pc' # "first"
          /\ (pc' = "done" => Len(rest) = 1) /\ (pc' = "next" => Len(rest) > 1)
      <3>1. PICK l \in Nat : l = Len(rest) /\ l # 0
        BY <2>2
      <3>2. pc' = IF l > 1 THEN "next" ELSE "done"
        BY ONLY <2>1, <3>1
      <3> QED BY ONLY <3>1, <3>2, l \in Nat
    <2> QED BY <2>1, <2>2, <2>3 DEF Remaining, Requestor
  <1> QED BY <1>1, <1>2 DEF AddLayer

LEMMA RoundNothingLost ==
  ASSUME CodeAssumption, TypeOK, NothingLost,
         NEW m \in Nat, NEW from, NEW to, Pairs(from, to, m),
         NEW U \in SUBSET Node, \A p \in 1 .. m : from[p] \in U /\ to[p] \in U,
         NEW rest, ToSet(rest) = U \ {from[p] : p \in 1 .. m},
         \A H : Counts(H) => Shared(H[Len(task_groups_)], U), AddLayer(from, to, rest)
  PROVE  NothingLost'
  <1>1. CASE GiveUp
    <2>1. task_groups_' = <<>>
      BY <1>1 DEF GiveUp
    <2> QED BY <2>1, NoRoundLeft
  <1>2. CASE Add(from, to, rest)
    <2>1. (\E H : Counts(H)) /\ task_groups_ \in Seq([Node -> Node \cup {NoTarget}])
      BY DEF NothingLost, TypeOK
    <2> QED BY <1>2, <2>1, RoundAdded
  <1> QED BY <1>1, <1>2 DEF AddLayer

(* Before the first round the blocks of a set of nodes are their own.      *)
LEMMA OwnShared ==
  ASSUME CodeAssumption, NEW U \in SUBSET Node, Requestor \in U, IsFiniteSet(U),
         Cardinality(U) = k_ + 1
  PROVE  Shared(Own, U)
  <1>1. \A x, y \in Node : Own[x][y] = IF x = y /\ x # Requestor THEN 1 ELSE 0
    BY DEF Own
  <1>2. {y \in Node : \E x \in U : Own[x][y] = 1} = U \ {Requestor}
    <2>1. \A y \in Node : (\E x \in U : Own[x][y] = 1) <=> y \in U /\ y # Requestor
      BY <1>1
    <2> QED BY <2>1
  <1>3. Cardinality(U \ {Requestor}) = k_
    <2>1. k_ \in Nat
      BY Constants
    <2> QED BY <2>1, FS_RemoveElement
  <1>4. \A x \in U, y \in Node : Own[x][y] \in {0, 1}
    BY <1>1
  <1>5. \A x, z \in U, y \in Node : Own[x][y] = 1 /\ Own[z][y] = 1 => x = z
    BY <1>1
  <1> QED BY <1>2, <1>3, <1>4, <1>5 DEF Shared

LEMMA FirstStep == ASSUME CodeAssumption, RateAssumption, IInv, FirstLayer PROVE IInv'
  <1>1. /\ TypeOK /\ FullRates /\ RatesHold /\ Remaining /\ NothingLost
        /\ upload \in [Node -> Nat] /\ download \in [Node -> Nat] /\ remains \in Seq(Node)
        /\ task_groups_ \in Seq([Node -> Node \cup {NoTarget}])
    BY DEF IInv, TypeOK
  <1>2. PICK half, h : half = (k_ + 1) \div 2 /\ h = k_ \div 2
    OBVIOUS
  <1>3. /\ half \in Nat \ {0} /\ h \in Nat /\ half + h = k_ /\ half <= h + 1
        /\ n_ \in Nat /\ k_ < n_ /\ k_ \in Nat
    BY <1>2, Constants
  <1>4. /\ pc = "first" /\ task_groups_ = <<>> /\ remains # <<>> /\ IsInjective(remains)
        /\ remains[Len(remains)] = Requestor /\ Len(remains) = h + 1
    BY <1>1, <1>2 DEF FirstLayer, Remaining
  <1>5. PICK W : W = ToSet(remains)
    OBVIOUS
  <1>6. DOMAIN remains = 1 .. h + 1 /\ remains \in [1 .. h + 1 -> Node]
    BY <1>1, <1>4
  <1>7. W = {remains[p] : p \in 1 .. h + 1} /\ h + 1 \in 1 .. h + 1
    BY ONLY <1>3, <1>5, <1>6 DEF ToSet
  <1>8. IsFiniteSet(W) /\ Cardinality(W) = h + 1 /\ W \in SUBSET Node /\ Requestor \in W
    <2>1. IsFiniteSet(W) /\ Cardinality(W) = h + 1
      <3>1. h + 1 \in Nat
        BY <1>3
      <3>2. remains \in [1 .. h + 1 -> Node] /\ IsInjective(remains)
        BY <1>4, <1>6
      <3>3. CodeAssumption
        OBVIOUS
      <3> QED BY ONLY <1>7, <3>1, <3>2, <3>3, SetOfSequence
    <2>2. W \in SUBSET Node /\ Requestor \in W
      BY ONLY <1>4, <1>6, <1>7
    <2> QED BY <2>1, <2>2
  <1>9. PICK S : S = Helper \ W
    OBVIOUS
  <1>10. /\ S = Node \ W /\ S \subseteq Node /\ Cardinality(S) = n_ - (h + 1)
    <2>1. S = Node \ W
      BY <1>8, <1>9, Constants
    <2>2. Node \cap W = W
      BY <1>8
    <2>3. Cardinality(Node \ W) = n_ - (h + 1)
      <3>1. IsFiniteSet(Node) /\ Cardinality(Node) = n_
        BY Constants
      <3>2. Cardinality(Node \ W) = Cardinality(Node) - Cardinality(Node \cap W)
        BY ONLY <3>1, FS_Difference
      <3> QED BY ONLY <1>8, <2>2, <3>1, <3>2
    <2> QED BY <2>1, <2>3
  <1>11. PICK others : others = Ordered(S, StrongerUp)
    OBVIOUS
  <1>12. PICK c : c = Cardinality(S)
    OBVIOUS
  <1>13. c \in Nat /\ others \in [1 .. c -> S] /\ IsInjective(others)
    BY <1>1, <1>10, <1>11, <1>12, OrderedStrongerUp
  <1>14. half <= c
    BY ONLY <1>3, <1>10, <1>12
  <1>15. PICK from, to : from = SubSeq(others, 1, half) /\ to = SubSeq(remains, 1, half)
    OBVIOUS
  <1>16. AddLayer(from, to, remains)
    BY <1>2, <1>5, <1>9, <1>11, <1>15 DEF FirstLayer
  <1>17. \A p \in 1 .. half : p \in 1 .. c /\ p \in 1 .. h + 1
    BY ONLY <1>3, <1>13, <1>14
  <1>18. /\ from = [p \in 1 .. half |-> others[p]]
         /\ to = [p \in 1 .. half |-> remains[p]]
    <2>1. others \in Seq(S) /\ Len(others) = c
      BY <1>13
    <2> QED BY <1>1, <1>3, <1>4, <1>13, <1>14, <1>15, <2>1
  <1>19. /\ \A p \in 1 .. half : from[p] \in S /\ to[p] \in W
         /\ \A p, q \in 1 .. half : (from[p] = from[q] => p = q) /\ (to[p] = to[q] => p = q)
    <2>1. \A p, q \in 1 .. c : others[p] = others[q] => p = q
      BY <1>13 DEF IsInjective
    <2>2. \A p, q \in 1 .. h + 1 : remains[p] = remains[q] => p = q
      BY <1>4, <1>6 DEF IsInjective
    <2>3. \A p \in 1 .. c : others[p] \in S
      BY <1>13
    <2> QED BY ONLY <1>7, <1>17, <1>18, <2>1, <2>2, <2>3
  <1>20. Pairs(from, to, half)
    <2>1. from \in [1 .. half -> Node] /\ to \in [1 .. half -> Node]
      BY <1>8, <1>10, <1>18, <1>19
    <2>2. \A p, q \in 1 .. half : from[p] # to[q]
      BY <1>10, <1>19
    <2> QED BY <1>19, <2>1, <2>2 DEF Pairs
  <1>21. PICK F : F = {from[p] : p \in 1 .. half}
    OBVIOUS
  <1>22. /\ F \subseteq S /\ F \in SUBSET Node /\ F \cap W = {}
         /\ IsFiniteSet(F) /\ Cardinality(F) = half
    <2>1. F \subseteq S
      BY <1>19, <1>21
    <2>2. from \in [1 .. half -> Node] /\ IsInjective(from)
      BY <1>19, <1>20 DEF Pairs, IsInjective
    <2>3. IsFiniteSet(F) /\ Cardinality(F) = half
      BY <1>3, <1>21, <2>2, SetOfSequence
    <2> QED BY <1>10, <2>1, <2>3
  <1>23. PICK U : U = F \cup W
    OBVIOUS
  <1>24. /\ U \in SUBSET Node /\ Requestor \in U /\ IsFiniteSet(U) /\ Cardinality(U) = k_ + 1
    <2>1. IsFiniteSet(U) /\ Cardinality(U) = half + (h + 1) - Cardinality(F \cap W)
      BY <1>8, <1>22, <1>23, FS_Union
    <2>2. Cardinality(F \cap W) = 0
      BY <1>22, FS_EmptySet
    <2>3. Cardinality(U) = k_ + 1
      BY ONLY <1>3, <2>1, <2>2
    <2> QED BY <1>8, <1>22, <1>23, <2>1, <2>3
  <1>25. ASSUME NEW H, Counts(H) PROVE Shared(H[Len(task_groups_)], U)
    <2>1. Len(task_groups_) = 0 /\ H[0] = Own
      BY <1>4, <1>25 DEF Counts
    <2> QED BY <1>24, <2>1, OwnShared
  <1>26. /\ \A p \in 1 .. half : from[p] \in U /\ to[p] \in U
         /\ ToSet(remains) = U \ {from[p] : p \in 1 .. half}
    BY <1>5, <1>19, <1>21, <1>22, <1>23
  <1>27. NothingLost'
    BY <1>1, <1>3, <1>16, <1>20, <1>24, <1>25, <1>26, RoundNothingLost
  <1>28. TypeOK' /\ FullRates' /\ RatesHold'
    <2>1. Len(remains) <= k_ \div 2 + 1
      BY <1>1 DEF TypeOK
    <2> QED BY <1>1, <1>3, <1>16, <1>20, <2>1, RoundRated
  <1>29. Remaining'
    BY <1>1, <1>4, <1>16, RoundRemaining
  <1> QED BY <1>27, <1>28, <1>29 DEF IInv

LEMMA NextStep == ASSUME CodeAssumption, RateAssumption, IInv, NextLayer PROVE IInv'
  <1>1. /\ TypeOK /\ FullRates /\ RatesHold /\ Remaining /\ NothingLost
        /\ remains \in Seq(Node) /\ Len(remains) <= k_ \div 2 + 1
        /\ task_groups_ \in Seq([Node -> Node \cup {NoTarget}])
    BY DEF IInv, TypeOK
  <1>2. PICK m, from, to : m = Len(remains) \div 2 /\ from = At(1) /\ to = At(0)
    OBVIOUS
  <1>3. PICK rest : rest = IF Len(remains) % 2 = 1 THEN Append(to, Last(remains)) ELSE to
    OBVIOUS
  <1>4. pc = "next" /\ AddLayer(from, to, rest)
    BY <1>2, <1>3 DEF NextLayer
  <1>5. /\ remains # <<>> /\ IsInjective(remains) /\ remains[Len(remains)] = Requestor
        /\ task_groups_ # <<>>
    BY <1>1, <1>4 DEF Remaining
  <1>6. Len(remains) > 1
    BY <1>1, <1>4 DEF Remaining
  <1>7. QED
    <2>1. /\ from \in [1 .. m -> Node] /\ \A p \in 1 .. m : from[p] = remains[2 * p - 1]
          /\ to \in [1 .. m -> Node] /\ \A p \in 1 .. m : to[p] = remains[2 * p]
      <3>1. from = [p \in 1 .. m |-> remains[2 * p - 1]] /\ to = [p \in 1 .. m |-> remains[2 * p - 0]]
        BY <1>2 DEF At
      <3>2. PICK n \in Nat : n = Len(remains)
        BY <1>1
      <3>3. \A p \in 1 .. n : remains[p] \in Node
        BY <1>1, <3>2
      <3>4. m = n \div 2
        BY <1>2, <3>2
      <3>5. m \in Nat /\ (n = 2 * m \/ n = 2 * m + 1)
        BY ONLY <3>4, n \in Nat
      <3>6. \A p \in 1 .. m : 2 * p - 1 \in 1 .. n /\ 2 * p - 0 \in 1 .. n /\ 2 * p - 0 = 2 * p
        BY ONLY <3>5, n \in Nat
      <3> QED BY ONLY <3>1, <3>3, <3>6
    <2>2. /\ m \in Nat \ {0} /\ Pairs(from, to, m)
          /\ \A p \in 1 .. m : from[p] \in ToSet(remains) /\ to[p] \in ToSet(remains)
          /\ rest \in Seq(Node) /\ rest # <<>> /\ Len(rest) <= Len(remains)
          /\ IsInjective(rest) /\ rest[Len(rest)] = remains[Len(remains)]
          /\ ToSet(rest) = ToSet(remains) \ {from[p] : p \in 1 .. m}
      <3>1. remains \in Seq(Node) /\ IsInjective(remains) /\ m = Len(remains) \div 2
        BY <1>1, <1>2, <1>5
      <3>2. Halves(remains, m, from, to, rest)
        BY ONLY <1>3, <1>6, <2>1, <3>1 DEF Halves
      <3> QED BY ONLY <3>2, Halved
    <2>3. ToSet(remains) \in SUBSET Node
      BY <1>1 DEF ToSet
    <2>4. \A H : Counts(H) => Shared(H[Len(task_groups_)], ToSet(remains))
      BY <1>1, <1>5 DEF NothingLost
    <2>5. NothingLost'
      BY <1>1, <1>4, <2>2, <2>3, <2>4, RoundNothingLost
    <2>6. TypeOK' /\ FullRates' /\ RatesHold'
      <3>1. Len(rest) <= k_ \div 2 + 1
        BY <1>1, <2>2, Constants
      <3> QED BY <1>1, <1>4, <2>2, <3>1, RoundRated
    <2>7. Remaining'
      BY <1>1, <1>4, <1>5, <2>2, RoundRemaining
    <2> QED BY <2>5, <2>6, <2>7 DEF IInv

LEMMA StepInv == ASSUME CodeAssumption, RateAssumption, IInv, [Next]_vars PROVE IInv'
  <1>1. CASE SelectInter
    BY <1>1, SelectStep
  <1>2. CASE FirstLayer
    BY <1>2, FirstStep
  <1>3. CASE NextLayer
    BY <1>3, NextStep
  <1>4. CASE UNCHANGED vars
    <2>1. /\ pc' = pc /\ upload' = upload /\ download' = download /\ remains' = remains
          /\ task_groups_' = task_groups_ /\ min_caps' = min_caps
      BY <1>4 DEF vars, bwVars
    <2>2. TypeOK' /\ FullRates' /\ Remaining'
      BY <2>1 DEF IInv, TypeOK, FullRates, Remaining, Requestor, Node, NoTarget
    <2>3. RatesHold'
      BY <2>1 DEF IInv, RatesHold, Chosen, tar_id, Node, NoTarget
    <2>4. NothingLost'
      <3>1. \A held, r : Passed(held, r)' = Passed(held, r)
        BY ONLY <2>1 DEF Passed, src_ids, tar_id
      <3>2. \A H : Counts(H)' <=> Counts(H)
        BY ONLY <2>1, <3>1 DEF Counts, Own
      <3>3. NothingLost
        BY DEF IInv
      <3> QED BY ONLY <2>1, <3>2, <3>3 DEF NothingLost, Shared
    <2> QED BY <2>2, <2>3, <2>4 DEF IInv
  <1> QED BY <1>1, <1>2, <1>3, <1>4 DEF Next

LEMMA InvOnce == ASSUME CodeAssumption, IInv PROVE EachBlockOnce
  <1>1. SUFFICES ASSUME pc = "done", task_groups_ # <<>>
                 PROVE  LET got == Held[Len(task_groups_)][Requestor]
                        IN /\ \A y \in Node : got[y] \in {0, 1}
                           /\ Cardinality({y \in Node : got[y] = 1}) = k_
    BY DEF EachBlockOnce
  <1>2. ToSet(remains) = {Requestor}
    <2>1. /\ remains \in Seq(Node) /\ Len(remains) = 1 /\ remains[Len(remains)] = Requestor
      BY <1>1 DEF IInv, TypeOK, Remaining
    <2>2. DOMAIN remains = {1} /\ remains[1] = Requestor
      BY <2>1
    <2> QED BY <2>2 DEF ToSet
  <1>3. Counts(Held)
    <2>1. \E H : Counts(H)
      BY DEF IInv, NothingLost
    <2> QED BY <2>1 DEF Counts, Held
  <1>4. PICK held : held = Held[Len(task_groups_)]
    OBVIOUS
  <1>5. Shared(held, {Requestor})
    BY <1>1, <1>2, <1>3, <1>4 DEF IInv, NothingLost
  <1>6. {y \in Node : \E x \in {Requestor} : held[x][y] = 1} = {y \in Node : held[Requestor][y] = 1}
    OBVIOUS
  <1> QED BY <1>4, <1>5, <1>6 DEF Shared

-----------------------------------------------------------------------------
LEMMA Invariance == Spec => []IInv
  <1>1. Init => IInv
    BY InitInv, CodeAssumption, RateAssumption
  <1>2. IInv /\ [Next]_vars => IInv'
    BY StepInv, CodeAssumption, RateAssumption
  <1> QED BY <1>1, <1>2, PTL DEF Spec

(* Rounds, nodes and rates keep their ranges, and each round has its rate, *)
(* through all of ppr.cc:69-132.                                           *)
THEOREM TypeCorrect == Spec => []TypeOK
  <1>1. IInv => TypeOK
    BY DEF IInv
  <1> QED BY <1>1, Invariance, PTL

(* However many nodes and helpers there are and whatever their rates: the  *)
(* rounds of lines 81-132 end with the blocks of k helpers at the          *)
(* requestor, each of them once, or with no round at all.                  *)
THEOREM AllBlocksOnce == Spec => []EachBlockOnce
  <1>1. IInv => EachBlockOnce
    BY InvOnce, CodeAssumption
  <1> QED BY <1>1, Invariance, PTL

(* What line 97 takes for the rate of a round each of its senders can send *)
(* and each of its receivers receive, and it is never below min_bw_.       *)
THEOREM RoundsCarried == Spec => []RatesHold
  <1>1. IInv => RatesHold
    BY DEF IInv
  <1> QED BY <1>1, Invariance, PTL
=============================================================================
