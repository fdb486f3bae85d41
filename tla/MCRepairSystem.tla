---------------------------- MODULE MCRepairSystem ----------------------------
(* Three nodes.  Listed: a file of two groups, one of two tasks whose      *)
(* routes run against each other, one of two tasks that end at one node.   *)
(* Routed: two algorithms over a file of two rows, the first of which has  *)
(* no group for a row and two groups, as PPR has, for the other.           *)
EXTENDS RepairSystem, TLC

Chain  == (3 :> 2) @@ (2 :> 1) @@ (1 :> 1)
Star   == (3 :> 1) @@ (2 :> 1) @@ (1 :> 1)
Pair   == (3 :> 1) @@ (1 :> 1)
Back   == (1 :> 2) @@ (2 :> 3) @@ (3 :> 3)
Halves == (3 :> 2) @@ (2 :> 2)

Listed == <<[alg |-> "t", rid |-> 0,
             rounds |-> << <<<<Chain, Back>>>>, <<<<Halves, Halves>>>> >>]>>
Routed == <<[alg |-> "j", rid |-> 1, rounds |-> << <<>>, <<<<Halves>>, <<Pair>>>> >>],
            [alg |-> "f", rid |-> 1, rounds |-> << <<<<Star>>>>, <<<<Chain>>>> >>]>>
Algorithms == Listed \o Routed
=============================================================================
