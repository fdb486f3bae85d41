------------------------------ MODULE MCRounds ------------------------------
(* Three nodes.  Programs of config.py for one or two of everything, and   *)
(* ones of one's own in which tasks that are read stand between and beside *)
(* those that are computed; tables of up to two rows; lists of all trees of*)
(* the nodes and of some of them, two in a group or one group each.        *)
EXTENDS Rounds

Rows == {[up |-> <<8, 3, 20>>, down |-> <<9, 30, 4>>], [up |-> <<7, 0, 6>>, down |-> <<1, 2, 10>>]}
Tables == {<<>>} \cup {<<q>> : q \in Rows} \cup {<<q, r>> : q, r \in Rows}

ByConfig == {[times |-> t, nks |-> nks, algs |-> algs, rid |-> rid, table |-> b, listing |-> <<>>,
              program |-> Configured(t, nks, algs, rid)]
               : t \in 1 .. 2, nks \in {<<<<3, 2>>>>, <<<<2, 1>>, <<3, 2>>>>},
                 algs \in {<<"f">>, <<"f", "p">>}, b \in Tables, rid \in Node}

Computed == {[alg |-> "f", args |-> <<2, 3, 1, 4>>], [alg |-> "j", args |-> <<2, 3, 2, 4>>]}
Read == [alg |-> "t", args |-> <<>>]
Programs == {<<d, Read>> : d \in Computed} \cup {<<Read, d>> : d \in Computed}
            \cup {<<d, Read, e>> : d, e \in Computed}

(* Every node of the tree after the node it sends to, or before it.        *)
Trees == {f \in UNION {[S -> S] : S \in SUBSET Node \ {{}}} :
            /\ \E root \in DOMAIN f : \A n \in DOMAIN f : f[f[n]] = root /\ (f[n] = n => n = root)}
Pairs(f) == LET s == SetToSeq(DOMAIN f) IN [j \in DOMAIN s |-> [node_id |-> s[j], tar_id |-> f[s[j]]]]
TaskOf(f, k) == [task_id |-> k, offset |-> 100 * k, size |-> 50 + k, piece_size |-> 10,
                 bandwidth |-> 5 + k, node_tasks |-> IF k = 1 THEN Pairs(f) ELSE Reverse(Pairs(f))]
Listings == {<<>>} \cup {<<<<TaskOf(f, 1), TaskOf(g, 2)>>>> : f, g \in Trees}
                   \cup {<<<<TaskOf(f, 1)>>, <<TaskOf(g, 2)>>>> : f, g \in Trees}

Some == <<<<TaskOf(CHOOSE f \in Trees : TRUE, 1)>>>>
Own(p, b, l) == [times |-> 0, nks |-> <<>>, algs |-> <<>>, rid |-> 0, program |-> p, table |-> b, listing |-> l]
AllInputs == ByConfig \cup {Own(p, b, Some) : p \in Programs, b \in Tables}
                      \cup {Own(<<Read, Read>>, <<>>, l) : l \in Listings}
=============================================================================
