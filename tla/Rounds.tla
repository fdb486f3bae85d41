------------------------------- MODULE Rounds -------------------------------
(***************************************************************************)
(* What is read, round by round, and what is written of it: AlgLoader      *)
(* (src/src/config/alg_loader.cc) in the loops of src/src/master_main.cc,  *)
(* TaskReader or the BandwidthSolver of a RouteCalculator at the master,   *)
(* and the BandwidthSolver of every node, which reads its own copy of the  *)
(* file the master plans with.  The messages between them are those of     *)
(* RepairSystem; here a node acts while the master waits for it.           *)
(*                                                                         *)
(* The files are sequences of tokens, written as scripts/config.py and     *)
(* scripts/generate_bw_file.py write them from an input: times, nks, algs, *)
(* rid and table, or a program of one's own with a listing of tasks.       *)
(***************************************************************************)
EXTENDS BandwidthSolver, TaskReader

CONSTANTS N,      \* total - 1
          min_bw, Inputs

ASSUME NAssumption == N \in Nat \ {0, 1}

Node == 1 .. N
Exited == [upload |-> 0, download |-> 0] \* of a node that has called exit
Unlimited == [upload |-> kFullBandwidth, download |-> kFullBandwidth]

VARIABLES input,
          pc,
          af, alg_num_, cur_num_, alg_, args_, \* AlgLoader
          reader, solver, rid_,                \* the TaskGetterInterface
          bs_, limits,                         \* of each node
          told,                                \* nodes that have answered
          result_file                          \* a line for each round

algVars == <<af, alg_num_, cur_num_, alg_, args_>>
getterVars == <<reader, solver, rid_>>
nodeVars == <<bs_, limits, told>>
vars == <<input, pc, algVars, getterVars, nodeVars, result_file>>

-----------------------------------------------------------------------------
(* The program config.py writes, and the three files.                      *)
Configured(times, nks, algs, rid) ==
  FlattenSeq(FlattenSeq([t \in 1 .. times |-> [i \in DOMAIN nks |-> [j \in DOMAIN algs |->
    [alg |-> algs[j], args |-> <<nks[i][2], nks[i][1], rid, min_bw>>]]]]))

AlgTokens(e) == <<e.alg, Len(e.args)>> \o e.args
AlgFile == <<Len(input.program)>> \o Flat(input.program, AlgTokens)

RowTokens(row) == row.up \o row.down
BandwidthFile == <<Len(input.table), N>> \o Flat(input.table, RowTokens)

PairTokens(nt) == <<nt.node_id, nt.tar_id>>
TaskTokens(t) == <<t.task_id, t.offset, t.size, t.piece_size, t.bandwidth, Len(t.node_tasks)>>
                 \o Flat(t.node_tasks, PairTokens)
GroupTokens(g) == <<Len(g)>> \o Flat(g, TaskTokens)
TaskFile == <<Len(input.listing)>> \o Flat(input.listing, GroupTokens)

-----------------------------------------------------------------------------
(* AlgLoader::Open.                                                        *)
Init == /\ input \in Inputs
        /\ pc = "algorithm"
        /\ alg_num_ = AlgFile[1] /\ af = After(AlgFile, 1) /\ cur_num_ = 0
        /\ alg_ = "none" /\ args_ = <<>>
        /\ reader = NewReader /\ solver = NewSolver /\ rid_ = 0
        /\ bs_ = [n \in Node |-> NewSolver]
        /\ limits = [n \in Node |-> Unlimited]
        /\ told = {} /\ result_file = <<>>

(* AlgLoader::LoadNext; args_ of an algorithm without any stay allocated.  *)
LoadAlg ==
  /\ pc = "algorithm"
  /\ cur_num_' = cur_num_ + 1
  /\ IF cur_num_ + 1 > alg_num_
     THEN pc' = "close" /\ UNCHANGED <<af, alg_, args_>>
     ELSE /\ alg_' = af[1]
          /\ args_' = IF af[2] > 0 THEN SubSeq(af, 3, 2 + af[2]) ELSE args_
          /\ af' = After(af, 2 + af[2])
          /\ pc' = "change"
  /\ UNCHANGED <<input, alg_num_, getterVars, nodeVars, result_file>>

(* The getter of the algorithm before is gone, with its file.              *)
ChangeAlg ==
  /\ pc = "change"
  /\ IF alg_ = "t"
     THEN reader' = OpenTasks(TaskFile) /\ solver' = NewSolver /\ rid_' = 0
     ELSE reader' = NewReader /\ solver' = Open(NewSolver, BandwidthFile) /\ rid_' = args_[3]
  /\ told' = {}
  /\ pc' = "reload"
  /\ UNCHANGED <<input, algVars, bs_, limits, result_file>>

(* Repairer::GetTaks, offset > 0.                                          *)
Reload(n) ==
  /\ pc = "reload" /\ n \notin told
  /\ bs_' = [bs_ EXCEPT ![n] = Open(@, BandwidthFile)]
  /\ told' = told \cup {n}
  /\ UNCHANGED <<input, pc, algVars, getterVars, limits, result_file>>
Reloaded == /\ pc = "reload" /\ told = Node /\ pc' = "route"
            /\ UNCHANGED <<input, algVars, getterVars, nodeVars, result_file>>

(* GetTasks: TaskReader's, or RouteCalculator's up to CalculateRoute.      *)
GetTasks ==
  /\ pc = "route"
  /\ IF alg_ = "t"
     THEN LET r == NextGroup(reader) IN
          /\ reader' = r
          /\ pc' = IF NoGroup(r) THEN "algorithm" ELSE "groups"
          /\ UNCHANGED solver
     ELSE LET s == LoadNext(solver) IN
          /\ solver' = IF AtEnd(s) THEN s ELSE SetFull(s, rid_)
          /\ pc' = IF AtEnd(s) THEN "algorithm" ELSE "set"
          /\ UNCHANGED reader
  /\ told' = {}
  /\ UNCHANGED <<input, algVars, rid_, bs_, limits, result_file>>

(* What SetNewNodeBandwidth sends to n, and Repairer::GetTaks, offset = 0. *)
is_full(n) == n = rid_
SetRow(n) == LET s == LoadNext(bs_[n]) IN
  /\ pc = "set" /\ n \notin told
  /\ bs_' = [bs_ EXCEPT ![n] = s]
  /\ limits' = [limits EXCEPT ![n] = IF AtEnd(s) THEN Exited ELSE LimitOf(s, n, is_full(n))]
  /\ told' = told \cup {n}
  /\ UNCHANGED <<input, pc, algVars, getterVars, result_file>>
RowSet == /\ pc = "set" /\ told = Node /\ pc' = "groups"
          /\ UNCHANGED <<input, algVars, getterVars, nodeVars, result_file>>

(* DoTaskGroups is RepairSystem's part.  The numbers main writes of it are *)
(* given by what they are computed from.                                   *)
Line == IF alg_ = "t" THEN [alg |-> alg_, capacity |-> reader.capacity_, tasks |-> reader.task_infos_]
        ELSE [alg |-> alg_, args |-> args_, rates |-> solver.bandwidths_]
DoTaskGroups == /\ pc = "groups" /\ pc' = "route"
                /\ result_file' = Append(result_file, Line)
                /\ UNCHANGED <<input, algVars, getterVars, nodeVars>>

Next == \/ LoadAlg \/ ChangeAlg \/ Reloaded \/ GetTasks \/ RowSet \/ DoTaskGroups
        \/ \E n \in Node : Reload(n) \/ SetRow(n)
Spec == Init /\ [][Next]_vars

-----------------------------------------------------------------------------
(* Reference: the lines of an entry of the program.                        *)
Planned(e, row) ==
  [alg |-> e.alg, args |-> e.args,
   rates |-> [n \in Node |->
     IF n = e.args[3] THEN [upload |-> 0, download |-> kFullBandwidth]
     ELSE [upload |-> 1000 * row.up[n], download |-> 1000 * row.down[n]]]]
Listed(g) == [alg |-> "t", tasks |-> g,
              capacity |-> FoldLeft(LAMBDA c, t : c + t.bandwidth, 0, g)]
LinesOf(e) == IF e.alg = "t" THEN [r \in DOMAIN input.listing |-> Listed(input.listing[r])]
              ELSE [r \in DOMAIN input.table |-> Planned(e, input.table[r])]
Expected == Flat(input.program, LinesOf)

(* README:118: "The construction of the lines would be (times, nks,        *)
(* algorithms, bandwidths)", and output_data.py takes a line for that of   *)
(* its place.  Entries of several lengths are read to their ends, no number*)
(* is taken for that of another list, and neither the rows of an algorithm *)
(* nor the requestor's full bandwidth last into the next.                  *)
ResultsReadBack ==
  /\ IsPrefix(result_file, Expected)
  /\ pc = "close" => Len(result_file) = Len(Expected)
  /\ pc = "close" =>
       \A t \in 1 .. input.times, i \in DOMAIN input.nks, j \in DOMAIN input.algs,
          r \in DOMAIN input.table :
         LET at == (((t - 1) * Len(input.nks) + i - 1) * Len(input.algs) + j - 1)
                   * Len(input.table) + r
         IN result_file[at] = Planned([alg |-> input.algs[j],
              args |-> <<input.nks[i][2], input.nks[i][1], input.rid, min_bw>>], input.table[r])

(* When the tasks of a round are delivered every node is limited to what   *)
(* the route was computed for, or to the least that can be set; only the   *)
(* requestor has more.  Each node reads the file on its own.               *)
LimitsFollowPlan == pc = "groups" /\ alg_ # "t" => \A n \in Node :
  IF n = rid_ THEN limits[n] = Unlimited
  ELSE /\ limits[n].upload = AtLeastMin(solver.bandwidths_[n].upload)
       /\ limits[n].download = AtLeastMin(solver.bandwidths_[n].download)

(* The parts of a listed task fit together: a node waits for the sums of   *)
(* just the nodes that are told to send it theirs, for each once, although *)
(* each node's part is read out of the list on its own, targets from one   *)
(* column and sources from the other; and they fit the total - 2 entries   *)
(* of src_lists_, also of a node that has no part.                         *)
PartsMeet == pc = "groups" /\ alg_ = "t" => \A t \in ToSet(reader.task_infos_), n \in Node :
  /\ Len(src_ids(t, n)) <= N - 1
  /\ IsInjective(src_ids(t, n))
  /\ ToSet(src_ids(t, n)) =
       {m \in Node \ {n} : FillTask(t, m).size > 0 /\ FillTask(t, m).tar_id = n}
=============================================================================
