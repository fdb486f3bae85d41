--------------------------- MODULE BandwidthSolver ---------------------------
(***************************************************************************)
(* A reader of the bandwidth file, and what it makes the network interface *)
(* of a node do (src/src/config/bandwidth_solver.cc).  The file is a       *)
(* sequence of tokens: the numbers of rows and of nodes, then for each row *)
(* the uploads of all nodes and their downloads.  A solver is a record of  *)
(* the members; bwf is what is left of the file.                           *)
(***************************************************************************)
EXTENDS Tokens

CONSTANTS kFullBandwidth, kMinSetBandwidth

ASSUME BandwidthAssumption == /\ kMinSetBandwidth \in Nat /\ kFullBandwidth \in Nat
                              /\ kMinSetBandwidth < kFullBandwidth

NewSolver == [bwf |-> <<>>, bw_num_ |-> 0, node_num_ |-> 0, cur_ |-> 0, bandwidths_ |-> <<>>]

(* Seeded fault: a file that is opened again is read on from the old row. *)
OpenAtRow(s, file) ==
  [s EXCEPT !.bw_num_ = file[1], !.node_num_ = file[2], !.bwf = After(file, 2),
            !.bandwidths_ = [n \in 1 .. file[2] |-> [upload |-> 0, download |-> 0]]]

Open(s, file) ==
  [s EXCEPT !.bw_num_ = file[1], !.node_num_ = file[2], !.bwf = After(file, 2),
            !.bandwidths_ = [n \in 1 .. file[2] |-> [upload |-> 0, download |-> 0]],
            !.cur_ = 0]

(* Seeded fault: the rates are read node by node. *)
LoadPairs(s) ==
  IF s.cur_ + 1 > s.bw_num_ THEN [s EXCEPT !.cur_ = @ + 1]
  ELSE [s EXCEPT !.cur_ = @ + 1, !.bwf = After(@, 2 * s.node_num_),
                 !.bandwidths_ = [n \in 1 .. s.node_num_ |->
                   [upload |-> 1000 * s.bwf[2 * n - 1], download |-> 1000 * s.bwf[2 * n]]]]

(* What LoadNext leaves; it returns false when AtEnd.                      *)
LoadNext(s) ==
  IF s.cur_ + 1 > s.bw_num_ THEN [s EXCEPT !.cur_ = @ + 1]
  ELSE [s EXCEPT !.cur_ = @ + 1, !.bwf = After(@, 2 * s.node_num_),
                 !.bandwidths_ = [n \in 1 .. s.node_num_ |->
                   [upload |-> 1000 * s.bwf[n], download |-> 1000 * s.bwf[s.node_num_ + n]]]]
AtEnd(s) == s.cur_ > s.bw_num_

SetFull(s, id) == [s EXCEPT !.bandwidths_[id] = [upload |-> 0, download |-> kFullBandwidth]]

(* SetBandwidth: what the interface of node id is limited to.              *)
AtLeastMin(rate) == IF rate < kMinSetBandwidth THEN kMinSetBandwidth ELSE rate
LimitOf(s, id, is_full) ==
  IF is_full THEN [upload |-> kFullBandwidth, download |-> kFullBandwidth]
  ELSE [upload   |-> AtLeastMin(s.bandwidths_[id].upload),
        download |-> AtLeastMin(s.bandwidths_[id].download)]
=============================================================================
