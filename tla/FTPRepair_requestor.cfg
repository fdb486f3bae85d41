CONSTANTS
  rs_n_ = 4
  rs_k_ = 2
  fail_node = 3
  Rates <- FewRates
  BW_CEILING = 18
  min_bw_ = 7
SPECIFICATION FTPSpec
INVARIANTS TargetsMeetSources
CHECK_DEADLOCK FALSE
