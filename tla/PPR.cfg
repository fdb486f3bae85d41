CONSTANTS
  n_ = 10
  k_ = 8
  rid = 2
  Rates <- WeakAndStrong
  min_bw_ = 2
  kFullBandwidth = 9
SPECIFICATION Spec
INVARIANTS  RatesHold
CHECK_DEADLOCK FALSE
