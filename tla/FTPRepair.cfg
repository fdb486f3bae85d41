CONSTANTS
  rs_n_ = 5
  rs_k_ = 3
  fail_node = 1
  Rates <- WeakAndStrong
  BW_CEILING = 60
  min_bw_ = 13
SPECIFICATION FTPSpec
INVARIANTS Sound Optimal EnoughStrong PipelineBest LimitBestGivenBounds TargetsMeetSources
CHECK_DEADLOCK FALSE
