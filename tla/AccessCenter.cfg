CONSTANTS
  total_ = 4
  Backlog = 2
SPECIFICATION FairSpec
INVARIANTS RightPeer ReturnedComplete
PROPERTIES AllConnect
CHECK_DEADLOCK FALSE
