CONSTANTS N = 3
          Program <- Algorithms
          BwNum = 2
          Queues = 2
          NoTask = NoTask
SPECIFICATION Spec
INVARIANTS InStep RowsAgree   AllStored
  
CHECK_DEADLOCK FALSE
