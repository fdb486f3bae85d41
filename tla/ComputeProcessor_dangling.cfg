CONSTANTS id = 1
          Node = {1, 2, 3}
          Task = {1, 2}
          Thread = {t1, t2}
          Program <- Small
          QueueCap = 1
          NoData = NoData
          NoPiece = NoPiece
SPECIFICATION Spec
INVARIANT GroupAliveAtCheck
CHECK_DEADLOCK FALSE
