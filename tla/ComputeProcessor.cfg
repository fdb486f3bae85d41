CONSTANTS id = 1
          Node = {1, 2, 3}
          Task = {1, 2}
          Thread = {t1, t2}
          Program <- Mixed
          QueueCap = 1
          NoData = NoData
          NoPiece = NoPiece
SPECIFICATION Spec
INVARIANTS  ReleasedOnce PointersAlive ForwardGroupsReclaimed
PROPERTY AllReleased
CHECK_DEADLOCK FALSE
