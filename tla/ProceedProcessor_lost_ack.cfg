CONSTANTS id = 1
          Node = {1, 2}
          Task = {1, 2, 3}
          QueueN = 2
          Pusher = {p1, p2}
          Waves <- Single
          NoData = NoData
          NoQueue = NoQueue
SPECIFICATION Spec
INVARIANT FinishedIsAcked
CHECK_DEADLOCK FALSE
