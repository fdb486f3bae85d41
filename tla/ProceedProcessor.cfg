CONSTANTS id = 1
          Node = {1, 2}
          Task = {1, 2, 3}
          QueueN = 2
          Pusher = {p1, p2}
          Waves <- Sending
          NoData = NoData
          NoQueue = NoQueue
SPECIFICATION Spec
INVARIANTS QueuesPartitioned NoStrayItem AckMeansStored NoInterleavedFrames WrittenBeforeClose
PROPERTY AllProcessed
CHECK_DEADLOCK FALSE
