CONSTANTS QueueN = 2
          ThrN = 2
          Pusher = {p1}
          Data = {d1, d2}
          NoData = NoData
SPECIFICATION Spec
INVARIANTS NoPhantomProcess NoLostWakeup
PROPERTIES CloseJoins ImplementsWorkQueue
CHECK_DEADLOCK FALSE
