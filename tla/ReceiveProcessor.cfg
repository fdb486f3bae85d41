CONSTANTS id = 1
          Node = {1, 2, 3}
          Task = {1, 2}
          Thread = {t1, t2}
          Program <- TwoTasks
          NoJob = NoJob
SPECIFICATION Spec
INVARIANTS TypeOK ReaderIffOwed NoTornPiece
PROPERTY AllHandedOver
CHECK_DEADLOCK FALSE
