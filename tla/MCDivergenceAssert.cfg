CONSTANTS Threads = {t1, t2, t3, t4, t5, t6, t7, t8}
          NRecords = 4
          PCStackSize = 8
          Code <- MCCode
          MaxCalls = 0
          Done = Done
SPECIFICATION Spec
INVARIANT RecordsSuffice
