CONSTANTS Threads = {t1, t2, t3, t4}
          NRecords = 4
          PCStackSize = 6
          Code <- MCCode
          MaxCalls = 2
          Done = Done
SYMMETRY Alike
SPECIFICATION Spec
INVARIANTS TypeOK NoWorkItemOnTwoPaths StacksInStep RecordsSuffice PCStackSuffices
PROPERTY RunsEveryWorkItem
