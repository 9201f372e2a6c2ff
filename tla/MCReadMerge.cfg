CONSTANTS NReceivers = 2
          Programs <- MCPrograms
          Lines = {"a", "b"}
          MaxReads = 2
          MetaDepth = 3
          None = None
SPECIFICATION FairSpec
INVARIANTS TypeOK EntryForEveryRead
PROPERTIES AnswersEachLoadOnce EveryLoadAnswered
