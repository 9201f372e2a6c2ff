CONSTANTS Programs <- MCStuck
          FifoDepth = 4
          NReceivers = 3
          None = None
SPECIFICATION FairSpec
PROPERTY EverythingTaken
