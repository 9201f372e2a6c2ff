SPECIFICATION FairSpec
CONSTANTS
  NTags = 4
  MaxOutstanding = 4
  Lines = {a, b}
  None = None
INVARIANTS TypeOK ReadsOnlyAnswered
PROPERTIES DeliversInOrder EveryRequestServed
