CONSTANTS
  None = None
  Lower <- LowerAB
  Payloads <- BoundedPayloads
  ContentLists <- BoundedLists
SPECIFICATION FairSpec
INVARIANTS TypeOK FirstChainFound FailedIsHopeless ExploredOnce
PROPERTIES Terminates
CHECK_DEADLOCK FALSE
