SPECIFICATION LiveSpec
CONSTANTS
  Builds = {"production", "debug", "timing"}
  Payload = 2
  RxDepth = 3
  Requests <- MCRequests
  MaxRequests = 2
INVARIANTS
  CleanRequestIsAnswered
  ResultIsEarned
PROPERTIES
  TransactionEnds
