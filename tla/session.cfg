SPECIFICATION FairSpec
CONSTANTS
  BufferSize = 2
  MaxProgress = 3
  IdCycle = 4
CHECK_DEADLOCK FALSE
INVARIANTS TypeOK AnswerMatchesRequest CancelReached
PROPERTIES ResultKept CancelledStays SessionEnds ScannerCleansUp
