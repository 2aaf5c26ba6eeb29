SPECIFICATION Spec
CONSTANTS
  Capacity = 1
  Plans <- AbandonPlans
INVARIANT BorrowedWriterIsReturned
CHECK_DEADLOCK FALSE
