SPECIFICATION Spec
CONSTANTS
  NumThreads = 2
  MaxTasks = 1
INVARIANT FreedAfterThreads
