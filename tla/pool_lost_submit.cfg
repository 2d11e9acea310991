SPECIFICATION FairSpec
CONSTANTS
  NumThreads = 1
  MaxTasks = 1
PROPERTY SubmittedRuns
