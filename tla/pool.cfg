\* Two workers and two tasks: nested and concurrent submissions, stealing, round
\* robin that wraps, a wait and the destructor at any moment.
SPECIFICATION FairSpec
CONSTANTS
  NumThreads = 2
  MaxTasks = 2
INVARIANTS
  TypeOK
  TaskPlaces
  ActiveTasksExact
PROPERTIES
  WaitMeansDone
  NotLeftBehind
  SleepersRunTask
  DirectWaitReturns
  ShutdownIfNoneBlocking
